----------------------------- MODULE MCAccount ------------------------------
(* Small instances of Account, and of the loop under it: their constants   *)
(* are numbers and need no definition.                                     *)
EXTENDS Account
=============================================================================
