---------------------------- MODULE MCEventLoop -----------------------------
(* Small instances of EventLoop: its constants are numbers and need no      *)
(* definition.                                                             *)
EXTENDS EventLoop
=============================================================================
