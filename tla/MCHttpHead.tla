----------------------------- MODULE MCHttpHead ------------------------------
(* HttpHead with the longest strings of the source.  *)
EXTENDS HttpHead

AnyGarbage == {-40, 0, 30}

MCMimes == {[subtype |-> "form-data", size |-> 19]}
=============================================================================
