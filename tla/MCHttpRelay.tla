---------------------------- MODULE MCHttpRelay -----------------------------
(* Small instances of HttpRelay.                                           *)
EXTENDS HttpRelay

\* The leftovers of the lengths of another message, and no length at all.
Leftovers == {0, 1, 3, 5}

\* And anything else the stack holds.
AnyGarbage == Leftovers \cup {-2}
=============================================================================
