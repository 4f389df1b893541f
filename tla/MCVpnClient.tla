---------------------------- MODULE MCVpnClient -----------------------------
(* Small instances of VpnClient.                                           *)
EXTENDS VpnClient, TLC

\* The sessions are alike; sound where no liveness is checked.
Interchangeable == Permutations(Sessions)
=============================================================================
