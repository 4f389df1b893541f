----------------------------- MODULE MCTunRelay -----------------------------
(* Small instances of TunRelay.                                            *)
EXTENDS TunRelay

\* A well-behaved server: the shortest packet is a bare header, the longest
\* fills a read.
FittingLengths == {2, 3, 4}

\* A server that also sends packets longer than BUF_SIZE: the bytes after one
\* are parsed at an arbitrary place.
AnyLengths == {2, 4, 6}
AnyJunk == 0..6
=============================================================================
