--------------------------- MODULE MCApplication ----------------------------
(* Small instances of Application.                                         *)
EXTENDS Application

Addresses == {"8.8.8.8", "192.168.1.1", "1.1.1.1"}

\* The user has configured two DNS servers.
UserServers == <<"192.168.1.1", "1.1.1.1">>
=============================================================================
