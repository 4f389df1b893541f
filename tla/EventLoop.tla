----------------------------- MODULE EventLoop ------------------------------
(***************************************************************************)
(* The loop of tun_and_socket in network_service.cpp for one session: a    *)
(* select of at most two seconds over the utun device and the server's     *)
(* socket, one read from each that is ready, the 60 second timeout and the *)
(* traffic callback.  What the reads carry is the subject of TunRelay and  *)
(* HttpRelay; here a read only succeeds, fails, or is passed over with a   *)
(* continue, which skips the rest of the round.                            *)
(*                                                                         *)
(* Time is kept as ages in seconds, each up to the first value the code    *)
(* tells apart from the greater ones, so no run needs a bound on it.       *)
(***************************************************************************)
EXTENDS Naturals

CONSTANTS SelectWait,   \* tv_select: 2 seconds
          Limit         \* 60 seconds without sending or receiving

ASSUME TimesAssumption == SelectWait \in Nat \ {0} /\ Limit \in Nat

VARIABLES
  pc,           \* "head", "select", "tun", "socket", "check"; "ended", "crashed"
  protocol,     \* g_protocol; start_vpn refuses any other
  isRun,        \* g_isRun
  ready,        \* the descriptors select found ready: fdsr
  waited,       \* age of the select call
  sinceRecv,    \* age of recvTime
  sinceSend,    \* age of sendTime
  sinceReport,  \* age of lastTime
  sinceStop     \* age of the first stop_vpn, 0 before it

ages == <<sinceRecv, sinceSend, sinceReport, sinceStop>>
vars == <<pc, protocol, isRun, ready, waited, ages>>

Over == {"ended", "crashed"}

TypeOK == /\ pc \in {"head", "select", "tun", "socket", "check"} \cup Over
          /\ protocol \in {"ssl", "http"}
          /\ isRun \in {0, 1}
          /\ ready \subseteq {"tun", "socket"}
          /\ waited \in 0..SelectWait
          /\ sinceRecv \in 0..(Limit + 1)
          /\ sinceSend \in 0..(Limit + 1)
          /\ sinceReport \in 0..1
          /\ sinceStop \in 0..(SelectWait + 1)

Init == /\ pc = "head"
        /\ protocol \in {"ssl", "http"}
        /\ isRun = 1
        /\ ready = {}
        /\ waited = 0
        /\ sinceRecv = 0
        /\ sinceSend = 0
        /\ sinceReport = 0
        /\ sinceStop = 0

Goes(a, b) == pc = a /\ pc' = b

-----------------------------------------------------------------------------
(* Around the loop.                                                        *)

Older(age, max) == IF age < max THEN age + 1 ELSE max

AgesGrow == /\ sinceRecv' = Older(sinceRecv, Limit + 1)
            /\ sinceSend' = Older(sinceSend, Limit + 1)
            /\ sinceReport' = Older(sinceReport, 1)
            /\ sinceStop' = IF isRun = 1 THEN 0 ELSE Older(sinceStop, SelectWait + 1)

\* Fault: select is called without a timeout.
TickForever == /\ pc \notin Over
               /\ waited' = IF pc = "select" THEN waited + 1 ELSE waited
               /\ AgesGrow
               /\ UNCHANGED <<pc, protocol, isRun, ready>>

\* A second passes, in select or while a read or a write blocks.
Tick == /\ pc \notin Over
        /\ IF pc = "select" THEN waited < SelectWait /\ waited' = waited + 1
                            ELSE UNCHANGED waited
        /\ AgesGrow
        /\ UNCHANGED <<pc, protocol, isRun, ready>>

\* stop_vpn on another thread.
Stop == /\ isRun = 1
        /\ isRun' = 0
        /\ UNCHANGED <<pc, protocol, ready, waited, ages>>

-----------------------------------------------------------------------------
(* One round of the loop.                                                  *)

Head == /\ Goes("head", IF isRun = 1 THEN "select" ELSE "ended")
        /\ waited' = 0
        /\ ready' = {}
        /\ UNCHANGED <<protocol, isRun, ages>>

SelectFails == /\ Goes("select", "ended")
               /\ UNCHANGED <<protocol, isRun, ready, waited, ages>>

\* Fault: after a timeout select is called again at once.
SelectAgain == /\ Goes("select", "select")
               /\ waited = SelectWait
               /\ waited' = 0
               /\ UNCHANGED <<protocol, isRun, ready, ages>>

\* Nothing came: the rest of the round, with its timeout check, is skipped.
SelectTimeout == /\ Goes("select", "head")
                 /\ waited = SelectWait
                 /\ UNCHANGED <<protocol, isRun, ready, waited, ages>>

SelectReady(descriptors) ==
  /\ Goes("select", IF "tun" \in descriptors THEN "tun" ELSE "socket")
  /\ ready' = descriptors
  /\ UNCHANGED <<protocol, isRun, waited, ages>>

AfterTun == IF "socket" \in ready THEN "socket" ELSE "check"

\* A packet with our source address goes to the server.
SendOwn == /\ Goes("tun", AfterTun)
           /\ sinceSend' = 0
           /\ UNCHANGED <<protocol, isRun, ready, waited, sinceRecv, sinceReport, sinceStop>>

\* A packet with another source address: the round ends, the socket is not read.
SkipForeign == /\ Goes("tun", "head")
               /\ UNCHANGED <<protocol, isRun, ready, waited, ages>>

\* The read returns -1: compared with an unsigned size it is not short, and no
\* branch is for it.
TunReadFails == /\ Goes("tun", AfterTun)
                /\ UNCHANGED <<protocol, isRun, ready, waited, ages>>

\* Less than an IP header was read, or ssl_write failed.  http_write hides its
\* failures.
TunBreaks == /\ Goes("tun", "ended")
             /\ UNCHANGED <<protocol, isRun, ready, waited, ages>>

\* Bytes from the server are handed to write_tun or write_tun_http.
ReceiveData == /\ Goes("socket", "check")
               /\ sinceRecv' = 0
               /\ UNCHANGED <<protocol, isRun, ready, waited, sinceSend, sinceReport, sinceStop>>

\* An HTTP read of zero bytes, which is what a closed connection gives.
\* ssl_read reports a closed connection as an error.
ReceiveNothing == /\ protocol = "http"
                  /\ Goes("socket", "head")
                  /\ UNCHANGED <<protocol, isRun, ready, waited, ages>>

\* ssl_read, write_tun or write_tun_http fails.
SocketBreaks == /\ Goes("socket", "ended")
                /\ UNCHANGED <<protocol, isRun, ready, waited, ages>>

\* An HTTP read of -1 bytes: a length no string can have, and nothing catches it.
ReadCrashes == /\ protocol = "http"
               /\ Goes("socket", "crashed")
               /\ UNCHANGED <<protocol, isRun, ready, waited, ages>>

\* Fault: the session is quiet only when both directions are.
QuietBoth == sinceRecv > Limit /\ sinceSend > Limit

Quiet == sinceRecv > Limit \/ sinceSend > Limit

TimesOut == /\ Goes("check", "ended")
            /\ Quiet
            /\ UNCHANGED <<protocol, isRun, ready, waited, ages>>

\* The traffic callback, when a second has passed since the last one.
Report == /\ Goes("check", "head")
          /\ ~Quiet
          /\ sinceReport = 1
          /\ sinceReport' = 0
          /\ UNCHANGED <<protocol, isRun, ready, waited, sinceRecv, sinceSend, sinceStop>>

NextRound == /\ Goes("check", "head")
             /\ ~Quiet
             /\ sinceReport = 0
             /\ UNCHANGED <<protocol, isRun, ready, waited, ages>>

-----------------------------------------------------------------------------
Tun == SendOwn \/ SkipForeign \/ TunReadFails \/ TunBreaks

Socket == ReceiveData \/ ReceiveNothing \/ SocketBreaks \/ ReadCrashes

Check == TimesOut \/ Report \/ NextRound

Next == \/ Tick
        \/ Stop
        \/ Head
        \/ SelectFails \/ SelectTimeout
        \/ \E d \in SUBSET {"tun", "socket"} \ {{}} : SelectReady(d)
        \/ Tun
        \/ Socket
        \/ Check

Spec == Init /\ [][Next]_vars

\* The thread runs and time passes.  Nothing is assumed of the reads and writes
\* (a read of the server's blocking socket waits for a whole TLS record), nor
\* of what arrives.
Fairness == WF_vars(Tick) /\ WF_vars(Head) /\ WF_vars(SelectTimeout) /\ WF_vars(Check)

FairSpec == Spec /\ Fairness

-----------------------------------------------------------------------------
(* Properties.                                                             *)

\* The loop never waits longer than one select after stop_vpn: whatever
\* continue leads back to select passes the test of g_isRun.
StopSeen == pc = "select" /\ isRun = 0 => sinceStop <= SelectWait

\* A stop ends the session, unless a read or a write blocks for ever.
StopEnds == <>(isRun = 0) => <>(pc \in Over) \/ <>[](pc \in {"tun", "socket"})

\* A TLS session in which the device keeps sending is one in which the server
\* keeps answering: a server that has gone silent is noticed by the timeout,
\* although continue can skip it in any single round.
DeadPeerNoticed == /\ protocol = "ssl"
                   /\ []<><<SendOwn>>_vars
                   => []<><<ReceiveData>>_vars

\* "send or recv timeout": a loop that goes on is not silent in both directions
\* for longer than the limit.
SilenceEnds == []<>(pc = "head") => []<>(sinceRecv <= Limit \/ sinceSend <= Limit)
=============================================================================
