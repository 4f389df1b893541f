---------------------------- MODULE Application -----------------------------
(***************************************************************************)
(* The process the client runs in: it is interrupted by SIGINT, for which  *)
(* init installs quit_signal_handler, or dies in some other way, and is    *)
(* started again.  What is in memory is then lost and the kernel closes    *)
(* the descriptors; the routes, the DNS servers and the file in /tmp stay. *)
(***************************************************************************)
EXTENDS VpnClient

CONSTANTS DnsServers,   \* addresses of DNS servers
          OwnServers,   \* those the user has configured, in order
          DnsLines,     \* the lines of networksetup's answer that set_dns has room for
          DnsReadable   \* whether networksetup's answers can always be read

ASSUME DnsAssumption ==
  /\ "8.8.8.8" \in DnsServers /\ OwnServers \in Seq(DnsServers)
  /\ DnsLines \in Nat \ {0} /\ DnsReadable \in BOOLEAN

VARIABLES
  process,   \* "up"; in the handler "delete", "add" or "exit"; "ended"
  raced,     \* whether a call has changed the default route or the gateway during
             \* the handler
  stranded,  \* host routes earlier processes left when they ended
  dns        \* the DNS servers of the first network service, in order

processVars == <<process, raced, stranded, dns>>
appVars == <<vars, processVars>>

Handling == {"delete", "add", "exit"}

AppTypeOK == /\ TypeOK
             /\ process \in {"up", "ended"} \cup Handling
             /\ raced \in BOOLEAN
             /\ stranded \subseteq Servers
             /\ dns \in Seq(DnsServers)

AppInit == /\ Init
           /\ process = "up"
           /\ raced = FALSE
           /\ stranded = {}
           /\ dns = OwnServers

-----------------------------------------------------------------------------
(* The process runs.  The handler runs on the main thread; the other        *)
(* threads go on beside it.                                                *)

OnMain(A) == /\ process = "up"
             /\ A
             /\ UNCHANGED processVars

OnThread(A) == /\ process # "ended"
               /\ A
               /\ raced' = \/ raced
                           \/ process # "up" /\ <<defaultRoute, gateway>>' # <<defaultRoute, gateway>>
               /\ UNCHANGED <<process, stranded>>

\* What popen_fill reads of the servers: whole lines, until one does not fit.
DnsSeen == IF Len(dns) <= DnsLines THEN dns ELSE SubSeq(dns, 1, DnsLines)

\* Fault: the server is put in front although it is there.
DnsAdded == <<"8.8.8.8">> \o DnsSeen

\* What set_dns makes of the answer.  No server at all, which networksetup says with
\* the word "any", is the empty list.
DnsSet == IF \E i \in 1..Len(DnsSeen) : DnsSeen[i] = "8.8.8.8" THEN dns
                                                             ELSE <<"8.8.8.8">> \o DnsSeen

\* set_dns.  It changes nothing if the machine has no network service, or none whose
\* name is one word; an answer it cannot read counts as empty.
SetsDns == \/ dns' \in {dns, DnsSet}
           \/ ~DnsReadable /\ dns' = <<"8.8.8.8">>

\* It is called before status 0 is posted.  Its reading and its writing are one step:
\* between them only the set_dns of another session can run, which writes the same.
CallsSetDns(s) == IF pc[s] = "announce" THEN SetsDns ELSE UNCHANGED dns

Runs == \/ OnMain(User \/ QuitDone \/ HandlePosted)
        \/ \E s \in Sessions :
             \/ OnThread(BlockRuns(s)) /\ CallsSetDns(s)
             \/ OnThread(BlockBegins(s) \/ BlockEnds(s)) /\ UNCHANGED dns
        \/ \E l \in Logins : OnThread(LoginBegins(l) \/ LoginRuns(l)) /\ UNCHANGED dns

-----------------------------------------------------------------------------
(* quit_signal_handler.                                                    *)

\* Before init has installed the handler SIGINT ends the process at once: Die.
Interrupt == /\ process = "up" /\ firstOpen
             /\ process' = IF gateway = "known" THEN "delete" ELSE "exit"
             /\ UNCHANGED <<vars, raced, stranded, dns>>

\* Fault: the gateway is added beside the default route there is.
HandlerKeepsRoute == /\ process = "delete"
                     /\ process' = "add"
                     /\ UNCHANGED <<vars, raced, stranded, dns>>

HandlerDeletes == /\ process = "delete"
                  /\ process' = "add"
                  /\ defaultRoute' = None
                  /\ UNCHANGED <<pc, gIsRun, config, link, fds, hostRoutes, posted>>
                  /\ UNCHANGED <<uiVars, raced, stranded, dns>>

HandlerAdds == /\ process = "add"
               /\ process' = "exit"
               /\ defaultRoute' = GatewayAdded
               /\ UNCHANGED <<pc, gIsRun, config, link, fds, hostRoutes, posted>>
               /\ UNCHANGED <<uiVars, raced, stranded, dns>>

-----------------------------------------------------------------------------
(* The end of the process and its next start.                              *)

\* The memory of a process that has just started.
Forgotten == /\ pc' = [c \in Calls |-> "idle"]
             /\ gIsRun' = FALSE /\ firstOpen' = FALSE
             /\ gateway' = "unread" /\ forgot' = FALSE
             /\ protocol' = "ssl" /\ target' = None
             /\ clientSock' = None /\ serverFd' = None /\ tunDev' = None
             /\ posted' = <<>> /\ queued' = {} /\ isRun' = 0
             /\ button' = "off" /\ text' = "VPN Off" /\ window' = "open"

\* A kill, the menu's quit, an exception nothing catches (std::stoi of an answer,
\* a string of -1 bytes), or exit(0) at the end of the handler.  A utun is closed
\* and takes a default route through it along.
Die == /\ process # "ended"
       /\ process' = "ended"
       /\ Forgotten
       /\ fds' = {}
       /\ defaultRoute' = IF defaultRoute \in Descriptors THEN None ELSE defaultRoute
       /\ stranded' = hostRoutes
       /\ UNCHANGED <<gatewayFile, hostRoutes, raced, dns>>

Relaunch == /\ process = "ended"
            /\ process' = "up"
            /\ raced' = FALSE
            /\ UNCHANGED <<vars, stranded, dns>>

-----------------------------------------------------------------------------
AppNext == Runs \/ Interrupt \/ HandlerDeletes \/ HandlerAdds \/ Die \/ Relaunch

AppSpec == AppInit /\ [][AppNext]_appVars

\* VpnClient's fairness, as long as there is a process.
AppFairness ==
  /\ WF_appVars(OnMain(HandlePosted))
  /\ WF_appVars(OnMain(QuitDone))
  /\ \A s \in Sessions :
       /\ WF_appVars(OnThread(BlockBegins(s)) /\ UNCHANGED dns)
       /\ WF_appVars(OnThread(BlockEnds(s)) /\ UNCHANGED dns)
       /\ WF_appVars(OnThread(SettingUp(s) /\ UNCHANGED uiVars) /\ CallsSetDns(s))
       /\ WF_appVars(OnThread(LoopHead(s) /\ UNCHANGED uiVars) /\ UNCHANGED dns)
       /\ WF_appVars(OnThread(CleaningUp(s) /\ UNCHANGED uiVars) /\ UNCHANGED dns)
  /\ WF_appVars(HandlerDeletes \/ HandlerAdds)
  /\ WF_appVars(process = "exit" /\ Die)

AppFairSpec == AppSpec /\ AppFairness

-----------------------------------------------------------------------------
(* Whatever the process dies of, and however often it starts again.        *)

\* A process that has a gateway to go back to, and has never lost it to a second
\* init, is on it whenever none of its sessions holds the default route.  One that
\* starts after a death has taken the route along reads no gateway and leaves the
\* routes alone.
RouteOrNoGateway ==
  process = "up" /\ Routing = {} /\ gateway = "known" /\ ~forgot => defaultRoute = Gateway

\* SIGINT puts the machine back on its gateway before the process goes, from
\* whatever point a session has reached, if no thread changes the route or loads the
\* gateway while the handler runs.
InterruptRestoresRoute ==
  process = "exit" /\ gateway = "known" /\ ~raced => defaultRoute = Gateway

\* With one session at a time only two things leave a host route behind, whichever way
\* the session ends: a death of the process, and an init that has put nothing in
\* place of the gateway, without which the route is not deleted.
HostRoutesRemoved == process = "up" /\ Settled /\ ~forgot => hostRoutes \subseteq stranded

\* However many sessions and processes have run, and whatever ended them, the user's
\* own DNS servers are all there, in their order, with ours at most once in front,
\* if set_dns can read them and has room for them.
OwnServersKept ==
  DnsReadable /\ Len(OwnServers) <= DnsLines =>
    dns \in {OwnServers, <<"8.8.8.8">> \o OwnServers}

\* A stop that meets the running loop takes the VPN down and the window shows it,
\* whether the session sees the stop or the process ends first, unless a read or a
\* write of the round it meets blocks for ever.
StopEndsRunning ==
  \A s \in Sessions :
    \/ <>[](pc[s] = "carry")
    \/ pc[s] \in {"run", "carry"} /\ ~gIsRun ~> pc[s] \in {"idle", "done"} /\ text = "VPN Off"

\* The window, the blocks and the handler's threads use the service as
\* NetworkService allows.
ProcessUsesService == NetInit /\ [][UNCHANGED process => NetNext]_netVars
=============================================================================
