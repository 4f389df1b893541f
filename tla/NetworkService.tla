--------------------------- MODULE NetworkService ---------------------------
(***************************************************************************)
(* network_service.cpp as the threads that run it see it: start_vpn is     *)
(* called on a background thread per session, login on one per login and   *)
(* stop_vpn on the main thread, and all work on the file's global          *)
(* variables without a lock.  What the packet loop carries is the subject  *)
(* of TunRelay and EventLoop; here the loop only runs, reports traffic and *)
(* ends.                                                                   *)
(***************************************************************************)
EXTENDS Naturals, Sequences

CONSTANTS Sessions,   \* the calls of start_vpn, each made once
          Logins,     \* the calls of login
          Servers,    \* the VPN servers the web service may name
          MaxPosted   \* bound on the callbacks waiting for the main thread

ASSUME CallsAssumption == Sessions \cap Logins = {}

None == <<>>                 \* no descriptor, no route
Gateway == <<"gateway">>     \* the route to the gateway of the local network

VARIABLES
  pc,            \* where in start_vpn or login each call is
  gIsRun,        \* g_isRun
  firstOpen,     \* firstOpen: init has begun
  gatewayFile,   \* /tmp/default_gateway.txt: "empty" or "known"
  gateway,       \* global_default_gateway_ip: "unread", "empty" or "known"
  forgot,        \* history: an init has put nothing in place of a known gateway
  protocol,      \* g_protocol
  target,        \* target_test_ip
  clientSock,    \* client_sock, the descriptor it names
  serverFd,      \* server_fd.fd of the TLS context
  tunDev,        \* g_fd_tun_dev
  fds,           \* the descriptors that are open: <<session, role>>
  defaultRoute,  \* the kernel's default route: Gateway, None or a utun
  hostRoutes,    \* servers with a host route to the gateway
  posted         \* callbacks dispatched to the main queue, oldest first

config == <<firstOpen, gatewayFile, gateway, forgot>>
link == <<protocol, target, clientSock, serverFd, tunDev>>
routes == <<defaultRoute, hostRoutes>>
netVars == <<pc, gIsRun, config, link, fds, routes, posted>>

Roles == {"web", "spare", "server", "tun"}
Calls == Sessions \cup Logins
Descriptors == Calls \X Roles
Phases == {"idle", "open", "init", "write", "load", "fetch", "answer", "connect",
           "handshake", "address", "tun", "gateway", "hostroute", "default", "change",
           "fallback", "announce", "enter", "run", "carry", "close", "untun", "unflag",
           "unhost", "undefault", "regateway", "over", "done"}
Callbacks == {"started", "stopped", "traffic", "overquota"}

NetTypeOK == /\ pc \in [Calls -> Phases]
             /\ gIsRun \in BOOLEAN
             /\ firstOpen \in BOOLEAN
             /\ gatewayFile \in {"empty", "known"}
             /\ gateway \in {"unread", "empty", "known"}
             /\ forgot \in BOOLEAN
             /\ protocol \in {"ssl", "http", "other"}
             /\ target \in Servers \cup {None}
             /\ {clientSock, serverFd, tunDev} \subseteq Descriptors \cup {None}
             /\ fds \subseteq Descriptors
             /\ defaultRoute \in Descriptors \cup {Gateway, None}
             /\ hostRoutes \subseteq Servers
             /\ posted \in Seq(Callbacks)

NetInit == /\ pc = [c \in Calls |-> "idle"]
           /\ gIsRun = FALSE
           /\ firstOpen = FALSE
           /\ gatewayFile = "empty"
           /\ gateway = "unread"
           /\ forgot = FALSE
           /\ protocol = "ssl"
           /\ target = None
           /\ clientSock = None
           /\ serverFd = None
           /\ tunDev = None
           /\ fds = {}
           /\ defaultRoute = Gateway
           /\ hostRoutes = {}
           /\ posted = <<>>

\* Call c moves on from phase a to phase b.
Goes(c, a, b) == pc[c] = a /\ pc' = [pc EXCEPT ![c] = b]

Post(m) == posted' = Append(posted, m)

-----------------------------------------------------------------------------
(* The calls from the application.                                         *)

\* start_vpn or login is called.
Begin(c) == /\ Goes(c, "idle", "open")
            /\ UNCHANGED <<gIsRun, config, link, fds, routes, posted>>

StopVpn == /\ gIsRun' = FALSE
           /\ UNCHANGED <<pc, config, link, fds, routes>>

-----------------------------------------------------------------------------
(* What start_vpn and login begin with.                                    *)

\* The caller finds firstOpen unset and runs init, which sets it a little later:
\* until then another caller finds it unset as well.
OpenFirst(c) == /\ ~firstOpen
                /\ Goes(c, "open", "init")
                /\ UNCHANGED <<gIsRun, config, link, fds, routes, posted>>

OpenAgain(c) == /\ firstOpen
                /\ Goes(c, "open", "fetch")
                /\ UNCHANGED <<gIsRun, config, link, fds, routes, posted>>

\* firstOpen is set, and the shell opens the file before route runs.
BeginInit(c) == /\ Goes(c, "init", "write")
                /\ firstOpen' = TRUE
                /\ gatewayFile' = "empty"
                /\ UNCHANGED <<gIsRun, gateway, forgot, link, fds, routes, posted>>

\* Fault: the file names the gateway of the interface, routed or not.
WriteInterfaceGateway(c) ==
  /\ Goes(c, "write", "load")
  /\ gatewayFile' = "known"
  /\ UNCHANGED <<gIsRun, firstOpen, gateway, forgot, link, fds, routes, posted>>

\* route -n get default names a gateway only if the default route has one.
WriteGateway(c) ==
  /\ Goes(c, "write", "load")
  /\ gatewayFile' = IF defaultRoute = Gateway THEN "known" ELSE "empty"
  /\ UNCHANGED <<gIsRun, firstOpen, gateway, forgot, link, fds, routes, posted>>

\* What another init has loaded is overwritten, a known gateway by an empty one too.
LoadGateway(c) == /\ Goes(c, "load", "fetch")
                  /\ gateway' = gatewayFile
                  /\ forgot' = (forgot \/ (gateway = "known" /\ gatewayFile # "known"))
                  /\ UNCHANGED <<gIsRun, firstOpen, gatewayFile, link, fds, routes, posted>>

Opening(c) == OpenFirst(c) \/ OpenAgain(c) \/ BeginInit(c) \/ WriteGateway(c) \/ LoadGateway(c)

-----------------------------------------------------------------------------
(* The rest of login.                                                      *)

\* No name, no connection or a short answer: the socket, once made, stays open,
\* and no callback tells the window.
LoginFails(l) ==
  /\ Goes(l, "fetch", "done")
  /\ fds' \in {fds, fds \cup {<<l, "web">>}}
  /\ UNCHANGED <<gIsRun, config, link, routes, posted>>

\* The socket is closed.  What the callback sets is the subject of Account; it
\* ends in show_traffic, which judges the traffic of the answer.
LoginAnswers(l) ==
  /\ Goes(l, "fetch", "done")
  /\ \E m \in {"traffic", "overquota"} : Post(m)
  /\ UNCHANGED <<gIsRun, config, link, fds, routes>>

LoginStep(l) == Opening(l) \/ LoginFails(l) \/ LoginAnswers(l)

-----------------------------------------------------------------------------
(* start_vpn up to the packet loop.                                        *)

\* get_vpnserver_ip finds no name or no connection.  The socket, once made, is
\* never closed.
FetchFails(s) ==
  /\ Goes(s, "fetch", "over")
  /\ fds' \in {fds, fds \cup {<<s, "web">>}}
  /\ Post("stopped")
  /\ UNCHANGED <<gIsRun, config, link, routes>>

\* The answer is there.  The traffic callback reports what is used; the window
\* judges it by the user level it has by then.
FetchTraffic(s) ==
  /\ Goes(s, "fetch", "answer")
  /\ fds' = fds \cup {<<s, "web">>}
  /\ \E m \in {"traffic", "overquota"} : Post(m)
  /\ UNCHANGED <<gIsRun, config, link, routes>>

\* The quota is used up, or the answer names no server.
AnswerFails(s) ==
  /\ Goes(s, "answer", "over")
  /\ Post("stopped")
  /\ UNCHANGED <<gIsRun, config, link, fds, routes>>

\* Fault: the server's address is not stored.
AnswerForgotten(s) ==
  /\ Goes(s, "answer", "connect")
  /\ protocol' \in {"ssl", "http", "other"}
  /\ UNCHANGED <<gIsRun, config, target, clientSock, serverFd, tunDev, fds, routes, posted>>

AnswerNames(s) ==
  /\ Goes(s, "answer", "connect")
  /\ protocol' \in {"ssl", "http", "other"}
  /\ target' \in Servers
  /\ UNCHANGED <<gIsRun, config, clientSock, serverFd, tunDev, fds, routes, posted>>

\* connect_server makes a socket it never uses; init_ssl_client forgets the
\* TLS connection of whoever came before.
ConnectSsl(s) ==
  /\ protocol = "ssl"
  /\ fds' = fds \cup {<<s, "spare">>}
  /\ serverFd' = None
  /\ \/ Goes(s, "connect", "handshake") /\ UNCHANGED posted
     \/ Goes(s, "connect", "over") /\ Post("stopped")
  /\ UNCHANGED <<gIsRun, config, protocol, target, clientSock, tunDev, routes>>

\* connect_ssl, whose result is ignored: without a TCP connection client_sock is
\* the socket connect_server made first, and a failed handshake goes unnoticed.
Handshake(s) ==
  /\ Goes(s, "handshake", "address")
  /\ \/ /\ serverFd' = <<s, "server">>
        /\ clientSock' = <<s, "server">>
        /\ fds' = fds \cup {<<s, "server">>}
     \/ /\ clientSock' = <<s, "spare">>
        /\ serverFd' \in {serverFd, None}
        /\ UNCHANGED fds
  /\ UNCHANGED <<gIsRun, config, protocol, target, tunDev, routes, posted>>

\* connect_tcp succeeds.
ConnectHttp(s) ==
  /\ protocol = "http"
  /\ Goes(s, "connect", "address")
  /\ fds' = fds \cup {<<s, "spare">>, <<s, "server">>}
  /\ clientSock' = <<s, "server">>
  /\ UNCHANGED <<gIsRun, config, protocol, target, serverFd, tunDev, routes, posted>>

\* Over TLS get_private_ip asks the server for the address and its result is ignored;
\* over HTTP nobody asks.  The address decides no more than where AddOwnRoute's route
\* leads.
GetPrivateIp(s) ==
  /\ Goes(s, "address", "tun")
  /\ UNCHANGED <<gIsRun, config, link, fds, routes, posted>>

\* No socket, connect_tcp fails, or the protocol is unknown.
ConnectFails(s) ==
  /\ \/ UNCHANGED fds
     \/ protocol = "http" /\ fds' = fds \cup {<<s, "spare">>, <<s, "server">>}
     \/ protocol = "other" /\ fds' = fds \cup {<<s, "spare">>}
  /\ Goes(s, "connect", "over")
  /\ Post("stopped")
  /\ UNCHANGED <<gIsRun, config, link, routes>>

OpenTun(s) ==
  /\ Goes(s, "tun", "gateway")
  /\ tunDev' = <<s, "tun">>
  /\ fds' = fds \cup {<<s, "tun">>}
  /\ UNCHANGED <<gIsRun, config, protocol, target, clientSock, serverFd, routes, posted>>

\* Fault: this error path does not call stopCallback.
OpenTunFailsSilently(s) ==
  /\ Goes(s, "tun", "over")
  /\ tunDev' = None
  /\ UNCHANGED <<gIsRun, config, protocol, target, clientSock, serverFd, fds, routes, posted>>

\* open_tun_device fails and g_fd_tun_dev holds its error; the connection to
\* the server stays open.
OpenTunFails(s) ==
  /\ Goes(s, "tun", "over")
  /\ tunDev' = None
  /\ Post("stopped")
  /\ UNCHANGED <<gIsRun, config, protocol, target, clientSock, serverFd, fds, routes>>

\* Fault: the gateway is not checked.
CheckNothing(s) ==
  /\ Goes(s, "gateway", "hostroute")
  /\ UNCHANGED <<gIsRun, config, link, fds, routes, posted>>

\* Without a gateway to go back to, the session gives up.
CheckGateway(s) ==
  /\ IF gateway = "known"
       THEN Goes(s, "gateway", "hostroute") /\ UNCHANGED posted
       ELSE Goes(s, "gateway", "over") /\ Post("stopped")
  /\ UNCHANGED <<gIsRun, config, link, fds, routes>>

\* A route command without a gateway changes nothing.
AddHostRoute(s) ==
  /\ Goes(s, "hostroute", "default")
  /\ hostRoutes' = IF gateway = "known" THEN hostRoutes \cup {target} ELSE hostRoutes
  /\ UNCHANGED <<gIsRun, config, link, fds, defaultRoute, posted>>

\* A default route by way of the private address, which may be on the session's
\* utun, on no interface, or gone with it: an add changes nothing where a
\* default route exists.
AddOwnRoute(s) ==
  /\ Goes(s, "default", "change")
  /\ defaultRoute' \in {defaultRoute}
                         \cup {r \in {<<s, "tun">>} \cap fds : defaultRoute = None}
  /\ UNCHANGED <<gIsRun, config, link, fds, hostRoutes, posted>>

\* route change -interface: it needs a route to change and a utun to change to.
ChangeRoute(s) ==
  /\ Goes(s, "change", "fallback")
  /\ defaultRoute' = IF defaultRoute # None /\ <<s, "tun">> \in fds
                       THEN <<s, "tun">> ELSE defaultRoute
  /\ UNCHANGED <<gIsRun, config, link, fds, hostRoutes, posted>>

\* route add default <gateway>, which fails where there is a default route.
GatewayAdded == IF defaultRoute = None /\ gateway = "known" THEN Gateway ELSE defaultRoute

AddFallbackRoute(s) == /\ Goes(s, "fallback", "announce")
                       /\ defaultRoute' = GatewayAdded
                       /\ UNCHANGED <<gIsRun, config, link, fds, hostRoutes, posted>>

Announce(s) == /\ Goes(s, "announce", "enter")
               /\ Post("started")
               /\ UNCHANGED <<gIsRun, config, link, fds, routes>>

-----------------------------------------------------------------------------
(* tun_and_socket.                                                         *)

\* The loop's first act is to set g_isRun, whatever stop_vpn did before.
Enter(s) == /\ Goes(s, "enter", "run")
            /\ gIsRun' = TRUE
            /\ UNCHANGED <<config, link, fds, routes, posted>>

\* The test of g_isRun at the head of a round.
LoopRound(s) == /\ gIsRun
                /\ Goes(s, "run", "carry")
                /\ UNCHANGED <<gIsRun, config, link, fds, routes, posted>>

LoopStops(s) == /\ ~gIsRun
                /\ Goes(s, "run", "close")
                /\ UNCHANGED <<gIsRun, config, link, fds, routes, posted>>

LoopHead(s) == LoopRound(s) \/ LoopStops(s)

\* The rest of the round: select returns within two seconds, but a read or a write
\* may block for ever.
RoundEnds(s) == /\ Goes(s, "carry", "run")
                /\ UNCHANGED <<gIsRun, config, link, fds, routes, posted>>

\* A round that comes to its end reports the traffic, whatever g_isRun is by then.
ReportTraffic(s) == /\ Goes(s, "carry", "run")
                    /\ Len(posted) < MaxPosted
                    /\ \E m \in {"traffic", "overquota"} : Post(m)
                    /\ UNCHANGED <<gIsRun, config, link, fds, routes>>

\* Fault: an error returns past the cleaning up.
BreakOut(s) == /\ Goes(s, "carry", "over")
               /\ Post("stopped")
               /\ UNCHANGED <<gIsRun, config, link, fds, routes>>

\* A read, write or select error, or a minute without traffic.
LoopBreaks(s) == /\ Goes(s, "carry", "close")
                 /\ UNCHANGED <<gIsRun, config, link, fds, routes, posted>>

Round(s) == LoopHead(s) \/ RoundEnds(s) \/ ReportTraffic(s) \/ LoopBreaks(s)

\* ssl_close, or a close of client_sock.  The descriptors of the clean-up are taken
\* from the globals, whoever has set them.
CloseConnection(s) ==
  /\ Goes(s, "close", "untun")
  /\ fds' = fds \ {CASE protocol = "ssl"  -> serverFd
                     [] protocol = "http" -> clientSock
                     [] OTHER             -> None}
  /\ serverFd' = IF protocol = "ssl" THEN None ELSE serverFd
  /\ UNCHANGED <<gIsRun, config, protocol, target, clientSock, tunDev, routes, posted>>

\* Fault: the utun stays open.
KeepTun(s) ==
  /\ Goes(s, "untun", "unflag")
  /\ UNCHANGED <<gIsRun, config, link, fds, routes, posted>>

\* A utun that is closed takes a default route through it along.
CloseTun(s) ==
  /\ Goes(s, "untun", "unflag")
  /\ fds' = fds \ {tunDev}
  /\ defaultRoute' = IF defaultRoute = tunDev THEN None ELSE defaultRoute
  /\ UNCHANGED <<gIsRun, config, link, hostRoutes, posted>>

\* The end of tun_and_socket.
Leave(s) == /\ Goes(s, "unflag", "unhost")
            /\ gIsRun' = FALSE
            /\ UNCHANGED <<config, link, fds, routes, posted>>

-----------------------------------------------------------------------------
(* start_vpn after the packet loop.                                        *)

DeleteHostRoute(s) == /\ Goes(s, "unhost", "undefault")
                      /\ hostRoutes' = IF gateway = "known" THEN hostRoutes \ {target}
                                                             ELSE hostRoutes
                      /\ UNCHANGED <<gIsRun, config, link, fds, defaultRoute, posted>>

\* Fault: the default route is left to vanish with its utun.
LeaveDefaultRoute(s) == /\ Goes(s, "undefault", "regateway")
                        /\ UNCHANGED <<gIsRun, config, link, fds, routes, posted>>

DeleteDefaultRoute(s) == /\ Goes(s, "undefault", "regateway")
                         /\ defaultRoute' = None
                         /\ UNCHANGED <<gIsRun, config, link, fds, hostRoutes, posted>>

\* Fault: the end is not announced.
AddGatewayRouteSilently(s) ==
  /\ Goes(s, "regateway", "over")
  /\ defaultRoute' = GatewayAdded
  /\ UNCHANGED <<gIsRun, config, link, fds, hostRoutes, posted>>

AddGatewayRoute(s) ==
  /\ Goes(s, "regateway", "over")
  /\ defaultRoute' = GatewayAdded
  /\ Post("stopped")
  /\ UNCHANGED <<gIsRun, config, link, fds, hostRoutes>>

\* start_vpn returns to the block the window dispatched.
Return(s) == /\ Goes(s, "over", "done")
             /\ UNCHANGED <<gIsRun, config, link, fds, routes, posted>>

-----------------------------------------------------------------------------
Connecting(s) == \/ Opening(s)
                 \/ FetchFails(s) \/ FetchTraffic(s) \/ AnswerFails(s) \/ AnswerNames(s)
                 \/ ConnectSsl(s) \/ Handshake(s) \/ ConnectHttp(s) \/ ConnectFails(s)
                 \/ GetPrivateIp(s)
                 \/ OpenTun(s) \/ OpenTunFails(s) \/ CheckGateway(s)

SettingUp(s) == \/ AddHostRoute(s)
                \/ AddOwnRoute(s) \/ ChangeRoute(s) \/ AddFallbackRoute(s)
                \/ Announce(s) \/ Enter(s)

CleaningUp(s) == \/ CloseConnection(s) \/ CloseTun(s) \/ Leave(s)
                 \/ DeleteHostRoute(s) \/ DeleteDefaultRoute(s) \/ AddGatewayRoute(s)

SessionStep(s) == \/ Connecting(s)
                  \/ SettingUp(s)
                  \/ Round(s)
                  \/ CleaningUp(s)

\* The main thread takes the oldest callback.
TakePosted == /\ posted # <<>>
              /\ posted' = Tail(posted)
              /\ UNCHANGED <<pc, config, link, fds, routes>>

\* Any application: it starts sessions, stops them and logs in when it likes.
NetNext == \/ \E c \in Calls : Begin(c)
           \/ \E s \in Sessions : SessionStep(s) \/ Return(s)
           \/ \E l \in Logins : LoginStep(l)
           \/ StopVpn /\ UNCHANGED posted
           \/ TakePosted /\ gIsRun' \in {gIsRun, FALSE}

NetSpec == NetInit /\ [][NetNext]_netVars

-----------------------------------------------------------------------------
(* Safety for any application.                                             *)

\* The sessions that have begun to take the default route and not yet put it
\* back.
Routing == {s \in Sessions :
              pc[s] \in {"change", "fallback", "announce", "enter", "run", "carry", "close",
                        "untun", "unflag", "unhost", "undefault", "regateway"}}

\* Once no session is between taking the default route and giving it back, the
\* machine is back on its gateway, however the sessions' commands overlapped
\* and whoever deleted whose route.  Two calls may both run init; if the second has
\* overwritten the known gateway with nothing there may be no default route, but
\* none through a utun either.
DefaultRouteRestored ==
  Routing = {} => defaultRoute = Gateway \/ (forgot /\ defaultRoute = None)

\* "global_default_gateway_ip empty.": a session without a gateway to go back to
\* gives up before it takes the default route.
GatewayKnown == Routing # {} => gateway = "known"
=============================================================================
