------------------------ MODULE NetworkServiceProofs ------------------------
(***************************************************************************)
(* Safety of NetworkService for any number of calls and servers, and       *)
(* any application.                                                        *)
(***************************************************************************)
EXTENDS NetworkService, SequenceTheorems, TLAPS

-----------------------------------------------------------------------------
(* Type correctness.                                                       *)

\* The globals of network_service.cpp start in their types.
LEMMA NetTypeInit == NetInit => NetTypeOK
  BY EmptySeq DEF NetInit, NetTypeOK, Phases

\* The queue of callbacks keeps its type when it is extended.
LEMMA PostType == ASSUME posted \in Seq(Callbacks), NEW m \in Callbacks, Post(m)
                  PROVE  posted' \in Seq(Callbacks)
  BY AppendProperties DEF Post

\* Moving one call on keeps the type of pc.
LEMMA GoesType ==
  ASSUME NetTypeOK, NEW c \in Calls, NEW a, NEW b \in Phases, Goes(c, a, b)
  PROVE  /\ pc[c] = a /\ pc'[c] = b
         /\ \A d \in Calls \ {c} : pc'[d] = pc[d]
         /\ pc' \in [Calls -> Phases]
  BY DEF NetTypeOK, Goes

\* Sessions and logins are calls, and none is both.
LEMMA CallsAre == /\ Sessions \subseteq Calls /\ Logins \subseteq Calls
                  /\ \A c \in Calls : c \in Sessions \/ c \in Logins
                  /\ \A s \in Sessions, l \in Logins : s # l
  BY CallsAssumption DEF Calls

\* What start_vpn and login begin with keeps the types.
LEMMA NetTypeOpening == ASSUME NetTypeOK, NEW c \in Calls, Opening(c) PROVE NetTypeOK'
<1> USE DEF NetTypeOK, config, link, routes
<1>p. {"open", "init", "write", "load", "fetch"} \subseteq Phases
  BY DEF Phases
<1>1. CASE OpenFirst(c) \/ OpenAgain(c)
  BY <1>1, <1>p, GoesType DEF OpenFirst, OpenAgain
<1>2. CASE BeginInit(c)
  BY <1>2, <1>p, GoesType DEF BeginInit
<1>3. CASE WriteGateway(c)
  BY <1>3, <1>p, GoesType DEF WriteGateway
<1>4. CASE LoadGateway(c)
  BY <1>4, <1>p, GoesType DEF LoadGateway
<1>5. QED
  BY <1>1, <1>2, <1>3, <1>4 DEF Opening

\* A login keeps the types.
LEMMA NetTypeLogin == ASSUME NetTypeOK, NEW l \in Logins, LoginStep(l) PROVE NetTypeOK'
<1> USE DEF NetTypeOK, config, link, routes
<1>c. l \in Calls /\ "done" \in Phases
  BY CallsAre DEF Phases
<1>1. CASE Opening(l)
  BY <1>1, <1>c, NetTypeOpening
<1>2. CASE LoginFails(l)
  <2>1. <<l, "web">> \in Descriptors
    BY <1>c DEF Descriptors, Roles
  <2>2. QED
    BY <1>2, <1>c, <2>1, GoesType DEF LoginFails
<1>3. CASE LoginAnswers(l)
  <2>1. pc' \in [Calls -> Phases] /\ posted' \in Seq(Callbacks)
    BY <1>3, <1>c, GoesType, PostType DEF LoginAnswers, Callbacks
  <2>2. QED
    BY <1>3, <2>1 DEF LoginAnswers
<1>4. QED
  BY <1>1, <1>2, <1>3 DEF LoginStep

\* The steps of start_vpn up to the utun keep the types.
LEMMA NetTypeConnecting ==
  ASSUME NetTypeOK, NEW s \in Sessions, Connecting(s)
  PROVE  NetTypeOK'
<1> USE DEF NetTypeOK, config, link, routes
<1>a. {"traffic", "overquota", "stopped"} \subseteq Callbacks
  BY DEF Callbacks
<1>s. s \in Calls
  BY CallsAre
<1>b. \A role \in Roles : <<s, role>> \in Descriptors
  BY <1>s DEF Descriptors
<1>c. {"web", "spare", "server", "tun"} \subseteq Roles
  BY DEF Roles
<1>p. Phases = {"idle", "open", "init", "write", "load", "fetch", "answer", "connect",
                "handshake", "address", "tun", "gateway", "hostroute", "default", "change",
                "fallback", "announce", "enter", "run", "carry", "close", "untun", "unflag",
                "unhost", "undefault", "regateway", "over", "done"}
  BY DEF Phases
<1>1. CASE Opening(s)
  BY <1>1, <1>s, NetTypeOpening
<1>4. CASE FetchFails(s) \/ FetchTraffic(s)
  <2>1. pc' \in [Calls -> Phases]
    BY <1>4, <1>p, <1>s, GoesType DEF FetchFails, FetchTraffic
  <2>2. fds' \subseteq Descriptors
    BY <1>4, <1>b, <1>c DEF FetchFails, FetchTraffic
  <2>3. posted' \in Seq(Callbacks)
    BY <1>4, <1>a, PostType DEF FetchFails, FetchTraffic
  <2>4. QED
    BY <1>4, <2>1, <2>2, <2>3 DEF FetchFails, FetchTraffic
<1>5. CASE AnswerFails(s)
  <2>1. pc' \in [Calls -> Phases] /\ posted' \in Seq(Callbacks)
    BY <1>5, <1>p, <1>a, <1>s, GoesType, PostType DEF AnswerFails
  <2>2. QED
    BY <1>5, <2>1 DEF AnswerFails
<1>h. CASE AnswerNames(s)
  BY <1>h, <1>p, <1>s, GoesType DEF AnswerNames
<1>6. CASE ConnectSsl(s)
  <2>1. pc' \in [Calls -> Phases]
    BY <1>6, <1>p, <1>s, GoesType DEF ConnectSsl
  <2>2. fds' \subseteq Descriptors
    BY <1>6, <1>b, <1>c DEF ConnectSsl
  <2>3. posted' \in Seq(Callbacks)
    BY <1>6, <1>a, PostType DEF ConnectSsl
  <2>4. QED
    BY <1>6, <2>1, <2>2, <2>3 DEF ConnectSsl
<1>7. CASE Handshake(s)
  BY <1>7, <1>p, <1>b, <1>c, <1>s, GoesType DEF Handshake
<1>g. CASE GetPrivateIp(s)
  BY <1>g, <1>p, <1>s, GoesType DEF GetPrivateIp
<1>8. CASE ConnectHttp(s)
  BY <1>8, <1>p, <1>b, <1>c, <1>s, GoesType DEF ConnectHttp
<1>9. CASE ConnectFails(s)
  <2>1. pc' \in [Calls -> Phases]
    BY <1>9, <1>p, <1>s, GoesType DEF ConnectFails
  <2>2. fds' \subseteq Descriptors
    BY <1>9, <1>b, <1>c DEF ConnectFails
  <2>3. posted' \in Seq(Callbacks)
    BY <1>9, <1>a, PostType DEF ConnectFails
  <2>4. QED
    BY <1>9, <2>1, <2>2, <2>3 DEF ConnectFails
<1>10. CASE OpenTun(s)
  BY <1>10, <1>p, <1>b, <1>c, <1>s, GoesType DEF OpenTun
<1>11. CASE OpenTunFails(s)
  <2>1. pc' \in [Calls -> Phases] /\ posted' \in Seq(Callbacks)
    BY <1>11, <1>p, <1>a, <1>s, GoesType, PostType DEF OpenTunFails
  <2>2. QED
    BY <1>11, <2>1 DEF OpenTunFails
<1>12. CASE CheckGateway(s)
  <2>1. pc' \in [Calls -> Phases] /\ posted' \in Seq(Callbacks)
    BY <1>12, <1>p, <1>a, <1>s, GoesType, PostType DEF CheckGateway
  <2>2. QED
    BY <1>12, <2>1 DEF CheckGateway
<1>13. QED
  BY <1>1, <1>4, <1>5, <1>h, <1>6, <1>7, <1>g, <1>8, <1>9, <1>10, <1>11, <1>12
  DEF Connecting

\* From the answer of the web service to its end a session has a server.
TargetKnown == \A s \in Sessions :
                 pc[s] \notin {"idle", "open", "init", "write", "load", "fetch", "answer",
                             "over", "done"} => target \in Servers

\* Every step keeps the types; a host route goes to a known server.
LEMMA NetTypeStep ==
  ASSUME NetTypeOK, TargetKnown, [NetNext]_netVars
  PROVE  NetTypeOK'
<1> USE DEF NetTypeOK, config, link, routes
<1>a. {"started", "stopped", "traffic", "overquota"} \subseteq Callbacks
  BY DEF Callbacks
<1>p. Phases = {"idle", "open", "init", "write", "load", "fetch", "answer", "connect",
                "handshake", "address", "tun", "gateway", "hostroute", "default", "change",
                "fallback", "announce", "enter", "run", "carry", "close", "untun", "unflag",
                "unhost", "undefault", "regateway", "over", "done"}
  BY DEF Phases
<1>c. Sessions \subseteq Calls
  BY CallsAre
<1>b. ASSUME NEW c \in Calls, Begin(c) PROVE NetTypeOK'
  BY <1>b, <1>p, GoesType DEF Begin
<1>1. ASSUME NEW s \in Sessions, Return(s) PROVE NetTypeOK'
  BY <1>1, <1>p, <1>c, GoesType DEF Return
<1>l. ASSUME NEW l \in Logins, LoginStep(l) PROVE NetTypeOK'
  BY <1>l, NetTypeLogin
<1>2. ASSUME NEW s \in Sessions, Connecting(s) PROVE NetTypeOK'
  BY <1>2, NetTypeConnecting
<1>3. ASSUME NEW s \in Sessions, SettingUp(s) PROVE NetTypeOK'
  <2>1. CASE AddHostRoute(s)
    BY <2>1, <1>p, <1>c, GoesType DEF AddHostRoute, TargetKnown
  <2>2. CASE AddOwnRoute(s) \/ ChangeRoute(s) \/ AddFallbackRoute(s)
    <3>1. <<s, "tun">> \in Descriptors
      BY <1>c DEF Descriptors, Roles
    <3>2. defaultRoute' \in Descriptors \cup {Gateway, None}
      BY <2>2, <3>1 DEF AddOwnRoute, ChangeRoute, AddFallbackRoute, GatewayAdded
    <3>3. QED
      BY <2>2, <3>2, <1>p, <1>c, GoesType DEF AddOwnRoute, ChangeRoute, AddFallbackRoute
  <2>3. CASE Announce(s)
    <3>1. pc' \in [Calls -> Phases] /\ posted' \in Seq(Callbacks)
      BY <2>3, <1>p, <1>a, <1>c, GoesType, PostType DEF Announce
    <3>2. QED
      BY <2>3, <3>1 DEF Announce
  <2>4. CASE Enter(s)
    BY <2>4, <1>p, <1>c, GoesType DEF Enter
  <2>5. QED
    BY <1>3, <2>1, <2>2, <2>3, <2>4 DEF SettingUp
<1>4. ASSUME NEW s \in Sessions, ReportTraffic(s) PROVE NetTypeOK'
  <2>1. pc' \in [Calls -> Phases] /\ posted' \in Seq(Callbacks)
    BY <1>4, <1>p, <1>a, <1>c, GoesType, PostType DEF ReportTraffic
  <2>2. QED
    BY <1>4, <2>1 DEF ReportTraffic
<1>5. ASSUME NEW s \in Sessions, LoopHead(s) \/ RoundEnds(s) \/ LoopBreaks(s) PROVE NetTypeOK'
  BY <1>5, <1>p, <1>c, GoesType DEF LoopHead, LoopRound, LoopStops, RoundEnds, LoopBreaks
<1>6. ASSUME NEW s \in Sessions, CleaningUp(s) PROVE NetTypeOK'
  <2>1. CASE CloseConnection(s)
    BY <2>1, <1>p, <1>c, GoesType, ZenonT(60) DEF CloseConnection
  <2>6. CASE CloseTun(s)
    BY <2>6, <1>p, <1>c, GoesType DEF CloseTun
  <2>7. CASE Leave(s)
    BY <2>7, <1>p, <1>c, GoesType DEF Leave
  <2>2. CASE DeleteHostRoute(s)
    BY <2>2, <1>p, <1>c, GoesType DEF DeleteHostRoute
  <2>3. CASE DeleteDefaultRoute(s)
    BY <2>3, <1>p, <1>c, GoesType DEF DeleteDefaultRoute
  <2>4. CASE AddGatewayRoute(s)
    <3>1. pc' \in [Calls -> Phases] /\ posted' \in Seq(Callbacks)
      BY <2>4, <1>p, <1>a, <1>c, GoesType, PostType DEF AddGatewayRoute
    <3>2. QED
      BY <2>4, <3>1 DEF AddGatewayRoute, GatewayAdded
  <2>5. QED
    BY <1>6, <2>1, <2>2, <2>3, <2>4, <2>6, <2>7 DEF CleaningUp
<1>7. CASE StopVpn /\ UNCHANGED posted
  BY <1>7 DEF StopVpn
<1>8. CASE TakePosted /\ gIsRun' \in {gIsRun, FALSE}
  <2>1. posted' \in Seq(Callbacks)
    BY <1>8, HeadTailProperties DEF TakePosted
  <2>2. QED
    BY <1>8, <2>1 DEF TakePosted
<1>9. CASE UNCHANGED netVars
  BY <1>9 DEF netVars
<1>10. QED
  BY <1>b, <1>1, <1>l, <1>2, <1>3, <1>4, <1>5, <1>6, <1>7, <1>8, <1>9
  DEF NetNext, SessionStep, Round

\* target_test_ip is set once get_vpnserver_ip has answered, and stays set.
LEMMA TargetKnownStep ==
  ASSUME NetTypeOK, TargetKnown, [NetNext]_netVars
  PROVE  TargetKnown'
<1> USE CallsAre DEF TargetKnown, NetTypeOK, Goes
<1>1. ASSUME NEW c \in Calls, Begin(c) \/ Opening(c) PROVE TargetKnown'
  BY <1>1 DEF Begin, Opening, OpenFirst, OpenAgain, BeginInit, WriteGateway, LoadGateway, link
<1>2. ASSUME NEW l \in Logins, LoginFails(l) \/ LoginAnswers(l) PROVE TargetKnown'
  BY <1>2 DEF LoginFails, LoginAnswers, link
<1>3. ASSUME NEW s \in Sessions, Return(s) PROVE TargetKnown'
  BY <1>3 DEF Return, link
<1>4. ASSUME NEW s \in Sessions, Connecting(s), ~Opening(s) PROVE TargetKnown'
  <2>1. CASE AnswerNames(s)
    BY <2>1 DEF AnswerNames
  <2>2. CASE ~AnswerNames(s)
    BY <1>4, <2>2
    DEF Connecting, FetchFails, FetchTraffic, AnswerFails, ConnectSsl, Handshake, GetPrivateIp,
        ConnectHttp, ConnectFails, OpenTun, OpenTunFails, CheckGateway, link
  <2>3. QED
    BY <2>1, <2>2
<1>5. ASSUME NEW s \in Sessions, SettingUp(s) PROVE TargetKnown'
  BY <1>5 DEF SettingUp, AddHostRoute, AddOwnRoute, ChangeRoute, AddFallbackRoute, Announce,
               Enter, link
<1>6. ASSUME NEW s \in Sessions, Round(s) PROVE TargetKnown'
  BY <1>6
  DEF Round, LoopHead, LoopRound, LoopStops, RoundEnds, ReportTraffic, LoopBreaks, link
<1>7. ASSUME NEW s \in Sessions, CleaningUp(s) PROVE TargetKnown'
  BY <1>7
  DEF CleaningUp, CloseConnection, CloseTun, Leave, DeleteHostRoute, DeleteDefaultRoute,
      AddGatewayRoute, link
<1>8. CASE StopVpn \/ TakePosted \/ UNCHANGED netVars
  BY <1>8 DEF StopVpn, TakePosted, netVars, link
<1>9. QED
  BY <1>1, <1>2, <1>3, <1>4, <1>5, <1>6, <1>7, <1>8 DEF NetNext, SessionStep, LoginStep

-----------------------------------------------------------------------------
(* The default route and the gateway.                                      *)

\* A default route through a utun belongs to a session that will give it back.
RouteOwned ==
  \A c \in Calls, role \in Roles :
    defaultRoute = <<c, role>> =>
      /\ c \in Sessions
      /\ pc[c] \in {"change", "fallback", "announce", "enter", "run", "carry", "close",
                    "untun", "unflag", "unhost", "undefault"}

\* A session about to add the gateway route again no longer owns the default
\* route; if there is none, a session is there to bring it back, or an init has
\* forgotten the gateway.
RouteReturns == ~forgot /\ defaultRoute = None => Routing # {}

\* A session past the check has a gateway, unless an init has forgotten it: an init
\* replaces a known gateway by nothing, or leaves it known.
GatewayRead ==
  \A s \in Sessions : ~forgot /\ (pc[s] \in {"hostroute", "default"} \/ s \in Routing)
                         => gateway = "known"

\* Without a session that has taken it, a default route is the gateway.
LEMMA OnGateway ==
  ASSUME NetTypeOK, RouteOwned, Routing = {}, defaultRoute # None
  PROVE  defaultRoute = Gateway
<1>1. ASSUME defaultRoute \in Descriptors PROVE FALSE
  <2>1. PICK c \in Calls, role \in Roles : defaultRoute = <<c, role>>
    BY <1>1 DEF Descriptors
  <2>2. c \in Routing
    BY <2>1 DEF RouteOwned, Routing
  <2>3. QED
    BY <2>2
<1>2. QED
  BY <1>1 DEF NetTypeOK

\* What a call does before the route commands leaves the routes alone.
LEMMA RoutesAlone ==
  /\ \A c \in Calls : Begin(c) \/ Opening(c) => UNCHANGED routes
  /\ \A l \in Logins : LoginStep(l) => UNCHANGED routes
  /\ \A s \in Sessions : Connecting(s) \/ Return(s) => UNCHANGED routes
<1>1. ASSUME NEW c \in Calls, Begin(c) \/ Opening(c) PROVE UNCHANGED routes
  BY <1>1 DEF Begin, Opening, OpenFirst, OpenAgain, BeginInit, WriteGateway, LoadGateway
<1>2. ASSUME NEW l \in Logins, LoginStep(l) PROVE UNCHANGED routes
  BY <1>1, <1>2, CallsAre DEF LoginStep, LoginFails, LoginAnswers
<1>3. ASSUME NEW s \in Sessions, Connecting(s) \/ Return(s) PROVE UNCHANGED routes
  BY <1>1, <1>3, CallsAre
  DEF Connecting, FetchFails, FetchTraffic, AnswerFails, AnswerNames, ConnectSsl, Handshake,
      GetPrivateIp, ConnectHttp, ConnectFails, OpenTun, OpenTunFails, CheckGateway, Return
<1>4. QED
  BY <1>1, <1>2, <1>3

\* Those steps keep every session where it is with regard to the routes: none that
\* holds the default route takes one, and none comes to hold it.
LEMMA PhasesAlone ==
  ASSUME NetTypeOK,
         \/ \E c \in Calls : Begin(c)
         \/ \E l \in Logins : LoginStep(l)
         \/ \E s \in Sessions : Connecting(s) \/ Return(s)
  PROVE  /\ Routing' = Routing
         /\ \A s \in Routing : pc'[s] = pc[s]
<1> USE CallsAre DEF NetTypeOK, Goes, Routing
<1>0. ASSUME NEW c \in Calls, Begin(c) \/ Opening(c)
      PROVE  Routing' = Routing /\ \A s \in Routing : pc'[s] = pc[s]
  BY <1>0 DEF Begin, Opening, OpenFirst, OpenAgain, BeginInit, WriteGateway, LoadGateway
<1>1. ASSUME NEW l \in Logins, LoginFails(l) \/ LoginAnswers(l)
      PROVE  Routing' = Routing /\ \A s \in Routing : pc'[s] = pc[s]
  BY <1>1 DEF LoginFails, LoginAnswers
<1>2. ASSUME NEW s \in Sessions, Connecting(s) \/ Return(s), ~Opening(s)
      PROVE  Routing' = Routing /\ \A t \in Routing : pc'[t] = pc[t]
  BY <1>2
  DEF Connecting, FetchFails, FetchTraffic, AnswerFails, AnswerNames, ConnectSsl, Handshake,
      GetPrivateIp, ConnectHttp, ConnectFails, OpenTun, OpenTunFails, CheckGateway, Return
<1>3. QED
  BY <1>0, <1>1, <1>2 DEF LoginStep

\* Every step keeps the default route accounted for: it is the gateway, none, or
\* one that a session will give back.
LEMMA RouteOwnedStep ==
  ASSUME NetTypeOK, RouteOwned, [NetNext]_netVars
  PROVE  RouteOwned'
<1> USE CallsAre DEF RouteOwned, NetTypeOK, Goes
<1>0. /\ \A c \in Calls, role \in Roles : <<c, role>> # None /\ <<c, role>> # Gateway
      /\ None # Gateway
  BY DEF None, Gateway
<1>1. CASE \/ \E c \in Calls : Begin(c)
           \/ \E l \in Logins : LoginStep(l)
           \/ \E s \in Sessions : Connecting(s) \/ Return(s)
  <2>1. defaultRoute' = defaultRoute
    BY <1>1, RoutesAlone DEF routes
  <2>2. \A s \in Routing : pc'[s] = pc[s]
    BY <1>1, PhasesAlone
  <2>3. QED
    BY <2>1, <2>2 DEF Routing
<1>3. ASSUME NEW s \in Sessions, SettingUp(s) PROVE RouteOwned'
  <2>1. CASE AddOwnRoute(s)
    BY <1>0, <2>1 DEF AddOwnRoute
  <2>2. CASE ChangeRoute(s)
    BY <1>0, <2>2 DEF ChangeRoute
  <2>3. CASE AddFallbackRoute(s)
    BY <1>0, <2>3 DEF AddFallbackRoute, GatewayAdded
  <2>4. CASE AddHostRoute(s) \/ Announce(s) \/ Enter(s)
    BY <2>4 DEF AddHostRoute, Announce, Enter, routes
  <2>5. QED
    BY <1>3, <2>1, <2>2, <2>3, <2>4 DEF SettingUp
<1>4. ASSUME NEW s \in Sessions, Round(s) PROVE RouteOwned'
  BY <1>4
  DEF Round, LoopHead, LoopRound, LoopStops, RoundEnds, ReportTraffic, LoopBreaks, routes
<1>5. ASSUME NEW s \in Sessions, CleaningUp(s) PROVE RouteOwned'
  <2>1. CASE CloseTun(s)
    BY <1>0, <2>1 DEF CloseTun
  <2>6. CASE CloseConnection(s) \/ Leave(s)
    BY <2>6 DEF CloseConnection, Leave, routes
  <2>2. CASE DeleteHostRoute(s)
    BY <2>2 DEF DeleteHostRoute
  <2>3. CASE DeleteDefaultRoute(s)
    BY <1>0, <2>3 DEF DeleteDefaultRoute
  <2>4. CASE AddGatewayRoute(s)
    BY <1>0, <2>4 DEF AddGatewayRoute, GatewayAdded
  <2>5. QED
    BY <1>5, <2>1, <2>2, <2>3, <2>4, <2>6 DEF CleaningUp
<1>6. CASE StopVpn \/ TakePosted \/ UNCHANGED netVars
  BY <1>6 DEF StopVpn, TakePosted, netVars, routes
<1>7. QED
  BY <1>1, <1>3, <1>4, <1>5, <1>6 DEF NetNext, SessionStep

\* What an init has forgotten stays noted.
LEMMA ForgotStays == ASSUME NetTypeOK, forgot, [NetNext]_netVars PROVE forgot'
<1> USE DEF NetTypeOK, config
<1>1. ASSUME NEW c \in Calls, Begin(c) \/ Opening(c) PROVE forgot'
  BY <1>1 DEF Begin, Opening, OpenFirst, OpenAgain, BeginInit, WriteGateway, LoadGateway
<1>2. ASSUME NEW l \in Logins, LoginFails(l) \/ LoginAnswers(l) PROVE forgot'
  BY <1>2 DEF LoginFails, LoginAnswers
<1>3. ASSUME NEW s \in Sessions, Connecting(s) \/ Return(s), ~Opening(s) PROVE forgot'
  BY <1>3
  DEF Connecting, FetchFails, FetchTraffic, AnswerFails, AnswerNames, ConnectSsl, Handshake,
      GetPrivateIp, ConnectHttp, ConnectFails, OpenTun, OpenTunFails, CheckGateway, Return
<1>4. ASSUME NEW s \in Sessions, SettingUp(s) \/ Round(s) \/ CleaningUp(s) PROVE forgot'
  BY <1>4
  DEF SettingUp, AddHostRoute, AddOwnRoute, ChangeRoute, AddFallbackRoute, Announce, Enter,
      Round, LoopHead, LoopRound, LoopStops, RoundEnds, ReportTraffic, LoopBreaks,
      CleaningUp, CloseConnection, CloseTun, Leave, DeleteHostRoute, DeleteDefaultRoute,
      AddGatewayRoute
<1>5. CASE StopVpn \/ TakePosted \/ UNCHANGED netVars
  BY <1>5 DEF StopVpn, TakePosted, netVars
<1>6. QED
  BY <1>1, <1>2, <1>3, <1>4, <1>5, CallsAre DEF NetNext, SessionStep, LoginStep

\* Every step keeps, unless the gateway is forgotten: without a default route a
\* session is there to bring it back.
LEMMA RouteReturnsStep ==
  ASSUME NetTypeOK, GatewayRead, RouteReturns, [NetNext]_netVars
  PROVE  RouteReturns'
<1> USE CallsAre DEF RouteReturns, NetTypeOK, Goes
<1>0. None # Gateway
  BY DEF None, Gateway
<1>f. forgot => forgot'
  BY ForgotStays
<1>1. CASE \/ \E c \in Calls : Begin(c)
           \/ \E l \in Logins : LoginStep(l)
           \/ \E s \in Sessions : Connecting(s) \/ Return(s)
  <2>1. defaultRoute' = defaultRoute
    BY <1>1, RoutesAlone DEF routes
  <2>2. Routing' = Routing
    BY <1>1, PhasesAlone
  <2>3. QED
    BY <1>f, <2>1, <2>2
<1>3. ASSUME NEW s \in Sessions, SettingUp(s) PROVE RouteReturns'
  BY <1>f, <1>3 DEF SettingUp, AddHostRoute, AddOwnRoute, ChangeRoute, AddFallbackRoute, Announce,
              Enter, GatewayAdded, Routing, routes
<1>4. ASSUME NEW s \in Sessions, Round(s) PROVE RouteReturns'
  BY <1>f, <1>4
  DEF Round, LoopHead, LoopRound, LoopStops, RoundEnds, ReportTraffic, LoopBreaks, Routing, routes
<1>5. ASSUME NEW s \in Sessions, CleaningUp(s) PROVE RouteReturns'
  <2>1. CASE AddGatewayRoute(s)
    <3>1. forgot \/ gateway = "known"
      BY <2>1 DEF AddGatewayRoute, GatewayRead, Routing
    <3>2. forgot' = forgot
      BY <2>1 DEF AddGatewayRoute, config
    <3>3. QED
      BY <1>0, <2>1, <3>1, <3>2 DEF AddGatewayRoute, GatewayAdded
  <2>2. CASE ~AddGatewayRoute(s)
    BY <1>f, <1>5, <2>2
    DEF CleaningUp, CloseConnection, CloseTun, Leave, DeleteHostRoute, DeleteDefaultRoute, Routing,
        routes
  <2>3. QED
    BY <1>5, <2>1, <2>2 DEF CleaningUp
<1>6. CASE StopVpn \/ TakePosted \/ UNCHANGED netVars
  BY <1>f, <1>6 DEF StopVpn, TakePosted, netVars, Routing, routes
<1>7. QED
  BY <1>1, <1>3, <1>4, <1>5, <1>6 DEF NetNext, SessionStep

\* Every step keeps: past the check of the gateway, it is known.
LEMMA GatewayReadStep ==
  ASSUME NetTypeOK, GatewayRead, [NetNext]_netVars
  PROVE  GatewayRead'
<1> USE CallsAre DEF GatewayRead, NetTypeOK, Goes, Routing
<1>1. ASSUME NEW c \in Calls, Begin(c) PROVE GatewayRead'
  BY <1>1 DEF Begin, config, routes
<1>2. ASSUME NEW c \in Calls, Opening(c) PROVE GatewayRead'
  BY <1>2 DEF Opening, OpenFirst, OpenAgain, BeginInit, WriteGateway, LoadGateway, config, routes
<1>3. ASSUME NEW l \in Logins, LoginFails(l) \/ LoginAnswers(l) PROVE GatewayRead'
  BY <1>3 DEF LoginFails, LoginAnswers, config, routes
<1>4. ASSUME NEW s \in Sessions, Connecting(s) \/ Return(s), ~Opening(s) PROVE GatewayRead'
  BY <1>4
  DEF Connecting, FetchFails, FetchTraffic, AnswerFails, AnswerNames, ConnectSsl, Handshake,
      GetPrivateIp, ConnectHttp, ConnectFails, OpenTun, OpenTunFails, CheckGateway, Return,
      config, routes
<1>5. ASSUME NEW s \in Sessions, SettingUp(s) PROVE GatewayRead'
  BY <1>5 DEF SettingUp, AddHostRoute, AddOwnRoute, ChangeRoute, AddFallbackRoute, Announce,
              Enter, config, routes
<1>6. ASSUME NEW s \in Sessions, Round(s) PROVE GatewayRead'
  BY <1>6
  DEF Round, LoopHead, LoopRound, LoopStops, RoundEnds, ReportTraffic, LoopBreaks, config, routes
<1>7. ASSUME NEW s \in Sessions, CleaningUp(s) PROVE GatewayRead'
  BY <1>7
  DEF CleaningUp, CloseConnection, CloseTun, Leave, DeleteHostRoute, DeleteDefaultRoute,
      AddGatewayRoute, config
<1>8. CASE StopVpn \/ TakePosted \/ UNCHANGED netVars
  BY <1>8 DEF StopVpn, TakePosted, netVars, config, routes
<1>9. QED
  BY <1>1, <1>2, <1>3, <1>4, <1>5, <1>6, <1>7, <1>8 DEF NetNext, SessionStep, LoginStep

-----------------------------------------------------------------------------
(* The theorems.                                                           *)

\* The inductive invariant of the service.
NetInv == /\ NetTypeOK
          /\ TargetKnown
          /\ RouteOwned
          /\ GatewayRead
          /\ RouteReturns

\* It holds before the first call.
LEMMA NetInvInit == NetInit => NetInv
<1>1. NetInit => TargetKnown /\ RouteOwned /\ GatewayRead /\ RouteReturns
  BY CallsAre
  DEF NetInit, TargetKnown, RouteOwned, GatewayRead, RouteReturns, Routing, None, Gateway
<1>2. QED
  BY <1>1, NetTypeInit DEF NetInv

\* Every step of the service, under any application, keeps it.
LEMMA NetInvStep == NetInv /\ [NetNext]_netVars => NetInv'
  BY NetTypeStep, TargetKnownStep, RouteOwnedStep, GatewayReadStep, RouteReturnsStep DEF NetInv

LEMMA NetInvariant == NetSpec => []NetInv
  BY NetInvInit, NetInvStep, PTL DEF NetSpec

\* The type invariant, however the calls overlap.
THEOREM NetTypeCorrect == NetSpec => []NetTypeOK
<1>1. NetInv => NetTypeOK
  BY DEF NetInv
<1>2. QED
  BY <1>1, NetInvariant, PTL

\* However many sessions overlap and whoever runs init, the last one to go leaves
\* the machine on its gateway, unless an init has overwritten a known gateway with
\* nothing; then it may leave it without a default route, but on no utun.
THEOREM DefaultRouteIsRestored == NetSpec => []DefaultRouteRestored
<1>1. NetInv => DefaultRouteRestored
  BY OnGateway DEF NetInv, RouteReturns, DefaultRouteRestored
<1>2. QED
  BY <1>1, NetInvariant, PTL
=============================================================================
