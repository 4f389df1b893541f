------------------------- MODULE ApplicationProofs --------------------------
(***************************************************************************)
(* Safety of the process for any number of sessions, logins and servers,   *)
(* any user, and any sequence of interrupts, deaths and restarts.          *)
(***************************************************************************)
EXTENDS Application, VpnClientProofs

-----------------------------------------------------------------------------
(* What the steps of the process are to the application.                   *)

\* A step of the process is a step of the application beside an unchanged process,
\* a step of the handler, or one that ends or starts the process.
LEMMA AppSteps ==
  ASSUME [AppNext]_appVars
  PROVE  \/ /\ process # "ended" /\ UNCHANGED <<process, stranded>> /\ [Next]_vars
            /\ process # "up" /\ ~raced' => ~raced /\ UNCHANGED <<defaultRoute, gateway>>
         \/ UNCHANGED appVars
         \/ Interrupt \/ HandlerDeletes \/ HandlerAdds \/ Die \/ Relaunch
<1>1. CASE OnMain(User \/ QuitDone \/ HandlePosted)
  BY <1>1 DEF OnMain, Next, processVars
<1>2. ASSUME NEW s \in Sessions,
             OnThread(BlockBegins(s) \/ BlockEnds(s)) \/ OnThread(BlockRuns(s))
      PROVE  /\ process # "ended" /\ UNCHANGED <<process, stranded>> /\ Next
             /\ process # "up" /\ ~raced' => ~raced /\ UNCHANGED <<defaultRoute, gateway>>
  BY <1>2 DEF OnThread, Next
<1>3. ASSUME NEW l \in Logins, OnThread(LoginBegins(l) \/ LoginRuns(l))
      PROVE  /\ process # "ended" /\ UNCHANGED <<process, stranded>> /\ Next
             /\ process # "up" /\ ~raced' => ~raced /\ UNCHANGED <<defaultRoute, gateway>>
  BY <1>3 DEF OnThread, Next
<1>4. QED
  BY <1>1, <1>2, <1>3 DEF AppNext, Runs, appVars

\* The handler's commands change the default route and nothing else.
LEMMA HandlerSteps ==
  ASSUME HandlerDeletes \/ HandlerAdds
  PROVE  /\ UNCHANGED <<pc, gIsRun, config, link, fds, hostRoutes, posted, uiVars>>
         /\ UNCHANGED <<raced, stranded>>
         /\ \/ process = "delete" /\ process' = "add" /\ defaultRoute' = None
            \/ process = "add" /\ process' = "exit" /\ defaultRoute' = GatewayAdded
  BY DEF HandlerDeletes, HandlerAdds

\* The DNS servers change only in set_dns.
LEMMA DnsSteps == ASSUME [AppNext]_appVars PROVE SetsDns \/ UNCHANGED dns
<1>1. ASSUME NEW s \in Sessions, CallsSetDns(s) PROVE SetsDns \/ UNCHANGED dns
  BY <1>1 DEF CallsSetDns
<1>2. ASSUME Runs PROVE SetsDns \/ UNCHANGED dns
  BY <1>1, <1>2 DEF Runs, OnMain, processVars
<1>3. QED
  BY <1>2
  DEF AppNext, Interrupt, HandlerDeletes, HandlerAdds, Die, Relaunch, appVars, processVars

\* What set_dns sees is the beginning of the list, and with our server in front it
\* sees that.
LEMMA DnsSeenIs ==
  ASSUME dns \in Seq(DnsServers)
  PROVE  /\ DnsSeen \in Seq(DnsServers)
         /\ Len(dns) <= DnsLines => DnsSeen = dns
         /\ dns # <<>> => DnsSeen # <<>> /\ DnsSeen[1] = dns[1]
<1> USE DnsAssumption
<1>1. CASE Len(dns) <= DnsLines
  BY <1>1 DEF DnsSeen
<1>2. CASE ~(Len(dns) <= DnsLines)
  <2>1. DnsSeen = SubSeq(dns, 1, DnsLines) /\ DnsLines \in 1..Len(dns)
    BY <1>2 DEF DnsSeen
  <2>2. DnsSeen \in Seq(DnsServers) /\ Len(DnsSeen) = DnsLines /\ DnsSeen[1] = dns[1]
    BY <2>1, SMTT(30)
  <2>3. QED
    BY <1>2, <2>2
<1>3. QED
  BY <1>1, <1>2

\* set_dns leaves a list of servers.
LEMMA DnsTypes == ASSUME dns \in Seq(DnsServers), SetsDns PROVE dns' \in Seq(DnsServers)
<1>1. <<"8.8.8.8">> \in Seq(DnsServers)
  BY DnsAssumption
<1>2. <<"8.8.8.8">> \o DnsSeen \in Seq(DnsServers)
  BY <1>1, DnsSeenIs, ConcatProperties
<1>3. DnsSet \in Seq(DnsServers)
  BY <1>2 DEF DnsSet
<1>4. QED
  BY <1>1, <1>3 DEF SetsDns

-----------------------------------------------------------------------------
(* Type correctness, and the part of the service's invariant that holds in *)
(* and after the handler as well.                                          *)

AppTypes == AppTypeOK /\ TargetKnown /\ RouteOwned

\* A process that has just started, or has just ended, has its types and no
\* session.
LEMMA DieTypes == ASSUME AppTypes, Die PROVE AppTypes'
<1>1. pc' = [c \in Calls |-> "idle"] /\ "idle" \in Phases
  BY DEF Die, Forgotten, Phases
<1>2. pc' \in [Calls -> Phases] /\ \A c \in Calls : pc'[c] = "idle"
  BY <1>1
<1>3. posted' \in Seq(Callbacks)
  BY EmptySeq DEF Die, Forgotten
<1>4. defaultRoute' \in {Gateway, None}
  BY DEF Die, AppTypes, AppTypeOK, TypeOK, NetTypeOK
<1>5. NetTypeOK'
  BY <1>2, <1>3, <1>4 DEF Die, Forgotten, AppTypes, AppTypeOK, TypeOK, NetTypeOK
<1>6. UiTypeOK' /\ stranded' \subseteq Servers /\ raced' \in BOOLEAN /\ process' = "ended"
  BY DEF Die, Forgotten, UiTypeOK, AppTypes, AppTypeOK, TypeOK, NetTypeOK
<1>7. TargetKnown'
  BY <1>2, CallsAre DEF TargetKnown
<1>8. RouteOwned'
  BY <1>4 DEF RouteOwned, None, Gateway
<1>9. dns' \in Seq(DnsServers)
  BY DEF Die, AppTypes, AppTypeOK
<1>10. QED
  BY <1>5, <1>6, <1>7, <1>8, <1>9 DEF AppTypes, AppTypeOK, TypeOK, Handling

\* Every step keeps the types, whether the process runs, is interrupted, ends or
\* starts.
LEMMA AppTypesStep == ASSUME AppTypes, [AppNext]_appVars PROVE AppTypes'
<1> USE DEF AppTypes, AppTypeOK, TypeOK
<1>0. dns' \in Seq(DnsServers)
  BY DnsSteps, DnsTypes
<1>1. CASE /\ process # "ended" /\ UNCHANGED <<process, stranded>> /\ [Next]_vars
           /\ raced' \in BOOLEAN
  <2>1. [NetNext]_netVars
    BY <1>1, StepUsesService
  <2>2. NetTypeOK' /\ TargetKnown' /\ RouteOwned'
    BY <2>1, NetTypeStep, TargetKnownStep, RouteOwnedStep
  <2>3. UiTypeOK'
    BY <1>1, UiTypeStep
  <2>4. QED
    BY <1>0, <1>1, <2>2, <2>3
<1>2. CASE HandlerDeletes \/ HandlerAdds
  <2>1. defaultRoute' \in {defaultRoute, Gateway, None}
    BY <1>2, HandlerSteps DEF GatewayAdded
  <2>2. NetTypeOK' /\ UiTypeOK'
    BY <1>2, <2>1, HandlerSteps DEF NetTypeOK, UiTypeOK, config, link, uiVars
  <2>3. TargetKnown'
    BY <1>2, HandlerSteps DEF TargetKnown, link
  <2>4. RouteOwned'
    BY <1>2, <2>1, HandlerSteps DEF RouteOwned, None, Gateway
  <2>5. QED
    BY <1>0, <1>2, <2>2, <2>3, <2>4, HandlerSteps DEF Handling
<1>3. CASE Die
  BY <1>3, DieTypes
<1>4. CASE UNCHANGED appVars \/ Interrupt \/ Relaunch
  <2>1. UNCHANGED vars /\ UNCHANGED stranded /\ raced' \in BOOLEAN
    BY <1>4 DEF appVars, processVars, Interrupt, Relaunch
  <2>2. NetTypeOK' /\ UiTypeOK' /\ TargetKnown' /\ RouteOwned'
    BY <2>1, NetTypeStep, UiTypeStep, TargetKnownStep, RouteOwnedStep DEF vars
  <2>3. process' \in {"up", "ended"} \cup Handling
    BY <1>4 DEF appVars, processVars, Interrupt, Relaunch, Handling
  <2>4. QED
    BY <1>0, <2>1, <2>2, <2>3
<1>5. [AppNext]_appVars => raced' \in BOOLEAN
  BY DEF AppNext, appVars, processVars, Runs, OnMain, OnThread, Interrupt, HandlerDeletes,
         HandlerAdds, Die, Relaunch
<1>6. QED
  BY <1>1, <1>2, <1>3, <1>4, <1>5, AppSteps

\* Before the first click the types hold.
LEMMA AppTypesInit == AppInit => AppTypes
<1> SUFFICES ASSUME AppInit PROVE AppTypes
  OBVIOUS
<1>2. NetInit /\ UiTypeOK
  BY DEF AppInit, Init, UiTypeOK
<1>3. NetInv
  BY <1>2, NetInvInit
<1>4. QED
  BY <1>2, <1>3, DnsAssumption DEF AppInit, AppTypes, AppTypeOK, TypeOK, NetInv

\* Every variable of the application and of its process keeps its type, whoever
\* interrupts or ends the process.
THEOREM AppTypeCorrect == AppSpec => []AppTypeOK
<1>1. AppTypes /\ [AppNext]_appVars => AppTypes'
  BY AppTypesStep
<1>2. AppTypes => AppTypeOK
  BY DEF AppTypes
<1>3. QED
  BY <1>1, <1>2, AppTypesInit, PTL DEF AppSpec

\* The threads use the service as it allows while the handler runs beside them, and
\* so does the main thread.
THEOREM ProcessUsesTheService == AppSpec => ProcessUsesService
<1>1. AppInit => NetInit
  BY DEF AppInit, Init
<1>2. AppTypes /\ [AppNext]_appVars => [UNCHANGED process => NetNext]_netVars
  <2> SUFFICES ASSUME AppTypes, [AppNext]_appVars, process' = process, netVars' # netVars
               PROVE  NetNext
    OBVIOUS
  <2>1. ~(UNCHANGED appVars \/ Interrupt \/ HandlerDeletes \/ HandlerAdds \/ Die \/ Relaunch)
    BY DEF appVars, vars, Interrupt, HandlerDeletes, HandlerAdds, Die, Relaunch
  <2>2. [Next]_vars
    BY <2>1, AppSteps
  <2>3. QED
    BY <2>2, StepUsesService DEF AppTypes, AppTypeOK, TypeOK
<1>3. AppTypes /\ [AppNext]_appVars => AppTypes'
  BY AppTypesStep
<1>4. QED
  BY <1>1, <1>2, <1>3, AppTypesInit, PTL DEF AppSpec, ProcessUsesService

\* The user's own DNS servers survive every session and every end of a process, if
\* set_dns can read them and has room for them.
THEOREM OwnServersAreKept == AppSpec => []OwnServersKept
<1> DEFINE Ours == <<"8.8.8.8">> \o OwnServers
<1>1. AppInit => OwnServersKept
  BY DEF AppInit, OwnServersKept
<1>2. AppTypeOK /\ OwnServersKept /\ [AppNext]_appVars => OwnServersKept'
  <2> SUFFICES ASSUME AppTypeOK, OwnServersKept, SetsDns, DnsReadable,
                      Len(OwnServers) <= DnsLines
               PROVE  dns' \in {OwnServers, Ours}
    BY DnsSteps DEF OwnServersKept
  <2>0. dns \in Seq(DnsServers) /\ dns \in {OwnServers, Ours} /\ dns' \in {dns, DnsSet}
    BY DEF AppTypeOK, OwnServersKept, SetsDns
  <2>1. CASE dns = OwnServers
    BY <2>0, <2>1, DnsSeenIs DEF DnsSet
  <2>2. CASE dns = Ours
    <3>1. dns # <<>> /\ dns[1] = "8.8.8.8"
      BY <2>2, DnsAssumption
    <3>2. DnsSeen \in Seq(DnsServers) /\ 1 \in 1..Len(DnsSeen) /\ DnsSeen[1] = "8.8.8.8"
      BY <2>0, <3>1, DnsSeenIs
    <3>3. DnsSet = dns
      BY <3>2 DEF DnsSet
    <3>4. QED
      BY <2>0, <2>2, <3>3
  <2>3. QED
    BY <2>0, <2>1, <2>2
<1>3. QED
  BY <1>1, <1>2, AppTypeCorrect, PTL DEF AppSpec

-----------------------------------------------------------------------------
(* The default route across interrupts and deaths.                         *)

\* While a call is in init and the gateway is not known yet, the file that names one
\* was written where the machine was on it.
FileTrue == ~forgot /\ gatewayFile = "known" /\ (\E c \in Calls : pc[c] \in {"write", "load"})
              => defaultRoute = Gateway

\* What holds of the default route of the process.  The handler runs its commands only
\* when the gateway is known, and between the two there is no default route, unless a
\* call has changed one or the other.
RouteInv ==
  /\ GatewayRead
  /\ process = "ended" => gateway = "unread" /\ \A c \in Calls : pc[c] = "idle"
  /\ process = "up" /\ gateway # "known" => FileTrue
  /\ process = "up" /\ gateway = "known" => RouteReturns
  /\ process \in {"delete", "add"} /\ ~raced => gateway = "known"
  /\ process = "add" /\ ~raced => defaultRoute = None
  /\ process = "exit" /\ gateway = "known" /\ ~raced => defaultRoute = Gateway

\* Init alone writes the file, and loads it.
LEMMA FileSteps ==
  ASSUME NetTypeOK, [NetNext]_netVars
  PROVE  \/ \E c \in Calls : BeginInit(c) \/ WriteGateway(c) \/ LoadGateway(c)
         \/ /\ UNCHANGED <<gatewayFile, gateway>>
            /\ \A c \in Calls : pc'[c] \in {"write", "load"} => pc[c] \in {"write", "load"}
<1> USE CallsAre DEF NetTypeOK, Goes, config
<1> DEFINE Still == /\ UNCHANGED <<gatewayFile, gateway>>
                    /\ \A c \in Calls : pc'[c] \in {"write", "load"} => pc[c] \in {"write", "load"}
<1>1. ASSUME NEW c \in Calls, Begin(c) \/ OpenFirst(c) \/ OpenAgain(c) PROVE Still
  BY <1>1 DEF Begin, OpenFirst, OpenAgain
<1>2. ASSUME NEW l \in Logins, LoginFails(l) \/ LoginAnswers(l) PROVE Still
  BY <1>2 DEF LoginFails, LoginAnswers
<1>3. ASSUME NEW s \in Sessions, Connecting(s) \/ Return(s), ~Opening(s) PROVE Still
  BY <1>3
  DEF Connecting, FetchFails, FetchTraffic, AnswerFails, AnswerNames, ConnectSsl, Handshake,
      GetPrivateIp, ConnectHttp, ConnectFails, OpenTun, OpenTunFails, CheckGateway, Return
<1>4. ASSUME NEW s \in Sessions, SettingUp(s) \/ Round(s) \/ CleaningUp(s) PROVE Still
  BY <1>4
  DEF SettingUp, AddHostRoute, AddOwnRoute, ChangeRoute, AddFallbackRoute, Announce, Enter,
      Round, LoopHead, LoopRound, LoopStops, RoundEnds, ReportTraffic, LoopBreaks,
      CleaningUp, CloseConnection, CloseTun, Leave, DeleteHostRoute, DeleteDefaultRoute,
      AddGatewayRoute
<1>5. CASE StopVpn \/ TakePosted \/ UNCHANGED netVars
  BY <1>5 DEF StopVpn, TakePosted, netVars
<1>6. QED
  BY <1>1, <1>2, <1>3, <1>4, <1>5 DEF NetNext, SessionStep, LoginStep, Opening

\* Until the gateway is known no session touches the default route.
LEMMA RouteStays ==
  ASSUME NetTypeOK, GatewayRead, ~forgot, gateway # "known", [NetNext]_netVars
  PROVE  defaultRoute' = defaultRoute
<1>0. \A s \in Sessions : pc[s] \notin {"hostroute", "default"} /\ s \notin Routing
  BY DEF GatewayRead
<1>1. CASE \/ \E c \in Calls : Begin(c)
           \/ \E l \in Logins : LoginStep(l)
           \/ \E s \in Sessions : Connecting(s) \/ Return(s)
  BY <1>1, RoutesAlone DEF routes
<1>2. ASSUME NEW s \in Sessions, SettingUp(s) PROVE defaultRoute' = defaultRoute
  BY <1>0, <1>2 DEF SettingUp, AddHostRoute, AddOwnRoute, ChangeRoute, AddFallbackRoute, Announce,
                    Enter, Goes, Routing
<1>3. ASSUME NEW s \in Sessions, Round(s) \/ CleaningUp(s) PROVE defaultRoute' = defaultRoute
  BY <1>0, <1>3
  DEF Round, LoopHead, LoopRound, LoopStops, RoundEnds, ReportTraffic, LoopBreaks,
      CleaningUp, CloseConnection, CloseTun, Leave, DeleteHostRoute, DeleteDefaultRoute,
      AddGatewayRoute, Goes, Routing
<1>4. CASE StopVpn \/ TakePosted \/ UNCHANGED netVars
  BY <1>4 DEF StopVpn, TakePosted, netVars, routes
<1>5. QED
  BY <1>1, <1>2, <1>3, <1>4 DEF NetNext, SessionStep

\* A call that loads a gateway where none was known loads it on a machine that is on
\* it, and until then the file stays true.
LEMMA GatewayLearned ==
  ASSUME NetTypeOK, GatewayRead, FileTrue, gateway # "known", [NetNext]_netVars
  PROVE  /\ gateway' = "known" => RouteReturns'
         /\ FileTrue'
<1> USE DEF NetTypeOK, Goes
<1>0. ~forgot' => ~forgot
  BY ForgotStays
<1>1. ~forgot => defaultRoute' = defaultRoute
  BY RouteStays
<1>2. ASSUME NEW c \in Calls, BeginInit(c) PROVE gateway' = gateway /\ FileTrue'
  BY <1>2 DEF BeginInit, FileTrue
<1>3. ASSUME NEW c \in Calls, WriteGateway(c) PROVE gateway' = gateway /\ FileTrue'
  BY <1>0, <1>1, <1>3 DEF WriteGateway, FileTrue
<1>4. ASSUME NEW c \in Calls, LoadGateway(c)
      PROVE  (gateway' = "known" => RouteReturns') /\ FileTrue'
  <2>1. gateway' = gatewayFile /\ gatewayFile' = gatewayFile /\ pc[c] = "load"
    BY <1>4 DEF LoadGateway
  <2>2. gatewayFile = "known" /\ ~forgot' => defaultRoute' = Gateway
    BY <1>0, <1>1, <2>1 DEF FileTrue
  <2>3. QED
    BY <2>1, <2>2 DEF FileTrue, RouteReturns, None, Gateway
<1>5. CASE /\ UNCHANGED <<gatewayFile, gateway>>
           /\ \A c \in Calls : pc'[c] \in {"write", "load"} => pc[c] \in {"write", "load"}
  BY <1>0, <1>1, <1>5 DEF FileTrue
<1>6. QED
  BY <1>2, <1>3, <1>4, <1>5, FileSteps

\* A known gateway is lost only by forgetting it.
LEMMA GatewayLost ==
  ASSUME NetTypeOK, gateway = "known", [NetNext]_netVars, gateway' # "known"
  PROVE  forgot'
<1>1. ASSUME NEW c \in Calls, BeginInit(c) \/ WriteGateway(c) \/ LoadGateway(c) PROVE forgot'
  BY <1>1 DEF BeginInit, WriteGateway, LoadGateway
<1>2. QED
  BY <1>1, FileSteps

\* A step of a thread keeps the invariant, beside the handler as well.
LEMMA RouteInvRuns ==
  ASSUME AppTypes, RouteInv, [NetNext]_netVars,
         process # "ended", process' = process,
         process # "up" /\ ~raced' => ~raced /\ UNCHANGED <<defaultRoute, gateway>>
  PROVE  RouteInv'
<1>0. NetTypeOK
  BY DEF AppTypes, AppTypeOK, TypeOK
<1>1. GatewayRead'
  BY <1>0, GatewayReadStep DEF RouteInv
<1>2. process = "up" /\ gateway' # "known" => FileTrue'
  <2>1. CASE gateway = "known"
    BY <1>0, <2>1, GatewayLost DEF FileTrue
  <2>2. CASE gateway # "known"
    BY <1>0, <2>2, GatewayLearned DEF RouteInv
  <2>3. QED
    BY <2>1, <2>2
<1>3. process = "up" /\ gateway' = "known" => RouteReturns'
  <2>1. CASE gateway = "known"
    BY <1>0, <2>1, RouteReturnsStep DEF RouteInv
  <2>2. CASE gateway # "known"
    BY <1>0, <2>2, GatewayLearned DEF RouteInv
  <2>3. QED
    BY <2>1, <2>2
<1>4. process \in {"delete", "add"} /\ ~raced' => gateway' = "known"
  BY DEF RouteInv
<1>5. process = "add" /\ ~raced' => defaultRoute' = None
  BY DEF RouteInv
<1>6. process = "exit" /\ gateway' = "known" /\ ~raced' => defaultRoute' = Gateway
  BY DEF RouteInv
<1>7. QED
  BY <1>1, <1>2, <1>3, <1>4, <1>5, <1>6 DEF RouteInv

\* The handler's two commands keep it.
LEMMA RouteInvHandler ==
  ASSUME AppTypes, RouteInv, HandlerDeletes \/ HandlerAdds
  PROVE  RouteInv'
<1>0. gateway' = gateway /\ raced' = raced /\ (~raced => gateway = "known")
  BY HandlerSteps DEF RouteInv, config
<1>1. GatewayRead'
  BY <1>0, HandlerSteps DEF RouteInv, GatewayRead, Routing, config
<1>2. process' = "add" /\ ~raced' => defaultRoute' = None
  BY HandlerSteps
<1>3. process' = "exit" /\ ~raced' => defaultRoute' = Gateway
  BY <1>0, HandlerSteps DEF RouteInv, GatewayAdded
<1>4. process' \in {"add", "exit"}
  BY HandlerSteps
<1>5. QED
  BY <1>0, <1>1, <1>2, <1>3, <1>4 DEF RouteInv

\* With no session that holds it, a process that knows its gateway and has never lost
\* it is on it.
LEMMA UpOnGateway ==
  ASSUME AppTypes, RouteInv, process = "up", gateway = "known", ~forgot, Routing = {}
  PROVE  defaultRoute = Gateway
  BY OnGateway DEF AppTypes, AppTypeOK, TypeOK, RouteInv, RouteReturns

\* Every step keeps the invariant of the default route.
LEMMA RouteInvStep ==
  ASSUME AppTypes, RouteInv, [AppNext]_appVars
  PROVE  RouteInv'
<1>1. CASE /\ process # "ended" /\ UNCHANGED <<process, stranded>> /\ [Next]_vars
           /\ process # "up" /\ ~raced' => ~raced /\ UNCHANGED <<defaultRoute, gateway>>
  BY <1>1, StepUsesService, RouteInvRuns DEF AppTypes, AppTypeOK, TypeOK
<1>2. CASE HandlerDeletes \/ HandlerAdds
  BY <1>2, RouteInvHandler
<1>3. CASE UNCHANGED appVars \/ Interrupt \/ Relaunch
  <2>1. UNCHANGED <<pc, gateway, gatewayFile, forgot, defaultRoute>>
    BY <1>3 DEF Interrupt, Relaunch, appVars, vars, netVars, config, routes
  <2>2. GatewayRead' /\ (RouteReturns' <=> RouteReturns) /\ (FileTrue' <=> FileTrue)
    BY <2>1 DEF RouteInv, GatewayRead, RouteReturns, FileTrue, Routing
  <2>4. CASE UNCHANGED appVars
    BY <2>1, <2>2, <2>4 DEF RouteInv, appVars, processVars
  <2>5. CASE Interrupt
    <3>1. process = "up" /\ process' = (IF gateway = "known" THEN "delete" ELSE "exit")
      BY <2>5 DEF Interrupt
    <3>2. QED
      BY <2>1, <2>2, <3>1 DEF RouteInv
  <2>6. CASE Relaunch
    <3>1. process' = "up" /\ gateway = "unread" /\ \A c \in Calls : pc[c] = "idle"
      BY <2>6 DEF Relaunch, RouteInv
    <3>2. FileTrue
      BY <3>1 DEF FileTrue
    <3>3. QED
      BY <2>1, <2>2, <3>1, <3>2 DEF RouteInv
  <2>7. QED
    BY <1>3, <2>4, <2>5, <2>6
<1>4. CASE Die
  <2>1. pc' = [c \in Calls |-> "idle"] /\ gateway' = "unread"
    BY <1>4 DEF Die, Forgotten
  <2>2. \A c \in Calls : pc'[c] = "idle"
    BY <2>1
  <2>3. GatewayRead'
    BY <2>1, <2>2, CallsAre DEF GatewayRead, Routing
  <2>4. process' = "ended"
    BY <1>4 DEF Die
  <2>5. QED
    BY <2>1, <2>2, <2>3, <2>4 DEF RouteInv
<1>5. QED
  BY <1>1, <1>2, <1>3, <1>4, AppSteps

\* The invariant holds before the first click.
LEMMA RouteInvInit == AppInit => RouteInv
<1> SUFFICES ASSUME AppInit PROVE RouteInv
  OBVIOUS
<1>1. NetInit /\ process = "up"
  BY DEF AppInit, Init
<1>2. GatewayRead /\ RouteReturns /\ FileTrue
  BY <1>1, CallsAre DEF NetInit, GatewayRead, RouteReturns, FileTrue, Routing, None, Gateway
<1>3. QED
  BY <1>1, <1>2 DEF RouteInv

\* The inductive invariant of the process.
LEMMA RouteInvariant == AppSpec => [](AppTypes /\ RouteInv)
<1>1. AppTypes /\ RouteInv /\ [AppNext]_appVars => AppTypes' /\ RouteInv'
  BY AppTypesStep, RouteInvStep
<1>2. QED
  BY <1>1, AppTypesInit, RouteInvInit, PTL DEF AppSpec

\* However its predecessors ended and whoever runs init, a process that knows a gateway,
\* and has never overwritten one with nothing, is on it when none of its sessions holds
\* the default route.
THEOREM ProcessIsOnGateway == AppSpec => []RouteOrNoGateway
<1>1. AppTypes /\ RouteInv => RouteOrNoGateway
  BY UpOnGateway DEF RouteOrNoGateway
<1>2. QED
  BY <1>1, RouteInvariant, PTL

\* The handler of SIGINT restores the default route from wherever the sessions are, if no
\* thread changes the route or loads the gateway beside it.
THEOREM InterruptRestores == AppSpec => []InterruptRestoresRoute
<1>1. AppTypes /\ RouteInv => InterruptRestoresRoute
  BY DEF RouteInv, InterruptRestoresRoute
<1>2. QED
  BY <1>1, RouteInvariant, PTL

-----------------------------------------------------------------------------
(* A user who waits: one session at a time, and what it leaves behind.     *)

Resting == {"idle", "done"}

\* The session that runs or is about to, of which there is at most one.
Busy == {s \in Sessions : pc[s] \notin Resting} \cup (queued \cap Sessions)

OneBusy == \A s, t \in Busy : s = t

\* The globals name the connection and the utun of the session that has them open.
TidyOf(s) ==
  /\ pc[s] \in {"idle", "open", "init", "write", "load", "fetch", "answer", "connect",
               "handshake", "untun", "unflag", "unhost", "undefault", "regateway"}
       => <<s, "server">> \notin fds
  /\ pc[s] \in {"idle", "open", "init", "write", "load", "fetch", "answer", "connect",
               "handshake", "address", "tun", "unflag", "unhost", "undefault", "regateway"}
       => <<s, "tun">> \notin fds
  /\ pc[s] = "handshake" => protocol = "ssl"
  /\ pc[s] \in {"address", "tun", "gateway", "hostroute", "default", "change", "fallback",
               "announce", "enter", "run", "carry", "close"} =>
       /\ protocol \in {"ssl", "http"}
       /\ <<s, "server">> \in fds =>
            (IF protocol = "ssl" THEN serverFd ELSE clientSock) = <<s, "server">>
  /\ pc[s] \in {"gateway", "hostroute", "default", "change", "fallback", "announce", "enter",
               "run", "carry", "close", "untun"} => tunDev = <<s, "tun">>

Tidy == \A s \in Sessions : TidyOf(s)

\* A host route that no death has left behind is the one of the session that is
\* between making it and deleting it, as long as no init has forgotten the gateway.
Hosting == {s \in Sessions : pc[s] \in {"default", "change", "fallback", "announce", "enter",
                                       "run", "carry", "close", "untun", "unflag", "unhost"}}
HostOwned ==
  ~forgot => \A v \in hostRoutes : v \in stranded \/ (v = target /\ Hosting # {})

\* A user who waits starts no session beside another.
LEMMA OneBusyStep ==
  ASSUME Patient, NetTypeOK, OneBusy, [Next]_vars
  PROVE  OneBusy'
<1> USE CallsAre DEF OneBusy, Busy, Resting, NetTypeOK, Goes
<1>1. CASE ClickOn
  BY <1>1 DEF ClickOn, Settled, netVars
<1>2. CASE ClickOff \/ CloseRunning \/ CloseIdle \/ QuitDone
                   \/ (\E l \in Logins : ClickLogin(l))
  BY <1>2, ZenonT(60) DEF ClickOff, CloseRunning, CloseIdle, ClickLogin, QuitDone, StopVpn, netVars
<1>3. CASE HandlePosted
  BY <1>3 DEF HandlePosted, TakePosted
<1>4. ASSUME NEW s \in Sessions, BlockBegins(s) PROVE OneBusy'
  BY <1>4 DEF BlockBegins, Begin
<1>5. ASSUME NEW s \in Sessions, BlockRuns(s) PROVE OneBusy'
  <2>1. pc[s] \notin Resting /\ \A t \in Sessions \ {s} : pc'[t] = pc[t]
    BY <1>5
    DEF BlockRuns, SessionStep, Connecting, Opening, OpenFirst, OpenAgain, BeginInit,
        WriteGateway, LoadGateway, FetchFails, FetchTraffic, AnswerFails, AnswerNames,
        ConnectSsl, Handshake, GetPrivateIp, ConnectHttp, ConnectFails, OpenTun, OpenTunFails,
        CheckGateway, SettingUp, AddHostRoute, AddOwnRoute, ChangeRoute, AddFallbackRoute,
        Announce, Enter, Round, LoopHead, LoopRound, LoopStops, RoundEnds, ReportTraffic,
        LoopBreaks, CleaningUp, CloseConnection, CloseTun, Leave, DeleteHostRoute,
        DeleteDefaultRoute, AddGatewayRoute
  <2>2. queued' = queued
    BY <1>5 DEF BlockRuns, uiVars
  <2>3. QED
    BY <2>1, <2>2
<1>6. ASSUME NEW s \in Sessions, BlockEnds(s) PROVE OneBusy'
  BY <1>6 DEF BlockEnds, Return
<1>7. ASSUME NEW l \in Logins, LoginBegins(l) PROVE OneBusy'
  BY <1>7 DEF LoginBegins, Begin
<1>8. ASSUME NEW l \in Logins, LoginRuns(l) PROVE OneBusy'
  <2>1. \A t \in Sessions : pc'[t] = pc[t]
    BY <1>8 DEF LoginRuns, LoginStep, Opening, OpenFirst, OpenAgain, BeginInit, WriteGateway,
                LoadGateway, LoginFails, LoginAnswers
  <2>2. queued' = queued
    BY <1>8 DEF LoginRuns, uiVars
  <2>3. QED
    BY <2>1, <2>2
<1>9. CASE UNCHANGED vars
  BY <1>9 DEF vars, netVars, uiVars
<1>10. QED
  BY <1>1, <1>2, <1>3, <1>4, <1>5, <1>6, <1>7, <1>8, <1>9 DEF Next, User

\* What two calls open has two names.
LEMMA NamesDiffer ==
  /\ \A c, d \in Calls, a, b \in Roles : <<c, a>> = <<d, b>> => c = d /\ a = b
  /\ \A c \in Calls, a \in Roles : <<c, a>> # None
  BY DEF None

\* A session that is alone keeps its own connection and utun where the globals name
\* them.
LEMMA TidyOwnStep ==
  ASSUME NetTypeOK, Tidy, NEW s \in Sessions, SessionStep(s) \/ Return(s)
  PROVE  TidyOf(s)'
<1> USE CallsAre, NamesDiffer DEF TidyOf, NetTypeOK, Goes, Roles
<1>0. TidyOf(s)
  BY DEF Tidy
<1>1. CASE Opening(s)
  BY <1>0, <1>1 DEF Opening, OpenFirst, OpenAgain, BeginInit, WriteGateway, LoadGateway, link
<1>2. CASE FetchFails(s) \/ FetchTraffic(s) \/ AnswerFails(s) \/ AnswerNames(s)
  BY <1>0, <1>2 DEF FetchFails, FetchTraffic, AnswerFails, AnswerNames, link
<1>3. CASE ConnectSsl(s)
  BY <1>0, <1>3 DEF ConnectSsl
<1>4. CASE Handshake(s)
  BY <1>0, <1>4 DEF Handshake
<1>5. CASE ConnectHttp(s) \/ ConnectFails(s) \/ GetPrivateIp(s)
  BY <1>0, <1>5 DEF ConnectHttp, ConnectFails, GetPrivateIp, link
<1>6. CASE OpenTun(s) \/ OpenTunFails(s) \/ CheckGateway(s)
  BY <1>0, <1>6 DEF OpenTun, OpenTunFails, CheckGateway, link
<1>7. CASE SettingUp(s)
  BY <1>0, <1>7 DEF SettingUp, AddHostRoute, AddOwnRoute, ChangeRoute, AddFallbackRoute,
                    Announce, Enter, link
<1>8. CASE Round(s)
  BY <1>0, <1>8 DEF Round, LoopHead, LoopRound, LoopStops, RoundEnds, ReportTraffic, LoopBreaks,
                    link
<1>9. CASE CloseConnection(s)
  BY <1>0, <1>9 DEF CloseConnection
<1>13. CASE CloseTun(s) \/ Leave(s)
  BY <1>0, <1>13 DEF CloseTun, Leave, link
<1>10. CASE DeleteHostRoute(s) \/ DeleteDefaultRoute(s) \/ AddGatewayRoute(s)
  BY <1>0, <1>10 DEF DeleteHostRoute, DeleteDefaultRoute, AddGatewayRoute, link
<1>11. CASE Return(s)
  BY <1>0, <1>11 DEF Return, link
<1>12. QED
  BY <1>1, <1>2, <1>3, <1>4, <1>5, <1>6, <1>7, <1>8, <1>9, <1>10, <1>11, <1>13
  DEF SessionStep, Connecting, CleaningUp

\* A session's step opens nothing in the name of another.
LEMMA OthersOpenNothing ==
  ASSUME NetTypeOK, NEW s \in Sessions, SessionStep(s) \/ Return(s), NEW t \in Sessions \ {s}
  PROVE  /\ pc'[t] = pc[t]
         /\ \A role \in Roles : <<t, role>> \notin fds => <<t, role>> \notin fds'
<1> USE CallsAre, NamesDiffer DEF NetTypeOK, Goes, Roles
<1>1. CASE Opening(s)
  BY <1>1 DEF Opening, OpenFirst, OpenAgain, BeginInit, WriteGateway, LoadGateway
<1>2. CASE Connecting(s) /\ ~Opening(s)
  BY <1>2 DEF Connecting, FetchFails, FetchTraffic, AnswerFails, AnswerNames, ConnectSsl,
              Handshake, GetPrivateIp, ConnectHttp, ConnectFails, OpenTun, OpenTunFails,
              CheckGateway
<1>3. CASE SettingUp(s) \/ Round(s) \/ Return(s)
  BY <1>3 DEF SettingUp, AddHostRoute, AddOwnRoute, ChangeRoute, AddFallbackRoute, Announce,
              Enter, Round, LoopHead, LoopRound, LoopStops, RoundEnds, ReportTraffic, LoopBreaks,
              Return
<1>4. CASE CleaningUp(s)
  BY <1>4 DEF CleaningUp, CloseConnection, CloseTun, Leave, DeleteHostRoute, DeleteDefaultRoute,
              AddGatewayRoute
<1>5. QED
  BY <1>1, <1>2, <1>3, <1>4 DEF SessionStep

\* A session takes a step only when every other one rests.
LEMMA OthersRest ==
  ASSUME NetTypeOK, OneBusy, NEW s \in Sessions, SessionStep(s) \/ Return(s),
         NEW t \in Sessions \ {s}
  PROVE  pc[t] \in Resting
<1>1. pc[s] \notin Resting
  BY CallsAre
  DEF NetTypeOK, Goes, Resting, SessionStep, Connecting, Opening, OpenFirst, OpenAgain, BeginInit,
      WriteGateway, LoadGateway, FetchFails, FetchTraffic, AnswerFails, AnswerNames,
      ConnectSsl, Handshake, GetPrivateIp, ConnectHttp, ConnectFails, OpenTun, OpenTunFails,
      CheckGateway, SettingUp, AddHostRoute, AddOwnRoute, ChangeRoute, AddFallbackRoute,
      Announce, Enter, Round, LoopHead, LoopRound, LoopStops, RoundEnds, ReportTraffic,
      LoopBreaks, CleaningUp, CloseConnection, CloseTun, Leave, DeleteHostRoute,
      DeleteDefaultRoute, AddGatewayRoute, Return
<1>2. QED
  BY <1>1 DEF OneBusy, Busy

\* Every step of the service keeps the globals in the name of the one session.
LEMMA TidyStep ==
  ASSUME NetTypeOK, OneBusy, Tidy, [NetNext]_netVars
  PROVE  Tidy'
<1>1. ASSUME NEW s \in Sessions, SessionStep(s) \/ Return(s) PROVE Tidy'
  <2>1. TidyOf(s)'
    BY <1>1, TidyOwnStep
  <2>2. ASSUME NEW t \in Sessions \ {s} PROVE TidyOf(t)'
    <3>1. pc[t] \in Resting
      BY <1>1, OthersRest
    <3>2. /\ pc'[t] = pc[t]
          /\ \A role \in Roles : <<t, role>> \notin fds => <<t, role>> \notin fds'
      BY <1>1, OthersOpenNothing
    <3>3. TidyOf(t)
      BY DEF Tidy
    <3>4. QED
      BY <3>1, <3>2, <3>3 DEF TidyOf, Resting, Roles
  <2>3. QED
    BY <2>1, <2>2 DEF Tidy
<1>2. ASSUME NEW c \in Calls, Begin(c) PROVE Tidy'
  BY <1>2, CallsAre DEF Tidy, TidyOf, Begin, Goes, NetTypeOK, link
<1>3. ASSUME NEW l \in Logins, LoginStep(l) PROVE Tidy'
  <2>1. UNCHANGED link /\ \A t \in Sessions : pc'[t] = pc[t]
    BY <1>3, CallsAre
    DEF LoginStep, Opening, OpenFirst, OpenAgain, BeginInit, WriteGateway, LoadGateway,
        LoginFails, LoginAnswers, Goes, NetTypeOK
  <2>2. fds' \in {fds, fds \cup {<<l, "web">>}}
    BY <1>3 DEF LoginStep, Opening, OpenFirst, OpenAgain, BeginInit, WriteGateway, LoadGateway,
                LoginFails, LoginAnswers
  <2>3. \A t \in Sessions : <<t, "server">> # <<l, "web">> /\ <<t, "tun">> # <<l, "web">>
    BY CallsAre, NamesDiffer DEF Roles
  <2>4. QED
    BY <2>1, <2>2, <2>3 DEF Tidy, TidyOf, link
<1>4. CASE StopVpn \/ TakePosted \/ UNCHANGED netVars
  BY <1>4 DEF StopVpn, TakePosted, netVars, link, Tidy, TidyOf
<1>5. QED
  BY <1>1, <1>2, <1>3, <1>4 DEF NetNext

\* A session that is alone deletes the host route it has made.
LEMMA HostOwnedStep ==
  ASSUME NetTypeOK, GatewayRead, OneBusy, HostOwned, [NetNext]_netVars, stranded' = stranded
  PROVE  HostOwned'
<1> USE CallsAre DEF HostOwned, Hosting, NetTypeOK, Goes
<1>0. forgot => forgot'
  BY ForgotStays
<1>1. ASSUME NEW s \in Sessions, SessionStep(s) \/ Return(s) PROVE HostOwned'
  <2>1. \A t \in Sessions \ {s} : pc[t] \in Resting /\ pc'[t] = pc[t]
    BY <1>1, OthersRest, OthersOpenNothing
  <2>2. CASE Opening(s)
    BY <1>0, <2>1, <2>2 DEF Opening, OpenFirst, OpenAgain, BeginInit, WriteGateway, LoadGateway, link,
                      routes
  <2>3. CASE AnswerNames(s)
    BY <1>0, <2>1, <2>3 DEF AnswerNames, routes, Resting
  <2>4. CASE Connecting(s) /\ ~Opening(s) /\ ~AnswerNames(s)
    BY <1>0, <2>1, <2>4 DEF Connecting, FetchFails, FetchTraffic, AnswerFails, ConnectSsl, Handshake,
                      GetPrivateIp, ConnectHttp, ConnectFails, OpenTun, OpenTunFails,
                      CheckGateway, link, routes
  <2>5. CASE AddHostRoute(s)
    BY <1>0, <2>1, <2>5 DEF AddHostRoute, link
  <2>6. CASE SettingUp(s) /\ ~AddHostRoute(s)
    BY <1>0, <2>1, <2>6 DEF SettingUp, AddOwnRoute, ChangeRoute, AddFallbackRoute, Announce, Enter,
                      link, routes
  <2>7. CASE Round(s) \/ Return(s)
    BY <1>0, <2>1, <2>7 DEF Round, LoopHead, LoopRound, LoopStops, RoundEnds, ReportTraffic, LoopBreaks,
                      Return, link, routes
  <2>8. CASE CloseConnection(s) \/ CloseTun(s) \/ Leave(s) \/ DeleteDefaultRoute(s)
               \/ AddGatewayRoute(s)
    BY <1>0, <2>1, <2>8 DEF CloseConnection, CloseTun, Leave, DeleteDefaultRoute, AddGatewayRoute, link,
                      routes
  <2>9. CASE DeleteHostRoute(s)
    <3>1. ~forgot => gateway = "known"
      BY <2>9 DEF DeleteHostRoute, GatewayRead, Routing
    <3>2. ~forgot => hostRoutes' = hostRoutes \ {target} /\ target' = target
      BY <2>9, <3>1 DEF DeleteHostRoute, link
    <3>3. ~forgot => \A v \in hostRoutes' : v \in stranded
      BY <3>2
    <3>4. QED
      BY <1>0, <3>3
  <2>10. QED
    BY <1>1, <2>2, <2>3, <2>4, <2>5, <2>6, <2>7, <2>8, <2>9 DEF SessionStep, CleaningUp
<1>2. ASSUME NEW c \in Calls, Begin(c) PROVE HostOwned'
  BY <1>0, <1>2 DEF Begin, link, routes
<1>3. ASSUME NEW l \in Logins, LoginStep(l) PROVE HostOwned'
  <2>1. UNCHANGED <<link, routes>> /\ \A t \in Sessions : pc'[t] = pc[t]
    BY <1>3 DEF LoginStep, Opening, OpenFirst, OpenAgain, BeginInit, WriteGateway, LoadGateway,
                LoginFails, LoginAnswers
  <2>2. QED
    BY <1>0, <2>1 DEF link, routes
<1>4. CASE StopVpn \/ TakePosted \/ UNCHANGED netVars
  BY <1>0, <1>4 DEF StopVpn, TakePosted, netVars, link, routes
<1>5. QED
  BY <1>1, <1>2, <1>3, <1>4 DEF NetNext

\* What a user who waits can rely on.
OneAtATime == OneBusy /\ Tidy

\* It holds of the first process before the first click, and of no session at all.
LEMMA OneAtATimeInit == AppInit => OneAtATime /\ HostOwned
<1> SUFFICES ASSUME AppInit PROVE OneAtATime /\ HostOwned
  OBVIOUS
<1>1. /\ \A s \in Sessions : pc[s] = "idle"
      /\ fds = {} /\ queued = {} /\ hostRoutes = {}
  BY CallsAre DEF AppInit, Init, NetInit
<1>2. QED
  BY <1>1 DEF OneAtATime, OneBusy, Busy, Resting, Tidy, TidyOf, HostOwned

\* The end of the process leaves no session and no descriptor, and every host route
\* it had made to its successors.
LEMMA OneAtATimeDies == ASSUME Die PROVE OneAtATime' /\ HostOwned'
<1>1. pc' = [c \in Calls |-> "idle"] /\ fds' = {} /\ queued' = {} /\ hostRoutes' = stranded'
  BY DEF Die, Forgotten
<1>2. \A s \in Sessions : pc'[s] = "idle"
  BY <1>1, CallsAre
<1>3. OneBusy'
  BY <1>1, <1>2 DEF OneBusy, Busy, Resting
<1>4. Tidy'
  BY <1>1, <1>2 DEF Tidy, TidyOf
<1>5. HostOwned'
  BY <1>1 DEF HostOwned
<1>6. QED
  BY <1>3, <1>4, <1>5 DEF OneAtATime

\* Interrupts and starts leave the sessions alone.
LEMMA OneAtATimeStays ==
  ASSUME UNCHANGED <<pc, forgot, link, fds, hostRoutes, queued, stranded>>
  PROVE  /\ OneAtATime => OneAtATime'
         /\ HostOwned => HostOwned'
  BY DEF OneAtATime, OneBusy, Busy, Resting, Tidy, TidyOf, HostOwned, Hosting, link

\* Every step of the process keeps one session at a time and the globals its own.
LEMMA OneAtATimeStep ==
  ASSUME Patient, AppTypes, OneAtATime, [AppNext]_appVars
  PROVE  OneAtATime'
<1>1. CASE process # "ended" /\ UNCHANGED <<process, stranded>> /\ [Next]_vars
  BY <1>1, StepUsesService, OneBusyStep, TidyStep DEF AppTypes, AppTypeOK, TypeOK, OneAtATime
<1>2. CASE HandlerDeletes \/ HandlerAdds
  BY <1>2, HandlerSteps, OneAtATimeStays DEF uiVars, config
<1>3. CASE UNCHANGED appVars \/ Interrupt
  BY <1>3, OneAtATimeStays
  DEF Interrupt, appVars, processVars, vars, netVars, uiVars, routes, config
<1>4. CASE Relaunch
  BY <1>4, OneAtATimeStays DEF Relaunch, vars, netVars, uiVars, routes, config
<1>5. CASE Die
  BY <1>5, OneAtATimeDies
<1>6. QED
  BY <1>1, <1>2, <1>3, <1>4, <1>5, AppSteps

\* Every step of the process keeps a host route accounted for.
LEMMA HostOwnedAppStep ==
  ASSUME AppTypes, RouteInv, OneAtATime, HostOwned, [AppNext]_appVars
  PROVE  HostOwned'
<1>1. CASE process # "ended" /\ UNCHANGED <<process, stranded>> /\ [Next]_vars
  BY <1>1, StepUsesService, HostOwnedStep
  DEF AppTypes, AppTypeOK, TypeOK, OneAtATime, RouteInv
<1>2. CASE HandlerDeletes \/ HandlerAdds
  BY <1>2, HandlerSteps, OneAtATimeStays DEF uiVars, config
<1>3. CASE UNCHANGED appVars \/ Interrupt
  BY <1>3, OneAtATimeStays
  DEF Interrupt, appVars, processVars, vars, netVars, uiVars, routes, config
<1>4. CASE Relaunch
  BY <1>4, OneAtATimeStays DEF Relaunch, vars, netVars, uiVars, routes, config
<1>5. CASE Die
  BY <1>5, OneAtATimeDies
<1>6. QED
  BY <1>1, <1>2, <1>3, <1>4, <1>5, AppSteps

\* Under a user who waits every session that reached the packet loop closes its
\* tunnel and its connection.
THEOREM TunnelIsClosed == ASSUME Patient PROVE AppSpec => []TunnelClosed
<1>1. AppTypes /\ OneAtATime /\ [AppNext]_appVars => AppTypes' /\ OneAtATime'
  BY AppTypesStep, OneAtATimeStep
<1>2. OneAtATime => TunnelClosed
  BY DEF OneAtATime, Tidy, TidyOf, TunnelClosed
<1>3. QED
  BY <1>1, <1>2, AppTypesInit, OneAtATimeInit, PTL DEF AppSpec

\* Under a user who waits only a death of the process leaves a host route behind, or an
\* init that has overwritten a known gateway with nothing.
THEOREM HostRoutesAreRemoved == ASSUME Patient PROVE AppSpec => []HostRoutesRemoved
<1>1. AppTypes /\ RouteInv /\ OneAtATime /\ HostOwned /\ [AppNext]_appVars
        => AppTypes' /\ RouteInv' /\ OneAtATime' /\ HostOwned'
  BY AppTypesStep, RouteInvStep, OneAtATimeStep, HostOwnedAppStep
<1>2. HostOwned => HostRoutesRemoved
  BY CallsAre DEF HostOwned, Hosting, HostRoutesRemoved, Settled
<1>3. QED
  BY <1>1, <1>2, AppTypesInit, RouteInvInit, OneAtATimeInit, PTL DEF AppSpec

\* "not run over" is true for a user who waits: in no process do two sessions run over
\* the same globals.
THEOREM PatientUserHasOneSession == ASSUME Patient PROVE AppSpec => []OneSession
<1>1. AppTypes /\ OneAtATime /\ [AppNext]_appVars => AppTypes' /\ OneAtATime'
  BY AppTypesStep, OneAtATimeStep
<1>2. OneAtATime => OneSession
  <2> SUFFICES ASSUME OneBusy PROVE OneSession
    BY DEF OneAtATime
  <2>1. \A s \in Active : pc[s] \notin Resting
    BY DEF Active, Resting
  <2>2. Active \subseteq Busy
    BY <2>1 DEF Active, Busy
  <2> QED BY <2>2 DEF OneBusy, OneSession
<1>3. QED
  BY <1>1, <1>2, AppTypesInit, OneAtATimeInit, PTL DEF AppSpec

-----------------------------------------------------------------------------
(* The window over the life of the process.                                *)

\* Every step keeps the last word on the sessions; a process that has ended leaves the
\* next a window that is off and no status that waits.
LEMMA LastWordAppStep == ASSUME AppTypes, LastWord, [AppNext]_appVars PROVE LastWord'
<1>1. CASE process # "ended" /\ UNCHANGED <<process, stranded>> /\ [Next]_vars
  BY <1>1, LastWordStep DEF AppTypes, AppTypeOK, TypeOK
<1>2. ASSUME UNCHANGED <<pc, posted, uiVars>> PROVE LastWord'
  BY <1>2 DEF uiVars, LastWord, Active, Off
<1>3. CASE HandlerDeletes \/ HandlerAdds
  BY <1>2, <1>3, HandlerSteps
<1>4. CASE UNCHANGED appVars \/ Interrupt \/ Relaunch
  BY <1>2, <1>4 DEF Interrupt, Relaunch, appVars, processVars, vars, netVars
<1>5. CASE Die
  <2>1. posted' = <<>> /\ Off'
    BY <1>5 DEF Die, Forgotten, Off
  <2>2. 1..Len(posted') = {}
    BY <2>1
  <2> QED BY <2>1, <2>2 DEF LastWord
<1> QED BY <1>1, <1>3, <1>4, <1>5, AppSteps

\* Whatever interrupts, deaths and restarts there are, a window with nothing under way
\* behind it shows a stopped VPN and can start one.
THEOREM WindowRestsInEveryProcess == AppSpec => []WindowSettles
<1>1. AppInit => LastWord
  BY LastWordInit DEF AppInit, Init, NetInit, Off
<1>2. AppTypes /\ LastWord /\ [AppNext]_appVars => AppTypes' /\ LastWord'
  BY AppTypesStep, LastWordAppStep
<1>3. LastWord => WindowSettles
  BY LastWordSettles
<1> QED BY <1>1, <1>2, <1>3, AppTypesInit, PTL DEF AppSpec
=============================================================================
