-------------------------- MODULE VpnClientProofs ---------------------------
(***************************************************************************)
(* Safety of VpnClient for any number of sessions and any user: the window *)
(* uses the service as NetworkService allows, and comes to rest with it.   *)
(***************************************************************************)
EXTENDS VpnClient, NetworkServiceProofs

-----------------------------------------------------------------------------
(* Every step of the application is a step of the service or none.         *)

\* A callback clears g_isRun or leaves it, as the service expects of the window.
LEMMA HandlesCallback ==
  ASSUME NetTypeOK, HandlePosted
  PROVE  TakePosted /\ gIsRun' \in {gIsRun, FALSE} /\ posted \in Seq(Callbacks) \ {<<>>}
<1>1. posted \in Seq(Callbacks) \ {<<>>}
  BY DEF NetTypeOK, HandlePosted, TakePosted
<1>2. Head(posted) \in {"started", "stopped", "traffic", "overquota"}
  BY <1>1, HeadTailProperties DEF Callbacks
<1>3. QED
  BY <1>1, <1>2 DEF HandlePosted, ShowStopped, ShowStarted, ShowTraffic

\* Every step of the window and of a block is one of the service or none.
LEMMA StepUsesService ==
  ASSUME NetTypeOK, [Next]_vars
  PROVE  [NetNext]_netVars
<1>1. CASE User
  BY <1>1 DEF User, ClickOn, ClickOff, ClickLogin, CloseIdle, CloseRunning, NetNext, StopVpn
<1>2. CASE QuitDone
  BY <1>2 DEF QuitDone
<1>3. CASE HandlePosted
  BY <1>3, HandlesCallback DEF NetNext
<1>4. ASSUME NEW s \in Sessions, BlockBegins(s) \/ BlockRuns(s) \/ BlockEnds(s)
      PROVE  NetNext
  BY <1>4, CallsAre DEF BlockBegins, BlockRuns, BlockEnds, NetNext
<1>l. ASSUME NEW l \in Logins, LoginBegins(l) \/ LoginRuns(l) PROVE NetNext
  BY <1>l, CallsAre DEF LoginBegins, LoginRuns, NetNext
<1>5. CASE UNCHANGED vars
  BY <1>5 DEF vars
<1>6. QED
  BY <1>1, <1>2, <1>3, <1>4, <1>l, <1>5 DEF Next

\* The service's invariant holds in the application.
LEMMA ServiceInvariant == Spec => []NetInv /\ UsesService
<1>1. Init => NetInit
  BY DEF Init
<1>2. NetInv /\ [Next]_vars => NetInv' /\ [NetNext]_netVars
  <2> SUFFICES ASSUME NetInv, [Next]_vars PROVE NetInv' /\ [NetNext]_netVars
    OBVIOUS
  <2>1. [NetNext]_netVars
    BY StepUsesService DEF NetInv
  <2>2. QED
    BY <2>1, NetInvStep
<1>3. QED
  BY <1>1, <1>2, NetInvInit, PTL DEF Spec, UsesService, NetSpec

\* The application implements the service's specification, so what holds of the
\* service for any application holds in this one.
THEOREM ApplicationUsesService == Spec => UsesService
  BY ServiceInvariant, PTL

\* Whatever the user clicks and closes, a machine without a session that holds
\* the default route is on its own gateway, or without a default route after an
\* init has overwritten a known gateway with nothing.
THEOREM ApplicationRestoresRoute == Spec => []DefaultRouteRestored
<1>1. NetSpec => []DefaultRouteRestored
  BY DefaultRouteIsRestored
<1>2. QED
  BY <1>1, ApplicationUsesService, PTL DEF UsesService

-----------------------------------------------------------------------------
(* Type correctness.                                                       *)

\* The window's variables keep their types.
LEMMA UiTypeStep == ASSUME NetTypeOK, UiTypeOK, [Next]_vars PROVE UiTypeOK'
<1> USE CallsAre DEF UiTypeOK
<1>1. CASE User
  BY <1>1 DEF User, ClickOn, ClickOff, ClickLogin, CloseIdle, CloseRunning
<1>2. CASE QuitDone
  BY <1>2 DEF QuitDone
<1>3. CASE HandlePosted
  <2>1. Head(posted) \in {"started", "stopped", "traffic", "overquota"}
    BY <1>3, HandlesCallback, HeadTailProperties DEF Callbacks
  <2>2. QED
    BY <1>3, <2>1 DEF HandlePosted, ShowStopped, ShowStarted, ShowTraffic
<1>4. ASSUME NEW s \in Sessions, BlockBegins(s) \/ BlockRuns(s) \/ BlockEnds(s)
      PROVE  UiTypeOK'
  BY <1>4 DEF BlockBegins, BlockRuns, BlockEnds, uiVars
<1>l. ASSUME NEW l \in Logins, LoginBegins(l) \/ LoginRuns(l) PROVE UiTypeOK'
  BY <1>l DEF LoginBegins, LoginRuns, uiVars
<1>5. CASE UNCHANGED vars
  BY <1>5 DEF vars, uiVars
<1>6. QED
  BY <1>1, <1>2, <1>3, <1>4, <1>l, <1>5 DEF Next

\* The type invariant of the application.
THEOREM TypeCorrect == Spec => []TypeOK
<1>1. Init => UiTypeOK
  BY DEF Init, UiTypeOK
<1>2. NetInv /\ UiTypeOK /\ [Next]_vars => UiTypeOK'
  BY UiTypeStep DEF NetInv
<1>3. NetInv /\ UiTypeOK => TypeOK
  BY DEF NetInv, TypeOK
<1>4. QED
  BY <1>1, <1>2, <1>3, ServiceInvariant, PTL DEF Spec

-----------------------------------------------------------------------------
(* The window comes to rest.                                               *)

Off == text = "VPN Off" /\ button = "off" /\ isRun = 0

\* WindowSettles strengthened.  Every session's last status is "stopped", so with
\* no session left to post, either the last status waiting is "stopped" or none
\* that could show a running VPN is waiting and the window shows a stopped one.
LastWord ==
  Active = {} /\ queued \cap Sessions = {} =>
    \/ Off /\ \A i \in 1..Len(posted) : posted[i] # "started"
    \/ \E i \in 1..Len(posted) : /\ posted[i] = "stopped"
                                 /\ \A j \in (i + 1)..Len(posted) : posted[j] # "started"

\* A session leaves Active only with a "stopped" at the end of the queue.
LEMMA StoppedIsLast ==
  ASSUME NetTypeOK, NEW s \in Sessions, SessionStep(s), Active' = {}
  PROVE  Len(posted') \in Nat \ {0} /\ posted'[Len(posted')] = "stopped"
<1> USE CallsAre DEF NetTypeOK, Goes, Active
<1>1. pc'[s] \in {"idle", "over", "done"}
  OBVIOUS
<1>2. posted \in Seq(Callbacks)
  OBVIOUS
<1>3. ASSUME Post("stopped")
      PROVE  Len(posted') \in Nat \ {0} /\ posted'[Len(posted')] = "stopped"
  <2>1. "stopped" \in Callbacks
    BY DEF Callbacks
  <2>2. QED
    BY <1>2, <1>3, <2>1, AppendProperties DEF Post
<1>4. CASE Opening(s)
  BY <1>1, <1>4 DEF Opening, OpenFirst, OpenAgain, BeginInit, WriteGateway, LoadGateway
<1>5. CASE Connecting(s) /\ ~Opening(s)
  BY <1>1, <1>3, <1>5
  DEF Connecting, FetchFails, FetchTraffic, AnswerFails, AnswerNames, ConnectSsl, Handshake,
      GetPrivateIp, ConnectHttp, ConnectFails, OpenTun, OpenTunFails, CheckGateway
<1>6. CASE SettingUp(s)
  BY <1>1, <1>6 DEF SettingUp, AddHostRoute, AddOwnRoute, ChangeRoute, AddFallbackRoute, Announce,
                     Enter
<1>7. CASE Round(s)
  BY <1>1, <1>7 DEF Round, LoopHead, LoopRound, LoopStops, RoundEnds, ReportTraffic, LoopBreaks
<1>8. CASE CleaningUp(s)
  BY <1>1, <1>3, <1>8
  DEF CleaningUp, CloseConnection, CloseTun, Leave, DeleteHostRoute, DeleteDefaultRoute,
      AddGatewayRoute
<1>9. QED
  BY <1>4, <1>5, <1>6, <1>7, <1>8 DEF SessionStep

\* A login neither starts nor ends a session and posts no status.
LEMMA LoginPosts ==
  ASSUME NetTypeOK, NEW l \in Logins, LoginStep(l)
  PROVE  /\ Active' = Active
         /\ \/ posted' = posted
            \/ \E m \in {"traffic", "overquota"} : posted' = Append(posted, m)
<1> USE CallsAre DEF NetTypeOK, Goes, Active
<1>1. CASE Opening(l)
  BY <1>1 DEF Opening, OpenFirst, OpenAgain, BeginInit, WriteGateway, LoadGateway
<1>2. CASE LoginFails(l) \/ LoginAnswers(l)
  BY <1>2 DEF LoginFails, LoginAnswers, Post
<1>3. QED
  BY <1>1, <1>2 DEF LoginStep

\* The main thread's handling of the oldest callback keeps LastWord: a callback that
\* is handled is either before the last status or is that status.
LEMMA LastWordHandled ==
  ASSUME NetTypeOK, LastWord, HandlePosted
  PROVE  LastWord'
<1>1. /\ posted \in Seq(Callbacks) /\ posted # <<>> /\ posted' = Tail(posted)
      /\ UNCHANGED <<pc, queued>>
  BY HandlesCallback DEF TakePosted, HandlePosted
<1>2. /\ Len(posted') = Len(posted) - 1 /\ Len(posted) \in Nat \ {0}
      /\ \A i \in 1..Len(posted') : posted'[i] = posted[i + 1]
      /\ Head(posted) = posted[1]
  BY <1>1, HeadTailProperties, EmptySeq
<1>3. Active' = Active /\ (queued \cap Sessions)' = queued \cap Sessions
  BY <1>1 DEF Active
<1>4. SUFFICES ASSUME Active = {}, queued \cap Sessions = {}
               PROVE  \/ Off' /\ \A i \in 1..Len(posted') : posted'[i] # "started"
                      \/ \E i \in 1..Len(posted') :
                           /\ posted'[i] = "stopped"
                           /\ \A j \in (i + 1)..Len(posted') : posted'[j] # "started"
  BY <1>3 DEF LastWord
<1>5. CASE Off /\ \A i \in 1..Len(posted) : posted[i] # "started"
  <2>1. Head(posted) # "started"
    BY <1>2, <1>5
  <2>2. Head(posted) \in {"stopped", "overquota", "traffic"}
    BY <1>1, <2>1, HeadTailProperties DEF Callbacks
  <2>3. Off'
    BY <1>5, <2>2 DEF HandlePosted, ShowStopped, ShowTraffic, Off
  <2>4. QED
    BY <1>2, <1>5, <2>3
<1>6. CASE \E i \in 1..Len(posted) : /\ posted[i] = "stopped"
                                     /\ \A j \in (i + 1)..Len(posted) : posted[j] # "started"
  <2>1. PICK i \in 1..Len(posted) : /\ posted[i] = "stopped"
                                    /\ \A j \in (i + 1)..Len(posted) : posted[j] # "started"
    BY <1>6
  <2>2. CASE i = 1
    <3>1. Off'
      BY <1>2, <2>1, <2>2 DEF HandlePosted, ShowStopped, Off
    <3>2. ASSUME NEW k \in 1..Len(posted') PROVE posted'[k] # "started"
      <4>1. k + 1 \in (i + 1)..Len(posted)
        BY <1>2, <2>2
      <4>2. QED
        BY <1>2, <2>1, <4>1
    <3>3. QED
      BY <3>1, <3>2
  <2>3. CASE i > 1
    <3>1. i - 1 \in 1..Len(posted') /\ posted'[i - 1] = "stopped"
      BY <1>2, <2>1, <2>3
    <3>2. ASSUME NEW j \in ((i - 1) + 1)..Len(posted') PROVE posted'[j] # "started"
      <4>1. j \in 1..Len(posted') /\ j + 1 \in (i + 1)..Len(posted)
        BY <1>2, <2>3
      <4>2. QED
        BY <1>2, <2>1, <4>1
    <3>3. QED
      BY <3>1, <3>2
  <2>4. QED
    BY <2>2, <2>3
<1>7. QED
  BY <1>4, <1>5, <1>6 DEF LastWord

\* Every step keeps: "stopped" is the last status once no session is active, and
\* until then the window is not at rest.
LEMMA LastWordStep ==
  ASSUME TypeOK, LastWord, [Next]_vars
  PROVE  LastWord'
<1>0. NetTypeOK
  BY DEF TypeOK
<1>1. CASE ClickOn
  <2>1. UNCHANGED <<netVars, isRun>>
    BY <1>1 DEF ClickOn
  <2>2. Active' = Active /\ posted' = posted
    BY <2>1 DEF netVars, Active
  <2>3. CASE isRun = 1
    BY <1>1, <2>1, <2>2, <2>3 DEF ClickOn, LastWord, Off
  <2>4. CASE isRun # 1
    BY <1>1, <2>4 DEF ClickOn, LastWord
  <2>5. QED
    BY <2>3, <2>4
<1>2. CASE ClickOff \/ (\E l \in Logins : ClickLogin(l)) \/ CloseIdle \/ CloseRunning \/ QuitDone
  <2>1. /\ UNCHANGED <<pc, posted, text, isRun>>
        /\ queued' \cap Sessions = queued \cap Sessions
        /\ button' \in {button, "off"}
    BY <1>2, CallsAre
    DEF ClickOff, ClickLogin, CloseIdle, CloseRunning, QuitDone, StopVpn, netVars
  <2>2. QED
    BY <2>1, ZenonT(60) DEF LastWord, Active, Off
<1>3. CASE HandlePosted
  BY <1>0, <1>3, LastWordHandled
<1>4. ASSUME NEW s \in Sessions, BlockBegins(s) PROVE LastWord'
  <2>1. s \in Active'
    BY <1>0, <1>4, CallsAre DEF BlockBegins, Begin, Goes, Active, NetTypeOK
  <2>2. QED
    BY <2>1 DEF LastWord
<1>5. ASSUME NEW s \in Sessions, BlockRuns(s) PROVE LastWord'
  <2>1. CASE Active' = {}
    <3>1. Len(posted') \in Nat \ {0} /\ posted'[Len(posted')] = "stopped"
      BY <1>0, <1>5, <2>1, StoppedIsLast DEF BlockRuns
    <3>2. QED
      BY <3>1 DEF LastWord
  <2>2. QED
    BY <2>1 DEF LastWord
<1>6. ASSUME NEW s \in Sessions, BlockEnds(s) PROVE LastWord'
  <2>1. Active' = Active
    BY <1>0, <1>6, CallsAre DEF BlockEnds, Return, Goes, Active, NetTypeOK
  <2>2. UNCHANGED <<posted, queued, text, button>> /\ isRun' = 0
    BY <1>6 DEF BlockEnds, Return
  <2>3. QED
    BY <2>1, <2>2 DEF LastWord, Off
<1>7. ASSUME NEW l \in Logins, LoginBegins(l) PROVE LastWord'
  <2>1. Active' = Active /\ queued' \cap Sessions = queued \cap Sessions
    BY <1>0, <1>7, CallsAre DEF LoginBegins, Begin, Goes, Active, NetTypeOK
  <2>2. UNCHANGED <<posted, text, button, isRun>>
    BY <1>7 DEF LoginBegins, Begin
  <2>3. QED
    BY <2>1, <2>2 DEF LastWord, Off
<1>8. ASSUME NEW l \in Logins, LoginRuns(l) PROVE LastWord'
  <2>1. /\ Active' = Active /\ UNCHANGED uiVars
        /\ \/ posted' = posted
           \/ \E m \in {"traffic", "overquota"} : posted' = Append(posted, m)
    BY <1>0, <1>8, LoginPosts DEF LoginRuns
  <2>2. CASE posted' = posted
    BY <2>1, <2>2 DEF uiVars, LastWord, Off
  <2>3. ASSUME NEW m \in {"traffic", "overquota"}, posted' = Append(posted, m) PROVE LastWord'
    <3>1. m \in Callbacks /\ posted \in Seq(Callbacks)
      BY <1>0 DEF Callbacks, NetTypeOK
    <3>2. /\ Len(posted') = Len(posted) + 1 /\ Len(posted) \in Nat
          /\ \A i \in 1..Len(posted) : posted'[i] = posted[i]
          /\ posted'[Len(posted) + 1] # "started"
      BY <2>3, <3>1, AppendProperties
    <3>3. \A i \in 1..Len(posted') : i \in 1..Len(posted) \/ i = Len(posted) + 1
      BY <3>2
    <3>4. /\ Active' = Active /\ queued' = queued /\ (Off <=> Off')
      BY <2>1 DEF uiVars, Off
    <3>5. CASE Off /\ \A i \in 1..Len(posted) : posted[i] # "started"
      BY <3>2, <3>3, <3>4, <3>5 DEF LastWord
    <3>6. ASSUME NEW i \in 1..Len(posted), posted[i] = "stopped",
                 \A j \in (i + 1)..Len(posted) : posted[j] # "started"
          PROVE  LastWord'
      <4>1. i \in 1..Len(posted') /\ posted'[i] = "stopped"
        BY <3>2, <3>6
      <4>2. ASSUME NEW j \in (i + 1)..Len(posted') PROVE posted'[j] # "started"
        <5>1. j \in 1..Len(posted') /\ (j = Len(posted) + 1 \/ j \in (i + 1)..Len(posted))
          BY <3>2
        <5>2. QED
          BY <3>2, <3>6, <5>1
      <4>3. QED
        BY <4>1, <4>2 DEF LastWord
    <3>7. QED
      BY <3>4, <3>5, <3>6 DEF LastWord
  <2>4. QED
    BY <2>1, <2>2, <2>3
<1>9. CASE UNCHANGED vars
  BY <1>9 DEF vars, netVars, uiVars, LastWord, Active, Off
<1>10. QED
  BY <1>1, <1>2, <1>3, <1>4, <1>5, <1>6, <1>7, <1>8, <1>9 DEF Next, User

\* No status is waiting and the window is off before the first click.
LEMMA LastWordInit == ASSUME posted = <<>>, Off PROVE LastWord
<1>1. 1..Len(posted) = {}
  OBVIOUS
<1>2. QED
  BY <1>1 DEF LastWord

\* With everything at rest the last status has been handled.
LEMMA LastWordSettles == ASSUME LastWord PROVE WindowSettles
<1> SUFFICES ASSUME Settled PROVE Off
  BY DEF WindowSettles, Off
<1>1. Active = {} /\ queued = {} /\ posted = <<>>
  BY CallsAre DEF Settled, Active
<1>2. 1..Len(posted) = {}
  BY <1>1
<1>3. QED
  BY <1>1, <1>2 DEF LastWord

\* However clicks, callbacks, sessions and logins overlap, the window that has handled
\* every callback of every session shows a stopped VPN and can start again.
THEOREM WindowComesToRest == Spec => []WindowSettles
<1>1. Init => LastWord
  BY LastWordInit DEF Init, NetInit, Off
<1>2. NetTypeOK /\ TypeOK /\ LastWord /\ [Next]_vars => LastWord'
  BY LastWordStep
<1>3. LastWord => WindowSettles
  BY LastWordSettles
<1>4. TypeOK => NetTypeOK
  BY DEF TypeOK
<1>5. QED
  BY <1>1, <1>2, <1>3, <1>4, TypeCorrect, PTL DEF Spec
=============================================================================
