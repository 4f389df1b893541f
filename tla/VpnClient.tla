----------------------------- MODULE VpnClient ------------------------------
(***************************************************************************)
(* The application: ViewController.swift on the main thread, and the       *)
(* background blocks of switchAction and loginAction around the calls of   *)
(* start_vpn and login.  The service answers through callbacks dispatched  *)
(* to the main queue, so a status reaches the window some time after it    *)
(* was true.                                                               *)
(*                                                                         *)
(* isRun is written by the main thread (in the callback) and by every      *)
(* block (at its start and at its end), without a lock.                    *)
(***************************************************************************)
EXTENDS NetworkService

CONSTANT Patient   \* whether the user waits for the answer to each click

ASSUME PatientAssumption == Patient \in BOOLEAN

VARIABLES
  queued,   \* the calls whose block is dispatched and has not begun
  isRun,    \* isRun
  button,   \* btnSwitch.state
  text,     \* txtSwitch: "VPN Off", "Connecting" or "VPN On"
  window    \* "open", "quitting" in the loop of viewWillDisappear, "closed"

uiVars == <<queued, isRun, button, text, window>>
vars == <<netVars, uiVars>>

UiTypeOK == /\ queued \subseteq Calls
            /\ isRun \in {0, 1}
            /\ button \in {"on", "off"}
            /\ text \in {"VPN Off", "Connecting", "VPN On"}
            /\ window \in {"open", "quitting", "closed"}

TypeOK == NetTypeOK /\ UiTypeOK

Init == /\ NetInit
        /\ queued = {}
        /\ isRun = 0
        /\ button = "off"
        /\ text = "VPN Off"
        /\ window = "open"

\* Sessions whose block has begun and will yet post a status.
Active == {s \in Sessions : pc[s] \notin {"idle", "over", "done"}}

\* Nothing is under way and the window has heard of it.
Settled == /\ queued = {}
           /\ \A c \in Calls : pc[c] \in {"idle", "done"}
           /\ posted = <<>>

-----------------------------------------------------------------------------
(* The main thread.                                                        *)

\* A click on the switch toggles it before switchAction runs.  Switched on
\* while isRun is set, nothing happens but the toggle.
ClickOn == /\ window = "open" /\ button = "off"
           /\ button' = "on"
           /\ IF isRun = 1
                THEN UNCHANGED <<queued, text>>
                ELSE /\ Patient => Settled
                     /\ text' = "Connecting"
                     /\ \E s \in Sessions \ queued : /\ pc[s] = "idle"
                                                     /\ queued' = queued \cup {s}
           /\ UNCHANGED <<netVars, isRun, window>>

\* Fault: the click toggles g_isRun.
ClickToggles == /\ window = "open" /\ button = "on"
                /\ Patient => text = "VPN On"
                /\ button' = "off"
                /\ gIsRun' = ~gIsRun
                /\ UNCHANGED <<pc, config, link, fds, routes, posted>>
                /\ UNCHANGED <<queued, isRun, text, window>>

ClickOff == /\ window = "open" /\ button = "on"
            /\ Patient => text = "VPN On"
            /\ button' = "off"
            /\ StopVpn
            /\ UNCHANGED <<posted, queued, isRun, text, window>>

\* viewWillDisappear: with isRun set it asks for a stop and then holds the main
\* thread, and the main queue, until isRun is cleared.
CloseIdle == /\ window = "open" /\ isRun = 0
             /\ window' = "closed"
             /\ UNCHANGED <<netVars, queued, isRun, button, text>>

CloseRunning == /\ window = "open" /\ isRun = 1
                /\ Patient => text = "VPN On"
                /\ window' = "quitting"
                /\ StopVpn
                /\ UNCHANGED <<posted, queued, isRun, button, text>>

QuitDone == /\ window = "quitting" /\ isRun = 0
            /\ window' = "closed"
            /\ UNCHANGED <<netVars, queued, isRun, button, text>>

\* loginAction by a user who is not logged in.  It waits for nothing: a login
\* that fails is never answered.
ClickLogin(l) == /\ window = "open"
                 /\ pc[l] = "idle" /\ l \notin queued
                 /\ queued' = queued \cup {l}
                 /\ UNCHANGED <<netVars, isRun, button, text, window>>

\* stop_call with status 1 and with status 0.
ShowStopped == /\ text' = "VPN Off"
               /\ isRun' = 0
               /\ button' = "off"
               /\ UNCHANGED gIsRun

ShowStarted == /\ text' = "VPN On"
               /\ button' = "on"
               /\ UNCHANGED <<gIsRun, isRun>>

\* show_traffic, above the day's or the month's limit or below it.
ShowTraffic(over) == /\ gIsRun' = (gIsRun /\ ~over)
                     /\ UNCHANGED <<text, isRun, button>>

\* The main queue runs its oldest block.
HandlePosted ==
  /\ window # "quitting"
  /\ TakePosted
  /\ CASE Head(posted) = "stopped" -> ShowStopped
       [] Head(posted) = "started" -> ShowStarted
       [] Head(posted) = "overquota" -> ShowTraffic(TRUE)
       [] Head(posted) = "traffic" -> ShowTraffic(FALSE)
  /\ UNCHANGED <<queued, window>>

-----------------------------------------------------------------------------
(* The background block of a session and that of a login.                  *)

BlockBegins(s) == /\ s \in queued
                  /\ queued' = queued \ {s}
                  /\ isRun' = 1
                  /\ Begin(s)
                  /\ UNCHANGED <<button, text, window>>

BlockRuns(s) == SessionStep(s) /\ UNCHANGED uiVars

BlockEnds(s) == /\ Return(s)
                /\ isRun' = 0
                /\ UNCHANGED <<queued, button, text, window>>

LoginBegins(l) == /\ l \in queued
                  /\ queued' = queued \ {l}
                  /\ Begin(l)
                  /\ UNCHANGED <<isRun, button, text, window>>

LoginRuns(l) == LoginStep(l) /\ UNCHANGED uiVars

-----------------------------------------------------------------------------
User == \/ ClickOn \/ ClickOff
        \/ \E l \in Logins : ClickLogin(l)
        \/ CloseIdle \/ CloseRunning

Next == \/ User
        \/ QuitDone
        \/ HandlePosted
        \/ \E s \in Sessions : BlockBegins(s) \/ BlockRuns(s) \/ BlockEnds(s)
        \/ \E l \in Logins : LoginBegins(l) \/ LoginRuns(l)

Spec == Init /\ [][Next]_vars

\* The main loop and the dispatch queues run; route commands and closes return, and
\* so does the test at the head of a round.  Nothing is assumed of the user, of the
\* web service and the VPN server, whose sockets have no timeout, of the reads and
\* writes of a round, nor of the end of a session nobody stops.
Fairness == /\ WF_vars(HandlePosted)
            /\ WF_vars(QuitDone)
            /\ \A s \in Sessions :
                 /\ WF_vars(BlockBegins(s))
                 /\ WF_vars(BlockEnds(s))
                 /\ WF_vars(SettingUp(s) /\ UNCHANGED uiVars)
                 /\ WF_vars(LoopHead(s) /\ UNCHANGED uiVars)
                 /\ WF_vars(CleaningUp(s) /\ UNCHANGED uiVars)

FairSpec == Spec /\ Fairness

-----------------------------------------------------------------------------
(* Properties for any user.                                                *)

\* When everything has come to rest the window shows a stopped VPN and lets the
\* user start again, whatever clicks and sessions overlapped.
WindowSettles == Settled => text = "VPN Off" /\ button = "off" /\ isRun = 0

\* The service is used as NetworkService allows.
UsesService == NetSpec

(* For a user who waits.                                                   *)

\* A session that reached the packet loop leaves no tunnel and no connection
\* open behind it.
TunnelClosed == \A s \in Sessions :
                  pc[s] \in {"unhost", "undefault", "regateway"} =>
                    <<s, "tun">> \notin fds /\ <<s, "server">> \notin fds

(* What the application says of itself and does not keep.                  *)

\* "not run over": a session does not start before the last one is over.
OneSession == \A s, t \in Active : s = t

\* "wait for quit...": a window that waits for the end of a running session
\* sees it, unless a read or a write of the session blocks for ever.
QuitEnds == \A s \in Sessions :
              \/ <>[](pc[s] = "carry")
              \/ pc[s] \in {"run", "carry"} /\ window = "quitting" ~> window = "closed"
=============================================================================
