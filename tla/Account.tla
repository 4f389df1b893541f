------------------------------ MODULE Account -------------------------------
(***************************************************************************)
(* The quota of a running session: the loop counts what it carries and     *)
(* reports it to the main thread about once a second, show_traffic of      *)
(* ViewController.swift compares the report with the limit of the user's   *)
(* level and calls stop_vpn, and meanwhile the user logs in and out.       *)
(*                                                                         *)
(* Traffic is in kilobytes.  in_traffic + out_traffic has 32 bits, so the  *)
(* counter starts over after Reach of them, 4 GB.  What was used before    *)
(* the session is what the web service has answered to it.  The limits are *)
(* those of the last answer the window has shown, to the session or to a   *)
(* login; a report carries none and leaves the window's as they are.       *)
(***************************************************************************)
EXTENDS EventLoop

CONSTANTS DayLimits, MonthLimits,   \* limits the web service may name, 0 for none
          DayUsed, MonthUsed,       \* g_day_traffic and g_month_traffic
          Reach,                    \* the kilobytes the counter can tell apart
          Burst                     \* bound on the kilobytes between two reports

ASSUME QuotaAssumption == /\ DayLimits \cup MonthLimits \subseteq Nat
                          /\ 0 \in DayLimits \cap MonthLimits
                          /\ {DayUsed, MonthUsed, Burst} \subseteq Nat
                          /\ Reach \in Nat \ {0}

VARIABLES
  level,       \* g_premium: 0 nobody is logged in, 1 a basic user, 2 a premium user
  dayLimit,    \* g_day_limit
  monthLimit,  \* g_month_limit
  counted,     \* (in_traffic + out_traffic) / 1024
  reported,    \* counted when the loop last reported it
  told         \* whether that report is still in the main queue

allowance == <<level, dayLimit, monthLimit>>
quotaVars == <<allowance, counted, reported, told>>
accountVars == <<vars, quotaVars>>

Unreported == (counted + Reach - reported) % Reach

AccountTypeOK == /\ TypeOK
                 /\ level \in 0..2
                 /\ dayLimit \in DayLimits
                 /\ monthLimit \in MonthLimits
                 /\ counted \in 0..(Reach - 1)
                 /\ reported \in 0..(Reach - 1)
                 /\ told \in BOOLEAN

AccountInit == /\ Init
               /\ level \in 0..2
               /\ dayLimit \in DayLimits
               /\ monthLimit \in MonthLimits
               /\ counted = 0
               /\ reported = 0
               /\ told = FALSE

-----------------------------------------------------------------------------
(* The loop.                                                               *)

\* A packet or a record of k kilobytes is counted, before it is sent on.
Count(k) == /\ Unreported + k <= Burst
            /\ counted' = (counted + k) % Reach
            /\ UNCHANGED <<allowance, reported, told>>

Carry == (SendOwn \/ ReceiveData) /\ \E k \in 0..1 : Count(k)

\* trafficCallback dispatches the report.  The bound: the main thread is at most one
\* report behind.
Tell == /\ ~told
        /\ told' = TRUE
        /\ reported' = counted
        /\ UNCHANGED <<allowance, counted>>

\* A round that fails is not reported any more.
LoopStep == \/ Head
            \/ SelectFails \/ SelectTimeout
            \/ \E d \in SUBSET {"tun", "socket"} \ {{}} : SelectReady(d)
            \/ SkipForeign \/ TunReadFails \/ TunBreaks
            \/ ReceiveNothing \/ SocketBreaks \/ ReadCrashes
            \/ TimesOut \/ NextRound

-----------------------------------------------------------------------------
(* The main thread.                                                        *)

\* Fault: a basic user is under neither limit.
OverGuestLimit(traffic) ==
  \/ level < 1 /\ dayLimit # 0 /\ DayUsed + traffic > dayLimit
  \/ level >= 2 /\ monthLimit # 0 /\ MonthUsed + traffic > monthLimit

\* show_traffic's tests.
OverLimit(traffic) ==
  \/ level < 2 /\ dayLimit # 0 /\ DayUsed + traffic > dayLimit
  \/ level >= 2 /\ monthLimit # 0 /\ MonthUsed + traffic > monthLimit

StopAgain == isRun' = 0 /\ UNCHANGED <<pc, protocol, ready, waited, ages>>

\* The block of a report: show_traffic at the level and the limits of by now.
ShowReport == /\ told
              /\ told' = FALSE
              /\ IF OverLimit(reported) THEN StopAgain ELSE UNCHANGED vars
              /\ UNCHANGED <<allowance, counted, reported>>

HasLimit == IF level < 2 THEN dayLimit # 0 ELSE monthLimit # 0

\* The block of a login's answer sets the level and both limits, 0 included, or leaves
\* all three where the login is refused, and shows the traffic of the answer, which is
\* the service's.  The user may have asked several times before the first answer,
\* so one can arrive at any level.  The session's own answer may still wait when the
\* loop begins: what it does, setting the limits that are not 0, is among this.
LoginAnswer == /\ \/ /\ level' \in 0..2
                     /\ dayLimit' \in DayLimits
                     /\ monthLimit' \in MonthLimits
                  \/ UNCHANGED allowance
               /\ UNCHANGED vars \/ (HasLimit' /\ StopAgain)
               /\ UNCHANGED <<counted, reported, told>>

\* loginAction by a user who is logged in logs out at once.
Logout == /\ level # 0
          /\ level' = 0
          /\ UNCHANGED <<vars, dayLimit, monthLimit, counted, reported, told>>

-----------------------------------------------------------------------------
AccountNext == \/ (Tick \/ Stop \/ LoopStep) /\ UNCHANGED quotaVars
               \/ Carry
               \/ Report /\ Tell
               \/ ShowReport
               \/ LoginAnswer
               \/ Logout

AccountSpec == AccountInit /\ [][AccountNext]_accountVars

\* The loop's fairness, and a main thread that runs its queue.
AccountFairness == /\ WF_accountVars(Tick /\ UNCHANGED quotaVars)
                   /\ WF_accountVars(Head /\ UNCHANGED quotaVars)
                   /\ WF_accountVars(SelectTimeout /\ UNCHANGED quotaVars)
                   /\ WF_accountVars(\/ (TimesOut \/ NextRound) /\ UNCHANGED quotaVars
                                     \/ Report /\ Tell)
                   /\ WF_accountVars(ShowReport)

AccountFairSpec == AccountSpec /\ AccountFairness

-----------------------------------------------------------------------------
\* A limit the counter can be seen above of: between two reports it does not jump
\* from below the limit past its end.
InReach(used, limit) == limit # 0 /\ limit + Burst < used + Reach

\* The user's level has a limit, and one in reach.
InForce == IF level < 2 THEN InReach(DayUsed, dayLimit) ELSE InReach(MonthUsed, monthLimit)

Grows == ReceiveData /\ counted' # counted

\* No session goes on carrying the server's data for ever under limits in the counter's
\* reach, whenever the reports arrive, however often the counter starts over, and
\* whether or not logins and logouts go on exchanging one such limit for another.
QuotaEnforced == <>[]InForce => ~[]<><<Grows>>_accountVars
=============================================================================
