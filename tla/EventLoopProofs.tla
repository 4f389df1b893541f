-------------------------- MODULE EventLoopProofs ---------------------------
(***************************************************************************)
(* What EventLoop guarantees for every SelectWait and Limit, alone and     *)
(* under the reports, the logins and the quota of Account.                 *)
(***************************************************************************)
EXTENDS Account, TLAPS

\* The age of a stop is counted from the stop, and a stop that comes during
\* select is no older than the select.
StopCounted == /\ isRun = 1 => sinceStop = 0
               /\ pc = "select" /\ isRun = 0 => sinceStop <= waited

Inv == TypeOK /\ StopCounted

\* The loop starts in the invariant.
LEMMA InitInv == Init => Inv
  BY TimesAssumption DEF Init, Inv, TypeOK, StopCounted, Over

\* Every step of the loop, of time and of the other threads keeps the invariant.
LEMMA NextInv == Inv /\ [Next]_vars => Inv'
<1> SUFFICES ASSUME Inv, [Next]_vars PROVE Inv'
  OBVIOUS
<1> USE TimesAssumption
<1>1. CASE Tick
  <2>1. /\ sinceRecv' \in 0..(Limit + 1)
        /\ sinceSend' \in 0..(Limit + 1)
        /\ sinceReport' \in 0..1
    BY <1>1, TimesAssumption DEF Tick, AgesGrow, Older, Inv, TypeOK
  <2>2. sinceStop' \in 0..(SelectWait + 1) /\ (isRun = 0 => sinceStop' <= sinceStop + 1)
    BY <1>1, TimesAssumption DEF Tick, AgesGrow, Older, Inv, TypeOK
  <2>3. waited' \in 0..SelectWait /\ (pc = "select" => waited' = waited + 1)
    BY <1>1 DEF Tick, Inv, TypeOK
  <2>4. TypeOK'
    BY <1>1, <2>1, <2>2, <2>3 DEF Tick, Inv, TypeOK
  <2>5. StopCounted'
    BY <1>1, <2>2, <2>3 DEF Tick, AgesGrow, Inv, TypeOK, StopCounted
  <2> QED
    BY <2>4, <2>5 DEF Inv
<1>2. CASE Stop
  BY <1>2 DEF Stop, ages, Inv, TypeOK, StopCounted
<1>3. CASE Head
  BY <1>3 DEF Head, Goes, Over, ages, Inv, TypeOK, StopCounted
<1>4. CASE SelectFails \/ SelectTimeout
  BY <1>4 DEF SelectFails, SelectTimeout, Goes, Over, ages, Inv, TypeOK, StopCounted
<1>5. CASE \E d \in SUBSET {"tun", "socket"} \ {{}} : SelectReady(d)
  BY <1>5 DEF SelectReady, Goes, Over, ages, Inv, TypeOK, StopCounted
<1>6. CASE Tun
  <2>1. CASE SendOwn
    BY <2>1 DEF SendOwn, AfterTun, Goes, Over, ages, Inv, TypeOK, StopCounted
  <2>2. CASE SkipForeign
    BY <2>2 DEF SkipForeign, Goes, Over, ages, Inv, TypeOK, StopCounted
  <2>3. CASE TunReadFails
    BY <2>3 DEF TunReadFails, AfterTun, Goes, Over, ages, Inv, TypeOK, StopCounted
  <2>4. CASE TunBreaks
    BY <2>4 DEF TunBreaks, Goes, Over, ages, Inv, TypeOK, StopCounted
  <2> QED
    BY <1>6, <2>1, <2>2, <2>3, <2>4 DEF Tun
<1>7. CASE Socket
  <2>1. CASE ReceiveData
    BY <2>1 DEF ReceiveData, Goes, Over, ages, Inv, TypeOK, StopCounted
  <2>2. CASE ReceiveNothing
    BY <2>2 DEF ReceiveNothing, Goes, Over, ages, Inv, TypeOK, StopCounted
  <2>3. CASE SocketBreaks
    BY <2>3 DEF SocketBreaks, Goes, Over, ages, Inv, TypeOK, StopCounted
  <2>4. CASE ReadCrashes
    BY <2>4 DEF ReadCrashes, Goes, Over, ages, Inv, TypeOK, StopCounted
  <2> QED
    BY <1>7, <2>1, <2>2, <2>3, <2>4 DEF Socket
<1>8. CASE Check
  <2>1. CASE TimesOut
    BY <2>1 DEF TimesOut, Goes, Over, ages, Inv, TypeOK, StopCounted
  <2>2. CASE Report
    BY <2>2 DEF Report, Goes, Over, ages, Inv, TypeOK, StopCounted
  <2>3. CASE NextRound
    BY <2>3 DEF NextRound, Goes, Over, ages, Inv, TypeOK, StopCounted
  <2> QED
    BY <1>8, <2>1, <2>2, <2>3 DEF Check
<1>9. CASE UNCHANGED vars
  BY <1>9 DEF vars, ages, Inv, TypeOK, StopCounted
<1> QED
  BY <1>1, <1>2, <1>3, <1>4, <1>5, <1>6, <1>7, <1>8, <1>9 DEF Next

\* Every variable of the loop keeps its type: no age passes its maximum and no
\* select outlasts its timeout.
THEOREM TypeCorrect == Spec => []TypeOK
<1>1. Inv => TypeOK
  BY DEF Inv
<1> QED
  BY <1>1, InitInv, NextInv, PTL DEF Spec

\* Whatever the timeout of select, a stop is older than that timeout in no
\* select: tun_and_socket always returns to the test of g_isRun.
THEOREM StopIsSeen == Spec => []StopSeen
<1>1. Inv => StopSeen
  BY TimesAssumption DEF Inv, TypeOK, StopCounted, StopSeen
<1> QED
  BY <1>1, InitInv, NextInv, PTL DEF Spec

-----------------------------------------------------------------------------
(* Account.                                                                *)

\* Every step of the session and of the window is one of the loop's, or leaves the
\* loop alone.
LEMMA AccountStep == ASSUME TypeOK, [AccountNext]_accountVars PROVE [Next]_vars
<1>1. CASE (Tick \/ Stop \/ LoopStep) /\ UNCHANGED quotaVars
  BY <1>1 DEF LoopStep, Next, Tun, Socket, Check
<1>2. CASE Carry
  BY <1>2 DEF Carry, Next, Tun, Socket
<1>3. CASE Report /\ Tell
  BY <1>3 DEF Next, Check
<1>4. CASE ShowReport \/ LoginAnswer \/ Logout
  <2>1. StopAgain \/ UNCHANGED vars
    BY <1>4 DEF ShowReport, LoginAnswer, Logout
  <2>2. StopAgain => Stop \/ UNCHANGED vars
    BY DEF StopAgain, Stop, TypeOK, vars
  <2>3. QED
    BY <2>1, <2>2 DEF Next
<1>5. CASE UNCHANGED accountVars
  BY <1>5 DEF accountVars
<1>6. QED
  BY <1>1, <1>2, <1>3, <1>4, <1>5 DEF AccountNext

\* The loop under the quota is the loop: what holds of EventLoop holds with reports,
\* logins and stops by show_traffic.
THEOREM AccountRunsLoop == AccountSpec => Spec
<1>1. Inv => TypeOK
  BY DEF Inv
<1>2. Inv /\ [AccountNext]_accountVars => [Next]_vars /\ Inv'
  BY <1>1, AccountStep, NextInv
<1>3. AccountInit => Init
  BY DEF AccountInit
<1>4. QED
  BY <1>2, <1>3, InitInv, PTL DEF AccountSpec, Spec

\* A stop by the quota is seen like any other.
THEOREM AccountStopIsSeen == AccountSpec => []StopSeen
  BY AccountRunsLoop, StopIsSeen, PTL

\* A remainder is less than its divisor.
LEMMA Remainder == ASSUME NEW n \in Nat, NEW m \in Nat \ {0} PROVE n % m \in 0..(m - 1)
  OBVIOUS

\* Every variable of the account keeps its type, and the counter its width.
THEOREM AccountTypeCorrect == AccountSpec => []AccountTypeOK
<1>0. Reach \in Nat \ {0} /\ 0 \in 0..(Reach - 1)
  BY QuotaAssumption
<1> DEFINE QuotaTypes == /\ level \in 0..2
                         /\ dayLimit \in DayLimits
                         /\ monthLimit \in MonthLimits
                         /\ counted \in 0..(Reach - 1)
                         /\ reported \in 0..(Reach - 1)
                         /\ told \in BOOLEAN
<1>1. AccountInit => QuotaTypes
  BY <1>0 DEF AccountInit
<1>2. QuotaTypes /\ [AccountNext]_accountVars => QuotaTypes'
  <2> SUFFICES ASSUME QuotaTypes, [AccountNext]_accountVars PROVE QuotaTypes'
    OBVIOUS
  <2>1. CASE UNCHANGED quotaVars
    BY <2>1 DEF quotaVars, allowance
  <2>2. CASE Carry
    <3>1. PICK k \in 0..1 : Count(k)
      BY <2>2 DEF Carry
    <3>2. counted' \in 0..(Reach - 1)
      BY <1>0, <3>1, Remainder DEF Count
    <3>3. QED
      BY <3>1, <3>2 DEF Count, allowance
  <2>3. CASE Report /\ Tell
    BY <2>3 DEF Tell, allowance
  <2>4. CASE ShowReport \/ LoginAnswer \/ Logout
    <3>1. /\ level' \in 0..2 /\ dayLimit' \in DayLimits /\ monthLimit' \in MonthLimits
          /\ told' \in BOOLEAN
          /\ counted' = counted /\ reported' = reported
      <4>1. CASE ShowReport
        BY <4>1 DEF ShowReport, allowance
      <4>2. CASE LoginAnswer
        BY <4>2 DEF LoginAnswer, allowance
      <4>3. CASE Logout
        BY <4>3 DEF Logout
      <4>4. QED
        BY <2>4, <4>1, <4>2, <4>3
    <3>2. QED
      BY <3>1
  <2>5. CASE UNCHANGED accountVars
    BY <2>1, <2>5 DEF accountVars
  <2>6. QED
    BY <2>1, <2>2, <2>3, <2>4, <2>5 DEF AccountNext
<1>3. TypeOK /\ QuotaTypes => AccountTypeOK
  BY DEF AccountTypeOK
<1>4. AccountSpec => []TypeOK
  BY AccountRunsLoop, TypeCorrect, PTL
<1>5. QED
  BY <1>1, <1>2, <1>3, <1>4, PTL DEF AccountSpec
=============================================================================
