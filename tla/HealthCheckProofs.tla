------------------------- MODULE HealthCheckProofs -------------------------
(***************************************************************************)
(* The safety of healthCheckScheduler for any period and any number of     *)
(* checks in flight.                                                       *)
(***************************************************************************)
EXTENDS HealthCheck, TLAPS

(* A check on the wire ends before the next one could begin: the timer was *)
(* set after the check began, or has fired and found it over.              *)
Spaced ==
  \A i \in Checks :
    /\ pc[i] = "trip" /\ armed => limit[i] <= left
    /\ pc[i] = "fired" =>
         /\ armed => left = T
         /\ \A j \in Checks : /\ pc[j] = "fired" => i = j
                              /\ pc[j] = "trip" => limit[j] = 0

(* The time since the last request, and how much longer it may get: a      *)
(* period for the timer, or for a check and then a period for the timer.   *)
QuietInv ==
  /\ quiet <= 2 * T
  /\ armed => quiet + left <= 2 * T
  /\ \A i \in Checks :
       /\ pc[i] = "trip" => quiet + limit[i] <= T
       /\ pc[i] \in {"defer", "judge", "stop", "postpone"} => quiet <= T

IInv ==
  /\ TypeOK
  /\ StoppedIsQuiet
  /\ KeepsBeating
  /\ Spaced
  /\ ChecksDoNotPileUp
  /\ QuietInv

-----------------------------------------------------------------------------
(* The initial state satisfies the inductive invariant.                    *)
LEMMA InitIInv == Init => IInv
<1> SUFFICES ASSUME Init PROVE IInv
  OBVIOUS
<1> USE HealthCheckAssumption DEF Init
<1>1. TypeOK
  <2>1. ctxDone \in BOOLEAN /\ stopping \in BOOLEAN /\ started \in BOOLEAN /\ armed \in BOOLEAN
    OBVIOUS
  <2>2. left \in 0..T /\ limit \in [Checks -> 0..T] /\ quiet \in Nat
    BY DEF HealthCheckAssumption
  <2>3. pc \in [Checks -> {"idle", "fired", "trip", "defer", "judge", "stop", "postpone"}]
    OBVIOUS
  <2> QED
    BY <2>1, <2>2, <2>3 DEF TypeOK
<1>2. StoppedIsQuiet /\ KeepsBeating
  BY DEF StoppedIsQuiet, KeepsBeating
<1>3. Spaced /\ ChecksDoNotPileUp
  BY DEF Spaced, ChecksDoNotPileUp
<1>4. QuietInv
  BY DEF QuietInv
<1> QED
  BY <1>1, <1>2, <1>3, <1>4 DEF IInv

(* Every step preserves the types: first the flags, then the numbers.      *)
Flags ==
  /\ ctxDone \in BOOLEAN /\ stopping \in BOOLEAN
  /\ started \in BOOLEAN /\ armed \in BOOLEAN

Numbers ==
  /\ left \in 0..T
  /\ pc \in [Checks -> {"idle", "fired", "trip", "defer", "judge", "stop", "postpone"}]
  /\ limit \in [Checks -> 0..T]
  /\ quiet \in Nat

(* Every step keeps the types.                                             *)
LEMMA StepTypeOK == TypeOK /\ [Next]_vars => TypeOK'
<1> SUFFICES ASSUME TypeOK, [Next]_vars PROVE TypeOK'
  OBVIOUS
<1> USE DEF ResetTimer, PostponeTimer, StopTimer, Goto, clientVars, timerVars
<1>0. Flags /\ Numbers
  BY DEF TypeOK, Flags, Numbers
<1>1. Flags'
  <2> USE <1>0 DEF Flags
  <2>1. CASE Start \/ Stop \/ Postpone \/ CancelClient \/ StopClient \/ Tick
    BY <2>1, Zenon DEF Start, Stop, Postpone, CancelClient, StopClient, Tick
  <2>2. ASSUME NEW i \in Checks, CheckStep(i) PROVE Flags'
    BY <2>2, Zenon DEF CheckStep, Fire, BeginCheck, EndTrip, DeferredPostpone, Judge, EndCheck
  <2>3. CASE UNCHANGED vars
    BY <2>3 DEF vars
  <2> QED
    BY <2>1, <2>2, <2>3 DEF Next
<1>2. Numbers'
  <2> USE <1>0, HealthCheckAssumption DEF Numbers
  <2>1. CASE Start
    BY <2>1 DEF Start
  <2>2. CASE Stop
    BY <2>2 DEF Stop
  <2>3. CASE Postpone
    BY <2>3 DEF Postpone
  <2>4. CASE CancelClient
    BY <2>4 DEF CancelClient
  <2>5. CASE StopClient
    BY <2>5 DEF StopClient
  <2>6. CASE Tick
    BY <2>6 DEF Tick, NothingDue
  <2>7. ASSUME NEW i \in Checks, Fire(i) PROVE Numbers'
    BY <2>7 DEF Fire
  <2>8. ASSUME NEW i \in Checks, BeginCheck(i) PROVE Numbers'
    BY <2>8 DEF BeginCheck, CheckLimit
  <2>9. ASSUME NEW i \in Checks, EndTrip(i) PROVE Numbers'
    BY <2>9 DEF EndTrip
  <2>10. ASSUME NEW i \in Checks, DeferredPostpone(i) PROVE Numbers'
    BY <2>10 DEF DeferredPostpone
  <2>11. ASSUME NEW i \in Checks, Judge(i) PROVE Numbers'
    BY <2>11 DEF Judge, Verdict
  <2>12. ASSUME NEW i \in Checks, EndCheck(i) PROVE Numbers'
    BY <2>12 DEF EndCheck
  <2>13. CASE UNCHANGED vars
    BY <2>13 DEF vars
  <2> QED
    BY <2>1, <2>2, <2>3, <2>4, <2>5, <2>6, <2>7, <2>8, <2>9, <2>10, <2>11, <2>12, <2>13
       DEF Next, CheckStep
<1> QED
  BY <1>1, <1>2 DEF TypeOK, Flags, Numbers

(* Every step preserves the inductive invariant.                           *)
LEMMA StepIInv == IInv /\ [Next]_vars => IInv'
<1> SUFFICES ASSUME IInv, [Next]_vars PROVE IInv'
  OBVIOUS
<1> USE HealthCheckAssumption
<1> USE DEF ResetTimer, PostponeTimer, StopTimer, Goto, clientVars, timerVars
<1>0. TypeOK /\ TypeOK'
  BY StepTypeOK DEF IInv
<1> DEFINE Rest == StoppedIsQuiet /\ KeepsBeating /\ Spaced /\ ChecksDoNotPileUp /\ QuietInv
<1>1. Rest'
  <2> USE <1>0 DEF TypeOK, IInv, StoppedIsQuiet, KeepsBeating, Spaced, ChecksDoNotPileUp, QuietInv
  <2>1. CASE Start
    BY <2>1 DEF Start
  <2>2. CASE Stop
    BY <2>2 DEF Stop
  <2>3. CASE Postpone
    <3> USE <2>3 DEF Postpone
    <3>1. CASE started
      <4>1. StoppedIsQuiet' /\ KeepsBeating'
        BY <3>1
      <4>2. Spaced'
        BY <3>1
      <4>3. ChecksDoNotPileUp'
        BY <3>1
      <4>4. QuietInv'
        BY <3>1
      <4> QED
        BY <4>1, <4>2, <4>3, <4>4
    <3>2. CASE ~started
      <4>1. StoppedIsQuiet' /\ KeepsBeating'
        BY <3>2
      <4>2. Spaced'
        BY <3>2
      <4>3. ChecksDoNotPileUp'
        BY <3>2
      <4>4. QuietInv'
        BY <3>2
      <4> QED
        BY <4>1, <4>2, <4>3, <4>4
    <3> QED
      BY <3>1, <3>2
  <2>4. CASE CancelClient
    BY <2>4 DEF CancelClient
  <2>5. CASE StopClient
    BY <2>5 DEF StopClient
  <2>6. CASE Tick
    BY <2>6 DEF Tick, NothingDue
  <2>7. ASSUME NEW i \in Checks, Fire(i) PROVE Rest'
    BY <2>7 DEF Fire
  <2>8. ASSUME NEW i \in Checks, BeginCheck(i) PROVE Rest'
    <3> USE <2>8 DEF BeginCheck, CheckLimit
    <3>1. CASE started
      <4>1. StoppedIsQuiet' /\ KeepsBeating'
        BY <3>1
      <4>2. Spaced'
        BY <3>1
      <4>3. ChecksDoNotPileUp'
        BY <3>1
      <4>4. QuietInv'
        BY <3>1
      <4> QED
        BY <4>1, <4>2, <4>3, <4>4
    <3>2. CASE ~started
      <4>1. StoppedIsQuiet' /\ KeepsBeating'
        BY <3>2
      <4>2. Spaced'
        BY <3>2
      <4>3. ChecksDoNotPileUp'
        BY <3>2
      <4>4. QuietInv'
        BY <3>2
      <4> QED
        BY <4>1, <4>2, <4>3, <4>4
    <3> QED
      BY <3>1, <3>2
  <2>9. ASSUME NEW i \in Checks, EndTrip(i) PROVE Rest'
    BY <2>9 DEF EndTrip
  <2>10. ASSUME NEW i \in Checks, DeferredPostpone(i) PROVE Rest'
    <3> USE <2>10 DEF DeferredPostpone
    <3>1. CASE started
      <4>1. StoppedIsQuiet' /\ KeepsBeating'
        BY <3>1
      <4>2. Spaced'
        BY <3>1
      <4>3. ChecksDoNotPileUp'
        BY <3>1
      <4>4. QuietInv'
        BY <3>1
      <4> QED
        BY <4>1, <4>2, <4>3, <4>4
    <3>2. CASE ~started
      <4>1. StoppedIsQuiet' /\ KeepsBeating'
        BY <3>2
      <4>2. Spaced'
        BY <3>2
      <4>3. ChecksDoNotPileUp'
        BY <3>2
      <4>4. QuietInv'
        BY <3>2
      <4> QED
        BY <4>1, <4>2, <4>3, <4>4
    <3> QED
      BY <3>1, <3>2
  <2>11. ASSUME NEW i \in Checks, Judge(i) PROVE Rest'
    BY <2>11 DEF Judge, Verdict
  <2>12. ASSUME NEW i \in Checks, EndCheck(i) PROVE Rest'
    <3> USE <2>12 DEF EndCheck
    <3>1. CASE pc[i] = "stop"
      <4>1. StoppedIsQuiet' /\ KeepsBeating'
        BY <3>1
      <4>2. Spaced'
        BY <3>1
      <4>3. ChecksDoNotPileUp' /\ QuietInv'
        BY <3>1
      <4> QED
        BY <4>1, <4>2, <4>3
    <3>2. CASE pc[i] = "postpone" /\ started
      <4>1. StoppedIsQuiet' /\ KeepsBeating'
        BY <3>2
      <4>2. Spaced'
        BY <3>2
      <4>3. ChecksDoNotPileUp' /\ QuietInv'
        BY <3>2
      <4> QED
        BY <4>1, <4>2, <4>3
    <3>3. CASE pc[i] = "postpone" /\ ~started
      <4>1. StoppedIsQuiet' /\ KeepsBeating'
        BY <3>3
      <4>2. Spaced'
        BY <3>3
      <4>3. ChecksDoNotPileUp' /\ QuietInv'
        BY <3>3
      <4> QED
        BY <4>1, <4>2, <4>3
    <3> QED
      BY <3>1, <3>2, <3>3
  <2>13. CASE UNCHANGED vars
    BY <2>13 DEF vars
  <2> QED
    BY <2>1, <2>2, <2>3, <2>4, <2>5, <2>6, <2>7, <2>8, <2>9, <2>10, <2>11, <2>12, <2>13
       DEF Next, CheckStep
<1> QED
  BY <1>0, <1>1 DEF IInv

-----------------------------------------------------------------------------
(* The inductive invariant holds in every reachable state.                 *)
THEOREM Invariance == Spec => []IInv
BY InitIInv, StepIInv, PTL DEF Spec

(* The variables keep their types.                                         *)
THEOREM TypeCorrect == Spec => []TypeOK
<1>1. IInv => TypeOK
  BY DEF IInv
<1> QED
  BY Invariance, <1>1, PTL

(* Stop is final until the next Start: no check in flight and no stream    *)
(* sets the timer of a stopped scheduler.                                  *)
THEOREM StaysStopped == Spec => []StoppedIsQuiet
<1>1. IInv => StoppedIsQuiet
  BY DEF IInv
<1> QED
  BY Invariance, <1>1, PTL

(* The heart does not stop: a started scheduler has a timer that runs or a *)
(* check that will set it, however Start, Stop and checks interleave.      *)
THEOREM StaysAlive == Spec => []KeepsBeating
<1>1. IInv => KeepsBeating
  BY DEF IInv
<1> QED
  BY Invariance, <1>1, PTL

(* One check at a time, although check and period last equally long.       *)
THEOREM OneCheckAtATime == Spec => []ChecksDoNotPileUp
<1>1. IInv => ChecksDoNotPileUp
  BY DEF IInv
<1> QED
  BY Invariance, <1>1, PTL

(* No two periods pass without a request, a Start or a ResetConnections.   *)
THEOREM RequestInTime == Spec => []BeatsInTime
<1>1. IInv => BeatsInTime
  BY DEF IInv, QuietInv, BeatsInTime
<1> QED
  BY Invariance, <1>1, PTL
=============================================================================
