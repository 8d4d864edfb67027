---------------------------- MODULE HealthCheck ----------------------------
(***************************************************************************)
(* healthCheckScheduler (healthcheck.go) and the part of                   *)
(* Client.HealthCheck (client.go) that touches it: a timer whose function  *)
(* runs one check and schedules the next, while streams postpone it, the   *)
(* user starts and stops it and the client is closed.                      *)
(*                                                                         *)
(* Time is discrete.  Timer functions and goroutines run without delay:    *)
(* Tick waits for whatever is due.  What happens within one instant is     *)
(* ordered in every possible way.                                          *)
(***************************************************************************)
EXTENDS Naturals

CONSTANTS
  Checks,   \* goroutines the timer starts
  T         \* DefaultHealthCheckTimeout: the period, and the limit of a check

ASSUME HealthCheckAssumption == T \in Nat \ {0}

VARIABLES
  ctxDone,  \* Client.ctx is canceled
  stopping, \* Client.Close has yet to call Stop
  started,  \* healthCheckScheduler.started
  armed,    \* the timer is running ...
  left,     \* ... and fires when nothing is left
  pc,       \* the goroutines of healthCheck
  limit,    \* what is left of the context of a check
  quiet     \* time since the last request, Start or ResetConnections

clientVars == <<ctxDone, stopping>>
timerVars == <<armed, left>>
vars == <<clientVars, started, timerVars, pc, limit, quiet>>

TypeOK ==
  /\ ctxDone \in BOOLEAN /\ stopping \in BOOLEAN
  /\ started \in BOOLEAN /\ armed \in BOOLEAN
  /\ left \in 0..T
  /\ pc \in [Checks -> {"idle", "fired", "trip", "defer", "judge", "stop", "postpone"}]
  /\ limit \in [Checks -> 0..T]
  /\ quiet \in Nat

Init ==
  /\ ctxDone = FALSE /\ stopping = FALSE
  /\ started = FALSE /\ armed = FALSE /\ left = 0
  /\ pc = [i \in Checks |-> "idle"]
  /\ limit = [i \in Checks |-> 0]
  /\ quiet = 0

(* resetTimerLocked: the timer fires a full period from now.               *)
ResetTimer == armed' = TRUE /\ left' = T

(* Mutants: started is not looked at; only a timer that is running is      *)
(* reset; the period is added to what is left.                             *)
PostponeAlways == ResetTimer

PostponeIfArmed == IF started /\ armed THEN ResetTimer ELSE UNCHANGED timerVars

PostponeAdds ==
  IF started THEN armed' = TRUE /\ left' = left + T ELSE UNCHANGED timerVars

(* Postpone, under the mutex.                                              *)
PostponeTimer == IF started THEN ResetTimer ELSE UNCHANGED timerVars

(* Stop, under the mutex.                                                  *)
StopTimer == started' = FALSE /\ armed' = FALSE /\ left' = 0

-----------------------------------------------------------------------------
(* SetKeepIdleConnections(true).                                           *)
Start == started' = TRUE /\ ResetTimer /\ quiet' = 0 /\ UNCHANGED <<clientVars, pc, limit>>

(* SetKeepIdleConnections(false).                                          *)
Stop == started /\ StopTimer /\ UNCHANGED <<clientVars, pc, limit, quiet>>

(* A stream is established and takes the place of a check; or              *)
(* ResetConnections left no connection to keep alive; or the user's own    *)
(* HealthCheck is over.                                                    *)
Postpone ==
  PostponeTimer /\ quiet' = 0 /\ UNCHANGED <<clientVars, started, pc, limit>>

(* Client.Close: first the context, then Stop.                             *)
CancelClient ==
  /\ ~ctxDone
  /\ ctxDone' = TRUE /\ stopping' = TRUE
  /\ UNCHANGED <<started, timerVars, pc, limit, quiet>>

StopClient ==
  stopping /\ stopping' = FALSE /\ StopTimer /\ UNCHANGED <<ctxDone, pc, limit, quiet>>

-----------------------------------------------------------------------------
Goto(i, state) == pc' = [pc EXCEPT ![i] = state]

(* The timer runs out and starts healthCheck in a goroutine.               *)
Fire(i) ==
  /\ armed /\ left = 0
  /\ pc[i] = "idle" /\ Goto(i, "fired")
  /\ armed' = FALSE
  /\ UNCHANGED <<clientVars, started, left, limit, quiet>>

(* Mutant: the check may take two periods.                                 *)
CheckLimitTwice == 2 * T

(* context.WithTimeout(client.ctx, DefaultHealthCheckTimeout).             *)
CheckLimit == T

(* healthCheck: nothing to do when stopped since it fired, else a request. *)
BeginCheck(i) ==
  /\ pc[i] = "fired"
  /\ IF started
       THEN Goto(i, "trip") /\ limit' = [limit EXCEPT ![i] = CheckLimit] /\ quiet' = 0
       ELSE Goto(i, "idle") /\ UNCHANGED <<limit, quiet>>
  /\ UNCHANGED <<clientVars, started, timerVars>>

(* RoundTrip answers, fails, or its context ends.                          *)
EndTrip(i) ==
  /\ pc[i] = "trip" /\ Goto(i, "defer")
  /\ limit' = [limit EXCEPT ![i] = 0]
  /\ UNCHANGED <<clientVars, started, timerVars, quiet>>

(* The deferred Postpone of Client.HealthCheck.                            *)
DeferredPostpone(i) ==
  /\ pc[i] = "defer" /\ Goto(i, "judge")
  /\ PostponeTimer
  /\ UNCHANGED <<clientVars, started, limit, quiet>>

(* Mutant: the client's context is not looked at.                          *)
VerdictBlind == "postpone"

(* The test of client.ctx.Err.                                             *)
Verdict == IF ctxDone THEN "stop" ELSE "postpone"

Judge(i) ==
  pc[i] = "judge" /\ Goto(i, Verdict) /\ UNCHANGED <<clientVars, started, timerVars, limit, quiet>>

EndCheck(i) ==
  /\ \/ pc[i] = "stop" /\ StopTimer
     \/ pc[i] = "postpone" /\ PostponeTimer /\ UNCHANGED started
  /\ Goto(i, "idle")
  /\ UNCHANGED <<clientVars, limit, quiet>>

-----------------------------------------------------------------------------
(* Nothing is due: the timer has time left, and so has every check.        *)
NothingDue ==
  /\ armed => left > 0
  /\ \A i \in Checks : pc[i] = "idle" \/ (pc[i] = "trip" /\ limit[i] > 0 /\ ~ctxDone)

Tick ==
  /\ NothingDue
  /\ left' = IF armed THEN left - 1 ELSE left
  /\ limit' = [i \in Checks |-> IF pc[i] = "trip" THEN limit[i] - 1 ELSE limit[i]]
  /\ quiet' = IF started /\ ~ctxDone THEN quiet + 1 ELSE quiet
  /\ UNCHANGED <<clientVars, started, armed, pc>>

CheckStep(i) ==
  Fire(i) \/ BeginCheck(i) \/ EndTrip(i) \/ DeferredPostpone(i) \/ Judge(i) \/ EndCheck(i)

Next ==
  \/ Start \/ Stop \/ Postpone \/ CancelClient \/ StopClient \/ Tick
  \/ \E i \in Checks : CheckStep(i)

(* Time passes, the goroutines run, and Client.Close comes to its Stop.    *)
Fairness ==
  /\ WF_vars(Tick)
  /\ WF_vars(StopClient)
  /\ WF_vars(\E i \in Checks : Fire(i))
  /\ \A i \in Checks :
       /\ WF_vars(BeginCheck(i) \/ DeferredPostpone(i) \/ Judge(i) \/ EndCheck(i))
       /\ WF_vars((ctxDone \/ limit[i] = 0) /\ EndTrip(i))

Spec == Init /\ [][Next]_vars

FairSpec == Spec /\ Fairness

-----------------------------------------------------------------------------
(* A stopped scheduler stays stopped: no check in flight when Stop comes,  *)
(* and no stream, sets the timer again.                                    *)
StoppedIsQuiet == ~started => ~armed

(* A started scheduler never dies: somebody is going to fire or to         *)
(* postpone, whatever was stopped and started while a check was running.   *)
KeepsBeating ==
  started /\ ~ctxDone => armed \/ \E i \in Checks : pc[i] # "idle"

(* Checks do not pile up: one that has time left is alone on the wire.     *)
ChecksDoNotPileUp ==
  \A i, j \in Checks :
    pc[i] = "trip" /\ pc[j] = "trip" /\ limit[i] > 0 /\ limit[j] > 0 => i = j

(* While started the client makes a request every two periods at least,    *)
(* one for the timer and one for a check that is not answered: less than   *)
(* the idle time after which the connection would be dropped.  A Start and *)
(* a ResetConnections, which leaves no connection to keep, make none and   *)
(* begin the count anew.                                                   *)
BeatsInTime == started /\ ~ctxDone => quiet <= 2 * T

(* A closed client comes to rest once nobody starts its scheduler or       *)
(* postpones any more, even if somebody did after it was closed.           *)
ComesToRest ==
  (<>ctxDone /\ <>[][~Start /\ ~Postpone]_vars)
    => <>[](~armed /\ \A i \in Checks : pc[i] = "idle")
=============================================================================
