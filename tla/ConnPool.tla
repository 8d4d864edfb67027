------------------------------ MODULE ConnPool ------------------------------
(***************************************************************************)
(* What connTracker promises its client, without the mutex, the contexts,  *)
(* the flags and the two ways a connection can be closed: a connection     *)
(* joins the pool only in the epoch its dial began in, a reset ends the    *)
(* epoch and dooms every member at one stroke, and the doomed, like the    *)
(* dials of a past epoch, come to an end.                                  *)
(***************************************************************************)
EXTENDS Naturals

CONSTANTS
  Dials,   \* the dials, each with the connection it may produce
  MaxGen   \* bound: resets

VARIABLES
  epoch,   \* number of resets so far
  final,   \* the owner of the pool is gone
  life,    \* "none", "pending", "live", "doomed" or "dead"
  born     \* the epoch a dial began in

poolVars == <<epoch, final, life, born>>

Init ==
  /\ epoch = 0
  /\ final = FALSE
  /\ life = [d \in Dials |-> "none"]
  /\ born = [d \in Dials |-> 0]

Move(d, from, to) ==
  /\ life[d] = from
  /\ life' = [life EXCEPT ![d] = to]

(* A dial begins, in the current epoch, even after the owner is gone.      *)
Begin(d) ==
  /\ Move(d, "none", "pending")
  /\ born' = [born EXCEPT ![d] = epoch]
  /\ UNCHANGED <<epoch, final>>

(* Only a dial of the current epoch, with the owner there, may join.       *)
Join(d) ==
  /\ born[d] = epoch /\ ~final
  /\ Move(d, "pending", "live")
  /\ UNCHANGED <<epoch, final, born>>

(* A dial may fail at any time, and leaves nothing behind.                 *)
Fail(d) == Move(d, "pending", "dead") /\ UNCHANGED <<epoch, final, born>>

(* A member is given up by whoever uses it.                                *)
Release(d) == Move(d, "live", "doomed") /\ UNCHANGED <<epoch, final, born>>

(* A doomed connection is closed.                                          *)
Die(d) == Move(d, "doomed", "dead") /\ UNCHANGED <<epoch, final, born>>

(* The epoch ends, and with it the membership of every member.             *)
Reset ==
  /\ epoch < MaxGen
  /\ epoch' = epoch + 1
  /\ life' = [d \in Dials |-> IF life[d] = "live" THEN "doomed" ELSE life[d]]
  /\ UNCHANGED <<final, born>>

Finish ==
  /\ ~final
  /\ final' = TRUE
  /\ UNCHANGED <<epoch, life, born>>

Next ==
  \/ Reset \/ Finish
  \/ \E d \in Dials : Begin(d) \/ Join(d) \/ Fail(d) \/ Release(d) \/ Die(d)

Spec == Init /\ [][Next]_poolVars

Stale(d) == born[d] # epoch \/ final

FairSpec ==
  /\ Spec
  /\ \A d \in Dials : WF_poolVars(Die(d)) /\ WF_poolVars(Stale(d) /\ Fail(d))
=============================================================================
