---------------------------- MODULE StreamProofs ----------------------------
(***************************************************************************)
(* The safety of one stream of the client, for any number of goroutines    *)
(* that close it.                                                          *)
(***************************************************************************)
EXTENDS Stream, TLAPS

(* What the proofs need to know of the types.                              *)
Shape ==
  /\ cpc \in [Closers -> {"idle", "hook", "lock", "writer", "body", "done"}]
  /\ taken \in [Closers -> BOOLEAN] /\ body \in BOOLEAN

(* finish runs once: the slot is there from openStream until it released.  *)
SlotInv ==
  /\ opc = "new" <=> rpc = "off"
  /\ once # "new" => rpc # "off"
  /\ slots = IF rpc = "off" \/ once = "done" THEN 0 ELSE 1
  /\ once \in {"release", "done"} => canceled

SetUpOver == rpc \in {"created", "unwanted", "finish", "wait", "done"}

(* setUp leaves a body or an error, and a body it did not hand over is     *)
(* closed before its goroutine ends.                                       *)
SetUpInv ==
  /\ body => SetUpOver
  /\ created => SetUpOver
  /\ SetUpOver => (createErr \/ body)
  /\ response = "open" => result = "ok"
  /\ rpc \in {"finish", "wait", "done"} /\ response = "open" => body
  /\ reader = "read" => body

(* A Close call has run finish before it takes the mutex, has marked the   *)
(* stream before it closes the pipe, and has the body that it saw.         *)
CloseInv ==
  /\ \A k \in Closers :
       /\ cpc[k] \in {"lock", "writer", "body", "done"} => once = "done"
       /\ cpc[k] \in {"writer", "body", "done"} => closed
       /\ cpc[k] \in {"body", "done"} => pipe = "closed"
  /\ opc = "failed" => cpc[Dialer] = "done"

(* Whoever marked a stream that had a body is going to close it.           *)
OwnerInv ==
  closed /\ body /\ response = "open"
    => \E k \in Closers : taken[k] /\ cpc[k] \in {"writer", "body"}

IInv ==
  /\ Shape
  /\ SlotInv
  /\ SetUpInv
  /\ CloseInv
  /\ OwnerInv

-----------------------------------------------------------------------------
(* The initial state satisfies the inductive invariant.                    *)
LEMMA InitIInv == Init => IInv
BY StreamAssumption DEF Init, IInv, Shape, SlotInv, SetUpOver, SetUpInv, CloseInv, OwnerInv, Closers

(* The dialer and the contexts preserve it.                                *)
LEMMA DialIInv == IInv /\ DialStep => IInv'
<1> SUFFICES ASSUME IInv, DialStep PROVE IInv'
  OBVIOUS
<1> USE DEF IInv, Shape, SlotInv, SetUpOver, SetUpInv, CloseInv, OwnerInv,
            requestVars, finishVars, bodyVars, connVars, closeVars, userVars
<1>0. UNCHANGED <<result, canceled, once, bodyVars, connVars, closeVars, userVars>>
  BY DEF DialStep
<1>1. CASE CancelClient \/ CancelDial
  BY <1>0, <1>1 DEF CancelClient, CancelDial
<1>2. CASE OpenStream
  BY <1>0, <1>2 DEF OpenStream
<1>3. CASE SelectEstablished
  BY <1>0, <1>3 DEF SelectEstablished
<1>4. CASE SelectDone /\ UNCHANGED <<clientDone, dialDone, established, slots, rpc>>
  BY <1>0, <1>4 DEF SelectDone
<1>5. CASE DialReturnsError /\ UNCHANGED <<clientDone, dialDone, established, slots, rpc>>
  BY <1>0, <1>5 DEF DialReturnsError
<1> QED
  BY <1>1, <1>2, <1>3, <1>4, <1>5 DEF DialStep

(* The goroutine of RoundTrip and the transport preserve it.               *)
LEMMA RoundTripIInv == IInv /\ RoundTripStep => IInv'
<1> SUFFICES ASSUME IInv, RoundTripStep PROVE IInv'
  OBVIOUS
<1> USE DEF IInv, Shape, SlotInv, SetUpOver, SetUpInv, CloseInv, OwnerInv,
            requestVars, finishVars, bodyVars, connVars, closeVars, userVars
<1>0. RoundTripFrame
  BY DEF RoundTripStep, ResultStep
<1> USE <1>0 DEF RoundTripFrame
<1>1. CASE GotConn
  BY <1>1 DEF GotConn, Report
<1>2. CASE RoundTripReturns
  BY <1>2 DEF RoundTripReturns
<1>3. CASE TransportClosesPipe
  BY <1>3 DEF TransportClosesPipe
<1>4. CASE ReportResult
  BY <1>4 DEF ReportResult, Report
<1>5. CASE ClosePipe
  BY <1>5 DEF ClosePipe
<1>6. CASE SetUp
  BY <1>6 DEF SetUp, HandOver, SetUpError
<1>7. CASE CloseCreated
  BY <1>7 DEF CloseCreated, Wake
<1>8. CASE CloseUnwanted
  BY <1>8 DEF CloseUnwanted, AfterSetUp
<1>9. CASE EnterFinish
  BY <1>9 DEF EnterFinish, EnterOnce
<1>10. CASE LeaveFinish
  BY <1>10 DEF LeaveFinish
<1> QED
  BY <1>1, <1>2, <1>3, <1>4, <1>5, <1>6, <1>7, <1>8, <1>9, <1>10 DEF RoundTripStep, ResultStep

(* A Close call preserves it.                                              *)
LEMMA CloseIInv == ASSUME NEW k \in Closers PROVE IInv /\ CloseStep(k) => IInv'
<1> SUFFICES ASSUME IInv, CloseStep(k) PROVE IInv'
  OBVIOUS
<1> USE DEF IInv, Shape, SlotInv, SetUpOver, SetUpInv, CloseInv, OwnerInv,
            requestVars, finishVars, bodyVars, connVars, closeVars, userVars, Goto
<1>0. CloseFrame
  BY DEF CloseStep, Closing
<1> USE <1>0 DEF CloseFrame
<1>1. CASE EnterHook(k)
  BY <1>1 DEF EnterHook, EnterOnce
<1>2. CASE LeaveHook(k)
  BY <1>2 DEF LeaveHook, HookOver
<1>3. CASE MarkClosed(k)
  <2> USE <1>3 DEF MarkClosed
  <2>1. Shape'
    OBVIOUS
  <2>2. SlotInv' /\ SetUpInv'
    OBVIOUS
  <2>3. CloseInv'
    OBVIOUS
  <2>4. ASSUME body' PROVE taken'[k] /\ cpc'[k] \in {"writer", "body"}
    BY <2>4
  <2>5. OwnerInv'
    BY <2>4
  <2> QED
    BY <2>1, <2>2, <2>3, <2>5
<1>4. CASE CloseWriter(k)
  BY <1>4 DEF CloseWriter
<1>5. CASE CloseBody(k)
  BY <1>5 DEF CloseBody
<1> QED
  BY <1>1, <1>2, <1>3, <1>4, <1>5 DEF CloseStep, Closing

(* So does finish, and so do reads and writes.                             *)
LEMMA StepIInv == IInv /\ [Next]_vars => IInv'
<1> SUFFICES ASSUME IInv, [Next]_vars PROVE IInv'
  OBVIOUS
<1>1. CASE FinishStep
  BY <1>1 DEF IInv, Shape, SlotInv, SetUpOver, SetUpInv, CloseInv, OwnerInv,
            requestVars, finishVars, bodyVars, connVars, closeVars, userVars,
            FinishStep, FinishCancel, FinishRelease
<1>2. CASE UserStep
  BY <1>2 DEF IInv, Shape, SlotInv, SetUpOver, SetUpInv, CloseInv, OwnerInv,
            requestVars, finishVars, bodyVars, connVars, closeVars, userVars,
            UserStep, UserFrame, BeginRead, WaitCreated, ReadReturns, BeginWrite, WriteReturns
<1>3. CASE UNCHANGED vars
  BY <1>3 DEF IInv, Shape, SlotInv, SetUpOver, SetUpInv, CloseInv, OwnerInv,
            requestVars, finishVars, bodyVars, connVars, closeVars, userVars, vars
<1> QED
  BY <1>1, <1>2, <1>3, DialIInv, RoundTripIInv, CloseIInv DEF Next

-----------------------------------------------------------------------------
(* The inductive invariant holds in every reachable state.                 *)
THEOREM Invariance == Spec => []IInv
BY InitIInv, StepIInv, PTL DEF Spec

(* What TypeOK says of the flags, and of where everybody is.               *)
Flags ==
  /\ clientDone \in BOOLEAN /\ dialDone \in BOOLEAN /\ canceled \in BOOLEAN
  /\ closed \in BOOLEAN /\ body \in BOOLEAN /\ createErr \in BOOLEAN /\ created \in BOOLEAN

Places ==
  /\ opc \in {"new", "select", "closing", "failed", "dialed"}
  /\ established \in {"empty", "ok", "error"}
  /\ rpc \in {"off", "running", "report", "pipe", "setup", "created", "unwanted",
              "finish", "wait", "done"}
  /\ result \in {"none", "ok", "status", "error"}
  /\ once \in {"new", "cancel", "release", "done"}
  /\ pipe \in {"open", "closed"} /\ response \in {"none", "open", "closed"}
  /\ reader \in {"idle", "wait", "read"} /\ writer \in {"idle", "write"}

(* Every step keeps both.                                                  *)
LEMMA StepTypes == Flags /\ Places /\ [Next]_vars => Flags' /\ Places'
<1> SUFFICES ASSUME Flags, Places, [Next]_vars PROVE Flags' /\ Places'
  OBVIOUS
<1> USE DEF requestVars, finishVars, bodyVars, connVars, closeVars, userVars
<1>1. CASE DialStep
  <2> USE <1>1 DEF DialStep, CancelClient, CancelDial, OpenStream,
        SelectEstablished, SelectDone, DialReturnsError
  <2>1. Flags'
    BY Zenon DEF Flags
  <2>2. Places'
    BY DEF Places
  <2> QED
    BY <2>1, <2>2
<1>2. CASE RoundTripStep
  <2> USE <1>2 DEF RoundTripStep, ResultStep, RoundTripFrame, GotConn, RoundTripReturns,
        TransportClosesPipe, ReportResult, ClosePipe, SetUp, CloseCreated, CloseUnwanted, EnterFinish, LeaveFinish
  <2>1. Flags'
    BY Zenon DEF Flags, HandOver, SetUpError, Wake
  <2>2. Places'
    BY DEF Places, Report, AfterSetUp, EnterOnce
  <2> QED
    BY <2>1, <2>2
<1>3. CASE FinishStep \/ UserStep
  <2> USE <1>3 DEF FinishStep, FinishCancel, FinishRelease, UserStep, UserFrame,
        BeginRead, WaitCreated, ReadReturns, BeginWrite, WriteReturns
  <2>1. Flags'
    BY Zenon DEF Flags
  <2>2. Places'
    BY DEF Places
  <2> QED
    BY <2>1, <2>2
<1>4. ASSUME NEW k \in Closers, CloseStep(k) PROVE Flags' /\ Places'
  <2> USE <1>4 DEF CloseStep, Closing, CloseFrame, EnterHook, LeaveHook,
        MarkClosed, CloseWriter, CloseBody
  <2>1. Flags'
    BY Zenon DEF Flags
  <2>2. Places'
    BY DEF Places, EnterOnce
  <2> QED
    BY <2>1, <2>2
<1>5. CASE UNCHANGED vars
  BY <1>5 DEF vars, Flags, Places
<1> QED
  BY <1>1, <1>2, <1>3, <1>4, <1>5 DEF Next

(* The variables keep their types.                                         *)
THEOREM TypeCorrect == Spec => []TypeOK
<1>1. Init => Flags /\ Places
  BY DEF Init, Flags, Places
<1>2. IInv /\ Flags /\ Places => TypeOK
  BY DEF IInv, Shape, SlotInv, Flags, Places, TypeOK
<1> QED
  BY Invariance, StepTypes, <1>1, <1>2, PTL DEF Spec

(* The response body is closed by somebody, whoever came first.            *)
THEOREM BodyIsClosed == Spec => []BodyNeverLeaks
<1>1. IInv => BodyNeverLeaks
  BY DEF IInv, SetUpInv, OwnerInv, BodyNeverLeaks
<1> QED
  BY Invariance, <1>1, PTL

(* A reader that was let through finds a body.                             *)
THEOREM ReaderFindsBody == Spec => []ReadHasBody
<1>1. IInv => ReadHasBody
  BY DEF IInv, SetUpInv, ReadHasBody
<1> QED
  BY Invariance, <1>1, PTL

(* The slot goes once, and after the request's context.                    *)
THEOREM SlotIsLast == Spec => []SlotOutlivesRequest
<1>1. IInv => SlotOutlivesRequest
  BY DEF IInv, SlotInv, SlotOutlivesRequest
<1> QED
  BY Invariance, <1>1, PTL

(* A Dial that failed has let go of everything.                            *)
THEOREM FailedDialIsClean == Spec => []FailedDialHoldsNothing
<1>1. IInv => FailedDialHoldsNothing
  BY DEF IInv, SlotInv, CloseInv, FailedDialHoldsNothing, Closers
<1> QED
  BY Invariance, <1>1, PTL
=============================================================================
