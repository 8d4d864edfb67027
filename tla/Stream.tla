------------------------------- MODULE Stream -------------------------------
(***************************************************************************)
(* One stream of the client: openStream (client.go) and the httpConn it    *)
(* fills (protocol.go), shared by the goroutine that dials, the one that   *)
(* runs RoundTrip, and the user's closers, reader and writer.  The dialer  *)
(* returns as soon as the transport has a connection, so all the user does *)
(* may come before the response that setUp has to hand over or get rid of. *)
(*                                                                         *)
(* The HTTP transport is external: RoundTrip returns once its context is   *)
(* over, closes the request body when it is done with it, and a read of a  *)
(* response body ends when the body is closed or the context is over.      *)
(***************************************************************************)
EXTENDS Naturals

CONSTANTS
  Users,   \* goroutines that call httpConn.Close on a dialed stream
  Dialer   \* the goroutine in Dial, which closes a stream it cannot return

ASSUME StreamAssumption == Dialer \notin Users

Closers == Users \cup {Dialer}

VARIABLES
  clientDone,  \* Client.ctx is canceled
  dialDone,    \* the context given to Dial is canceled
  opc,         \* the dialer
  established, \* the channel of capacity 1
  rpc,         \* the RoundTrip goroutine
  result,      \* what RoundTrip returned
  canceled,    \* requestCtx was canceled by finish
  once,        \* the sync.OnceFunc finish
  slots,       \* what this stream counts for in idleManager.streamCount
  pipe,        \* the request body, "closed" from either end
  response,    \* response.Body
  closed, body, createErr, created,  \* the fields of httpConn, as set or not
  cpc,         \* the Close calls
  taken,       \* whether a Close call read a body under the mutex
  reader, writer  \* a Read and a Write call

requestVars == <<clientDone, dialDone, opc, established, rpc, result>>
finishVars == <<canceled, once, slots>>
bodyVars == <<pipe, response>>
connVars == <<closed, body, createErr, created>>
closeVars == <<cpc, taken>>
userVars == <<reader, writer>>
vars == <<requestVars, finishVars, bodyVars, connVars, closeVars, userVars>>

TypeOK ==
  /\ clientDone \in BOOLEAN /\ dialDone \in BOOLEAN /\ canceled \in BOOLEAN
  /\ closed \in BOOLEAN /\ body \in BOOLEAN /\ createErr \in BOOLEAN /\ created \in BOOLEAN
  /\ opc \in {"new", "select", "closing", "failed", "dialed"}
  /\ established \in {"empty", "ok", "error"}
  /\ rpc \in {"off", "running", "report", "pipe", "setup", "created", "unwanted",
              "finish", "wait", "done"}
  /\ result \in {"none", "ok", "status", "error"}
  /\ once \in {"new", "cancel", "release", "done"}
  /\ slots \in 0..1
  /\ pipe \in {"open", "closed"} /\ response \in {"none", "open", "closed"}
  /\ cpc \in [Closers -> {"idle", "hook", "lock", "writer", "body", "done"}]
  /\ taken \in [Closers -> BOOLEAN]
  /\ reader \in {"idle", "wait", "read"} /\ writer \in {"idle", "write"}

Init ==
  /\ clientDone = FALSE /\ dialDone = FALSE
  /\ opc = "new" /\ established = "empty" /\ rpc = "off" /\ result = "none"
  /\ canceled = FALSE /\ once = "new" /\ slots = 0
  /\ pipe = "open" /\ response = "none"
  /\ closed = FALSE /\ body = FALSE /\ createErr = FALSE /\ created = FALSE
  /\ cpc = [k \in Closers |-> "idle"]
  /\ taken = [k \in Closers |-> FALSE]
  /\ reader = "idle" /\ writer = "idle"

(* requestCtx: derived from the client's context, not from the dial's.     *)
RequestDone == canceled \/ clientDone

-----------------------------------------------------------------------------
CancelClient == ~clientDone /\ clientDone' = TRUE /\ UNCHANGED <<dialDone, opc, established, slots, rpc>>

CancelDial == ~dialDone /\ dialDone' = TRUE /\ UNCHANGED <<clientDone, opc, established, slots, rpc>>

(* openStream takes the slot, then starts the goroutine of RoundTrip.      *)
OpenStream ==
  /\ opc = "new"
  /\ opc' = "select" /\ slots' = slots + 1 /\ rpc' = "running"
  /\ UNCHANGED <<clientDone, dialDone, established>>

(* Its select; on an error Dial closes the stream before it returns.       *)
SelectEstablished ==
  /\ opc = "select" /\ established # "empty"
  /\ opc' = IF established = "ok" THEN "dialed" ELSE "closing"
  /\ established' = "empty"
  /\ UNCHANGED <<clientDone, dialDone, slots, rpc>>

(* Mutant: openStream waits for the transport, whatever its context says.  *)
SelectDoneNever == FALSE

SelectDone == opc = "select" /\ dialDone /\ opc' = "closing"

DialReturnsError == opc = "closing" /\ cpc[Dialer] = "done" /\ opc' = "failed"

DialStep ==
  /\ \/ CancelClient \/ CancelDial \/ OpenStream \/ SelectEstablished
     \/ (SelectDone \/ DialReturnsError) /\ UNCHANGED <<clientDone, dialDone, established, slots, rpc>>
  /\ UNCHANGED <<result, canceled, once, bodyVars, connVars, closeVars, userVars>>

-----------------------------------------------------------------------------
(* reportEstablished never blocks: a second report is dropped.             *)
Report(e) == established' = IF established = "empty" THEN e ELSE established

(* The transport has a connection for the request, again after a retry.    *)
GotConn ==
  /\ rpc = "running"
  /\ Report("ok")
  /\ UNCHANGED <<rpc, result, once, bodyVars, connVars>>

(* RoundTrip returns a 200, another status, whose body is closed at once,  *)
(* or an error.                                                            *)
RoundTripReturns ==
  /\ rpc = "running"
  /\ result' \in {"ok", "status", "error"}
  /\ response' = CASE result' = "ok"     -> "open"
                   [] result' = "status" -> "closed"
                   [] result' = "error"  -> "none"
  /\ rpc' = "report"
  /\ UNCHANGED <<established, once, pipe, connVars>>

ReportResult ==
  /\ rpc = "report"
  /\ Report(IF result = "ok" THEN "ok" ELSE "error")
  /\ rpc' = IF result = "ok" THEN "setup" ELSE "pipe"
  /\ UNCHANGED <<result, once, bodyVars, connVars>>

(* Both ends of the pipe are closed with the error of a failed request.    *)
ClosePipe ==
  /\ rpc = "pipe"
  /\ pipe' = "closed" /\ rpc' = "setup"
  /\ UNCHANGED <<established, result, once, response, connVars>>

(* Mutant: the body is handed over without a look at closed.               *)
HandOverAlways == result = "ok"

HandOver == result = "ok" /\ ~closed

(* Mutant: a body that is not handed over leaves no error.                 *)
SetUpErrorOfRequest == result # "ok"

SetUpError == result # "ok" \/ closed

(* setUp under the mutex: a stream closed meanwhile gets net.ErrClosed.    *)
SetUp ==
  /\ rpc = "setup"
  /\ body' = HandOver /\ createErr' = SetUpError /\ rpc' = "created"
  /\ UNCHANGED <<established, result, once, bodyVars, closed, created>>

(* Mutant: setUp returns early when the stream is closed.                  *)
WakeUnlessClosed == ~closed

Wake == TRUE

(* Outside of the mutex it wakes the reader ...                            *)
CloseCreated ==
  /\ rpc = "created"
  /\ created' = Wake /\ rpc' = "unwanted"
  /\ UNCHANGED <<established, result, once, bodyVars, closed, body, createErr>>

(* Mutant: a failed request does not call finish.                          *)
AfterSetUpNoFinish == "done"

AfterSetUp == IF result = "ok" THEN "done" ELSE "finish"

(* ... and closes the body nobody was left to take.                        *)
CloseUnwanted ==
  /\ rpc = "unwanted"
  /\ response' = IF result = "ok" /\ ~body THEN "closed" ELSE response
  /\ rpc' = AfterSetUp
  /\ UNCHANGED <<established, result, once, pipe, connVars>>

(* sync.OnceFunc: the first caller runs the function, the others wait.     *)
EnterOnce == once' = IF once = "new" THEN "cancel" ELSE once

EnterFinish ==
  /\ rpc = "finish"
  /\ EnterOnce /\ rpc' = "wait"
  /\ UNCHANGED <<established, result, bodyVars, connVars>>

LeaveFinish ==
  /\ rpc = "wait" /\ once = "done"
  /\ rpc' = "done"
  /\ UNCHANGED <<established, result, once, bodyVars, connVars>>

(* The transport closes the request body when it is done with it.          *)
TransportClosesPipe ==
  /\ rpc # "off" /\ pipe = "open"
  /\ pipe' = "closed"
  /\ UNCHANGED <<established, rpc, result, once, response, connVars>>

RoundTripFrame == UNCHANGED <<clientDone, dialDone, opc, canceled, slots, closeVars, userVars>>

(* The steps the goroutine of RoundTrip takes without any help.            *)
ResultStep ==
  /\ \/ ReportResult \/ ClosePipe \/ SetUp \/ CloseCreated \/ CloseUnwanted
     \/ EnterFinish \/ LeaveFinish
  /\ RoundTripFrame

RoundTripStep ==
  \/ ResultStep
  \/ (GotConn \/ RoundTripReturns \/ TransportClosesPipe) /\ RoundTripFrame

-----------------------------------------------------------------------------
(* Mutant: finish does not cancel.                                         *)
FinishNoCancel == once = "cancel" /\ once' = "release" /\ UNCHANGED <<canceled, slots>>

(* The body of finish, in the goroutine that came first.                   *)
FinishCancel == once = "cancel" /\ canceled' = TRUE /\ once' = "release" /\ UNCHANGED slots

FinishRelease == once = "release" /\ slots' = slots - 1 /\ once' = "done" /\ UNCHANGED canceled

FinishStep ==
  (FinishCancel \/ FinishRelease) /\ UNCHANGED <<requestVars, bodyVars, connVars, closeVars, userVars>>

-----------------------------------------------------------------------------
Goto(k, pc) == cpc' = [cpc EXCEPT ![k] = pc]

(* httpConn.Close, called by the user of a dialed stream or by Dial, runs  *)
(* the hook, marks the stream closed, closes the writer and then the body. *)
EnterHook(k) ==
  /\ cpc[k] = "idle" /\ opc = IF k = Dialer THEN "closing" ELSE "dialed"
  /\ EnterOnce /\ Goto(k, "hook")
  /\ UNCHANGED <<closed, bodyVars, taken>>

(* Mutant: the second caller of finish does not wait for the first.        *)
HookOverAtOnce == TRUE

HookOver == once = "done"

LeaveHook(k) ==
  /\ cpc[k] = "hook" /\ HookOver
  /\ Goto(k, "lock")
  /\ UNCHANGED <<once, closed, bodyVars, taken>>

MarkClosed(k) ==
  /\ cpc[k] = "lock"
  /\ closed' = TRUE /\ taken' = [taken EXCEPT ![k] = body] /\ Goto(k, "writer")
  /\ UNCHANGED <<once, bodyVars>>

CloseWriter(k) ==
  /\ cpc[k] = "writer"
  /\ pipe' = "closed" /\ Goto(k, "body")
  /\ UNCHANGED <<once, closed, response, taken>>

CloseBody(k) ==
  /\ cpc[k] = "body"
  /\ response' = IF taken[k] THEN "closed" ELSE response
  /\ Goto(k, "done")
  /\ UNCHANGED <<once, closed, pipe, taken>>

CloseFrame == UNCHANGED <<requestVars, canceled, slots, body, createErr, created, userVars>>

(* What is left of a Close call once it was made.                          *)
Closing(k) == (LeaveHook(k) \/ MarkClosed(k) \/ CloseWriter(k) \/ CloseBody(k)) /\ CloseFrame

CloseStep(k) == (EnterHook(k) /\ CloseFrame) \/ Closing(k)

-----------------------------------------------------------------------------
UserFrame == UNCHANGED <<requestVars, finishVars, bodyVars, connVars, closeVars>>

BeginRead == opc = "dialed" /\ reader = "idle" /\ reader' = "wait" /\ UNCHANGED writer

(* waitCreated, then the body, without the mutex.                          *)
WaitCreated ==
  /\ reader = "wait" /\ created
  /\ reader' = IF createErr THEN "idle" ELSE "read"
  /\ UNCHANGED writer

(* Data, the end of the stream, or an error.                               *)
ReadReturns == reader = "read" /\ reader' = "idle" /\ UNCHANGED writer

(* Write goes into the pipe and waits until the transport has read it.     *)
BeginWrite == opc = "dialed" /\ writer = "idle" /\ writer' = "write" /\ UNCHANGED reader

WriteReturns == writer = "write" /\ writer' = "idle" /\ UNCHANGED reader

UserStep == (BeginRead \/ WaitCreated \/ ReadReturns \/ BeginWrite \/ WriteReturns) /\ UserFrame

Next ==
  DialStep \/ RoundTripStep \/ FinishStep \/ UserStep \/ \E k \in Closers : CloseStep(k)

(* A goroutine that can run does run.  Of the transport only what it       *)
(* promises about a context that is over and a body that is closed; nobody *)
(* makes the server answer, the user close, or a context end.              *)
Fairness ==
  /\ WF_vars(DialStep /\ opc # "new" /\ opc' # opc)
  /\ WF_vars(RequestDone /\ RoundTripReturns /\ RoundTripFrame)
  /\ WF_vars(ResultStep)
  /\ WF_vars(FinishStep)
  /\ WF_vars(CloseStep(Dialer))
  /\ \A k \in Users : WF_vars(Closing(k))
  /\ WF_vars(WaitCreated /\ UserFrame)
  /\ WF_vars((RequestDone \/ response = "closed") /\ ReadReturns /\ UserFrame)
  /\ WF_vars(pipe = "closed" /\ WriteReturns /\ UserFrame)

Spec == Init /\ [][Next]_vars

FairSpec == Spec /\ Fairness

-----------------------------------------------------------------------------
(* The response body has one owner: once the stream is closed, setUp and   *)
(* every Close call are over, it is closed, whoever came first.            *)
BodyNeverLeaks ==
  /\ closed /\ rpc \in {"finish", "wait", "done"}
  /\ \A k \in Closers : cpc[k] \in {"idle", "done"}
  => response # "open"

(* Read touches h.body without the mutex, after waitCreated: it is never   *)
(* nil there, even when Close came before setUp.                           *)
ReadHasBody == reader = "read" => body

(* finish cancels before it releases: the slot that keeps closeIdleLocked  *)
(* from cutting the connections outlives the request it stands for, and    *)
(* however many call finish, it is given back once.                        *)
SlotOutlivesRequest == slots >= 0 /\ (rpc # "off" /\ slots = 0 => canceled)

(* When Dial returns an error the stream is closed, its pipe too, and it   *)
(* counts for nothing any more, although RoundTrip may still be running.   *)
FailedDialHoldsNothing == opc = "failed" => slots = 0 /\ closed /\ pipe = "closed"

(* A failed RoundTrip gives its slot back without any call of Close.       *)
FailedRequestReleases == (rpc = "pipe") ~> (slots = 0)

(* Dial returns once its context, or the client's, is over.                *)
DialReturns ==
  (opc # "new" /\ (dialDone \/ clientDone)) ~> (opc \in {"failed", "dialed"})

(* Close returns, also when the server never answers, and with it every    *)
(* Read, with or without a response, and every Write.                      *)
CloseUnblocks ==
  /\ \A k \in Users : (cpc[k] # "idle") ~> (cpc[k] = "done")
  /\ (closed /\ reader # "idle") ~> (reader = "idle")
  /\ (closed /\ writer # "idle") ~> (writer = "idle")
=============================================================================
