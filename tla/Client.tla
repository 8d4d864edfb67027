------------------------------- MODULE Client -------------------------------
(***************************************************************************)
(* The client as a whole (client.go, idle.go, forceCloseAllConnections of  *)
(* close.go): streams that take and give back slots of the idleManager,    *)
(* the calls of the user that close connections, the connection pool, and  *)
(* between them the HTTP transport that dials and shares connections.      *)
(*                                                                         *)
(* The connection tracker is used by what it promises, ConnPool, which     *)
(* ConnTracker is shown to implement.  A stream is cut down to what the    *)
(* idleManager sees of it; module Stream has the rest.  A health check is  *)
(* a stream too: it takes a slot, makes a request and gives the slot back; *)
(* it does that by itself, and is never served.                            *)
(*                                                                         *)
(* The transport is external: it starts a dial in a goroutine of its own   *)
(* for a request that finds no connection, hands a connection to any       *)
(* number of requests, and closes only connections that carry none.        *)
(***************************************************************************)
EXTENDS Naturals, FiniteSets

CONSTANTS
  Streams,  \* calls of openStream or HealthCheck; each may start one dial
  Callers,  \* calls of the other methods of the client
  None,     \* nobody, no connection
  MaxGen    \* bound: resets of the pool

(* One reset for every call and for every stream that is the last to go.   *)
ASSUME ClientAssumption ==
  /\ IsFiniteSet(Streams)
  /\ None \notin Streams \cup Callers
  /\ Streams \cap Callers = {}
  /\ MaxGen \in Nat

Dials == Streams
Closers == Streams \cup Callers
Calls == {"reset", "close", "closeIdle", "suspend", "resume"}

VARIABLES
  epoch, final, life, born,  \* the connection pool
  queued,       \* dials whose goroutine the transport started
  up,           \* connections the transport knows
  conn,         \* the connection of a stream
  spc,          \* the streams
  keepSession,  \* the dial's ContextWithKeepSession
  lock,         \* who holds idleManager.access across closeIdleLocked
  keep,         \* idleManager.keep
  streamCount,  \* idleManager.streamCount
  started,      \* healthCheckScheduler.started
  call,         \* what a caller calls
  cpc,          \* the callers
  phase,        \* how far a goroutine is in closing connections
  took,         \* the connections its connTracker.Close took
  raced         \* history: the last SetKeep fell between the steps of another call

Pool == INSTANCE ConnPool

poolVars == <<epoch, final, life, born, queued, up>>
streamVars == <<conn, spc, keepSession>>
idleVars == <<lock, keep, streamCount>>
callVars == <<call, cpc, started, raced>>
closeVars == <<phase, took>>
vars == <<poolVars, streamVars, idleVars, callVars, closeVars>>

TypeOK ==
  /\ epoch \in 0..MaxGen /\ final \in BOOLEAN
  /\ life \in [Dials -> {"none", "pending", "live", "doomed", "dead"}]
  /\ born \in [Dials -> 0..MaxGen]
  /\ queued \subseteq Dials /\ up \subseteq Dials
  /\ conn \in [Streams -> Dials \cup {None}]
  /\ spc \in [Streams -> {"new", "wait", "open", "served", "release", "closing", "done"}]
  /\ keepSession \in [Streams -> BOOLEAN]
  /\ lock \in Closers \cup {None}
  /\ keep \in BOOLEAN /\ started \in BOOLEAN /\ raced \in BOOLEAN
  /\ streamCount \in 0..Cardinality(Streams)
  /\ call \in [Callers -> Calls]
  /\ cpc \in [Callers -> {"new", "health", "lock", "closing", "done"}]
  /\ phase \in [Closers -> {"none", "transport", "tracker", "drain"}]
  /\ took \in [Closers -> SUBSET Dials]

(* Streams and callers come with what they are going to ask for.           *)
Init ==
  /\ Pool!Init
  /\ queued = {} /\ up = {}
  /\ conn = [s \in Streams |-> None]
  /\ spc = [s \in Streams |-> "new"]
  /\ keepSession \in [Streams -> BOOLEAN]
  /\ lock = None /\ keep \in BOOLEAN /\ streamCount = 0
  /\ started = keep /\ raced = FALSE
  /\ call \in [Callers -> Calls]
  /\ cpc = [c \in Callers |-> "new"]
  /\ phase = [k \in Closers |-> "none"]
  /\ took = [k \in Closers |-> {}]

-----------------------------------------------------------------------------
(* The streams.  AddStream, then RoundTrip.                                *)
AddStream(s) ==
  /\ spc[s] = "new" /\ lock = None
  /\ streamCount' = streamCount + 1
  /\ spc' = [spc EXCEPT ![s] = "wait"]
  /\ UNCHANGED <<queued, conn, lock, phase>>

(* A connection the transport does not know to be closed.                  *)
Usable(d) == d \in up /\ life[d] \in {"live", "doomed"}

(* No usable connection: the transport starts to dial one.                 *)
QueueDial(s) ==
  /\ spc[s] = "wait" /\ s \notin queued
  /\ ~\E d \in Dials : Usable(d)
  /\ queued' = queued \cup {s}
  /\ UNCHANGED <<conn, spc, lock, streamCount, phase>>

(* The request gets a connection, its own or another's.                    *)
GotConn(s, d) ==
  /\ spc[s] = "wait" /\ Usable(d)
  /\ conn' = [conn EXCEPT ![s] = d]
  /\ spc' = [spc EXCEPT ![s] = "open"]
  /\ UNCHANGED <<queued, lock, streamCount, phase>>

(* RoundTrip brought a 200, be it just before its request was cancelled:   *)
(* the goroutine of the stream is over, and leaves finish to the user.     *)
SetUp(s) ==
  /\ spc[s] = "open"
  /\ spc' = [spc EXCEPT ![s] = "served"]
  /\ UNCHANGED <<queued, conn, lock, streamCount, phase>>

(* The transport takes a stream that was set up off its connection: the    *)
(* server reset it, its context is over, or the connection is.  Its slot   *)
(* stays until its user closes it.                                         *)
Sever(s) ==
  /\ spc[s] = "served" /\ conn[s] # None
  /\ conn' = [conn EXCEPT ![s] = None]
  /\ UNCHANGED <<queued, spc, lock, streamCount, phase>>

(* The stream is over: closed by its user, or RoundTrip failed.  finish    *)
(* cancels the request, then goes on to release.                           *)
Finish(s) ==
  /\ spc[s] \in {"wait", "open", "served"}
  /\ conn' = [conn EXCEPT ![s] = None]
  /\ spc' = [spc EXCEPT ![s] = "release"]
  /\ UNCHANGED <<queued, lock, streamCount, phase>>

(* A request that cannot go on: the context of the client is over, or its  *)
(* connection is, or the dial it waits for failed.                         *)
Over(s) ==
  final \/ life[IF conn[s] # None THEN conn[s] ELSE s] = "dead"

(* releaseStream closes connections only for the last stream, and only if  *)
(* neither the client nor this stream wants them kept.                     *)
LastOut(s, count) == ~(count > 0 \/ keep \/ keepSession[s])

(* Mutant: the mutex is given up before closeIdleLocked.                   *)
LockNobody(k) == None

(* closeIdleLocked runs under the mutex.                                   *)
LockHolder(k) == k

(* releaseStream, under the mutex, which it keeps for closeIdleLocked.     *)
ReleaseStream(s) ==
  /\ spc[s] = "release" /\ lock = None
  /\ streamCount' = streamCount - 1
  /\ IF LastOut(s, streamCount - 1)
       THEN /\ lock' = LockHolder(s)
            /\ spc' = [spc EXCEPT ![s] = "closing"]
            /\ phase' = [phase EXCEPT ![s] = "transport"]
       ELSE spc' = [spc EXCEPT ![s] = "done"] /\ UNCHANGED <<lock, phase>>
  /\ UNCHANGED <<queued, conn>>

StreamFrame == UNCHANGED <<epoch, final, life, born, up, keepSession, keep, callVars, took>>

StreamStep(s) ==
  /\ \/ AddStream(s) \/ QueueDial(s) \/ SetUp(s) \/ Sever(s)
     \/ Finish(s) \/ ReleaseStream(s)
     \/ \E d \in Dials : GotConn(s, d)
  /\ StreamFrame

-----------------------------------------------------------------------------
(* The dials of the transport.  BeginDial comes whenever its goroutine     *)
(* gets to run: nobody may be waiting for the connection any more.         *)
BeginDial(d) == d \in queued /\ Pool!Begin(d) /\ UNCHANGED <<queued, up>>

(* The goroutine sees in time that its request is gone.                    *)
DropDial(d) ==
  /\ d \in queued /\ life[d] = "none" /\ spc[d] \notin {"new", "wait"}
  /\ queued' = queued \ {d}
  /\ UNCHANGED <<epoch, final, life, born, up>>

TrackDial(d) == Pool!Join(d) /\ UNCHANGED <<queued, up>>

FailDial(d) == Pool!Fail(d) /\ UNCHANGED <<queued, up>>

HandshakeSucceeds(d) ==
  /\ life[d] = "live" /\ d \notin up
  /\ up' = up \cup {d}
  /\ UNCHANGED <<epoch, final, life, born, queued>>

HandshakeFails(d) == d \notin up /\ Pool!Release(d) /\ UNCHANGED <<queued, up>>

(* The network, or the server, ends a connection.                          *)
LoseConn(d) == d \in up /\ Pool!Release(d) /\ UNCHANGED <<queued, up>>

CloseConn(d) == Pool!Die(d) /\ UNCHANGED <<queued, up>>

(* A connection the transport has, and that carries no stream.             *)
Idle(d) == life[d] = "live" /\ d \in up /\ \A s \in Streams : conn[s] # d

(* Mutant: no IdleConnTimeout.                                             *)
IdleTimeoutNever(d) == FALSE

(* IdleConnTimeout of the transport, DefaultSessionTimeout.                *)
IdleTimeout(d) == Idle(d) /\ Pool!Release(d) /\ UNCHANGED <<queued, up>>

DialFrame == UNCHANGED <<streamVars, idleVars, callVars, closeVars>>

DialStep(d) ==
  /\ \/ BeginDial(d) \/ DropDial(d) \/ TrackDial(d) \/ FailDial(d)
     \/ HandshakeSucceeds(d) \/ HandshakeFails(d)
     \/ LoseConn(d) \/ CloseConn(d) \/ IdleTimeout(d)
  /\ DialFrame

-----------------------------------------------------------------------------
(* forceCloseAllConnections: first what the transport holds idle ...       *)
CloseIdleConn(k, d) ==
  /\ phase[k] = "transport" /\ Idle(d) /\ Pool!Release(d)
  /\ UNCHANGED <<spc, lock, cpc, closeVars>>

(* Mutant: closeIdleLocked does not look at streamCount.                   *)
SpareNever(k) == FALSE

(* closeIdleLocked stops there while there are streams; reset and close,   *)
(* which do not hold the mutex, spare nothing.                             *)
Spare(k) == lock = k /\ streamCount > 0

(* Mutant: the mutex is not given back.                                    *)
UnlockNot(k) == lock

Unlock(k) == IF lock = k THEN None ELSE lock

Return(k) ==
  /\ lock' = Unlock(k)
  /\ phase' = [phase EXCEPT ![k] = "none"]
  /\ IF k \in Streams
       THEN spc' = [spc EXCEPT ![k] = "done"] /\ UNCHANGED cpc
       ELSE cpc' = [cpc EXCEPT ![k] = "done"] /\ UNCHANGED spc

IdleConnsClosed(k) ==
  /\ phase[k] = "transport" /\ ~\E d \in Dials : Idle(d)
  /\ IF Spare(k)
       THEN Return(k)
       ELSE phase' = [phase EXCEPT ![k] = "tracker"] /\ UNCHANGED <<lock, spc, cpc>>
  /\ UNCHANGED <<epoch, final, life, born, took>>

(* ... then connTracker.Close ...                                          *)
CloseTracker(k) ==
  /\ phase[k] = "tracker" /\ Pool!Reset
  /\ took' = [took EXCEPT ![k] = {d \in Dials : life[d] = "live"}]
  /\ phase' = [phase EXCEPT ![k] = "drain"]
  /\ UNCHANGED <<spc, lock, cpc>>

(* ... which returns when every connection it took is closed.              *)
TrackerClosed(k) ==
  /\ phase[k] = "drain" /\ \A d \in took[k] : life[d] = "dead"
  /\ Return(k)
  /\ UNCHANGED <<epoch, final, life, born, took>>

CloseStep(k) ==
  /\ \/ IdleConnsClosed(k) \/ CloseTracker(k) \/ TrackerClosed(k)
     \/ \E d \in Dials : CloseIdleConn(k, d)
  /\ UNCHANGED <<queued, up, conn, keepSession, keep, streamCount, call, started, raced>>

-----------------------------------------------------------------------------
Goto(c, pc) == cpc' = [cpc EXCEPT ![c] = pc]

BeginClosing(c) == Goto(c, "closing") /\ phase' = [phase EXCEPT ![c] = "transport"]

(* Mutant: Close forgets the context.                                      *)
FinalForgotten == final

Final == TRUE

(* Close: first the context of the client.                                 *)
CancelClient(c) ==
  /\ call[c] = "close" /\ cpc[c] = "new"
  /\ final' = Final /\ Goto(c, "health")
  /\ UNCHANGED <<idleVars, started, raced, phase>>

(* SetKeepIdleConnections: idleManager.SetKeep, under the mutex.           *)
SetKeep(c) ==
  /\ call[c] \in {"suspend", "resume"} /\ cpc[c] = "new" /\ lock = None
  /\ keep' = (call[c] = "resume") /\ Goto(c, "health")
  /\ raced' = (\E d \in Callers : cpc[d] = "health")
  /\ UNCHANGED <<final, lock, streamCount, started, phase>>

(* Mutant: a suspend closes connections and leaves the scheduler alone.    *)
SchedulerUnlessClose(c) == IF call[c] = "suspend" THEN started ELSE call[c] = "resume"

(* healthCheck.Start or Stop                                               *)
Scheduler(c) == call[c] = "resume"

(* All three go on to the scheduler.                                       *)
SetHealthCheck(c) ==
  /\ cpc[c] = "health"
  /\ started' = Scheduler(c)
  /\ CASE call[c] = "resume"  -> Goto(c, "done") /\ UNCHANGED phase
       [] call[c] = "suspend" -> Goto(c, "lock") /\ UNCHANGED phase
       [] call[c] = "close"   -> BeginClosing(c)
  /\ UNCHANGED <<final, idleVars, raced>>

(* ResetConnections closes without the mutex.                              *)
BeginReset(c) ==
  /\ call[c] = "reset" /\ cpc[c] = "new"
  /\ BeginClosing(c)
  /\ UNCHANGED <<final, idleVars, started, raced>>

(* idleManager.CloseIdle, of CloseIdleConnections or of a suspend.         *)
CloseIdle(c) ==
  /\ cpc[c] = "lock" \/ (cpc[c] = "new" /\ call[c] = "closeIdle")
  /\ lock = None /\ lock' = LockHolder(c)
  /\ BeginClosing(c)
  /\ UNCHANGED <<final, keep, streamCount, started, raced>>

CallFrame == UNCHANGED <<epoch, life, born, queued, up, streamVars, call, took>>

CallStep(c) ==
  /\ CancelClient(c) \/ SetKeep(c) \/ SetHealthCheck(c) \/ BeginReset(c) \/ CloseIdle(c)
  /\ CallFrame

-----------------------------------------------------------------------------
Next ==
  \/ \E s \in Streams : StreamStep(s)
  \/ \E d \in Dials : DialStep(d)
  \/ \E k \in Closers : CloseStep(k)
  \/ \E c \in Callers : CallStep(c)

(* Goroutines run, a stale dial is aborted, a doomed connection is closed, *)
(* and the transport keeps its idle timeout.  A RoundTrip whose request    *)
(* cannot go on fails, and finishes its stream; once it returned a 200,    *)
(* only the user finishes the stream.  No user has to close a stream or    *)
(* call anything, and no server has to answer.                             *)
Fairness ==
  /\ \A s \in Streams :
       /\ WF_vars(spc[s] \in {"wait", "open"} /\ Over(s) /\ Finish(s) /\ StreamFrame)
       /\ WF_vars(Over(s) /\ Sever(s) /\ StreamFrame)
       /\ WF_vars(ReleaseStream(s) /\ StreamFrame)
  /\ \A d \in Dials :
       /\ WF_vars((BeginDial(d) \/ DropDial(d)) /\ DialFrame)
       /\ WF_vars(Pool!Stale(d) /\ FailDial(d) /\ DialFrame)
       /\ WF_vars((HandshakeSucceeds(d) \/ HandshakeFails(d)) /\ DialFrame)
       /\ WF_vars(CloseConn(d) /\ DialFrame)
       /\ WF_vars(IdleTimeout(d) /\ DialFrame)
  /\ \A k \in Closers : WF_vars(CloseStep(k))
  /\ \A c \in Callers : WF_vars(cpc[c] # "new" /\ CallStep(c))

Spec == Init /\ [][Next]_vars

FairSpec == Spec /\ Fairness

-----------------------------------------------------------------------------
(* A goroutine in closeIdleLocked, as opposed to reset or close.           *)
ClosingIdle(k) ==
  /\ phase[k] # "none"
  /\ k \in Streams \/ call[k] \in {"closeIdle", "suspend"}

(* An idle close never cuts a stream: none has a slot, or gets one, while  *)
(* it goes from its look at streamCount to the last Close.                 *)
IdleCloseSparesStreams ==
  \A k \in Closers :
    ClosingIdle(k) /\ phase[k] \in {"tracker", "drain"}
      => \A s \in Streams : spc[s] \notin {"wait", "open", "served"}

(* A connection that carries a stream is only taken from it by the server, *)
(* by ResetConnections or by Close.                                        *)
OnlyResetCuts ==
  [][\A s \in Streams :
       conn[s] # None /\ life[conn[s]] = "live" /\ life'[conn[s]] = "doomed"
         => \/ LoseConn(conn[s])
            \/ \E c \in Callers : call[c] \in {"reset", "close"} /\ CloseTracker(c)]_vars

(* When Close has returned, no connection is left in the book, and none    *)
(* gets there, whatever dials and resets were on their way.                *)
ClosedHoldsNothing ==
  (\E c \in Callers : call[c] = "close" /\ cpc[c] = "done")
    => \A d \in Dials : life[d] # "live"

(* SetKeepIdleConnections is two steps with no lock around them, and calls *)
(* at once may leave a scheduler without the flag or a flag without the    *)
(* scheduler; but a call that ran alone leaves both as it was told to,     *)
(* whatever the calls before it left behind.                               *)
KeepMeansChecks ==
  ~raced /\ ~final /\ (\A c \in Callers : cpc[c] # "health") => started = keep

(* Every call returns, although closing goes on under the mutex that the   *)
(* streams it cuts need for their own release.                             *)
CallsReturn ==
  /\ \A c \in Callers : (cpc[c] \in {"health", "lock", "closing"}) ~> (cpc[c] = "done")
  /\ \A s \in Streams : (spc[s] = "release") ~> (spc[s] = "done")

(* A closed client comes to nothing but what its users hold: every dial    *)
(* ends, every connection is closed, every request that was not set up     *)
(* gives its slot back, and a stream that was set up, which keeps its slot *)
(* until its user closes it, is off its connection.                        *)
ClosedDrains ==
  (\E c \in Callers : call[c] = "close" /\ cpc[c] # "new")
    ~> /\ \A d \in Dials : life[d] \in {"none", "dead"}
       /\ \A s \in Streams : spc[s] \in {"new", "served", "done"} /\ conn[s] = None

(* A client without streams loses its connections, be it by the last       *)
(* release, by an idle close, or only by the timeout of the transport.     *)
IdleDrains ==
  (\A s \in Streams : spc[s] = "done") ~> (\A d \in Dials : life[d] \notin {"live", "doomed"})

(* What idle_test.go says of a client that is not to keep connections:     *)
(* after the last stream is closed there is none.                          *)
SuspendedKeepsNothing ==
  /\ ~keep
  /\ \A s \in Streams : spc[s] = "done" /\ ~keepSession[s]
  /\ \A c \in Callers : cpc[c] \in {"new", "done"} /\ call[c] # "resume"
  => \A d \in Dials : life[d] # "live"
=============================================================================
