---------------------------- MODULE ConnTracker ----------------------------
(***************************************************************************)
(* connTracker (close.go): the book of the raw connections a client owns,  *)
(* and the dials that feed it (dialTLS in client.go, Dial in quic.go).     *)
(*                                                                         *)
(* Every dial captures the tracker's derived context when it begins, and   *)
(* Track admits its connection only if that context is still alive.        *)
(* Close cancels the context, opens the next one, empties the book under   *)
(* the mutex and closes the connections it took outside of it.  A context  *)
(* is named by its number, the generation; a connection by its dial.       *)
(*                                                                         *)
(* What runs under tracker.access is one step; whatever runs outside of it *)
(* (the AfterFunc, the dialer, the handshake, every Conn.Close) is a step  *)
(* of its own that the others may come between.                            *)
(***************************************************************************)
EXTENDS Naturals

CONSTANTS
  Dials,    \* calls of dialTLS, each with the one connection it may produce
  Closers,  \* goroutines that call connTracker.Close
  NoConn,   \* no connection
  MaxGen    \* bound: contexts Close may derive after the first one

ASSUME TrackerAssumption ==
  /\ NoConn \notin Dials
  /\ MaxGen \in Nat

VARIABLES
  parentDone,  \* connTracker.parent (Client.ctx) is canceled
  gen,         \* the generation of connTracker.derivedContext
  cancelled,   \* generations whose CancelFunc was called
  conns,       \* connTracker.conns
  dpc,         \* where the dialing goroutine is
  dgen,        \* trackedDial.derivedContext
  dctxDone,    \* trackedDial.ctx is canceled
  sock,        \* the underlying net.Conn
  closed,      \* trackedCommonConn.closed
  kpc,         \* the trackedCommonConn.Close call that won the Swap
  snap,        \* connections a Close call took and has not started on
  cur          \* the connection closeFromTracker is working on

dialVars == <<dpc, dgen, dctxDone>>
closeVars == <<snap, cur>>
vars == <<parentDone, gen, cancelled, conns, dpc, dgen, dctxDone,
          sock, closed, kpc, snap, cur>>

(* Mutant: the context is derived from another one than the parent.        *)
ContextDoneDetached(g) == g \in cancelled

(* Whether a derived context of generation g reports an error.  Contexts   *)
(* derived after the parent was canceled are born canceled.                *)
ContextDone(g) == parentDone \/ g \in cancelled

DialStates == {"idle", "dialing", "dialed", "tracked", "closing", "up", "failed"}

TypeOK ==
  /\ parentDone \in BOOLEAN
  /\ gen \in 0..MaxGen
  /\ cancelled \subseteq 0..MaxGen
  /\ conns \subseteq Dials
  /\ dpc \in [Dials -> DialStates]
  /\ dgen \in [Dials -> 0..MaxGen]
  /\ dctxDone \in [Dials -> BOOLEAN]
  /\ sock \in [Dials -> {"none", "open", "closed"}]
  /\ closed \in [Dials -> BOOLEAN]
  /\ kpc \in [Dials -> {"idle", "untrack", "close", "done"}]
  /\ snap \in [Closers -> SUBSET Dials]
  /\ cur \in [Closers -> Dials \cup {NoConn}]

Init ==
  /\ parentDone = FALSE
  /\ gen = 0
  /\ cancelled = {}
  /\ conns = {}
  /\ dpc = [d \in Dials |-> "idle"]
  /\ dgen = [d \in Dials |-> 0]
  /\ dctxDone = [d \in Dials |-> FALSE]
  /\ sock = [d \in Dials |-> "none"]
  /\ closed = [d \in Dials |-> FALSE]
  /\ kpc = [d \in Dials |-> "idle"]
  /\ snap = [c \in Closers |-> {}]
  /\ cur = [c \in Closers |-> NoConn]

-----------------------------------------------------------------------------
(* The parent context ends: Client.Close, or the owner of the client.      *)
CancelParent ==
  /\ ~parentDone
  /\ parentDone' = TRUE
  /\ UNCHANGED <<gen, cancelled, conns, dialVars, sock, closed, kpc, closeVars>>

(* BeginDial reads the derived context under the mutex.  The dial's own    *)
(* context is cut off from the request that asked for the connection.      *)
BeginDial(d) ==
  /\ dpc[d] = "idle"
  /\ dpc' = [dpc EXCEPT ![d] = "dialing"]
  /\ dgen' = [dgen EXCEPT ![d] = gen]
  /\ UNCHANGED <<parentDone, gen, cancelled, conns, dctxDone, sock, closed, kpc, closeVars>>

(* context.AfterFunc(derivedContext, dial.cancel) runs in its own          *)
(* goroutine some time after the derived context ended.                    *)
AbortDial(d) ==
  /\ dpc[d] \in {"dialing", "dialed", "tracked"}
  /\ ContextDone(dgen[d])
  /\ ~dctxDone[d]
  /\ dctxDone' = [dctxDone EXCEPT ![d] = TRUE]
  /\ UNCHANGED <<parentDone, gen, cancelled, conns, dpc, dgen, sock, closed, kpc, closeVars>>

(* dialTLS returns: the deferred dial.Cancel ends the dial's own context.  *)
Return(d, pc) ==
  /\ dpc' = [dpc EXCEPT ![d] = pc]
  /\ dctxDone' = [dctxDone EXCEPT ![d] = TRUE]

(* The detour delivers a connection, even one whose context just ended.    *)
DialSucceeds(d) ==
  /\ dpc[d] = "dialing"
  /\ dpc' = [dpc EXCEPT ![d] = "dialed"]
  /\ sock' = [sock EXCEPT ![d] = "open"]
  /\ UNCHANGED <<parentDone, gen, cancelled, conns, dgen, dctxDone, closed, kpc, closeVars>>

(* The detour fails, on its own or because the dial's context ended.       *)
DialFails(d) ==
  /\ dpc[d] = "dialing"
  /\ Return(d, "failed")
  /\ UNCHANGED <<parentDone, gen, cancelled, conns, dgen, sock, closed, kpc, closeVars>>

Tracked(d) == conns \cup {d}

(* Track on a live context: the connection enters the book.                *)
Track(d) ==
  /\ dpc[d] = "dialed"
  /\ ~ContextDone(dgen[d])
  /\ conns' = Tracked(d)
  /\ dpc' = [dpc EXCEPT ![d] = "tracked"]
  /\ UNCHANGED <<parentDone, gen, cancelled, dgen, dctxDone, sock, closed, kpc, closeVars>>

(* Track on a canceled context: the raw connection is closed on the spot.  *)
RejectDial(d) ==
  /\ dpc[d] = "dialed"
  /\ ContextDone(dgen[d])
  /\ sock' = [sock EXCEPT ![d] = "closed"]
  /\ Return(d, "failed")
  /\ UNCHANGED <<parentDone, gen, cancelled, conns, dgen, closed, kpc, closeVars>>

(* The handshake completes with the expected protocol: dialTLS returns the *)
(* connection and the HTTP transport pools it.                             *)
HandshakeSucceeds(d) ==
  /\ dpc[d] = "tracked"
  /\ Return(d, "up")
  /\ UNCHANGED <<parentDone, gen, cancelled, conns, dgen, sock, closed, kpc, closeVars>>

(* trackedCommonConn.Close: only the caller whose Swap finds FALSE goes on *)
(* to Untrack and to the underlying Close; any other gets net.ErrClosed.   *)
SwapClosed(d) ==
  /\ closed' = [closed EXCEPT ![d] = TRUE]
  /\ kpc' = IF closed[d] THEN kpc ELSE [kpc EXCEPT ![d] = "untrack"]

(* The handshake fails, or ends with another protocol than expected:       *)
(* dialTLS closes the tracked connection before it returns the error.      *)
HandshakeFails(d) ==
  /\ dpc[d] = "tracked"
  /\ dpc' = [dpc EXCEPT ![d] = "closing"]
  /\ SwapClosed(d)
  /\ UNCHANGED <<parentDone, gen, cancelled, conns, dgen, dctxDone, sock, closeVars>>

(* dialTLS returns its error once its own Close call is over, which is at  *)
(* once if another caller had set the flag.                                *)
ReturnError(d) ==
  /\ dpc[d] = "closing"
  /\ kpc[d] \in {"idle", "done"}
  /\ Return(d, "failed")
  /\ UNCHANGED <<parentDone, gen, cancelled, conns, dgen, sock, closed, kpc, closeVars>>

(* The transport (or, over QUIC, the AfterFunc on the QUIC connection)     *)
(* closes a connection it was given.                                       *)
CloseConn(d) ==
  /\ dpc[d] = "up"
  /\ ~closed[d]
  /\ SwapClosed(d)
  /\ UNCHANGED <<parentDone, gen, cancelled, conns, dialVars, sock, closeVars>>

Untracked(d) == conns \ {d}

(* Untrack, under the mutex.                                               *)
Untrack(d) ==
  /\ kpc[d] = "untrack"
  /\ conns' = Untracked(d)
  /\ kpc' = [kpc EXCEPT ![d] = "close"]
  /\ UNCHANGED <<parentDone, gen, cancelled, dialVars, sock, closed, closeVars>>

(* The Close of the underlying connection, after Untrack.                  *)
CloseUnderlying(d) ==
  /\ kpc[d] = "close"
  /\ sock' = [sock EXCEPT ![d] = "closed"]
  /\ kpc' = [kpc EXCEPT ![d] = "done"]
  /\ UNCHANGED <<parentDone, gen, cancelled, conns, dialVars, closed, closeVars>>

(* Mutant: the canceled context stays the current one.                     *)
SameGeneration == gen

(* Close derives a new context from the parent.                            *)
NextGeneration == gen + 1

(* Mutant: the book is cleared before it is copied.                        *)
SnapshotAfterClear == {}

(* The connections Close copies out of the book.                           *)
Snapshot == conns

(* connTracker.Close, its critical section: cancel, derive the next        *)
(* context, take every connection out of the book.                         *)
BeginClose(c) ==
  /\ snap[c] = {} /\ cur[c] = NoConn
  /\ gen < MaxGen
  /\ cancelled' = cancelled \cup {gen}
  /\ gen' = NextGeneration
  /\ snap' = [snap EXCEPT ![c] = Snapshot]
  /\ conns' = {}
  /\ UNCHANGED <<parentDone, dialVars, sock, closed, kpc, cur>>

(* closeFromTracker: the flag first ...                                    *)
StoreClosed(c, d) ==
  /\ cur[c] = NoConn
  /\ d \in snap[c]
  /\ snap' = [snap EXCEPT ![c] = @ \ {d}]
  /\ cur' = [cur EXCEPT ![c] = d]
  /\ closed' = [closed EXCEPT ![d] = TRUE]
  /\ UNCHANGED <<parentDone, gen, cancelled, conns, dialVars, sock, kpc>>

(* Mutant: Close returns at the first error, here of a second Close.       *)
RestUntilError(c) == IF sock[cur[c]] = "closed" THEN {} ELSE snap[c]

(* Errors are collected: the rest of the snapshot is closed all the same.  *)
Rest(c) == snap[c]

(* ... then the underlying connection, which may be closed already.        *)
CloseFromTracker(c) ==
  /\ cur[c] # NoConn
  /\ sock' = [sock EXCEPT ![cur[c]] = "closed"]
  /\ cur' = [cur EXCEPT ![c] = NoConn]
  /\ snap' = [snap EXCEPT ![c] = Rest(c)]
  /\ UNCHANGED <<parentDone, gen, cancelled, conns, dialVars, closed, kpc>>

DialStep(d) ==
  \/ BeginDial(d) \/ AbortDial(d) \/ DialSucceeds(d) \/ DialFails(d)
  \/ Track(d) \/ RejectDial(d)
  \/ HandshakeSucceeds(d) \/ HandshakeFails(d) \/ ReturnError(d)

ConnStep(d) == CloseConn(d) \/ Untrack(d) \/ CloseUnderlying(d)

CloserStep(c) ==
  \/ BeginClose(c) \/ CloseFromTracker(c)
  \/ \E d \in Dials : StoreClosed(c, d)

Next ==
  \/ CancelParent
  \/ \E d \in Dials : DialStep(d) \/ ConnStep(d)
  \/ \E c \in Closers : CloserStep(c)

(* A goroutine that can run does run.  A dial or a handshake is only bound *)
(* to end when its context was canceled or its connection was closed; the  *)
(* network owes nobody an answer, and nobody has to call Close.            *)
Fairness ==
  /\ \A d \in Dials :
       /\ WF_vars(AbortDial(d))
       /\ WF_vars(dctxDone[d] /\ DialFails(d))
       /\ WF_vars(Track(d) \/ RejectDial(d))
       /\ WF_vars((dctxDone[d] \/ sock[d] = "closed") /\ HandshakeFails(d))
       /\ WF_vars(ReturnError(d))
       /\ WF_vars(Untrack(d) \/ CloseUnderlying(d))
  /\ \A c \in Closers :
       WF_vars(CloseFromTracker(c) \/ \E d \in Dials : StoreClosed(c, d))

Spec == Init /\ [][Next]_vars

FairSpec == Spec /\ Fairness

-----------------------------------------------------------------------------
(* Some Close call took d out of the book and has not closed it yet.       *)
TakenByCloser(d) == \E c \in Closers : d \in snap[c] \/ cur[c] = d

(* Some goroutine is on its way to the underlying Close of d.              *)
Doomed(d) == kpc[d] \in {"untrack", "close"} \/ TakenByCloser(d)

(* No connection escapes: from Track on, an open connection is in the book *)
(* under the current derived context, or a goroutine that found it there   *)
(* is about to close it; and a dial that returned an error (dialTLS) has   *)
(* left nothing open that only the transport could have closed.            *)
NoEscape ==
  \A d \in Dials : sock[d] = "open" =>
    /\ dpc[d] \in {"tracked", "closing", "up"} =>
         (d \in conns /\ dgen[d] = gen) \/ Doomed(d)
    /\ dpc[d] = "failed" => TakenByCloser(d)

(* Close spares what came after it: it closes outside of the mutex, while  *)
(* new dials are being tracked, yet a connection dialed under the current  *)
(* context is never in its hands, nor closed by anyone but its owner.      *)
NewcomersSpared ==
  \A d \in Dials : dpc[d] # "idle" /\ dgen[d] = gen =>
    /\ ~TakenByCloser(d)
    /\ closed[d] => kpc[d] # "idle"

(* The book holds open connections only, so that no Close call is handed   *)
(* one its owner is done with: Untrack comes before the underlying Close.  *)
BookIsOpen == \A d \in conns : sock[d] = "open"

(* Once the parent context is over (Client.Close cancels it first), the    *)
(* book only shrinks: no dial in flight slips in behind the final Close.   *)
ClosingIsFinal == [][parentDone => conns' \subseteq conns]_vars

-----------------------------------------------------------------------------
(* What the book promises, in terms of the life of each connection.        *)
Life(d) ==
  IF dpc[d] = "idle" THEN "none"
  ELSE IF dpc[d] \in {"dialing", "dialed"} THEN "pending"
  ELSE IF d \in conns THEN "live"
  ELSE IF sock[d] = "open" THEN "doomed" ELSE "dead"

Pool == INSTANCE ConnPool WITH
  epoch <- gen,
  final <- parentDone,
  life  <- [d \in Dials |-> Life(d)],
  born  <- dgen

(* The tracker implements the pool: nothing joins in a later epoch or      *)
(* after the end, and a reset leaves no member behind ...                  *)
PoolSpec == Pool!Spec

(* ... and whatever it doomed is closed, whoever gets there and whichever  *)
(* of the closes fails, and a dial it overtook ends, even if the network   *)
(* never answers.                                                          *)
PoolFairSpec == Pool!FairSpec
=============================================================================
