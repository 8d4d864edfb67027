------------------------- MODULE ConnTrackerProofs -------------------------
(***************************************************************************)
(* The safety of connTracker for any number of dials and Close calls.      *)
(***************************************************************************)
EXTENDS ConnTracker, TLAPS

(* Contexts are canceled in the order they were derived, all but the last. *)
GenInv ==
  /\ \A g \in 0..MaxGen : g \in cancelled <=> g < gen
  /\ \A d \in Dials : dgen[d] <= gen

(* A dial that has tracked nothing has touched nothing but its raw socket. *)
UntrackedInv ==
  \A d \in Dials : dpc[d] \in {"idle", "dialing", "dialed"} =>
    /\ sock[d] = IF dpc[d] = "dialed" THEN "open" ELSE "none"
    /\ ~closed[d]
    /\ kpc[d] = "idle"

(* What is in the book is open, of the current generation, in no closer's  *)
(* hands, and if its flag is set, its owner is about to untrack it.        *)
BookInv ==
  \A d \in conns :
    /\ dpc[d] \in {"tracked", "closing", "up"}
    /\ sock[d] = "open"
    /\ dgen[d] = gen
    /\ kpc[d] = IF closed[d] THEN "untrack" ELSE "idle"

(* What a closer took was tracked under an earlier generation.             *)
TakenInv ==
  \A d \in Dials : TakenByCloser(d) =>
    /\ dpc[d] \in {"tracked", "closing", "up", "failed"}
    /\ dgen[d] < gen

(* The flag and the winning Close call.                                    *)
FlagInv ==
  \A d \in Dials :
    /\ kpc[d] # "idle" => closed[d] /\ dpc[d] \in {"closing", "up", "failed"}
    /\ kpc[d] = "done" => sock[d] = "closed"
    /\ closed[d] /\ kpc[d] = "idle" => dgen[d] < gen
    /\ dpc[d] = "closing" => closed[d]
    /\ dpc[d] = "failed" => kpc[d] \in {"idle", "done"}

IInv ==
  /\ TypeOK
  /\ GenInv
  /\ UntrackedInv
  /\ BookInv
  /\ TakenInv
  /\ FlagInv
  /\ NoEscape

-----------------------------------------------------------------------------
(* The initial state satisfies the inductive invariant.                    *)
LEMMA InitIInv == Init => IInv
<1> SUFFICES ASSUME Init PROVE IInv
  OBVIOUS
<1> USE TrackerAssumption DEF Init
<1>1. TypeOK
  <2>1. parentDone \in BOOLEAN
    OBVIOUS
  <2>6. gen \in 0..MaxGen
    BY DEF TrackerAssumption
  <2>5. cancelled \subseteq 0..MaxGen /\ conns \subseteq Dials
    OBVIOUS
  <2>2. /\ dpc \in [Dials -> DialStates]
        /\ dgen \in [Dials -> 0..MaxGen] /\ dctxDone \in [Dials -> BOOLEAN]
    BY DEF DialStates
  <2>3. /\ sock \in [Dials -> {"none", "open", "closed"}]
        /\ closed \in [Dials -> BOOLEAN]
        /\ kpc \in [Dials -> {"idle", "untrack", "close", "done"}]
    OBVIOUS
  <2>4. snap \in [Closers -> SUBSET Dials] /\ cur \in [Closers -> Dials \cup {NoConn}]
    OBVIOUS
  <2> QED
    BY <2>1, <2>2, <2>3, <2>4, <2>5, <2>6 DEF TypeOK
<1>2. GenInv
  BY DEF GenInv
<1>3. UntrackedInv /\ BookInv
  BY DEF UntrackedInv, BookInv
<1>4. \A d \in Dials : ~TakenByCloser(d)
  BY DEF TakenByCloser
<1>5. TakenInv /\ FlagInv /\ NoEscape
  BY <1>4 DEF TakenInv, FlagInv, NoEscape
<1> QED
  BY <1>1, <1>2, <1>3, <1>5 DEF IInv

(* Every step of every goroutine preserves it.                             *)
LEMMA StepIInv == IInv /\ [Next]_vars => IInv'
<1> SUFFICES ASSUME IInv, [Next]_vars PROVE IInv'
  OBVIOUS
<1> USE TrackerAssumption
<1> USE DEF IInv, TypeOK, GenInv, UntrackedInv, BookInv, TakenInv, FlagInv,
            NoEscape, TakenByCloser, Doomed, DialStates, dialVars, closeVars
<1>1. CASE CancelParent
  BY <1>1 DEF CancelParent
<1>2. ASSUME NEW d \in Dials, BeginDial(d) PROVE IInv'
  BY <1>2 DEF BeginDial, ContextDone
<1>3. ASSUME NEW d \in Dials, AbortDial(d) PROVE IInv'
  BY <1>3 DEF AbortDial, ContextDone
<1>4. ASSUME NEW d \in Dials, DialSucceeds(d) PROVE IInv'
  BY <1>4 DEF DialSucceeds, ContextDone
<1>5. ASSUME NEW d \in Dials, DialFails(d) PROVE IInv'
  BY <1>5 DEF DialFails, Return, ContextDone
<1>6. ASSUME NEW d \in Dials, Track(d) PROVE IInv'
  <2> USE <1>6 DEF Track, Tracked, ContextDone
  <2>1. TypeOK' /\ GenInv' /\ UntrackedInv'
    OBVIOUS
  <2>2. dgen[d] = gen /\ ~TakenByCloser(d)
    OBVIOUS
  <2>3. BookInv'
    BY <2>2
  <2>4. TakenInv' /\ FlagInv'
    BY <2>2
  <2>5. NoEscape'
    BY <2>2
  <2> QED
    BY <2>1, <2>3, <2>4, <2>5
<1>7. ASSUME NEW d \in Dials, RejectDial(d) PROVE IInv'
  BY <1>7 DEF RejectDial, Return, ContextDone
<1>8. ASSUME NEW d \in Dials, HandshakeSucceeds(d) PROVE IInv'
  BY <1>8 DEF HandshakeSucceeds, Return, ContextDone
<1>9. ASSUME NEW d \in Dials, HandshakeFails(d) PROVE IInv'
  BY <1>9 DEF HandshakeFails, SwapClosed, ContextDone
<1>10. ASSUME NEW d \in Dials, ReturnError(d) PROVE IInv'
  BY <1>10 DEF ReturnError, Return, ContextDone
<1>11. ASSUME NEW d \in Dials, CloseConn(d) PROVE IInv'
  BY <1>11 DEF CloseConn, SwapClosed, ContextDone
<1>12. ASSUME NEW d \in Dials, Untrack(d) PROVE IInv'
  BY <1>12 DEF Untrack, Untracked, ContextDone
<1>13. ASSUME NEW d \in Dials, CloseUnderlying(d) PROVE IInv'
  BY <1>13 DEF CloseUnderlying, ContextDone
<1>14. ASSUME NEW c \in Closers, BeginClose(c) PROVE IInv'
  BY <1>14 DEF BeginClose, Snapshot, NextGeneration
<1>15. ASSUME NEW c \in Closers, CloseFromTracker(c) PROVE IInv'
  BY <1>15 DEF CloseFromTracker, Rest
<1>16. ASSUME NEW c \in Closers, NEW d \in Dials, StoreClosed(c, d) PROVE IInv'
  BY <1>16 DEF StoreClosed
<1>17. CASE UNCHANGED vars
  BY <1>17 DEF vars
<1>18. QED
  BY <1>1, <1>2, <1>3, <1>4, <1>5, <1>6, <1>7, <1>8, <1>9, <1>10, <1>11, <1>12, <1>13, <1>14, <1>15, <1>16, <1>17
  DEF Next, DialStep, ConnStep, CloserStep
-----------------------------------------------------------------------------
(* The inductive invariant holds for any number of dials and closers.      *)
THEOREM Invariance == Spec => []IInv
<1> QED
  BY InitIInv, StepIInv, PTL DEF Spec

(* Every variable keeps its type: no goroutine of dialTLS or Close drives  *)
(* the tracker out of its states.                                          *)
THEOREM TypeCorrect == Spec => []TypeOK
<1>1. IInv => TypeOK
  BY DEF IInv
<1> QED
  BY <1>1, Invariance, PTL

(* No connection escapes both the book and the goroutines closing it.      *)
THEOREM NothingEscapes == Spec => []NoEscape
<1>1. IInv => NoEscape
  BY DEF IInv
<1> QED
  BY <1>1, Invariance, PTL

(* A Close call never has a connection of the current context in its       *)
(* hands, and nobody but its owner closes one.                             *)
THEOREM CloseSparesNewcomers == Spec => []NewcomersSpared
<1>1. IInv => NewcomersSpared
  BY DEF IInv, TakenInv, FlagInv, NewcomersSpared, TypeOK
<1> QED
  BY <1>1, Invariance, PTL

(* The book never holds a connection that is closed.                       *)
THEOREM BookStaysOpen == Spec => []BookIsOpen
<1>1. IInv => BookIsOpen
  BY DEF IInv, BookInv, BookIsOpen
<1> QED
  BY <1>1, Invariance, PTL

(* No dial enters the book behind the end of the parent context.           *)
THEOREM BookShrinksAfterParent == Spec => ClosingIsFinal
<1>1. ASSUME [Next]_vars, parentDone PROVE conns' \subseteq conns
  BY <1>1
  DEF Next, DialStep, ConnStep, CloserStep, CancelParent, BeginDial, AbortDial,
      DialSucceeds, DialFails, Track, Tracked, RejectDial, HandshakeSucceeds,
      HandshakeFails, ReturnError, CloseConn, Untrack, Untracked, CloseUnderlying,
      BeginClose, StoreClosed, CloseFromTracker, ContextDone, vars
<1> QED
  BY <1>1, PTL DEF Spec, ClosingIsFinal

-----------------------------------------------------------------------------
(* The tracker implements the pool: every step of a goroutine either moves *)
(* one connection along its life, or ends the epoch, or does not show.     *)
THEOREM ImplementsPool == Spec => PoolSpec
<1>1. Init => Pool!Init
  BY DEF Init, Pool!Init, Life
<1>2. IInv /\ [Next]_vars => [Pool!Next]_Pool!poolVars
  <2> SUFFICES ASSUME IInv, [Next]_vars PROVE [Pool!Next]_Pool!poolVars
    OBVIOUS
  <2> USE DEF IInv, TypeOK, DialStates, dialVars, closeVars
  <2>1. CASE CancelParent
    <3>1. \A d \in Dials : Life(d)' = Life(d)
      BY <2>1 DEF CancelParent, Life
    <3>2. Pool!Finish
      BY <2>1, <3>1 DEF CancelParent, Pool!Finish
    <3> QED
      BY <3>2 DEF Pool!Next
  <2>2. ASSUME NEW d \in Dials, BeginDial(d) PROVE Pool!Begin(d)
    BY <2>2 DEF BeginDial, Life, Pool!Begin, Pool!Move
  <2>3. ASSUME NEW d \in Dials, Track(d) PROVE Pool!Join(d)
    <3>1. dgen[d] = gen /\ ~parentDone
      BY <2>3, TrackerAssumption DEF Track, Tracked, ContextDone, GenInv
    <3>2. Life(d) = "pending" /\ Life(d)' = "live"
      BY <2>3 DEF Track, Tracked, Life
    <3>3. \A e \in Dials \ {d} : Life(e)' = Life(e)
      BY <2>3 DEF Track, Tracked, Life
    <3> QED
      BY <2>3, <3>1, <3>2, <3>3 DEF Track, Tracked, Pool!Join, Pool!Move
  <2>4. ASSUME NEW d \in Dials, DialFails(d) \/ RejectDial(d) PROVE Pool!Fail(d)
    <3>1. Life(d) = "pending" /\ Life(d)' = "dead"
      BY <2>4 DEF DialFails, RejectDial, Return, Life, UntrackedInv, BookInv
    <3>2. \A e \in Dials \ {d} : Life(e)' = Life(e)
      BY <2>4 DEF DialFails, RejectDial, Return, Life
    <3>3. UNCHANGED <<gen, parentDone, dgen>>
      BY <2>4 DEF DialFails, RejectDial
    <3> QED
      BY <3>1, <3>2, <3>3 DEF Pool!Fail, Pool!Move
  <2>5. ASSUME NEW d \in Dials,
               \/ AbortDial(d) \/ DialSucceeds(d) \/ HandshakeSucceeds(d)
               \/ HandshakeFails(d) \/ ReturnError(d) \/ CloseConn(d)
        PROVE UNCHANGED Pool!poolVars
    <3>1. \A e \in Dials : Life(e)' = Life(e)
      BY <2>5 DEF AbortDial, DialSucceeds, HandshakeSucceeds, HandshakeFails,
                  ReturnError, CloseConn, Return, SwapClosed, Life
    <3> QED
      BY <2>5, <3>1 DEF AbortDial, DialSucceeds, HandshakeSucceeds, HandshakeFails,
                  ReturnError, CloseConn, Return, SwapClosed, Pool!poolVars
  <2>6. ASSUME NEW d \in Dials, Untrack(d)
        PROVE Pool!Release(d) \/ UNCHANGED Pool!poolVars
    <3>1. \A e \in Dials \ {d} : Life(e)' = Life(e)
      BY <2>6 DEF Untrack, Untracked, Life
    <3>2. CASE d \in conns
      <4>1. Life(d) = "live" /\ Life(d)' = "doomed"
        BY <2>6, <3>2 DEF Untrack, Untracked, Life, BookInv
      <4> QED
        BY <2>6, <3>1, <4>1 DEF Untrack, Untracked, Pool!Release, Pool!Move
    <3>3. CASE d \notin conns
      <4>1. Life(d)' = Life(d)
        BY <2>6, <3>3 DEF Untrack, Untracked, Life
      <4> QED
        BY <2>6, <3>1, <4>1 DEF Untrack, Untracked, Pool!poolVars
    <3> QED
      BY <3>2, <3>3
  <2>7. ASSUME NEW d \in Dials, d \notin conns,
               dpc[d] \in {"tracked", "closing", "up", "failed"},
               sock' = [sock EXCEPT ![d] = "closed"],
               UNCHANGED <<parentDone, gen, conns, dpc, dgen>>
        PROVE Pool!Die(d) \/ UNCHANGED Pool!poolVars
    <3>1. \A e \in Dials \ {d} : Life(e)' = Life(e)
      BY <2>7 DEF Life
    <3>2. Life(d)' = "dead" /\ Life(d) \in {"doomed", "dead"}
      BY <2>7 DEF Life
    <3> QED
      BY <2>7, <3>1, <3>2 DEF Pool!Die, Pool!Move, Pool!poolVars
  <2>8. ASSUME NEW d \in Dials, CloseUnderlying(d)
        PROVE Pool!Die(d) \/ UNCHANGED Pool!poolVars
    BY <2>7, <2>8 DEF CloseUnderlying, BookInv, FlagInv
  <2>9. ASSUME NEW c \in Closers, CloseFromTracker(c)
        PROVE \E d \in Dials : Pool!Die(d) \/ UNCHANGED Pool!poolVars
    <3>1. PICK d \in Dials : d = cur[c]
      BY <2>9 DEF CloseFromTracker, Rest
    <3>2. d \notin conns /\ dpc[d] \in {"tracked", "closing", "up", "failed"}
      BY <3>1, TrackerAssumption DEF TakenByCloser, TakenInv, BookInv
    <3> QED
      BY <2>7, <2>9, <3>1, <3>2 DEF CloseFromTracker, Rest
  <2>10. ASSUME NEW c \in Closers, BeginClose(c) PROVE Pool!Reset
    <3>1. \A d \in Dials :
            Life(d)' = IF Life(d) = "live" THEN "doomed" ELSE Life(d)
      BY <2>10 DEF BeginClose, Life, BookInv
    <3> QED
      BY <2>10, <3>1 DEF BeginClose, NextGeneration, Pool!Reset
  <2>11. ASSUME NEW c \in Closers, NEW d \in Dials, StoreClosed(c, d)
         PROVE UNCHANGED Pool!poolVars
    <3>1. \A e \in Dials : Life(e)' = Life(e)
      BY <2>11 DEF StoreClosed, Life
    <3> QED
      BY <2>11, <3>1 DEF StoreClosed, Pool!poolVars
  <2>12. CASE UNCHANGED vars
    <3>1. \A e \in Dials : Life(e)' = Life(e)
      BY <2>12 DEF vars, Life
    <3> QED
      BY <2>12, <3>1 DEF vars, Pool!poolVars
  <2> QED
    BY <2>1, <2>2, <2>3, <2>4, <2>5, <2>6, <2>8, <2>9, <2>10, <2>11, <2>12
    DEF Next, DialStep, ConnStep, CloserStep, Pool!Next
<1> QED
  BY <1>1, <1>2, Invariance, PTL DEF Spec, PoolSpec, Pool!Spec

=============================================================================
