---------------------------- MODULE ClientProofs ----------------------------
(***************************************************************************)
(* Who may cut a stream of the client, and what Close leaves behind, for   *)
(* any number of streams and calls.                                        *)
(***************************************************************************)
EXTENDS Client, FiniteSetTheorems, TLAPS

(* Streams between AddStream and releaseStream.                            *)
Slots == {s \in Streams : spc[s] \in {"wait", "open", "served", "release"}}

CountInv == streamCount = Cardinality(Slots)

(* Who goes through forceCloseAllConnections, and that closeIdleLocked,    *)
(* and nobody else, keeps the mutex meanwhile.                             *)
LockInv ==
  /\ \A s \in Streams : phase[s] # "none" <=> spc[s] = "closing"
  /\ \A c \in Callers : phase[c] # "none" <=> cpc[c] = "closing"
  /\ \A k \in Closers : ClosingIdle(k) <=> lock = k

(* Only the last Close of an idle close is left when there is no slot.     *)
IdleInv ==
  \A k \in Closers : lock = k /\ phase[k] \in {"tracker", "drain"} => streamCount = 0

(* A stream that has a connection has one that the transport knows.        *)
ConnInv ==
  \A s \in Streams : conn[s] # None => spc[s] \in {"open", "served"} /\ conn[s] \in up

(* Close cancels first, and then no connection joins any more.             *)
FinalInv ==
  \A c \in Callers :
    call[c] = "close" =>
      /\ cpc[c] # "lock"
      /\ cpc[c] # "new" => final
      /\ cpc[c] = "done" \/ phase[c] = "drain" => \A d \in Dials : life[d] # "live"

(* Callers that close nothing, or have something to do before it.          *)
CallInv ==
  \A c \in Callers :
    /\ call[c] = "resume" => cpc[c] \in {"new", "health", "done"}
    /\ call[c] \in {"reset", "closeIdle"} => cpc[c] \notin {"health", "lock"}

(* As long as no two calls overlap, the one that is between its two steps  *)
(* is alone there, and the flag is what it asked for.                      *)
KeepInv ==
  ~raced /\ ~final =>
    /\ \A c, d \in Callers : cpc[c] = "health" /\ cpc[d] = "health" => c = d
    /\ \A c \in Callers : cpc[c] = "health" => keep = (call[c] = "resume")
    /\ KeepMeansChecks

IInv ==
  /\ TypeOK
  /\ CountInv
  /\ LockInv
  /\ IdleInv
  /\ ConnInv
  /\ FinalInv
  /\ CallInv
  /\ KeepInv

-----------------------------------------------------------------------------
(* Streams are finitely many, slots among them.                            *)
LEMMA FewStreams ==
  ASSUME NEW S, S \subseteq Streams
  PROVE  /\ IsFiniteSet(S) /\ Cardinality(S) \in 0..Cardinality(Streams)
         /\ Cardinality(S) = 0 => S = {}
<1>1. IsFiniteSet(S) /\ Cardinality(S) <= Cardinality(Streams)
  BY FS_Subset, ClientAssumption
<1>2. Cardinality(S) \in Nat /\ Cardinality(Streams) \in Nat
  BY <1>1, FS_CardinalityType, ClientAssumption
<1> QED
  BY <1>1, <1>2, FS_EmptySet

(* The count is that of a set of streams.                                  *)
LEMMA FewSlots ==
  /\ IsFiniteSet(Slots) /\ Cardinality(Slots) \in 0..Cardinality(Streams)
  /\ Cardinality(Slots) = 0 => Slots = {}
BY FewStreams DEF Slots

(* The initial state satisfies the inductive invariant.                    *)
LEMMA InitIInv == Init => IInv
<1> SUFFICES ASSUME Init PROVE IInv
  OBVIOUS
<1>1. Cardinality(Streams) \in Nat
  BY FS_CardinalityType, ClientAssumption
<1>2. CountInv
  <2>1. Slots = {}
    BY DEF Slots, Init
  <2> QED
    BY <2>1, FS_EmptySet DEF CountInv, Init
<1>3. TypeOK
  <2>1. final \in BOOLEAN /\ keep \in BOOLEAN /\ started \in BOOLEAN /\ raced \in BOOLEAN
    BY DEF Init, Pool!Init
  <2>2. epoch \in 0..MaxGen /\ streamCount \in 0..Cardinality(Streams)
    BY <1>1, ClientAssumption DEF Init, Pool!Init
  <2> QED
    BY <2>1, <2>2 DEF Init, Pool!Init, TypeOK, Closers, Dials
<1>4. LockInv /\ IdleInv /\ ConnInv /\ FinalInv /\ CallInv
  BY ClientAssumption
  DEF Init, Pool!Init, LockInv, IdleInv, ConnInv, FinalInv, CallInv, ClosingIdle, Closers, Dials
<1>5. KeepInv
  BY DEF Init, Pool!Init, KeepInv, KeepMeansChecks
<1> QED
  BY <1>2, <1>3, <1>4, <1>5 DEF IInv

(* Streams that stay with a slot, or without.                              *)
LEMMA SameSlots ==
  ASSUME CountInv, UNCHANGED streamCount,
         \A s \in Streams :
           spc'[s] \in {"wait", "open", "served", "release"} <=> spc[s] \in {"wait", "open", "served", "release"}
  PROVE  CountInv'
<1>1. Slots' = Slots
  BY DEF Slots
<1> QED
  BY <1>1 DEF CountInv

(* The streams preserve the invariant.                                     *)
LEMMA StreamIInv ==
  ASSUME IInv, NEW s \in Streams, StreamStep(s)
  PROVE  IInv'
<1> USE ClientAssumption DEF Dials, Closers, ClosingIdle
<1>0. /\ UNCHANGED <<epoch, final, life, born, up, keepSession, keep, call, cpc, started, raced, took>>
      /\ TypeOK /\ CountInv /\ LockInv /\ IdleInv /\ ConnInv /\ FinalInv /\ CallInv /\ KeepInv
  BY DEF StreamStep, StreamFrame, callVars, IInv
<1>1. CallInv' /\ KeepInv'
  BY <1>0 DEF CallInv, KeepInv, KeepMeansChecks
<1>2. CASE AddStream(s)
  <2>1. Slots' = Slots \cup {s} /\ s \notin Slots
    BY <1>0, <1>2 DEF AddStream, Slots, TypeOK
  <2>2. CountInv'
    BY <1>0, <1>2, <2>1, FewSlots, FS_AddElement DEF AddStream, CountInv
  <2>3. TypeOK'
    <3>1. streamCount' \in 0..Cardinality(Streams)
      BY <2>2, FewStreams DEF CountInv, Slots
    <3> QED
      BY <1>0, <1>2, <3>1 DEF AddStream, TypeOK
  <2>4. LockInv' /\ IdleInv' /\ ConnInv' /\ FinalInv'
    BY <1>0, <1>2 DEF AddStream, LockInv, IdleInv, ConnInv, FinalInv, TypeOK
  <2> QED
    BY <1>1, <2>2, <2>3, <2>4 DEF IInv
<1>3. CASE QueueDial(s)
  <2>1. TypeOK' /\ CountInv'
    BY <1>0, <1>3, SameSlots DEF QueueDial, TypeOK
  <2>2. LockInv' /\ IdleInv' /\ ConnInv' /\ FinalInv'
    BY <1>0, <1>3 DEF QueueDial, LockInv, IdleInv, ConnInv, FinalInv
  <2> QED
    BY <1>1, <2>1, <2>2 DEF IInv
<1>4. CASE Finish(s)
  <2>1. CountInv'
    BY <1>0, <1>4, SameSlots DEF Finish, TypeOK
  <2>2. TypeOK'
    BY <1>0, <1>4 DEF Finish, TypeOK
  <2>3. LockInv' /\ IdleInv' /\ ConnInv' /\ FinalInv'
    BY <1>0, <1>4 DEF Finish, LockInv, IdleInv, ConnInv, FinalInv, TypeOK
  <2> QED
    BY <1>1, <2>1, <2>2, <2>3 DEF IInv
<1>5. CASE ReleaseStream(s)
  <2>1. Slots' = Slots \ {s} /\ s \in Slots
    BY <1>0, <1>5 DEF ReleaseStream, Slots, TypeOK
  <2>2. CountInv'
    BY <1>0, <1>5, <2>1, FewSlots, FS_RemoveElement DEF ReleaseStream, CountInv
  <2>3. TypeOK'
    <3>1. streamCount' \in 0..Cardinality(Streams)
      BY <2>2, FewStreams DEF CountInv, Slots
    <3> QED
      BY <1>0, <1>5, <3>1 DEF ReleaseStream, TypeOK, LockHolder
  <2>4. LockInv' /\ IdleInv' /\ ConnInv' /\ FinalInv'
    BY <1>0, <1>5 DEF ReleaseStream, LockInv, IdleInv, ConnInv, FinalInv, TypeOK, LockHolder
  <2> QED
    BY <1>1, <2>2, <2>3, <2>4 DEF IInv
<1>6. ASSUME NEW d \in Dials, GotConn(s, d) PROVE IInv'
  <2>1. CountInv'
    BY <1>0, <1>6, SameSlots DEF GotConn, TypeOK
  <2>2. TypeOK'
    BY <1>0, <1>6 DEF GotConn, TypeOK
  <2>3. LockInv' /\ IdleInv' /\ ConnInv' /\ FinalInv'
    BY <1>0, <1>6 DEF GotConn, Usable, LockInv, IdleInv, ConnInv, FinalInv, TypeOK
  <2> QED
    BY <1>1, <2>1, <2>2, <2>3 DEF IInv
<1>7. CASE SetUp(s)
  <2>1. CountInv'
    BY <1>0, <1>7, SameSlots DEF SetUp, TypeOK
  <2>2. TypeOK'
    BY <1>0, <1>7 DEF SetUp, TypeOK
  <2>3. LockInv' /\ IdleInv' /\ ConnInv' /\ FinalInv'
    BY <1>0, <1>7 DEF SetUp, LockInv, IdleInv, ConnInv, FinalInv, TypeOK
  <2> QED
    BY <1>1, <2>1, <2>2, <2>3 DEF IInv
<1>8. CASE Sever(s)
  <2>1. TypeOK' /\ CountInv'
    BY <1>0, <1>8, SameSlots DEF Sever, TypeOK
  <2>2. LockInv' /\ IdleInv' /\ ConnInv' /\ FinalInv'
    BY <1>0, <1>8 DEF Sever, LockInv, IdleInv, ConnInv, FinalInv, TypeOK
  <2> QED
    BY <1>1, <2>1, <2>2 DEF IInv
<1> QED
  BY <1>2, <1>3, <1>4, <1>5, <1>6, <1>7, <1>8 DEF StreamStep

(* The dials preserve it.                                                  *)
LEMMA DialIInv ==
  ASSUME IInv, NEW d \in Dials, DialStep(d)
  PROVE  IInv'
<1> USE ClientAssumption DEF Dials, Closers, ClosingIdle
<1>0. /\ UNCHANGED <<streamVars, idleVars, callVars, closeVars>>
      /\ TypeOK /\ CountInv /\ LockInv /\ IdleInv /\ ConnInv /\ FinalInv /\ CallInv /\ KeepInv
  BY DEF DialStep, DialFrame, IInv
<1> USE DEF streamVars, idleVars, callVars, closeVars
<1>1. CountInv' /\ LockInv' /\ IdleInv' /\ CallInv'
  BY <1>0, SameSlots DEF LockInv, IdleInv, CallInv
<1>2. UNCHANGED <<epoch, final>> /\ up \subseteq up'
  BY DEF DialStep, BeginDial, DropDial, TrackDial, FailDial, HandshakeSucceeds, HandshakeFails,
     LoseConn, CloseConn, IdleTimeout, Pool!Begin, Pool!Join, Pool!Fail, Pool!Release, Pool!Die
<1>3. ConnInv' /\ KeepInv'
  BY <1>0, <1>2 DEF ConnInv, KeepInv, KeepMeansChecks
<1>4. TypeOK'
  <2>1. life' \in [Dials -> {"none", "pending", "live", "doomed", "dead"}]
    BY <1>0 DEF TypeOK, DialStep, BeginDial, DropDial, TrackDial, FailDial, HandshakeSucceeds,
       HandshakeFails, LoseConn, CloseConn, IdleTimeout, Pool!Move,
       Pool!Begin, Pool!Join, Pool!Fail, Pool!Release, Pool!Die
  <2>2. born' \in [Dials -> 0..MaxGen]
    BY <1>0 DEF TypeOK, DialStep, BeginDial, DropDial, TrackDial, FailDial, HandshakeSucceeds,
       HandshakeFails, LoseConn, CloseConn, IdleTimeout,
       Pool!Begin, Pool!Join, Pool!Fail, Pool!Release, Pool!Die
  <2>3. queued' \subseteq Dials /\ up' \subseteq Dials
    BY <1>0 DEF TypeOK, DialStep, BeginDial, DropDial, TrackDial, FailDial, HandshakeSucceeds,
       HandshakeFails, LoseConn, CloseConn, IdleTimeout
  <2> QED
    BY <1>0, <1>2, <2>1, <2>2, <2>3 DEF TypeOK
<1>5. FinalInv'
  <2>1. final => \A x \in Dials : life'[x] = "live" => life[x] = "live"
    BY <1>0 DEF TypeOK, DialStep, BeginDial, DropDial, TrackDial, FailDial, HandshakeSucceeds,
       HandshakeFails, LoseConn, CloseConn, IdleTimeout, Pool!Move,
       Pool!Begin, Pool!Join, Pool!Fail, Pool!Release, Pool!Die
  <2>2. ASSUME NEW c \in Callers, call[c] = "close", cpc[c] = "done" \/ phase[c] = "drain"
        PROVE  final
    <3>1. cpc[c] \in {"done", "closing"}
      BY <1>0, <2>2 DEF LockInv, TypeOK
    <3> QED
      BY <1>0, <2>2, <3>1 DEF FinalInv
  <2> QED
    BY <1>0, <1>2, <2>1, <2>2 DEF FinalInv
<1> QED
  BY <1>1, <1>3, <1>4, <1>5 DEF IInv

(* The goroutines that close connections preserve it.                      *)
LEMMA CloseIInv ==
  ASSUME IInv, NEW k \in Closers, CloseStep(k)
  PROVE  IInv'
<1> USE ClientAssumption DEF Dials, Closers, ClosingIdle
<1>0. /\ UNCHANGED <<queued, up, conn, keepSession, keep, streamCount, call, started, raced>>
      /\ TypeOK /\ CountInv /\ LockInv /\ IdleInv /\ ConnInv /\ FinalInv /\ CallInv /\ KeepInv
  BY DEF CloseStep, IInv
<1>1. phase[k] # "none" /\ (k \in Streams => spc[k] = "closing") /\ (k \in Callers => cpc[k] = "closing")
  BY <1>0 DEF CloseStep, IdleConnsClosed, CloseTracker, TrackerClosed, CloseIdleConn, LockInv
<1>2. ASSUME NEW d \in Dials, CloseIdleConn(k, d) PROVE IInv'
  <2>0. UNCHANGED <<epoch, final, born, spc, lock, cpc, phase, took>>
    BY <1>2 DEF CloseIdleConn, Pool!Release, closeVars
  <2>1. life' = [life EXCEPT ![d] = "doomed"]
    BY <1>2 DEF CloseIdleConn, Pool!Release, Pool!Move
  <2>2. TypeOK'
    BY <1>0, <2>0, <2>1 DEF TypeOK
  <2>3. CountInv' /\ LockInv' /\ IdleInv' /\ ConnInv' /\ CallInv'
    BY <1>0, <2>0, SameSlots DEF LockInv, IdleInv, ConnInv, CallInv
  <2>4. FinalInv' /\ KeepInv'
    BY <1>0, <2>0, <2>1 DEF FinalInv, KeepInv, KeepMeansChecks, TypeOK
  <2> QED
    BY <2>2, <2>3, <2>4 DEF IInv
<1>3. ASSUME Return(k), UNCHANGED <<epoch, final, life, born, took>>,
             k \in Callers /\ call[k] = "close" => \A d \in Dials : life[d] # "live"
      PROVE  IInv'
  <2>1. CountInv'
    BY <1>0, <1>1, <1>3, SameSlots DEF Return, TypeOK
  <2>2. TypeOK'
    BY <1>0, <1>1, <1>3 DEF Return, TypeOK, Unlock
  <2>3. LockInv'
    BY <1>0, <1>1, <1>3 DEF Return, LockInv, TypeOK, Unlock
  <2>4. IdleInv' /\ ConnInv'
    BY <1>0, <1>1, <1>3 DEF Return, IdleInv, ConnInv, TypeOK, Unlock
  <2>5. FinalInv' /\ CallInv'
    BY <1>0, <1>1, <1>3 DEF Return, FinalInv, CallInv, TypeOK
  <2>6. KeepInv'
    BY <1>0, <1>1, <1>3 DEF Return, KeepInv, KeepMeansChecks, TypeOK
  <2> QED
    BY <2>1, <2>2, <2>3, <2>4, <2>5, <2>6 DEF IInv
<1>4. CASE IdleConnsClosed(k)
  <2>1. CASE Spare(k)
    <3>1. ~(k \in Callers /\ call[k] = "close")
      BY <1>0, <2>1 DEF Spare, LockInv
    <3> QED
      BY <1>3, <1>4, <2>1, <3>1 DEF IdleConnsClosed
  <2>2. CASE ~Spare(k)
    <3>0. UNCHANGED <<epoch, final, life, born, took, lock, spc, cpc>> /\ phase' = [phase EXCEPT ![k] = "tracker"]
      BY <1>4, <2>2 DEF IdleConnsClosed
    <3>1. CountInv'
      BY <1>0, <3>0, SameSlots
    <3>2. TypeOK' /\ LockInv' /\ ConnInv' /\ CallInv'
      BY <1>0, <1>1, <3>0 DEF TypeOK, LockInv, ConnInv, CallInv
    <3>3. IdleInv'
      BY <1>0, <2>2, <3>0 DEF IdleInv, Spare, TypeOK
    <3>4. FinalInv' /\ KeepInv'
      BY <1>0, <3>0 DEF FinalInv, KeepInv, KeepMeansChecks, TypeOK
    <3> QED
      BY <3>1, <3>2, <3>3, <3>4 DEF IInv
  <2> QED
    BY <2>1, <2>2
<1>5. CASE CloseTracker(k)
  <2>0. /\ UNCHANGED <<final, born, lock, spc, cpc>> /\ phase' = [phase EXCEPT ![k] = "drain"]
        /\ epoch' \in 0..MaxGen /\ phase[k] = "tracker"
        /\ took' = [took EXCEPT ![k] = {d \in Dials : life[d] = "live"}]
    BY <1>0, <1>5 DEF CloseTracker, Pool!Reset, TypeOK
  <2>1. life' = [d \in Dials |-> IF life[d] = "live" THEN "doomed" ELSE life[d]]
    BY <1>5 DEF CloseTracker, Pool!Reset
  <2>2. CountInv'
    BY <1>0, <2>0, SameSlots
  <2>3. TypeOK'
    BY <1>0, <2>0, <2>1 DEF TypeOK
  <2>4. LockInv' /\ ConnInv' /\ CallInv' /\ IdleInv'
    BY <1>0, <1>1, <2>0 DEF TypeOK, LockInv, ConnInv, CallInv, IdleInv
  <2>5. FinalInv' /\ KeepInv'
    BY <1>0, <2>0, <2>1 DEF FinalInv, KeepInv, KeepMeansChecks, TypeOK
  <2> QED
    BY <2>2, <2>3, <2>4, <2>5 DEF IInv
<1>6. CASE TrackerClosed(k)
  BY <1>0, <1>3, <1>6 DEF TrackerClosed, FinalInv
<1> QED
  BY <1>2, <1>4, <1>5, <1>6 DEF CloseStep

(* The calls of the user preserve it.                                      *)
LEMMA CallIInv ==
  ASSUME IInv, NEW c \in Callers, CallStep(c)
  PROVE  IInv'
<1> USE ClientAssumption DEF Dials, Closers, ClosingIdle
<1>0. /\ UNCHANGED <<epoch, life, born, queued, up, conn, spc, keepSession, call, took>>
      /\ TypeOK /\ CountInv /\ LockInv /\ IdleInv /\ ConnInv /\ FinalInv /\ CallInv /\ KeepInv
  BY DEF CallStep, CallFrame, streamVars, IInv
<1>1. UNCHANGED streamCount /\ CountInv' /\ ConnInv'
  <2>1. UNCHANGED streamCount
    BY DEF CallStep, CancelClient, SetKeep, SetHealthCheck, BeginReset, CloseIdle, idleVars
  <2> QED
    BY <1>0, <2>1, SameSlots DEF ConnInv
<1>2. CASE CancelClient(c)
  <2>0. /\ UNCHANGED <<idleVars, started, raced, phase>> /\ cpc' = [cpc EXCEPT ![c] = "health"]
        /\ final' = TRUE /\ call[c] = "close" /\ cpc[c] = "new"
    BY <1>2 DEF CancelClient, Goto, Final
  <2>1. TypeOK' /\ LockInv' /\ IdleInv'
    BY <1>0, <2>0 DEF TypeOK, LockInv, IdleInv, idleVars
  <2>2. FinalInv' /\ CallInv' /\ KeepInv'
    BY <1>0, <2>0 DEF TypeOK, FinalInv, CallInv, KeepInv, LockInv
  <2> QED
    BY <1>1, <2>1, <2>2 DEF IInv
<1>3. CASE SetKeep(c)
  <2>0. /\ UNCHANGED <<final, lock, streamCount, started, phase>> /\ cpc' = [cpc EXCEPT ![c] = "health"]
        /\ call[c] \in {"suspend", "resume"} /\ cpc[c] = "new"
        /\ keep' = (call[c] = "resume") /\ raced' = (\E d \in Callers : cpc[d] = "health")
    BY <1>3 DEF SetKeep, Goto
  <2>1. keep' \in BOOLEAN /\ raced' \in BOOLEAN
    BY <2>0
  <2>2. TypeOK' /\ LockInv' /\ IdleInv'
    BY <1>0, <2>0, <2>1 DEF TypeOK, LockInv, IdleInv
  <2>3. FinalInv' /\ CallInv'
    BY <1>0, <2>0 DEF TypeOK, FinalInv, CallInv
  <2>4. KeepInv'
    BY <1>0, <2>0 DEF TypeOK, KeepInv, KeepMeansChecks
  <2> QED
    BY <1>1, <2>2, <2>3, <2>4 DEF IInv
<1>4. CASE SetHealthCheck(c)
  <2>0. /\ UNCHANGED <<final, idleVars, raced>> /\ cpc[c] = "health" /\ started' = (call[c] = "resume")
        /\ \/ call[c] = "resume" /\ cpc' = [cpc EXCEPT ![c] = "done"] /\ UNCHANGED phase
           \/ call[c] = "suspend" /\ cpc' = [cpc EXCEPT ![c] = "lock"] /\ UNCHANGED phase
           \/ call[c] = "close" /\ cpc' = [cpc EXCEPT ![c] = "closing"] /\ phase' = [phase EXCEPT ![c] = "transport"]
    <3>1. call[c] \in {"resume", "suspend", "close"}
      BY <1>0, <1>4 DEF SetHealthCheck, CallInv, TypeOK, Calls
    <3> QED
      BY <1>4, <3>1 DEF SetHealthCheck, Goto, BeginClosing, Scheduler
  <2>1. started' \in BOOLEAN
    BY <2>0
  <2>2. TypeOK'
    BY <1>0, <2>0, <2>1 DEF TypeOK, idleVars
  <2>3. LockInv' /\ IdleInv' /\ CallInv'
    BY <1>0, <2>0 DEF TypeOK, LockInv, IdleInv, CallInv, idleVars
  <2>4. FinalInv'
    BY <1>0, <2>0 DEF TypeOK, FinalInv, LockInv
  <2>5. KeepInv'
    <3> SUFFICES ASSUME ~raced, ~final PROVE KeepInv'
      BY <2>0 DEF KeepInv
    <3>1. keep = (call[c] = "resume") /\ \A d \in Callers : cpc[d] = "health" => d = c
      BY <1>0, <2>0 DEF KeepInv
    <3>2. \A d \in Callers : cpc'[d] # "health"
      BY <1>0, <2>0, <3>1 DEF TypeOK
    <3> QED
      BY <2>0, <3>1, <3>2 DEF KeepInv, KeepMeansChecks, idleVars
  <2> QED
    BY <1>1, <2>2, <2>3, <2>4, <2>5 DEF IInv
<1>5. CASE BeginReset(c) \/ CloseIdle(c)
  <2>0. /\ UNCHANGED <<final, keep, started, raced>>
        /\ cpc' = [cpc EXCEPT ![c] = "closing"] /\ phase' = [phase EXCEPT ![c] = "transport"]
        /\ cpc[c] \in {"new", "lock"}
        /\ \/ call[c] = "reset" /\ UNCHANGED lock
           \/ /\ cpc[c] = "lock" \/ call[c] = "closeIdle"
              /\ lock = None /\ lock' = c
    BY <1>5 DEF BeginReset, CloseIdle, BeginClosing, Goto, LockHolder, idleVars
  <2>1. call[c] \in {"reset", "closeIdle", "suspend"}
    BY <1>0, <2>0 DEF FinalInv, CallInv, TypeOK, Calls
  <2>2. TypeOK'
    BY <1>0, <1>1, <2>0 DEF TypeOK
  <2>3. LockInv'
    BY <1>0, <2>0, <2>1 DEF TypeOK, LockInv, CallInv
  <2>4. IdleInv' /\ CallInv' /\ FinalInv'
    BY <1>0, <1>1, <2>0, <2>1 DEF TypeOK, IdleInv, CallInv, FinalInv, LockInv
  <2>5. KeepInv'
    BY <1>0, <2>0 DEF TypeOK, KeepInv, KeepMeansChecks
  <2> QED
    BY <1>1, <2>2, <2>3, <2>4, <2>5 DEF IInv
<1> QED
  BY <1>2, <1>3, <1>4, <1>5 DEF CallStep

(* Every step preserves it.                                                *)
LEMMA NextIInv == IInv /\ [Next]_vars => IInv'
<1>1. IInv /\ UNCHANGED vars => IInv'
  <2> SUFFICES ASSUME IInv, UNCHANGED vars PROVE IInv'
    OBVIOUS
  <2>1. Slots' = Slots
    BY DEF Slots, vars, streamVars
  <2> QED
    BY <2>1 DEF vars, poolVars, streamVars, idleVars, callVars, closeVars, IInv, TypeOK, CountInv, LockInv,
       IdleInv, ConnInv, FinalInv, CallInv, KeepInv, KeepMeansChecks, ClosingIdle
<1> QED
  BY <1>1, StreamIInv, DialIInv, CloseIInv, CallIInv DEF Next

(* The inductive invariant is one.                                         *)
THEOREM Invariance == Spec => []IInv
BY InitIInv, NextIInv, PTL DEF Spec

-----------------------------------------------------------------------------
(* Every variable of the client keeps its type.                            *)
THEOREM TypeCorrect == Spec => []TypeOK
<1>1. IInv => TypeOK
  BY DEF IInv
<1> QED
  BY <1>1, Invariance, PTL

(* In the last part of an idle close no stream waits for a connection or   *)
(* has one.                                                                *)
LEMMA IdleIsIdle == IInv => IdleCloseSparesStreams
<1> SUFFICES ASSUME IInv, NEW k \in Closers, ClosingIdle(k), phase[k] \in {"tracker", "drain"},
                    NEW s \in Streams
             PROVE  spc[s] \notin {"wait", "open", "served"}
  BY DEF IdleCloseSparesStreams
<1>1. streamCount = 0
  BY DEF IInv, LockInv, IdleInv
<1>2. Slots = {}
  BY <1>1, FewSlots DEF IInv, CountInv
<1> QED
  BY <1>2 DEF Slots

(* An idle close never cuts a stream, whoever opens or releases one while  *)
(* it closes connections.                                                  *)
THEOREM IdleCloseIsSafe == Spec => []IdleCloseSparesStreams
BY IdleIsIdle, Invariance, PTL

(* A stream loses a live connection to the server, to a reset or to Close. *)
LEMMA StepCuts ==
  ASSUME IInv, Next, NEW s \in Streams,
         conn[s] # None, life[conn[s]] = "live", life'[conn[s]] = "doomed"
  PROVE  \/ LoseConn(conn[s])
         \/ \E c \in Callers : call[c] \in {"reset", "close"} /\ CloseTracker(c)
<1> DEFINE x == conn[s]
<1>0. /\ x \in Dials /\ x \in up /\ spc[s] \in {"open", "served"}
      /\ life \in [Dials -> {"none", "pending", "live", "doomed", "dead"}]
  BY DEF IInv, ConnInv, TypeOK
<1>1. ASSUME NEW t \in Streams, StreamStep(t) PROVE FALSE
  BY <1>1 DEF StreamStep, StreamFrame
<1>2. ASSUME NEW c \in Callers, CallStep(c) PROVE FALSE
  BY <1>2 DEF CallStep, CallFrame
<1>3. ASSUME NEW d \in Dials, DialStep(d) PROVE LoseConn(x)
  <2>1. LoseConn(d) \/ HandshakeFails(d) \/ IdleTimeout(d)
    BY <1>0, <1>3 DEF DialStep, BeginDial, DropDial, TrackDial, FailDial, HandshakeSucceeds, CloseConn,
       Pool!Move, Pool!Begin, Pool!Join, Pool!Fail, Pool!Die
  <2>2. d = x
    BY <1>0, <2>1 DEF LoseConn, HandshakeFails, IdleTimeout, Pool!Move, Pool!Release
  <2> QED
    BY <1>0, <2>1, <2>2 DEF HandshakeFails, IdleTimeout, Idle
<1>4. ASSUME NEW k \in Closers, CloseStep(k)
      PROVE  k \in Callers /\ call[k] \in {"reset", "close"} /\ CloseTracker(k)
  <2>1. CloseTracker(k)
    <3>1. ~\E d \in Dials : CloseIdleConn(k, d)
      BY <1>0 DEF CloseIdleConn, Idle, Pool!Move, Pool!Release
    <3> QED
      BY <1>4, <3>1 DEF CloseStep, IdleConnsClosed, TrackerClosed
  <2>2. phase[k] = "tracker"
    BY <2>1 DEF CloseTracker
  <2>3. ~ClosingIdle(k)
    BY <1>0, <2>2, IdleIsIdle DEF IdleCloseSparesStreams
  <2>4. k \in Callers /\ cpc[k] = "closing" /\ call[k] \in Calls
    BY <2>2, <2>3 DEF ClosingIdle, Closers, IInv, LockInv, TypeOK
  <2>5. call[k] # "resume"
    BY <2>4 DEF IInv, CallInv
  <2> QED
    BY <2>1, <2>2, <2>3, <2>4, <2>5 DEF ClosingIdle, Calls
<1> QED
  BY <1>1, <1>2, <1>3, <1>4 DEF Next

(* Whatever closes idle connections, by the last release, by a call or by  *)
(* a timeout, takes none from a stream.                                    *)
THEOREM OnlyResetsTake == Spec => OnlyResetCuts
<1>1. IInv /\ [Next]_vars =>
        [\A s \in Streams :
           conn[s] # None /\ life[conn[s]] = "live" /\ life'[conn[s]] = "doomed"
             => \/ LoseConn(conn[s])
                \/ \E c \in Callers : call[c] \in {"reset", "close"} /\ CloseTracker(c)]_vars
  BY StepCuts
<1> QED
  BY <1>1, Invariance, PTL DEF Spec, OnlyResetCuts

(* A closed client holds no connection, whatever dials and other calls     *)
(* were on their way.                                                      *)
THEOREM CloseIsFinal == Spec => []ClosedHoldsNothing
<1>1. IInv => ClosedHoldsNothing
  BY DEF IInv, FinalInv, ClosedHoldsNothing
<1> QED
  BY <1>1, Invariance, PTL

(* A call of SetKeepIdleConnections that ran alone leaves the flag and the *)
(* health check in agreement.                                              *)
THEOREM LoneCallsAgree == Spec => []KeepMeansChecks
<1>1. IInv => KeepMeansChecks
  BY DEF IInv, KeepInv, KeepMeansChecks
<1> QED
  BY <1>1, Invariance, PTL
=============================================================================
