--------------------------- MODULE ServiceProofs ---------------------------
(***************************************************************************)
(* The safety of the server for any number of requests and users, with or  *)
(* without a handler for ICMP.                                             *)
(***************************************************************************)
EXTENDS Service, TLAPS

(* The application gets a stream once, and done is closed by onClose only. *)
HandlerInv ==
  \A r \in Requests :
    /\ pc[r] \in {"none", "verify", "serve", "first"} => app[r] = "none" /\ done[r] = 0
    /\ app[r] = "running" => pc[r] = "wait" /\ done[r] = 0

(* A server takes requests between Start and Close only.                   *)
OwnerInv ==
  /\ owner \in {"close", "closed"} => \A s \in Servers : server[s] # "serving"
  /\ owner = "closed" => \A s \in Servers : server[s] \in {"off", "closed"}

(* The streams that are left to a server that has been shut down: none if  *)
(* it speaks HTTP/3, and with HTTP/2 those it gave up waiting for.         *)
OpenInv ==
  \A r \in Requests :
    /\ Open(r) => server[via[r]] \in {"serving", "draining"} \/ (via[r] = "h2" /\ server["h2"] = "drained")
    /\ Open(r) /\ server[via[r]] = "drained" => expired \/ ctxDone

(* Who was verified was in a map; who is being verified finds one in since.*)
UserInv ==
  \A r \in Requests :
    /\ pc[r] = "verify" => users \subseteq since[r]
    /\ pc[r] \in {"serve", "first", "wait"} => user[r] \in since[r]
    /\ app[r] # "none" => user[r] \in since[r]

IInv ==
  /\ TypeOK
  /\ HandlerInv
  /\ OwnerInv
  /\ OpenInv
  /\ UserInv

-----------------------------------------------------------------------------
(* The initial state satisfies the inductive invariant.                    *)
LEMMA InitIInv == Init => IInv
<1> SUFFICES ASSUME Init PROVE IInv
  OBVIOUS
<1> USE DEF Init, Servers, Kinds
<1>1. TypeOK
  <2>1. ctxDone \in BOOLEAN /\ expired \in BOOLEAN
    OBVIOUS
  <2>2. /\ owner \in {"new", "start", "started", "failed", "close", "closed"}
        /\ server \in [Servers -> {"off", "serving", "draining", "drained", "closed"}]
        /\ users \subseteq Users
    OBVIOUS
  <2>3. /\ pc \in [Requests -> {"none", "verify", "serve", "first", "wait", "ended"}]
        /\ via \in [Requests -> Servers] /\ kind \in [Requests -> Kinds]
        /\ user \in [Requests -> Users]
    OBVIOUS
  <2>4. /\ wire \in [Requests -> {"none", "open", "broken", "cut", "over"}]
        /\ app \in [Requests -> {"none", "running", "over"}]
        /\ done \in [Requests -> 0..1]
        /\ since \in [Requests -> SUBSET Users]
    OBVIOUS
  <2> QED
    BY <2>1, <2>2, <2>3, <2>4 DEF TypeOK
<1>2. HandlerInv /\ OwnerInv /\ OpenInv /\ UserInv
  BY DEF HandlerInv, OwnerInv, OpenInv, UserInv, Open
<1> QED
  BY <1>1, <1>2 DEF IInv

(* Every step of the owner preserves it ...                                *)
LEMMA OwnerIInv == IInv /\ OwnerStep => IInv'
<1> SUFFICES ASSUME IInv, OwnerStep PROVE IInv'
  OBVIOUS
<1> USE DEF IInv, TypeOK, HandlerInv, OwnerInv, OpenInv, UserInv, Open, Servers, Cut, otherVars, requestVars
<1>0. UNCHANGED otherVars
  BY DEF OwnerStep
<1>1. CASE StartHTTP2
  BY <1>0, <1>1 DEF StartHTTP2
<1>2. CASE StartHTTP3
  BY <1>0, <1>2 DEF StartHTTP3
<1>3. CASE CancelContext
  BY <1>0, <1>3 DEF CancelContext
<1>4. CASE BeginClose
  BY <1>0, <1>4 DEF BeginClose
<1>5. CASE Expire
  BY <1>0, <1>5 DEF Expire
<1>6. CASE CloseReturns
  BY <1>0, <1>6 DEF CloseReturns, AllDrained, CutHTTP2
<1>7. ASSUME NEW s \in Servers, ShutdownReturns(s) PROVE IInv'
  BY <1>0, <1>7 DEF ShutdownReturns, GraceOver
<1> QED
  BY <1>1, <1>2, <1>3, <1>4, <1>5, <1>6, <1>7 DEF OwnerStep

(* ... and so does every step of a handler ...                             *)
LEMMA HandlerIInv == ASSUME NEW r \in Requests PROVE IInv /\ HandlerStep(r) => IInv'
<1> SUFFICES ASSUME IInv, HandlerStep(r) PROVE IInv'
  OBVIOUS
<1> USE DEF IInv, TypeOK, HandlerInv, OwnerInv, OpenInv, UserInv, Open, Servers, Kinds,
            ownerVars, requestVars, End, Handle
<1>0. UNCHANGED <<ownerVars, users>>
  BY DEF HandlerStep
<1>1. CASE Arrive(r)
  BY <1>0, <1>1 DEF Arrive
<1>2. CASE Verify(r)
  BY <1>0, <1>2 DEF Verify, Known
<1>3. CASE Serve(r)
  BY <1>0, <1>3 DEF Serve
<1>4. CASE FirstPacketFails(r)
  BY <1>0, <1>4 DEF FirstPacketFails
<1>5. CASE FirstPacket(r)
  BY <1>0, <1>5 DEF FirstPacket
<1>6. CASE OnClose(r)
  BY <1>0, <1>6 DEF OnClose, CloseDone
<1>7. CASE Return(r)
  BY <1>0, <1>7 DEF Return, Done
<1>8. CASE PeerBreaks(r)
  BY <1>0, <1>8 DEF PeerBreaks
<1> QED
  BY <1>1, <1>2, <1>3, <1>4, <1>5, <1>6, <1>7, <1>8 DEF HandlerStep

(* ... and every step.                                                     *)
LEMMA StepIInv == IInv /\ [Next]_vars => IInv'
<1> SUFFICES ASSUME IInv, [Next]_vars PROVE IInv'
  OBVIOUS
<1>1. CASE UpdateUsers
  BY <1>1 DEF UpdateUsers, IInv, TypeOK, HandlerInv, OwnerInv, OpenInv, UserInv, Open,
              Servers, ownerVars, handlerVars, requestVars
<1>2. CASE UNCHANGED vars
  BY <1>2 DEF vars, IInv, TypeOK, HandlerInv, OwnerInv, OpenInv, UserInv, Open,
              ownerVars, handlerVars, requestVars
<1> QED
  BY <1>1, <1>2, OwnerIInv, HandlerIInv DEF Next

-----------------------------------------------------------------------------
(* The inductive invariant holds in every reachable state.                 *)
THEOREM Invariance == Spec => []IInv
BY InitIInv, StepIInv, PTL DEF Spec

(* The variables keep their types; above all no channel is closed twice.   *)
THEOREM TypeCorrect == Spec => []TypeOK
<1>1. IInv => TypeOK
  BY DEF IInv
<1> QED
  BY Invariance, <1>1, PTL

(* No handler returns before the application is done with its stream.      *)
THEOREM WriterIsAlive == Spec => []WriterOutlivesApp
<1>1. IInv => WriterOutlivesApp
  BY DEF IInv, HandlerInv, WriterOutlivesApp
<1> QED
  BY Invariance, <1>1, PTL

(* Only users are served, however UpdateUsers interleaves with verify.     *)
THEOREM OnlyUsersServed == Spec => []ServedWereUsers
<1>1. IInv => ServedWereUsers
  BY DEF IInv, UserInv, ServedWereUsers
<1> QED
  BY Invariance, <1>1, PTL

(* Close ends everything, whatever Start had brought up.                   *)
THEOREM CloseIsThorough == Spec => []ClosedServesNobody
<1>1. IInv => ClosedServesNobody
  BY DEF IInv, OwnerInv, OpenInv, ClosedServesNobody, TypeOK, Servers
<1> QED
  BY Invariance, <1>1, PTL

(* No stream is cut before the grace is over.                              *)
THEOREM CloseIsPolite == Spec => GraceIsKept
<1> DEFINE Grace == \A r \in Requests : Open(r) /\ wire'[r] = "cut" => expired \/ ctxDone
<1>1. IInv /\ [Next]_vars => [Grace]_vars
  <2> SUFFICES ASSUME IInv, Next, NEW r \in Requests, Open(r), wire'[r] = "cut"
               PROVE  expired \/ ctxDone
    OBVIOUS
  <2> USE DEF IInv, TypeOK, OwnerInv, OpenInv, Open, Servers, Cut
  <2>1. CASE CloseReturns
    BY <2>1 DEF CloseReturns, AllDrained, CutHTTP2
  <2>2. ASSUME NEW s \in Servers, ShutdownReturns(s) PROVE expired \/ ctxDone
    BY <2>2 DEF ShutdownReturns, GraceOver
  <2>3. CASE StartHTTP2 \/ StartHTTP3 \/ CancelContext \/ BeginClose \/ Expire
    BY <2>3 DEF StartHTTP2, StartHTTP3, CancelContext, BeginClose, Expire
  <2>4. CASE UpdateUsers
    BY <2>4 DEF UpdateUsers, handlerVars
  <2>5. ASSUME NEW q \in Requests, HandlerStep(q) PROVE FALSE
    BY <2>5 DEF HandlerStep, Arrive, Verify, Serve, FirstPacketFails, FirstPacket, OnClose,
                Return, PeerBreaks, End, Handle
  <2> QED
    BY <2>1, <2>2, <2>3, <2>4, <2>5 DEF Next, OwnerStep
<1> QED
  BY Invariance, <1>1, PTL DEF Spec, GraceIsKept
=============================================================================
