---------------------------- MODULE TunnelProofs ----------------------------
(***************************************************************************)
(* The commands keep to what Service takes them for, so that its theorems  *)
(* hold of them too, for any number of sessions.                           *)
(***************************************************************************)
EXTENDS Tunnel, ServiceProofs

(* The Router has the stream until it tells, and of what it was asked for. *)
RouterInv ==
  \A r \in Requests :
    /\ router[r] \in {"copy", "tell"} => app[r] = "running"
    /\ remote[r] # "none" => app[r] # "none"
    /\ app[r] # "none" => pc[r] # "none"
    /\ pc[r] # "none" => r \in asked

TunnelInv == TunnelTypeOK /\ RouterInv

-----------------------------------------------------------------------------
(* A step of the commands is a step of the service, or none.               *)
LEMMA StepIsService == TunnelNext => [Next]_vars
<1> SUFFICES ASSUME TunnelNext PROVE [Next]_vars
  OBVIOUS
<1>1. CASE ServerStep
  <2>1. CASE ListenTCP \/ ListenUDP \/ ServerSetupFails
    BY <2>1 DEF ListenTCP, ListenUDP, ServerSetupFails
  <2>2. CASE SetUsers
    BY <2>2 DEF SetUsers, Next
  <2>3. CASE ServiceStep
    BY <2>3 DEF ServiceStep, StartTCP, StartUDP, ServerCloses, Next, OwnerStep
  <2>4. CASE ServerReturns
    <3>1. CASE ctxDone
      <4>1. UNCHANGED vars
        BY <2>4, <3>1, Zenon DEF ServerReturns, vars, ownerVars, handlerVars, requestVars, otherVars
      <4> QED
        BY <4>1
    <3>2. CASE ~ctxDone
      BY <2>4, <3>2 DEF ServerReturns, CancelContext, Next, OwnerStep
    <3> QED
      BY <3>1, <3>2
  <2>5. CASE InterruptServer \/ LibraryStep
    BY <2>5 DEF InterruptServer, LibraryStep, Next, OwnerStep
  <2> QED
    BY <1>1, <2>1, <2>2, <2>3, <2>4, <2>5 DEF ServerStep, ServerCode
<1>2. CASE ClientStep
  BY <1>2 DEF ClientStep
<1>3. ASSUME NEW r \in Requests, SessionStep(r) PROVE UNCHANGED vars
  BY <1>3 DEF SessionStep, ClientFrame
<1>4. ASSUME NEW r \in Requests, StreamStep(r) PROVE Next
  BY <1>4 DEF StreamStep, RequestArrives, HandlerFrame, HandlerStep, Next
<1>5. ASSUME NEW r \in Requests, RouterStep(r) PROVE [Next]_vars
  BY <1>5 DEF RouterStep, RouterCode, Tell, HandlerStep, Next
<1> QED
  BY <1>1, <1>2, <1>3, <1>4, <1>5 DEF TunnelNext

(* The initial states are in the invariant ...                             *)
LEMMA InitTunnelInv == TunnelInit => TunnelInv
<1> SUFFICES ASSUME TunnelInit PROVE TunnelInv
  OBVIOUS
<1>1. clientDone \in BOOLEAN
  BY DEF TunnelInit
<1>2. TunnelTypeOK
  BY <1>1 DEF TunnelInit, TunnelTypeOK
<1>3. RouterInv
  BY DEF TunnelInit, Init, RouterInv
<1> QED
  BY <1>2, <1>3 DEF TunnelInv

(* ... and no step leaves it: neither one of the commands' ...             *)
LEMMA MainTunnelInv == TypeOK /\ TunnelInv /\ (ServerStep \/ ClientStep) => TunnelInv'
<1> SUFFICES ASSUME TypeOK, TunnelInv, ServerStep \/ ClientStep PROVE TunnelInv'
  OBVIOUS
<1> USE DEF TunnelInv, TunnelTypeOK
<1>1. UNCHANGED <<clientVars, routerVars, pc, app, transport>>
  BY DEF ServerStep, ListenTCP, ListenUDP, ServerSetupFails, ServerCode, SetUsers, UpdateUsers, ServiceStep,
     ServerReturns, InterruptServer, LibraryStep, ClientStep, vars, handlerVars, otherVars
<1>2. RouterInv'
  BY <1>1 DEF RouterInv, clientVars, routerVars
<1>3. clientDone' \in BOOLEAN
  BY Zenon DEF ServerStep, ClientStep, NewClient, ListenSocks, ClientReturns, InterruptClient
<1>4. TunnelTypeOK'
  BY <1>1, <1>3 DEF ServerStep, ListenTCP, ListenUDP, ServerSetupFails, ServerCode, SetUsers, ServiceStep,
     ServerReturns, InterruptServer, LibraryStep, ClientStep, NewClient, ListenSocks, ClientReturns,
     InterruptClient, clientVars, routerVars
<1> QED
  BY <1>2, <1>4

(* ... nor one of a session.                                               *)
LEMMA SessionTunnelInv ==
  ASSUME TypeOK, TunnelInv, NEW r \in Requests, SessionStep(r) \/ StreamStep(r) \/ RouterStep(r)
  PROVE  TunnelInv'
<1> USE DEF TunnelInv, TunnelTypeOK
<1>1. CASE SessionStep(r)
  <2>1. UNCHANGED <<pc, app, mainVars, router, remote>> /\ asked \subseteq asked'
    BY <1>1 DEF SessionStep, ClientFrame, vars, handlerVars, routerVars, Accept, UserCloses, SocksFails,
       SocksRequest, DialFails, DialSucceeds, CopyEnds, CloseStream, CloseLocal
  <2>2. TunnelTypeOK'
    BY <1>1, <2>1 DEF SessionStep, mainVars, ClientTo, Accept, UserCloses, SocksFails,
       SocksRequest, DialFails, DialSucceeds, CopyEnds, CloseStream, CloseLocal
  <2> QED
    BY <2>1, <2>2 DEF RouterInv
<1>2. CASE StreamStep(r)
  <2>1. UNCHANGED <<mainVars, clientVars, routerVars>>
    BY <1>2 DEF StreamStep, HandlerFrame
  <2>2. RouterInv'
    BY <1>2, <2>1 DEF StreamStep, RequestArrives, Arrive, Verify, Serve, FirstPacketFails, FirstPacket, Return,
       PeerBreaks, Handle, End, RouterInv, TypeOK, clientVars, routerVars
  <2> QED
    BY <2>1, <2>2 DEF mainVars, clientVars, routerVars
<1>3. CASE RouterStep(r)
  <2>1. UNCHANGED <<mainVars, clientVars, pc>>
    BY <1>3 DEF RouterStep, RouterCode, Tell, OnClose, vars, handlerVars
  <2>2. TunnelTypeOK' /\ RouterInv'
    <3>1. CASE RemoteDialed(r) /\ UNCHANGED vars
      BY <2>1, <3>1 DEF RemoteDialed, RouterTo, RouterInv, vars, handlerVars, mainVars, clientVars
    <3>2. CASE RemoteFails(r) /\ UNCHANGED vars
      BY <2>1, <3>2 DEF RemoteFails, TellAfterDialError, RouterTo, RouterInv, vars, handlerVars, mainVars, clientVars
    <3>3. CASE (CloseRemote(r) \/ RemoteBreaks(r) \/ RemoteCopyEnds(r)) /\ UNCHANGED vars
      BY <2>1, <3>3 DEF CloseRemote, RemoteBreaks, RemoteCopyEnds, RouterTo, RouterInv, vars, handlerVars,
         mainVars, clientVars
    <3>4. CASE Tell(r)
      BY <2>1, <3>4 DEF Tell, OnClose, RouterTo, RouterInv, TypeOK, mainVars, clientVars
    <3> QED
      BY <1>3, <3>1, <3>2, <3>3, <3>4 DEF RouterStep, RouterCode
  <2> QED
    BY <2>2
<1> QED
  BY <1>1, <1>2, <1>3

(* Every step keeps to the invariant.                                      *)
LEMMA StepTunnelInv == TypeOK /\ TunnelInv /\ [TunnelNext]_tunnelVars => TunnelInv'
<1>1. TypeOK /\ TunnelInv /\ UNCHANGED tunnelVars => TunnelInv'
  BY DEF TunnelInv, TunnelTypeOK, RouterInv, tunnelVars, vars, handlerVars, mainVars, clientVars, routerVars
<1> QED
  BY <1>1, MainTunnelInv, SessionTunnelInv DEF TunnelNext

-----------------------------------------------------------------------------
(* The commands implement the server as Service specifies it, with Router  *)
(* for its application.                                                    *)
THEOREM ImplementsServer == TunnelSpec => Spec
<1>1. TunnelInit => Init
  BY DEF TunnelInit
<1>2. [TunnelNext]_tunnelVars => [Next]_vars
  BY StepIsService DEF tunnelVars
<1> QED
  BY <1>1, <1>2, PTL DEF TunnelSpec, Spec

(* The variables of the commands keep their types, and Router its order.   *)
THEOREM TunnelInvariance == TunnelSpec => []TunnelInv
<1>1. TunnelSpec => []TypeOK
  BY ImplementsServer, TypeCorrect, PTL
<1> QED
  BY <1>1, InitTunnelInv, StepTunnelInv, PTL DEF TunnelSpec

(* Router copies only while the handler of its stream waits for it.        *)
THEOREM RoutersHaveWriters == TunnelSpec => []RouterHasWriter
<1>1. TunnelInv /\ WriterOutlivesApp => RouterHasWriter
  BY DEF TunnelInv, RouterInv, WriterOutlivesApp, RouterHasWriter
<1>2. TunnelSpec => []WriterOutlivesApp
  BY ImplementsServer, WriterIsAlive, PTL
<1> QED
  BY <1>1, <1>2, TunnelInvariance, PTL

(* Router dials for what a client asked for on behalf of a user.           *)
THEOREM NoOtherDestinations == TunnelSpec => []DestinationsAreAskedFor
<1>1. TunnelInv /\ ServedWereUsers => DestinationsAreAskedFor
  BY DEF TunnelInv, RouterInv, ServedWereUsers, DestinationsAreAskedFor
<1>2. TunnelSpec => []ServedWereUsers
  BY ImplementsServer, OnlyUsersServed, PTL
<1> QED
  BY <1>1, <1>2, TunnelInvariance, PTL
=============================================================================
