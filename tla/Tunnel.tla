------------------------------- MODULE Tunnel -------------------------------
(***************************************************************************)
(* The two commands around the library: runClient accepts SOCKS            *)
(* connections and carries each over a stream to runServer, whose Router   *)
(* is the application of Service.  A session has four legs, closed one by  *)
(* one: the user's connection, the stream at either end, and the           *)
(* connection to the destination.                                          *)
(*                                                                         *)
(* The SOCKS server and the copy loops are libraries: a loop may end at    *)
(* any time, and does if a connection it uses or its context is over.      *)
(* Client.Dial is what Stream shows of it.  Processes that exit take their *)
(* sockets with them; here their goroutines end by themselves.             *)
(***************************************************************************)
EXTENDS Service

VARIABLES
  clientMain, serverMain,  \* runClient and runServer
  transport,   \* options.QUIC of the client
  listening,   \* the listeners of the two commands
  clientDone,  \* the client's context is canceled
  asked,       \* sessions whose stream may have been requested
  client,      \* handleClient, with the Router of the client in it
  local,       \* the user's connection
  router,      \* the Router of the server
  remote       \* the connection to the destination

mainVars == <<clientMain, serverMain, transport, listening, clientDone>>
clientVars == <<asked, client, local>>
routerVars == <<router, remote>>
tunnelVars == <<vars, mainVars, clientVars, routerVars>>

TunnelTypeOK ==
  /\ clientMain \in {"setup", "listen", "accept", "returned"}
  /\ serverMain \in {"setup", "udp", "users", "serve", "returned"}
  /\ transport \in Servers
  /\ listening \subseteq {"socks", "tcp", "udp"}
  /\ clientDone \in BOOLEAN
  /\ asked \subseteq Requests
  /\ client \in [Requests -> {"none", "socks", "dial", "copy", "stream", "local", "returned"}]
  /\ local \in [Requests -> {"none", "open", "broken", "closed"}]
  /\ router \in [Requests -> {"none", "copy", "tell", "close", "returned"}]
  /\ remote \in [Requests -> {"none", "open", "broken", "closed"}]

TunnelInit ==
  /\ Init
  /\ clientMain = "setup" /\ serverMain = "setup"
  /\ transport \in Servers
  /\ listening = {}
  /\ clientDone = FALSE
  /\ asked = {}
  /\ client = [r \in Requests |-> "none"] /\ local = [r \in Requests |-> "none"]
  /\ router = [r \in Requests |-> "none"] /\ remote = [r \in Requests |-> "none"]

-----------------------------------------------------------------------------
(* runServer.  The listeners come first; a context that can be interrupted *)
(* only after them.                                                        *)
ListenTCP ==
  /\ serverMain = "setup" /\ serverMain' = "udp"
  /\ listening' = listening \cup {"tcp"}
  /\ UNCHANGED vars

ListenUDP ==
  /\ serverMain = "udp" /\ serverMain' = "users"
  /\ listening' \in {listening, listening \cup {"udp"}}
  /\ UNCHANGED vars

ServerSetupFails ==
  /\ serverMain \in {"setup", "udp"} /\ serverMain' = "returned"
  /\ listening' = listening \ {"tcp", "udp"}
  /\ UNCHANGED vars

(* A configuration without users was refused.                              *)
SetUsers ==
  /\ serverMain = "users" /\ serverMain' = "serve"
  /\ UpdateUsers /\ users' # {}
  /\ UNCHANGED listening

(* Start, with a packet connection if there is one.                        *)
StartTCP == StartHTTP2 /\ server'["h2"] = "serving"

StartUDP ==
  /\ StartHTTP3
  /\ owner' = "started" => (server'["h3"] = "serving" <=> "udp" \in listening)
  /\ owner' = "failed" => "udp" \in listening

(* service.Close runs after an interrupt only, and not if Start failed.    *)
ServerCloses == owner = "started" /\ ctxDone /\ BeginClose

(* The context is canceled on the way out in any case.                     *)
ServerReturns ==
  /\ owner \in {"failed", "closed"} /\ serverMain = "serve" /\ serverMain' = "returned"
  /\ listening' = listening \ {"tcp", "udp"}
  /\ ctxDone' = TRUE
  /\ UNCHANGED <<owner, server, expired, wire, otherVars>>

ServiceStep ==
  /\ serverMain = "serve"
  /\ StartTCP \/ StartUDP \/ ServerCloses \/ CloseReturns
  /\ UNCHANGED <<otherVars, serverMain, listening>>

InterruptServer ==
  /\ serverMain \in {"users", "serve"} /\ CancelContext
  /\ UNCHANGED <<otherVars, serverMain, listening>>

LibraryStep ==
  /\ Expire \/ \E s \in Servers : ShutdownReturns(s)
  /\ UNCHANGED <<otherVars, serverMain, listening>>

ServerCode == SetUsers \/ ServiceStep \/ ServerReturns

ServerStep ==
  /\ ListenTCP \/ ListenUDP \/ ServerSetupFails \/ ServerCode \/ InterruptServer \/ LibraryStep
  /\ UNCHANGED <<clientMain, transport, clientDone, clientVars, routerVars>>

-----------------------------------------------------------------------------
(* runClient.  What returns closes the client, which ends its context.     *)
NewClient == clientMain = "setup" /\ clientMain' = "listen" /\ UNCHANGED <<listening, clientDone>>

ListenSocks ==
  /\ clientMain = "listen" /\ clientMain' = "accept"
  /\ listening' = listening \cup {"socks"} /\ UNCHANGED clientDone

(* A setup that fails, or a listener whose Accept does.                    *)
ClientReturns ==
  /\ clientMain # "returned" /\ clientMain' = "returned"
  /\ listening' = listening \ {"socks"} /\ clientDone' = TRUE

(* Nothing but the context: the listener stays, and accepts.               *)
InterruptClient ==
  /\ clientMain \in {"listen", "accept"} /\ ~clientDone
  /\ clientDone' = TRUE /\ UNCHANGED <<clientMain, listening>>

ClientStep ==
  /\ NewClient \/ ListenSocks \/ ClientReturns \/ InterruptClient
  /\ UNCHANGED <<vars, serverMain, transport, clientVars, routerVars>>

-----------------------------------------------------------------------------
(* handleClient.                                                           *)
ClientTo(r, from, to) == client[r] = from /\ client' = [client EXCEPT ![r] = to]

Accept(r) ==
  /\ clientMain = "accept" /\ ClientTo(r, "none", "socks")
  /\ local' = [local EXCEPT ![r] = "open"] /\ UNCHANGED asked

UserCloses(r) ==
  /\ local[r] = "open" /\ local' = [local EXCEPT ![r] = "broken"]
  /\ UNCHANGED <<asked, client>>

(* No authentication, no request, or none that is understood.              *)
SocksFails(r) == ClientTo(r, "socks", "local") /\ UNCHANGED <<asked, local>>

(* The Router dials, with the handler's context.                           *)
SocksRequest(r) ==
  /\ local[r] = "open" /\ ClientTo(r, "socks", "dial")
  /\ asked' = asked \cup {r} /\ UNCHANGED local

DialFails(r) == ClientTo(r, "dial", "local") /\ UNCHANGED <<asked, local>>

(* Dial does not wait for the server's answer, only for a connection.      *)
DialSucceeds(r) ==
  /\ server[transport] \in {"serving", "draining"}
  /\ ClientTo(r, "dial", "copy") /\ UNCHANGED <<asked, local>>

CopyEnds(r) == ClientTo(r, "copy", "stream") /\ UNCHANGED <<asked, local>>

(* defer destinationConn.Close()                                           *)
CloseStream(r) == ClientTo(r, "stream", "local") /\ UNCHANGED <<asked, local>>

(* defer conn.Close(), of the Router and of handleClient                   *)
CloseLocal(r) ==
  /\ ClientTo(r, "local", "returned")
  /\ local' = [local EXCEPT ![r] = "closed"] /\ UNCHANGED asked

(* What a dead connection or the end of the context does end.              *)
SessionOver(r) ==
  \/ client[r] = "socks" /\ local[r] # "open" /\ SocksFails(r)
  \/ client[r] = "dial" /\ clientDone /\ DialFails(r)
  \/ client[r] = "copy" /\ (local[r] # "open" \/ clientDone) /\ CopyEnds(r)

ClientFrame == UNCHANGED <<vars, mainVars, routerVars>>

SessionStep(r) ==
  /\ \/ Accept(r) \/ UserCloses(r) \/ SocksFails(r) \/ SocksRequest(r) \/ DialFails(r)
     \/ DialSucceeds(r) \/ CopyEnds(r) \/ CloseStream(r) \/ CloseLocal(r)
  /\ ClientFrame

-----------------------------------------------------------------------------
(* The stream on its way.  A request may reach the server after the client *)
(* has given it up.                                                        *)
RequestArrives(r) ==
  /\ r \in asked /\ Arrive(r)
  /\ via'[r] = transport /\ kind'[r] \in {"tcp", "udp"}

(* Mutant: the Router of the client leaves the stream open.                *)
NeverWithdrawn(r) == FALSE

(* The client has closed its end, or never got to have one.                *)
Withdrawn(r) == client[r] \in {"local", "returned"}

HandlerFrame == UNCHANGED <<ownerVars, users, mainVars, clientVars, routerVars>>

StreamStep(r) ==
  /\ \/ RequestArrives(r) \/ Verify(r) \/ Serve(r) \/ FirstPacketFails(r) \/ FirstPacket(r)
     \/ Return(r) \/ PeerBreaks(r)
  /\ HandlerFrame

-----------------------------------------------------------------------------
(* The Router of the server.                                               *)
RouterTo(r, from, to) == router[r] = from /\ router' = [router EXCEPT ![r] = to]

RemoteDialed(r) ==
  /\ app[r] = "running" /\ RouterTo(r, "none", "copy")
  /\ remote' = [remote EXCEPT ![r] = "open"]

(* Mutant: no onClose if the destination cannot be reached.                *)
CloseAfterDialError == "close"

TellAfterDialError == "tell"

RemoteFails(r) ==
  /\ app[r] = "running" /\ RouterTo(r, "none", TellAfterDialError)
  /\ UNCHANGED remote

RemoteBreaks(r) ==
  /\ remote[r] = "open" /\ remote' = [remote EXCEPT ![r] = "broken"]
  /\ UNCHANGED router

RemoteCopyEnds(r) == RouterTo(r, "copy", "tell") /\ UNCHANGED remote

(* onClose, before the deferred closes                                     *)
Tell(r) == RouterTo(r, "tell", "close") /\ OnClose(r) /\ UNCHANGED remote

CloseRemote(r) ==
  /\ RouterTo(r, "close", "returned")
  /\ remote' = [remote EXCEPT ![r] = IF @ = "none" THEN "none" ELSE "closed"]

RouterCode(r) ==
  \/ (RemoteDialed(r) \/ RemoteFails(r) \/ CloseRemote(r)) /\ UNCHANGED vars
  \/ (remote[r] # "open" \/ ~Open(r)) /\ RemoteCopyEnds(r) /\ UNCHANGED vars
  \/ Tell(r) /\ UNCHANGED <<ownerVars, users>>

RouterStep(r) ==
  /\ RouterCode(r) \/ ((RemoteBreaks(r) \/ RemoteCopyEnds(r)) /\ UNCHANGED vars)
  /\ UNCHANGED <<mainVars, clientVars>>

-----------------------------------------------------------------------------
TunnelNext ==
  \/ ServerStep \/ ClientStep
  \/ \E r \in Requests : SessionStep(r) \/ StreamStep(r) \/ RouterStep(r)

(* The commands and their handlers run, a dial of the server has 15        *)
(* seconds, a stream the client gave up breaks for the server.  Nobody has *)
(* to interrupt anything, no user closes a connection, no destination      *)
(* does, and the five seconds of shutdownServers need not pass.            *)
TunnelFairness ==
  /\ WF_tunnelVars(ServerCode /\ UNCHANGED <<clientMain, transport, clientDone, clientVars, routerVars>>)
  /\ \A s \in Servers :
       WF_tunnelVars(ShutdownReturns(s) /\ UNCHANGED <<otherVars, mainVars, clientVars, routerVars>>)
  /\ \A r \in Requests :
       /\ WF_tunnelVars((SessionOver(r) \/ CloseStream(r) \/ CloseLocal(r)) /\ ClientFrame)
       /\ WF_tunnelVars((Verify(r) \/ Serve(r) \/ Return(r)) /\ HandlerFrame)
       /\ WF_tunnelVars(~Open(r) /\ FirstPacketFails(r) /\ HandlerFrame)
       /\ WF_tunnelVars(Withdrawn(r) /\ PeerBreaks(r) /\ HandlerFrame)
       /\ WF_tunnelVars(RouterCode(r) /\ UNCHANGED <<mainVars, clientVars>>)

TunnelSpec == TunnelInit /\ [][TunnelNext]_tunnelVars

TunnelFairSpec == TunnelSpec /\ TunnelFairness

-----------------------------------------------------------------------------
(* The server's part of a session has come to nothing.                     *)
ServerLegsClosed(r) ==
  /\ pc[r] \in {"none", "ended"} /\ router[r] \in {"none", "returned"}
  /\ remote[r] \in {"none", "closed"}

(* handleClient goes on although its user is gone, or cannot go on because *)
(* the client was interrupted.                                             *)
Ending(r) ==
  \/ client[r] \in {"socks", "copy"} /\ local[r] = "broken"
  \/ client[r] \in {"dial", "copy"} /\ clientDone

(* A session that lost its user or its client closes all its legs at both  *)
(* ends, and one that lost its destination all that the server has of it.  *)
(* Sessions that the accept loop takes after an interrupt are no           *)
(* exception.                                                              *)
SessionEnds ==
  \A r \in Requests :
    /\ Ending(r) ~> client[r] = "returned" /\ local[r] = "closed" /\ ServerLegsClosed(r)
    /\ remote[r] = "broken" ~> ServerLegsClosed(r)

(* An interrupt ends the server and everything it has, however long the    *)
(* sessions would like to go on, and without the five seconds of           *)
(* shutdownServers: its context is over when Close begins.                 *)
InterruptEndsServer ==
  ctxDone ~> /\ serverMain = "returned" /\ listening \cap {"tcp", "udp"} = {}
             /\ owner = "closed" => \A r \in Requests : ServerLegsClosed(r)

(* While the Router copies, the handler of the stream waits: its response  *)
(* writer is alive.                                                        *)
RouterHasWriter == \A r \in Requests : router[r] = "copy" => pc[r] = "wait"

(* A destination is dialed for a session of the client and for a user who  *)
(* was in force when the request came or later, and for nobody else.       *)
DestinationsAreAskedFor ==
  \A r \in Requests : remote[r] # "none" => r \in asked /\ user[r] \in since[r]

(* The Router is an application as Service expects one: it gives every     *)
(* stream that has broken back, whatever becomes of the destination.       *)
ImplementsService == FairSpec
=============================================================================
