------------------------------ MODULE Service ------------------------------
(***************************************************************************)
(* The server (service.go, configHTTP3Server in quic.go): Start brings up  *)
(* an HTTP/2 server and perhaps an HTTP/3 one, ServeHTTP runs one handler  *)
(* per request on behalf of the application, UpdateUsers swaps the user    *)
(* map under their feet, and Close shuts the servers down, politely for    *)
(* five seconds, then by force.                                            *)
(*                                                                         *)
(* net/http and http3 are external: Shutdown stops the listener and waits  *)
(* for the requests or for its context, and for HTTP/3 it ends by closing  *)
(* the server.  So is the application: it calls onClose, once or more,     *)
(* when it is done with a stream, and does so if the stream has broken.    *)
(***************************************************************************)
EXTENDS Naturals

CONSTANTS
  Requests,
  Users,      \* credentials a user map may hold
  HasICMP     \* whether ServiceOptions.ICMPHandler is set

ASSUME ServiceAssumption == HasICMP \in BOOLEAN

Servers == {"h2", "h3"}

Kinds == {"tcp", "udp", "icmp", "check", "method"}  \* request.Host, or no CONNECT

VARIABLES
  ctxDone,  \* Service.ctx is canceled
  owner,    \* the goroutine that calls Start and Close
  server,   \* httpServer and h3Server
  expired,  \* the context of shutdownServers has timed out
  users,    \* Service.users
  pc,       \* the handlers, one per request
  via, kind, user,  \* what the request is
  wire,     \* its stream: open, broken by the peer or cut by this side
  app,      \* what the application does with it
  done,     \* how often the channel done was closed
  since     \* the users there were at some time since the request came

ownerVars == <<ctxDone, owner, server, expired>>
requestVars == <<via, kind, user>>
handlerVars == <<pc, requestVars, wire, app, done>>
vars == <<ownerVars, users, handlerVars, since>>
otherVars == <<users, pc, requestVars, app, done, since>>  \* what the owner's steps leave alone

TypeOK ==
  /\ ctxDone \in BOOLEAN /\ expired \in BOOLEAN
  /\ owner \in {"new", "start", "started", "failed", "close", "closed"}
  /\ server \in [Servers -> {"off", "serving", "draining", "drained", "closed"}]
  /\ users \subseteq Users
  /\ pc \in [Requests -> {"none", "verify", "serve", "first", "wait", "ended"}]
  /\ via \in [Requests -> Servers] /\ kind \in [Requests -> Kinds]
  /\ user \in [Requests -> Users]
  /\ wire \in [Requests -> {"none", "open", "broken", "cut", "over"}]
  /\ app \in [Requests -> {"none", "running", "over"}]
  /\ done \in [Requests -> 0..1]
  /\ since \in [Requests -> SUBSET Users]

Init ==
  /\ ctxDone = FALSE /\ owner = "new" /\ expired = FALSE
  /\ server = [s \in Servers |-> "off"]
  /\ users = {}
  /\ pc = [r \in Requests |-> "none"]
  /\ via = [r \in Requests |-> "h2"] /\ kind = [r \in Requests |-> "tcp"]
  /\ user \in [Requests -> Users]
  /\ wire = [r \in Requests |-> "none"]
  /\ app = [r \in Requests |-> "none"]
  /\ done = [r \in Requests |-> 0]
  /\ since = [r \in Requests |-> {}]

Open(r) == wire[r] = "open"

(* The streams of a set of servers are cut off.                            *)
Cut(S) == wire' = [r \in Requests |-> IF Open(r) /\ via[r] \in S THEN "cut" ELSE wire[r]]

-----------------------------------------------------------------------------
(* Start with a TCP listener or without: HTTP/2 serves from here on.       *)
StartHTTP2 ==
  /\ owner = "new"
  /\ \/ server' = [server EXCEPT !["h2"] = "serving"]
     \/ UNCHANGED server
  /\ owner' = "start"
  /\ UNCHANGED <<ctxDone, expired, wire>>

(* Without a packet connection; with one, which may fail.                  *)
StartHTTP3 ==
  /\ owner = "start"
  /\ \/ owner' = "started" /\ UNCHANGED server
     \/ owner' = "started" /\ server' = [server EXCEPT !["h3"] = "serving"]
     \/ owner' = "failed" /\ UNCHANGED server
  /\ UNCHANGED <<ctxDone, expired, wire>>

CancelContext ==
  /\ ~ctxDone /\ ctxDone' = TRUE
  /\ UNCHANGED <<owner, server, expired, wire>>

(* Close: shutdownServers calls Shutdown on what there is, concurrently.   *)
BeginClose ==
  /\ owner \in {"started", "failed"}
  /\ owner' = "close"
  /\ server' = [s \in Servers |-> IF server[s] = "serving" THEN "draining" ELSE server[s]]
  /\ UNCHANGED <<ctxDone, expired, wire>>

(* Mutant: Shutdown is given a context without a limit.                    *)
ExpireNever == FALSE

Expire ==
  /\ owner = "close" /\ ~expired
  /\ expired' = TRUE
  /\ UNCHANGED <<ctxDone, owner, server, wire>>

(* Mutant: the context of shutdownServers has no parent.                   *)
GraceTimer == expired

(* Its context is over, with its five seconds or with the service's.       *)
GraceOver == expired \/ ctxDone

(* Shutdown returns when there is no more to wait for, or no more time.    *)
ShutdownReturns(s) ==
  /\ server[s] = "draining"
  /\ \/ \A r \in Requests : via[r] = s => ~Open(r)
     \/ GraceOver
  /\ server' = [server EXCEPT ![s] = "drained"]
  /\ Cut({s} \cap {"h3"})
  /\ UNCHANGED <<ctxDone, owner, expired>>

(* Mutant: Close goes on as soon as one of the servers is down.            *)
FirstDrained == \E s \in Servers : server[s] = "drained"

(* waitGroup.Wait                                                          *)
AllDrained == \A s \in Servers : server[s] # "draining"

(* Mutant: no more than Shutdown.                                          *)
CutNothing == UNCHANGED wire

(* common.Close on the HTTP/2 server and what it accepted.                 *)
CutHTTP2 == Cut({"h2"})

CloseReturns ==
  /\ owner = "close" /\ AllDrained
  /\ owner' = "closed"
  /\ CutHTTP2
  /\ server' = [s \in Servers |-> IF server[s] = "off" THEN "off" ELSE "closed"]
  /\ UNCHANGED <<ctxDone, expired>>

OwnerStep ==
  /\ \/ StartHTTP2 \/ StartHTTP3 \/ CancelContext \/ BeginClose \/ Expire \/ CloseReturns
     \/ \E s \in Servers : ShutdownReturns(s)
  /\ UNCHANGED otherVars

-----------------------------------------------------------------------------
(* UpdateUsers publishes a new map, with no lock: a handler reads either.  *)
UpdateUsers ==
  \E S \in SUBSET Users :
    /\ users' = S
    /\ since' = [r \in Requests |-> IF pc[r] = "verify" THEN since[r] \cup S ELSE since[r]]
    /\ UNCHANGED <<ownerVars, handlerVars>>

(* A new stream; a server that drains may take one it has not refused yet. *)
Arrive(r) ==
  /\ pc[r] = "none"
  /\ \E s \in Servers, k \in Kinds :
       /\ server[s] \in {"serving", "draining"}
       /\ via' = [via EXCEPT ![r] = s] /\ kind' = [kind EXCEPT ![r] = k]
  /\ pc' = [pc EXCEPT ![r] = "verify"] /\ wire' = [wire EXCEPT ![r] = "open"]
  /\ since' = [since EXCEPT ![r] = users]
  /\ UNCHANGED <<user, app, done>>

End(r) == pc' = [pc EXCEPT ![r] = "ended"] /\ wire' = [wire EXCEPT ![r] = "over"]

(* Mutant: the map is looked at for a user name, and no password compared. *)
AnyUser(r) == TRUE

Known(r) == user[r] \in users

(* verify: 403, or on to the method and the host.                          *)
Verify(r) ==
  /\ pc[r] = "verify"
  /\ IF Known(r) THEN pc' = [pc EXCEPT ![r] = "serve"] /\ UNCHANGED wire ELSE End(r)
  /\ UNCHANGED <<requestVars, app, done, since>>

(* The application gets the stream, and onClose.                           *)
Handle(r) == pc' = [pc EXCEPT ![r] = "wait"] /\ app' = [app EXCEPT ![r] = "running"] /\ UNCHANGED wire

(* 405, 501 and the health check end at once; UDP wants its first packet.  *)
Serve(r) ==
  /\ pc[r] = "serve"
  /\ \/ kind[r] \in {"tcp"} \cup (IF HasICMP THEN {"icmp"} ELSE {}) /\ Handle(r)
     \/ kind[r] \in {"check", "method"} \cup (IF HasICMP THEN {} ELSE {"icmp"}) /\ End(r) /\ UNCHANGED app
     \/ kind[r] = "udp" /\ pc' = [pc EXCEPT ![r] = "first"] /\ UNCHANGED <<wire, app>>
  /\ UNCHANGED <<requestVars, done, since>>

(* A broken or cut stream, or bytes that are no packet.                    *)
FirstPacketFails(r) ==
  /\ pc[r] = "first"
  /\ End(r)
  /\ UNCHANGED <<requestVars, app, done, since>>

FirstPacket(r) ==
  /\ pc[r] = "first" /\ Open(r)
  /\ Handle(r)
  /\ UNCHANGED <<requestVars, done, since>>

(* Mutant: onClose without N.OnceClose.                                    *)
CloseDoneAgain(r) == done' = [done EXCEPT ![r] = @ + 1]

CloseDone(r) == done' = [done EXCEPT ![r] = 1]

OnClose(r) ==
  /\ app[r] # "none" /\ pc[r] # "ended"
  /\ app' = [app EXCEPT ![r] = "over"]
  /\ CloseDone(r)
  /\ UNCHANGED <<pc, requestVars, wire, since>>

(* Mutant: ServeHTTP does not wait.                                        *)
DoneAlways(r) == TRUE

Done(r) == done[r] > 0

Return(r) ==
  /\ pc[r] = "wait" /\ Done(r)
  /\ End(r)
  /\ UNCHANGED <<requestVars, app, done, since>>

PeerBreaks(r) ==
  /\ Open(r)
  /\ wire' = [wire EXCEPT ![r] = "broken"]
  /\ UNCHANGED <<pc, requestVars, app, done, since>>

HandlerStep(r) ==
  /\ \/ Arrive(r) \/ Verify(r) \/ Serve(r) \/ FirstPacketFails(r) \/ FirstPacket(r)
     \/ OnClose(r) \/ Return(r) \/ PeerBreaks(r)
  /\ UNCHANGED <<ownerVars, users>>

Next == OwnerStep \/ UpdateUsers \/ \E r \in Requests : HandlerStep(r)

Spec == Init /\ [][Next]_vars

Fairness ==
  /\ WF_vars((Expire \/ CloseReturns) /\ UNCHANGED otherVars)
  /\ \A s \in Servers : WF_vars(ShutdownReturns(s) /\ UNCHANGED otherVars)
  /\ \A r \in Requests :
       /\ WF_vars((Verify(r) \/ Serve(r) \/ Return(r)) /\ UNCHANGED <<ownerVars, users>>)
       /\ WF_vars(~Open(r) /\ (FirstPacketFails(r) \/ OnClose(r)) /\ UNCHANGED <<ownerVars, users>>)

FairSpec == Spec /\ Fairness

-----------------------------------------------------------------------------
(* ServeHTTP does not return while the application may still write: the    *)
(* response writer is dead once the handler is over.                       *)
WriterOutlivesApp == \A r \in Requests : app[r] = "running" => pc[r] = "wait"

(* Whoever the application serves was in a user map that was in force at   *)
(* some time between the arrival of the request and its verification.      *)
ServedWereUsers == \A r \in Requests : app[r] # "none" => user[r] \in since[r]

(* After Close nothing is served, even if it follows a Start that failed   *)
(* half way: no server takes requests and no stream is left open.          *)
ClosedServesNobody ==
  owner = "closed" => /\ \A s \in Servers : server[s] \in {"off", "closed"}
                      /\ \A r \in Requests : ~Open(r)

(* Close cuts a stream only after the grace of shutdownServers, or if the  *)
(* service's context is over.                                              *)
GraceIsKept == [][\A r \in Requests : Open(r) /\ wire'[r] = "cut" => expired \/ ctxDone]_vars

(* Close returns, whatever the streams and the application do, and then    *)
(* every handler does, those that wait for a first packet or for onClose.  *)
CloseEnds ==
  owner = "close" ~> owner = "closed" /\ \A r \in Requests : pc[r] \in {"none", "ended"}
=============================================================================
