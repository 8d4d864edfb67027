# A verification project for sing-trusttunnel

sing-trusttunnel is a client and a server for a tunnel over HTTP/2 and HTTP/3: every TCP
connection, UDP association or ICMP session is one `CONNECT` stream of a pooled HTTP
connection. This directory holds TLA+ models of the program, the TLC configurations that check
them on small instances, and TLAPS proofs about every part: the book of
connections, the streams, the health check and the idle manager of the client, the life of the
server, the datagrams on a stream, the links, and the two commands around them. `PROJECT.json` lists, for
every definition that models code, the lines it stands for, and for every hazard of the code the
properties that watch it.

    tlc -config ConnTracker_safety.cfg MCConnTracker      # one of the runs
    tlapm ConnTrackerProofs.tla                           # the proofs

Line numbers below are those of the modelled commit.

## 1. The system

| Component | Code | State it keeps | Operations |
| --- | --- | --- | --- |
| connection tracker | `close.go`, `dialTLS` of `client.go`, `Dial` of `quic.go` | parent and derived context, book of raw connections, one `closed` flag per connection | `BeginDial`, `Track`, `Cancel`, `Untrack`, `Close`, `Close` of a connection |
| client streams | `openStream` and the dial functions of `client.go`, `httpConn` and `tcpConn` of `protocol.go` | request context, pipe, response body, `closed`, `createErr`, `created`, the once-only `finish` | `Dial`, `ListenPacket`, `ListenICMP`, `Read`, `Write`, `Close` |
| health check | `healthcheck.go`, `Client.HealthCheck` | `started`, a timer, the checks in flight | `Start`, `Stop`, `Postpone`, the timer function |
| client | `client.go`, `idle.go`, `forceCloseAllConnections` | `keep`, `streamCount`, client context | `AddStream`, `releaseStream`, `CloseIdle`, `SetKeepIdleConnections`, `ResetConnections`, `CloseIdleConnections`, `Close` |
| HTTP/3 transport of the client | `quic.go`, `quic_stub.go` | none beyond the tracked sockets | dial, close with its QUIC connection |
| server | `service.go`, `configHTTP3Server` | two HTTP servers, the user map, one handler per request | `Start`, `UpdateUsers`, `ServeHTTP`, `Close` |
| datagram framing | `packet.go`, `icmp.go`, address helpers of `protocol.go` | none; a byte stream | `WritePacket`, `WriteTo`, `ReadPacket`, ping records |
| links | `tturl/`, `cmd/sing-trusttunnel/url.go` | none | `Build`, `Parse`, varints, random prefix, config to URL and back |
| command line | `cmd/sing-trusttunnel` | listeners, a client or a service, their contexts; one goroutine per session | `runClient`, `handleClient`, `runServer`, `Router`, the URL commands |
| log | `cmd/sing-trusttunnel/log.go` | none | prints |

### How the components interact

    user ── Dial/Close/Reset/SetKeep ──▶ client ── AddStream/releaseStream ──▶ idle manager
                                           │  ▲                                   │ closes all
                                RoundTrip  │  │ dialTLS                           ▼
                                           ▼  │                             connection tracker
                                    HTTP transport ── connections ─────────────▲
      health check ── its own stream, postponed by every other one ──▶ client
      HTTP transport ══ streams: datagram framing ══▶ server ── handler ──▶ application (Router)

    SOCKS user ──▶ runClient: accept, handleClient ──▶ client ══ stream ══▶ server
                                                                              │ handler, onClose
                             destination ◀── Router.NewConnectionEx ◀─────────┘ (runServer)

* A stream takes a slot of the idle manager, starts `RoundTrip` in a goroutine and returns to its
  user as soon as the transport has a connection (`GotConn`), that is *before* the response.
* The transport dials in goroutines of its own, which outlive the request that started them.
  Each passes through the tracker, which the client may reset at any moment.
* `releaseStream` of the last stream and `CloseIdle` close connections with the idle mutex held;
  `ResetConnections` and `Close` do so without it.
* On the server `ServeHTTP` hands the stream to the application together with `onClose`, and
  waits for `onClose`.
* The commands: `runClient` accepts SOCKS connections and gives each a goroutine, whose `Router`
  dials through the client; the `Router` of `runServer` is the application. An interrupt ends
  their contexts.

### What is hard in it, and what makes each part correct

* *Tracker*: a dial that completes while `Close` cancels, re-derives and empties the book; a
  connection closed by its owner and by the tracker at once; closing a copied map outside of the
  mutex. Correct: nothing that was dialed before a reset survives it, nothing dialed after it is
  touched by it.
* *Streams*: response against `Close`, several `Close` calls, a read before the response, a
  failed dial. Correct: the response body has exactly one owner, `Close` and what it unblocks
  return, a slot is given back once, and after its request was cancelled.
* *Health check*: timer functions in flight across stop and start. Correct: a stopped scheduler
  stays quiet, a started one never dies, checks do not overlap.
* *Client*: idle closing against new streams; a mutex held over closing. Correct: idle closing
  cuts no stream, a closed client holds no connection and its requests come to an end, no call gets stuck.
* *Server*: a start that fails half way, requests during shutdown, an unlocked user map, an
  application that calls `onClose` late or twice. Correct: the handler outlives the application's
  use of its writer, shutting down is polite for five seconds and then final.
* *Framing*: no resynchronisation, no lock, one-byte lengths, buffered writers, an ambiguous
  address format. Correct: datagrams arrive whole, in order, with their address, and now.
* *Commands*: a session has four legs at two processes (user, stream at either end, destination), and any
  can go first; an interrupt at any point of the set-up or of a session. Correct: what lost
  one leg loses the others, an interrupted server ends, and `Router` is what the server expects.
* *Links*: varint boundaries, truncation, unknown fields, defaults on both sides. Correct: `Parse`
  inverts `Build`, and whatever is accepted can be built again.

## 2. The modules

| Module | Models | Checked by |
| --- | --- | --- |
| `ConnPool` | abstract specification: what the tracker promises | as a property of `ConnTracker`; used by `Client` |
| `ConnTracker` | `close.go` and the dials, mutex section by mutex section | `MCConnTracker`: `tracker_safety`, `tracker_live` |
| `ConnTrackerProofs` | theorems about `ConnTracker` | TLAPS |
| `Stream` | one stream of the client | `MCStream`: `stream` |
| `StreamProofs` | theorems about `Stream` | TLAPS |
| `HealthCheck` | the scheduler, in discrete time | `MCHealthCheck`: `health` |
| `HealthCheckProofs` | theorems about `HealthCheck` | TLAPS |
| `Client` | idle manager, user calls, transport and `ConnPool` composed | `MCClient`: `client_safety`, `client_live`, `client_late_dial` |
| `ClientProofs` | theorems about `Client` | TLAPS |
| `Service` | the server | `MCService`: `service_safety`, `service_live` |
| `ServiceProofs` | theorems about `Service` | TLAPS |
| `Tunnel` | the two commands, composed with `Service` | `tunnel` |
| `TunnelProofs` | theorems about `Tunnel` | TLAPS |
| `Packet` | one direction of a UDP or ICMP stream | `MCPacket`: `packet` |
| `DatagramChannel` | abstract specification: what a datagram stream promises | as a property of `Packet` |
| `PacketProofs` | theorems about `Packet` | TLAPS |
| `TTURL` | the link format | `MCTTURL`: `tturl` |
| `TTURLProofs` | theorems about `TTURL` | TLAPS |

### ConnTracker

A context is named by the generation `Close` derived it in (`gen`; `cancelled` is the set of those
whose `CancelFunc` was called), a connection by the dial that produced it. Each critical section
of `tracker.access` is one action (`BeginDial`, `Track` or `RejectDial`, `Untrack`, `BeginClose`);
what the code does outside of the mutex is an action of its own: the `AfterFunc` (`AbortDial`),
the detour (`DialSucceeds`, `DialFails`), the handshake, the `Swap` of a connection's flag, the
underlying `Close`, and each half of `closeFromTracker` (`StoreClosed`, `CloseFromTracker`). `snap`
and `cur` are the local variables of the goroutines in `Close`. A detour may deliver a connection
whose context has just ended. `Pool` maps this state to `ConnPool`: a dial is *pending*, then *live*
while it is in the book, *doomed* from when it left the book to when its socket is closed.

### Stream

`opc`, `rpc`, `cpc` are the program counters of the goroutine in `openStream`, of the `RoundTrip`
goroutine and of the `Close` calls (any number by the user, one by `Dial` when it gives up).
`finish`, a `sync.OnceFunc`, is `once`: the first caller runs it in two steps (cancel, then
release the slot), everybody else waits. `result` is the verdict of `RoundTrip`: a 200, another
status, or an error.

### HealthCheck

Time is discrete. `Tick` waits for whatever is due, so timers and goroutines have no delay, but what
falls into one instant happens in every order. `quiet` is a history variable: the time since the
last request, or since a `Start` or `ResetConnections`, which begin the count anew without one. Client, streams and user appear as `Start`, `Stop`, `Postpone` at any time and as
`Client.Close` in its two steps (cancel, then `Stop`).

### Client

Composes streams, the idle manager and the calls of the user with the transport and with
`ConnPool` in the place of the tracker. That replacement is justified by `PoolSpec`, checked and
proved. A goroutine that closes idle connections under the mutex keeps `lock` until it returns.
A stream is cut down to what the idle manager sees; `Stream` has the rest. Once its `RoundTrip` has
brought a 200 (`SetUp`) nothing but its user's `Close` finishes it: a context or a connection that
ends takes the connection from it (`Sever`), and not the slot. A health check is a stream as well,
which is never set up. The transport pools connections, shares one among any number of requests,
dials in a goroutine that runs at its leisure (`queued`), and drops idle connections after a timeout.
`SetKeepIdleConnections` is two steps, `SetKeep` under the mutex and the scheduler without it;
`raced` is a history variable: the last `SetKeep` fell between the two steps of another call.

### Service

`owner` is the goroutine that calls `Start` and `Close`, `server` the state of the two HTTP servers,
`pc` the handlers. `since` is a history variable: the users that were in force at some time between
the arrival of a request and its verification. The `Shutdown` calls are external: HTTP/2 leaves the
streams it did not wait for to the `common.Close` that follows, HTTP/3 cuts them itself.

### Tunnel

`clientMain` and `serverMain` are `runClient` and `runServer`, `listening` their listeners, `clientDone`
the context of the client. `client[r]` is `handleClient` with the client's `Router` in it, `local` the
user's connection; `router[r]` is the server's `Router`, `remote` the destination. The module EXTENDS
`Service`: its `owner` is `runServer` between `Start` and `Close`, its `app` the `Router`, so that the
refinement is one of fairness and of who calls what (`ImplementsService`). `asked` keeps what the client
has sent for: a request may reach the server after the client gave it up. The SOCKS server and
the copy loops are external: a loop may end at any time, and does when a connection it uses or its
context is over. The client's `Dial` is what `Stream` shows of it. A process that exits takes its
sockets with it; in the model its goroutines end by themselves, which is the harder case.

### Packet

The wire is a sequence of symbols, one per fixed field of the format (an address of 16 bytes, a
port, a length) and one per byte of a name or payload. All four kinds of stream are initial states:
UDP from the client and from the server, ICMP requests and replies. A read that fails returns
nothing (`GiveUp`), one that does not a whole packet (`Deliver`); a destination that is a name is resolved
by the client before anything is written, or refused (`Unresolved`). Addresses are
`[six, n]`; the numbers below `V4` are those an IPv4 address and an IPv6 address share.

`DatagramChannel` is the same stream without bytes, headers, buffers and flushes: datagrams go in at
one end and come out at the other, in order, and reading ends only when the channel breaks or
when the very next datagram has no room. `ChannelSpec` says that `Packet` implements it. A packet is
`sent` with the first `Write` of it, which has its header, and `received` when a read returned it.

### TTURL

The functions of `tturl` as operators over sequences of symbols, of which there are `Radix` = 4 `Quarter`:
the quarter a symbol is from is the length of the varint it begins. The fields of a link are a
sequence of `Entries`, and `Bytes` writes them one behind the other. Around the operators is a parser that takes one field
per step from a buffer: a link built from a URL, such a link with a foreign field inserted at any
place, one cut inside of any field, or arbitrary bytes. An accepted link is built and parsed a
second time. `Zero` is Go's zero value of a URL. `ServerName` and `URLToServerConfig` are the way from
a configuration to a link and back. `Build` writes a client random prefix of any length and `Parse`
refuses one of more than 32 bytes: `PrefixFits` tells which links can come back.

## 3. The runs

| Run | Properties | Distinct states |
| --- | --- | --- |
| `tracker_safety` | `NoEscape`: no connection escapes a reset; `NewcomersSpared`: no reset touches a newcomer; `PoolSpec`: the tracker implements the pool | 681 788 |
| `tracker_live` | `PoolFairSpec`: the fair tracker implements the fair pool, so a dial that a reset overtook ends and what a reset took is closed | 66 004 |
| `stream` | `BodyNeverLeaks`, `ReadHasBody`: the body has one owner and a reader finds it; `SlotOutlivesRequest`, `FailedDialHoldsNothing`, `FailedRequestReleases`: the slot; `DialReturns`, `CloseUnblocks`: the calls return | 53 402 |
| `health` | `StoppedIsQuiet`, `KeepsBeating`, `ChecksDoNotPileUp`, `BeatsInTime`: no two periods without a request, a `Start` or a `ResetConnections`; `ComesToRest`: a closed client's scheduler does | 2 417 |
| `client_safety` | `IdleCloseSparesStreams`, `OnlyResetCuts`: who may cut a stream; `ClosedHoldsNothing`: what `Close` leaves; `KeepMeansChecks`: flag and health check agree unless calls overlapped | 4 115 415 |
| `client_live` | `CallsReturn`: no deadlock on the idle mutex; `ClosedDrains`, `IdleDrains`: closed or unused, a client lets go of its connections, and closed, of every request that was not set up | 254 507 |
| `client_late_dial` | `SuspendedKeepsNothing`, which does not hold: see 6 | |
| `service_safety` | `TypeOK`; `WriterOutlivesApp`; `ServedWereUsers`; `ClosedServesNobody`; `GraceIsKept` | 311 454 |
| `service_live` | `CloseEnds`: `Close` returns, and then every handler | 6 934 |
| `packet` | `ArriveWhole`, `AddressKept`: datagrams are what they were; `ChannelSpec`: the stream implements the abstract channel, so a read fails for a broken stream or a small buffer only; `NothingHeldBack`: once nobody writes, a read waits only if everything has been read | 489 243 |
| `tturl` | `RoundTrip`, `SecondIsFirst`, `ConfigSurvives`: `Parse` inverts `Build`; `CutIsRefused`: what it refuses | 22 251 |
| `tunnel` | `SessionEnds`: who loses one leg of a session loses the others; `InterruptEndsServer`; `ImplementsService`: the commands, with their fairness, are a fair `Service` | 82 539 |

All runs say `CHECK_DEADLOCK FALSE`: every model may come to its end (each dial happens once, a
closed client has nothing to do). That nothing gets stuck before its end is what the liveness
properties are for.

## 4. Bounds, and why they are enough

* *ConnTracker*: 3 dials and 2 closers in the safety run, 2 and 2 in the liveness run, at most
  `MaxGen` = 2 resets. Three dials are one before, one between and one after two resets; with two
  closers both resets can be in progress at once, one of them with a book the other left behind.
  The bound blocks a third reset only. The proofs have no bound on any of them.
* *Stream*: one stream, two users that close it and the dialer. The mutex, the once and the channel
  know two kinds of callers, first and later.
* *HealthCheck*: three timer goroutines and a period of 7 ticks, the seconds of the code. A check
  ends within a period and a timer set anew needs one to fire, so at most two are in flight at
  any instant, and the third is never what the model waits for.
* *Client*: two streams, two callers (safety) or one (liveness), three resets. Who of the two
  streams is the last, and which connection they share, takes every combination. Both runs restrict
  what `Init` leaves open, to stay short: in `client_safety` (`ExemptSpec`) at most one stream has
  `ContextWithKeepSession`, and only while the client does not keep its connections anyway, and not
  both callers resume; in `client_live` (`PlainSpec`) no stream has it. `client_late_dial` has
  no restriction. `MaxGen` = 3 is a reset for each stream and for the caller of the liveness run,
  so the bound stops no call there; in the safety run it blocks a fourth reset.
* *Service*: two requests and one user, ICMP on (safety); one request, ICMP off (liveness).
  Requests share nothing but the servers and the user map, two show that one of them cannot end
  the grace of the other.
* *Packet*: two writers, three packets sent out of five (both families, the two ambiguous addresses,
  an empty payload), a name longer than `MaxByte` = 2 so that it is cut, buffers smaller and larger
  than the payload, `V4` = 4. A third packet behind two of two writers shows whether the reader is
  still in step.
* *Tunnel*: one session, one user, no ICMP, both transports, every order of set-up, failure and
  interrupt at either command. Sessions share nothing but the two commands and the server, and what
  two requests do to each other there is the question of `service_safety`, as are users that were
  never let in. The safety theorems hold for any number.
* *TTURL*: symbols of 4 bits (`Quarter` = 4), so that varints of one, two, four and eight symbols occur with
  short contents; a prefix of at most 2 bytes, and two links whose prefix is longer; digits of base 4. The theorems hold for any base. The links of `MCTTURL` set each
  field and the combinations that depend on each other (subscription, authentication key, version).

## 5. Fairness

* A goroutine that can run does run (weak fairness of its internal steps). A mutex that becomes
  free is got in the end; `sync.Mutex` has a starvation mode for that.
* The network owes nobody an answer: dials, handshakes, `RoundTrip`, reads and the first packet of a
  UDP stream are fair only once their context is over or their connection or body is closed,
  which is what the Go interfaces promise. No user must close anything, no server must answer: a
  stream whose `RoundTrip` fails releases itself (`client.go:228`), one that was set up keeps its slot
  until its user closes it, in `Stream` as in `Client`. `ClosedDrains` therefore takes its connection
  from it and leaves it its slot.
* In `HealthCheck`, time passes and `Client.Close` comes to its second step.
* In `Service`, the application calls `onClose` of a stream that has broken, as the copy loops of
  `Router` do; nothing makes it do so on a stream that works. `Shutdown` returns when all requests
  are over or its context is.
* In `Client`, the transport keeps its idle timeout, `DefaultSessionTimeout`.
* In `Tunnel`, the commands, their handlers and both `Router`s run; a dial of the server's `Router` ends,
  within `DefaultTCPTimeout` of 15 seconds; a stream that the client has given up breaks for the
  server, as an HTTP stream that is reset does; a copy loop ends when a connection it uses or its context
  is over. A server that ends its half of a stream is not assumed to end the client's copy loop, which may
  still be sending. Nobody has to interrupt anything, no user and no destination has to close, and
  the five seconds of `shutdownServers` need not pass: an interrupted server ends without them.
* `Packet` needs no fairness: `NothingHeldBack` looks at what the reader *can* still do.

External contracts that are not fairness: an `io.Pipe` does not tear a `Write` apart;
`http.ResponseWriter` keeps what is written until it is flushed; `WriteTo` may be called by many
goroutines and `WritePacket` by one at a time, as its `Write` of a header alone is safe from another
`WritePacket` only so; a reader gives up at its first error.

## 6. A finding

`client_late_dial` checks what `idle_test.go` says of a client that does not keep idle connections:
after the last stream is closed there is none. TLC finds the behaviour in which it is not so. The
transport starts a dial for a request, the request is cancelled and its stream released, which
closes everything, and only then the dialing goroutine reaches `connTracker.BeginDial`
(`close.go:41`). It captures the context that the reset has just derived, so nothing aborts it, and
its connection stays in the pool of a client without streams until the transport's idle timeout.
The late `BeginDial` is the only cause: with `BeginDial` restricted to dials whose stream still
waits, the same run holds. `IdleDrains` shows that the timeout clears the connection in the end.

## 7. What is proved

### ConnTracker

`ConnTrackerProofs` proves, for any set of dials, any set of closers and any bound `MaxGen`, from
`TrackerAssumption` alone (`NoConn` is no dial, `MaxGen` is a natural number):

* `TypeCorrect`: the type invariant;
* `NothingEscapes`: `NoEscape`, an open connection is in the current book, or somebody is about to
  close it;
* `CloseSparesNewcomers`: `NewcomersSpared`;
* `BookStaysOpen`: `BookIsOpen`, the book holds no closed connection;
* `BookShrinksAfterParent`: `ClosingIsFinal`;
* `ImplementsPool`: `PoolSpec`, every step of the tracker is a step of `ConnPool` or leaves it alone.

`BookIsOpen` and `ClosingIsFinal` have no run of their own: `PoolSpec` fails without them. All
follow from one inductive invariant, `IInv`. `NoEscape` is not inductive as it stands; what it
needs besides `TypeOK` is

* `GenInv`: the cancelled contexts are exactly those before the current one, and no dial has one
  of the future: this is what makes `Track` admit only dials of the current generation;
* `UntrackedInv`: a dial that was not tracked has touched nothing but its raw socket, so that
  `Track` puts an open, unmarked connection into the book;
* `BookInv`: what is in the book is open and of the current generation, and if its flag is set its
  owner is about to untrack it: so whatever a `Close` takes gets from *live* to *doomed*;
* `TakenInv`: what a `Close` call holds was tracked, under an earlier generation;
* `FlagInv`: how the flag of a connection, the progress of its own `Close` and its socket go
  together: a flag without an owner behind it was set by a `Close` of the tracker, and a finished
  `Close` left a closed socket; without it an error return of the dial could leave one open.

The proof that a step keeps `IInv` has one case per action. `ImplementsPool` maps each action to
one of `ConnPool`, or to a stutter, with the invariant telling which.

### Stream

`StreamProofs` proves, for any number of users that close a stream, `TypeCorrect`, `BodyIsClosed`
(`BodyNeverLeaks`), `ReaderFindsBody` (`ReadHasBody`), `SlotIsLast` (`SlotOutlivesRequest`) and
`FailedDialIsClean` (`FailedDialHoldsNothing`), from `StreamAssumption` (the dialer is no user).
`SetUpInv` says that `setUp` leaves a body or an error and that a body it kept to itself is closed
by the end of its goroutine; `OwnerInv` that a marked stream with an open body has a `Close` call that saw
the body and is on its way to close it; `CloseInv` what a `Close` call has done at each point;
`SlotInv` that the slot is there from `openStream` until `finish` has released it, once.

### HealthCheck

`HealthCheckProofs` proves, for any period `T` > 0 and any number of checks in flight,
`TypeCorrect`, `StaysStopped` (`StoppedIsQuiet`), `StaysAlive` (`KeepsBeating`),
`OneCheckAtATime` (`ChecksDoNotPileUp`) and `RequestInTime` (`BeatsInTime`). The last two are not
inductive. `Spaced` adds what relates the timer to the checks: a timer that runs while a check is on
the wire was set after it began, so it has as much time left as the check at least; and when
it has fired, a check on the wire is over and no other has fired. `QuietInv` bounds the time since
the last request (or `Start`, or `ResetConnections`) by what is left: a period while a check is on the wire or being judged, two
with what the timer has left. `KeepsBeating` is part of the argument: without it time could pass with
neither a timer nor a check.

### Service

`ServiceProofs` proves, for any number of requests and users and with or without an ICMP handler,
`TypeCorrect`, `WriterIsAlive` (`WriterOutlivesApp`), `OnlyUsersServed` (`ServedWereUsers`),
`CloseIsThorough` (`ClosedServesNobody`) and `CloseIsPolite` (`GraceIsKept`). The invariant has a part for
each: `HandlerInv` (a stream goes to the application once, and `done` is closed by `onClose`
only), `UserInv` (`since` covers the map while a request is verified), `OwnerInv` (a server takes requests
between `Start` and `Close` only) and `OpenInv`, which says whose streams can be open: those of a server
that takes or drains requests, and those an HTTP/2 server gave up waiting for, which it does
only after the grace. `GraceIsKept`, an action property, follows from the last.

### Client

`ClientProofs` proves, for any finite set of streams, any callers and any bound on resets,
`TypeCorrect`, `IdleCloseIsSafe` (`IdleCloseSparesStreams`), `OnlyResetsTake` (`OnlyResetCuts`),
`CloseIsFinal` (`ClosedHoldsNothing`) and `LoneCallsAgree` (`KeepMeansChecks`), from `ClientAssumption`.
It holds for every `Init` of the module, without the restrictions of the runs (section 4). The
parts of the invariant: `CountInv`, `streamCount` is the number of streams that have a slot; `LockInv`,
exactly those who close idle connections keep the mutex; `IdleInv`, while they do there is no slot, so
nobody who could lose anything; `ConnInv`, a stream's connection is one the transport knows;
`FinalInv`, how far `Close` has come and what is live then; `CallInv`, which calls pass where;
`KeepInv`, of two calls that do not overlap one at a time is between its two steps.

### Tunnel

`TunnelProofs` proves, for any number of sessions and users, `ImplementsServer`: every behaviour of the
commands is one of `Service`, so that the theorems of `ServiceProofs` hold of the program. Using
them, `RoutersHaveWriters` says that `Router` copies only while the handler of its stream waits for
it, and `NoOtherDestinations` that it dials only for what a client asked for, on behalf of a user
who was in force. These two have no run of their own. The invariant, `TunnelInv`, keeps the `Router` and
the `app` of `Service` in step.

### Packet

`PacketProofs` proves, for any number of writers, any packets, any name, any buffers and any bound on what
is sent, `TypeCorrect`, `DatagramsArriveWhole` (`ArriveWhole`), `AddressesSurvive` (`AddressKept`) and
`ReadsFailForSize` (`OnlySmallBuffersFail`), from `PacketAssumption`. `ArriveWhole` speaks of what was
received and says nothing about the bytes under way, so the invariant has to: every packet that was sent and
not received has a place in the stream, counted from the byte the reader takes next (`Spaced`, the
places of successive packets do not overlap), and every byte of `wire` and of `pending` is the byte of
the packet in whose place it is (`Fits`). The packet that the reader is in begins as far back as the
reader has taken of it (`Consumed`), and the last one may still owe a payload, when its header went out
alone (`Owed`). `WriterInv` has the reason why nothing gets in between the two: who writes in two
parts is alone. When the stream breaks, `wire` is cut and still fits. The lemmas say what taking, cutting
and appending do to places, each without the program: `TakeFits`, `CutFits`, `ConcatFits`, `ExtendFits`.

Two more theorems come out of the same invariant. `NothingIsHeldBack` (`NothingHeldBack`) adds `Drained`:
on a stream that works something is in the `ResponseWriter` only while the goroutine that wrote it
is on its way to flush it. So once nobody writes the places of all packets are on the wire
(`AllOnTheWire`), and the next one has the bytes that its header promises: a read that waits
has nothing left to read. `ImplementsChannel` (`ChannelSpec`) maps every step to one of
`DatagramChannel` or to a stutter: `Deliver` needs that the packet is the oldest one
(`DatagramsArriveWhole`), `GiveUp` that it failed for its size (`ReadsFailForSize`).

### TTURL

`TTURLProofs` proves, for any number of symbols, any base of digits, any links, configurations
and fields of later versions, and any bytes as input: `LinksRoundTrip` (`RoundTrip`),
`CutsAreRefused` (`CutIsRefused`), `RebuiltIsSame` (`SecondIsFirst`), `ConfigsSurvive` (`ConfigSurvives`)
and `TypeCorrect`. It assumes that two digits make a byte and no digit is a slash
(`SymbolAssumption`), and that what there is to build can be written and a field of a later version has a
tag that this one does not know (`SourceAssumption`): a string longer than the largest varint is an
error of `Build`, and no link.

The lemmas go up through the format. Each says what was written is read back, whatever follows;
most also say what a read of *any* bytes returns, because a link that was parsed is built again.

* Varints: `ReadsBack`, and `CutVarint`: one that is cut off is an error and not the end of the link.
  `WriteIs` and `ValueIs` relate the digits of the one to the sums of the other.
* A length and as many symbols: `LengthReadsBack`, `LengthReadIs`; a field: `FieldReadsBack`, and
  `CutField`, wherever it is cut.
* Hex, client random prefixes, string arrays: `HexReadsBack`, `PrefixReadsBack` (unless too long),
  `StringsReadBack`; of what was parsed, `HexReadIs`, `PrefixReadIs` and `StringsReadIs` say that writing it
  takes no more symbols than it came from, so that a varint still tells its length.
* The value of every tag: `DecodeBack` and `DecodedIs`.
* A link: `Says` is what one field makes of a URL that is to become `T`, `Run` what a sequence of them
  does. `EntriesRun` follows the order of `Build` from the empty URL to `T`, up to the protocol that is
  left out as a default; `ExtendedRun` inserts a foreign field, `CutTorn` cuts one.

`RoundTrip` says what a parse ends with and is not inductive. The invariant, `Inv`, adds what is true
on the way: `Following`, the buffer is the bytes of some fields that run from what was parsed to
what the link says, or the link was refused for its prefix; `TornLink`, of a link that was cut
there is always a part of a field left; `Accepted`, nothing is built or accepted that is not valid.
`StepRun` and `StepTorn` are the step of the parser on such a buffer.

These proofs go by induction over sequences and over the rounds of loops. The prover cannot
instantiate an induction theorem with a predicate, so `Induction` and `InductionTo` speak of a *set* of numbers
that has 0 and the successor of each of its elements. They follow from the well-foundedness of the natural numbers.

### Only model-checked

Liveness: `PoolFairSpec`, `DialReturns`, `CloseUnblocks`,
`FailedRequestReleases`, `ComesToRest`, `CallsReturn`, `ClosedDrains`, `IdleDrains`, `CloseEnds`, `SessionEnds`,
`InterruptEndsServer` and the fair part of `ImplementsService`. Every safety property of a passing run is
a theorem, and so is every type invariant; a run checks the one of `Service`, which also forbids that a
channel is closed twice.

## 8. What is not modelled

* The log, the flags, the configuration files and the TLS wrapper of the command line: input and
  output. The exit of a process: see `Tunnel` above.
* What `NewClient` checks of its options (in `Tunnel` the set-up may fail);
  congestion control and TLS configuration: calls into libraries at construction. The `Close` of the HTTP/3
  transport that ends `Client.Close`: the sockets below it are closed by then.
* Base64, the scheme and the leading question mark of a link; the parts of a host and a port
  inside of an address.
* The health check in `Tunnel`: its streams are streams like others to `Client`.
* Readers that go on after a failed read of a datagram stream: the format cannot resynchronise and
  does not promise to. No property is about them.

## 9. Plan

The order is that of the harm a defect would do: lost or leaked connections first, then streams,
then the composition, then the server, formats last. Every module of section 2 is done. Left:

1. *An abstract stream* (dialed, readable, closed) that `Stream` implements and that `Client` and `Tunnel`
   use, as `ConnPool` is used now.
2. *A second composition*: `HealthCheck` with the calls of `Client`, so that a check that fails resets
   the connections of streams that are being opened.
3. *Two directions of a stream at once*, for the order in which the ends of a `Tunnel` session are half-closed.
