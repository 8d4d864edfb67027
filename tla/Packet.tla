------------------------------- MODULE Packet -------------------------------
(***************************************************************************)
(* Datagrams on a byte stream: one direction of a UDP stream (packet.go,   *)
(* from the client to the server or back) or of an ICMP stream (icmp.go),  *)
(* and the 16 bytes of an address (protocol.go).  Several goroutines       *)
(* write, one reads, and nothing in the code locks the stream: a datagram  *)
(* stays whole because header and payload go out in one Write.             *)
(*                                                                         *)
(* Every fixed field is one symbol on the wire, a Nat.  An address is      *)
(* [six, n], n standing for its bytes: the numbers below V4 are those      *)
(* whose first 12 bytes are zero.                                          *)
(*                                                                         *)
(* The HTTP transport is external: a Write is not torn, the server's       *)
(* ResponseWriter keeps what is written until it is flushed, a stream that *)
(* breaks loses what was under way from some byte on.  So are the users:   *)
(* WritePacket has one caller, WriteTo any number, and a reader gives up   *)
(* at the first error.                                                     *)
(***************************************************************************)
EXTENDS Naturals, Sequences, FiniteSets

CONSTANTS
  Writers,
  Packets,    \* [addr |-> an address, data |-> a sequence of symbols]
  V4,         \* 2^32
  Caps,       \* room in the buffers that are read into
  AppName,    \* the name the client was configured with, a sequence
  MaxByte,    \* math.MaxUint8
  MaxSends    \* bound: packets written

Addresses == [six : BOOLEAN, n : Nat]

(* An IPv4 address has no more than its four bytes.                        *)
ASSUME PacketAssumption ==
  /\ V4 \in Nat /\ MaxByte \in Nat /\ MaxSends \in Nat /\ Caps \subseteq Nat
  /\ AppName \in Seq(Nat)
  /\ Packets # {} /\ Packets \subseteq [addr : Addresses, data : Seq(Nat)]
  /\ \A p \in Packets : p.addr.six \/ p.addr.n < V4

VARIABLES
  side,     \* who writes: client or server (UDP), ping or pong (ICMP)
  wpc,      \* the writers
  job,      \* what they write
  pending,  \* written, not flushed
  wire,     \* flushed, not read
  broken,
  rpc,      \* the reader
  header,   \* what it has of a packet
  sent, received  \* the packets, in order

writerVars == <<wpc, job, pending, sent>>
readerVars == <<rpc, header, received>>
vars == <<side, broken, wire, writerVars, readerVars>>

-----------------------------------------------------------------------------
(* buildPaddingIP                                                          *)
Pad(a) == a.n

(* Mutant: ::1 is not special.                                             *)
ParseNoLoopback(n) == [six |-> n >= V4, n |-> n]

(* parse16BytesIP                                                          *)
Parse(n) == [six |-> n >= V4 \/ n = 1, n |-> n]

(* Mutant: the name is used as it was configured.                          *)
NameUncut == AppName

(* truncateAppName                                                         *)
Name == IF Len(AppName) > MaxByte THEN SubSeq(AppName, 1, MaxByte) ELSE AppName

AddressPortLen == 1

(* What the length field counts besides the payload.                       *)
Fixed == IF side = "client" THEN 2 * AddressPortLen + 1 ELSE 2 * AddressPortLen

(* writePacketToServer: length, source, destination, name.                 *)
ClientHeader(p) ==
  <<Fixed + Len(Name) + Len(p.data), 0, Pad(p.addr), Len(Name) % (MaxByte + 1)>> \o Name

(* writePacketToClient: length, source, destination.                       *)
ServerHeader(p) == <<Fixed + Len(p.data), Pad(p.addr), 0>>

Header(p) == IF side = "client" THEN ClientHeader(p) ELSE ServerHeader(p)

ICMP == side \in {"ping", "pong"}

(* WritePing: id, destination, sequence number, ttl, size.                 *)
Ping(p) == <<0, Pad(p.addr), 2, 3, 4>>

(* WritePingResponse: id, source, type, code, sequence number.             *)
Pong(p) == <<0, Pad(p.addr), 8, 0, 2>>

(* Mutant: FrontHeadroom does not count the name.                          *)
FrontHeadroomNameless == 1 + Fixed

(* FrontHeadroom                                                           *)
FrontHeadroom == IF side = "client" THEN 1 + Fixed + Len(Name) ELSE 1 + Fixed

NoJob == [packet |-> CHOOSE p \in Packets : TRUE, shared |-> FALSE, room |-> 0]

TypeOK ==
  /\ side \in {"client", "server", "ping", "pong"} /\ broken \in BOOLEAN
  /\ wpc \in [Writers -> {"idle", "write", "payload", "flush"}]
  /\ job \in [Writers -> [packet : Packets, shared : BOOLEAN, room : Nat]]
  /\ pending \in Seq(Nat) /\ wire \in Seq(Nat)
  /\ rpc \in {"idle", "header", "payload", "failed"}
  /\ header \in [len : Nat, addr : Addresses, name : Nat]
  /\ sent \in Seq(Packets) /\ received \in Seq([addr : Addresses, data : Seq(Nat)])

Init ==
  /\ side \in {"client", "server", "ping", "pong"} /\ broken = FALSE
  /\ wpc = [w \in Writers |-> "idle"]
  /\ job = [w \in Writers |-> NoJob]
  /\ pending = <<>> /\ wire = <<>> /\ sent = <<>> /\ received = <<>>
  /\ rpc = "idle" /\ header = [len |-> 0, addr |-> NoJob.packet.addr, name |-> 0]

-----------------------------------------------------------------------------
Busy == {w \in Writers : wpc[w] # "idle"}

Begin(w, p, shared, room) ==
  /\ wpc[w] = "idle"
  /\ Len(sent) + Cardinality({v \in Writers : wpc[v] = "write"}) < MaxSends
  /\ wpc' = [wpc EXCEPT ![w] = "write"]
  /\ job' = [job EXCEPT ![w] = [packet |-> p, shared |-> shared, room |-> room]]
  /\ UNCHANGED <<pending, sent, wire>>

(* WriteTo copies the payload behind room for a header; a ping is built    *)
(* in one buffer.  Any number of calls at a time.                          *)
WriteTo(w) ==
  /\ \A v \in Busy : job[v].shared
  /\ \E p \in Packets : Begin(w, p, TRUE, FrontHeadroom)

(* WritePacket takes the caller's buffer, with the room asked for or not.  *)
WritePacket(w) ==
  /\ ~ICMP /\ Busy = {}
  /\ \E p \in Packets, room \in {0, FrontHeadroom} : Begin(w, p, FALSE, room)

(* A Write: on the server it is kept back until the stream is flushed.     *)
Write(bytes) ==
  IF side \in {"client", "ping"} THEN wire' = wire \o bytes /\ UNCHANGED pending
  ELSE pending' = pending \o bytes /\ UNCHANGED wire

Bytes(p) == CASE side = "ping" -> Ping(p) [] side = "pong" -> Pong(p) [] OTHER -> Header(p) \o p.data

(* Header and payload in one Write, if the buffer has room for both.       *)
WriteFirst(w) ==
  /\ wpc[w] = "write" /\ ~broken
  /\ LET p == job[w].packet
         whole == ICMP \/ job[w].room >= Len(Header(p))
     IN  /\ Write(IF whole THEN Bytes(p) ELSE Header(p))
         /\ wpc' = [wpc EXCEPT ![w] = IF whole THEN "flush" ELSE "payload"]
         /\ sent' = Append(sent, p)
  /\ UNCHANGED job

WritePayload(w) ==
  /\ wpc[w] = "payload" /\ ~broken
  /\ Write(job[w].packet.data)
  /\ wpc' = [wpc EXCEPT ![w] = "flush"]
  /\ UNCHANGED <<job, sent>>

(* Mutant: what is written stays in the ResponseWriter.                    *)
FlushNot == UNCHANGED <<pending, wire>>

FlushAll == pending' = <<>> /\ wire' = wire \o pending

Flush(w) ==
  /\ wpc[w] = "flush" /\ ~broken
  /\ FlushAll
  /\ wpc' = [wpc EXCEPT ![w] = "idle"] /\ job' = [job EXCEPT ![w] = NoJob]
  /\ UNCHANGED sent

WriteFails(w) ==
  /\ wpc[w] # "idle" /\ broken
  /\ wpc' = [wpc EXCEPT ![w] = "idle"] /\ job' = [job EXCEPT ![w] = NoJob]
  /\ UNCHANGED <<pending, sent, wire>>

(* A destination that is a name: the client resolves it, if it can, before *)
(* it writes anything, and the server does not.                            *)
Unresolved(w) ==
  /\ wpc[w] = "write" /\ ~ICMP
  /\ wpc' = [wpc EXCEPT ![w] = "idle"] /\ job' = [job EXCEPT ![w] = NoJob]
  /\ UNCHANGED <<pending, sent, wire>>

Break ==
  /\ ~broken /\ broken' = TRUE
  /\ \E n \in 0..Len(wire) : wire' = SubSeq(wire, 1, n)
  /\ UNCHANGED <<side, writerVars, readerVars>>

-----------------------------------------------------------------------------
(* ReadFull of n symbols: all of them, or an error once the stream is over.*)
Ready(n) == Len(wire) >= n

(* WaitReadPacket and ReadFrom, of either side: a read that failed returns *)
(* no packet, not even a part of one ...                                   *)
GiveUp == rpc' = "failed" /\ UNCHANGED <<header, received>>

(* ... and one that did not, all of it.                                    *)
Deliver(addr, data) ==
  /\ received' = Append(received, [addr |-> addr, data |-> data])
  /\ rpc' = "idle" /\ UNCHANGED header

ReadFails(n) == ~Ready(n) /\ broken /\ GiveUp /\ UNCHANGED wire

Take(n) == wire' = SubSeq(wire, n + 1, Len(wire))

(* ReadPingRequest, ReadPing                                               *)
ReadRecord ==
  /\ rpc = "idle" /\ ICMP
  /\ \/ ReadFails(5)
     \/ Ready(5) /\ Take(5) /\ Deliver(Parse(wire[2]), <<>>)

(* The fixed part of a header: how much follows, an address, and a name.   *)
ReadHeader(size, addr, name) ==
  /\ rpc = "idle"
  /\ \/ ReadFails(size)
     \/ /\ Ready(size) /\ Take(size)
        /\ header' = [len |-> wire[1], addr |-> Parse(wire[addr]), name |-> IF name = 0 THEN 0 ELSE wire[name]]
        /\ rpc' = "header"
        /\ UNCHANGED received

ReadFromClient == side = "client" /\ ReadHeader(4, 3, 4)

ReadFromServer == side = "server" /\ ReadHeader(3, 2, 0)

SkipName ==
  /\ rpc = "header"
  /\ \/ ReadFails(header.name)
     \/ Ready(header.name) /\ Take(header.name) /\ rpc' = "payload" /\ UNCHANGED <<header, received>>

Overhead == Fixed + header.name

(* An invalid length; a packet that does not fit the buffer.               *)
ReadPayload ==
  /\ rpc = "payload"
  /\ \E cap \in Caps :
       LET size == header.len - Overhead IN
       IF header.len < Overhead \/ size > cap
       THEN GiveUp /\ UNCHANGED wire
       ELSE \/ ReadFails(size)
            \/ Ready(size) /\ Take(size) /\ Deliver(header.addr, SubSeq(wire, 1, size))

WriterStep(w) ==
  /\ \/ WriteTo(w) \/ WritePacket(w) \/ WriteFirst(w) \/ WritePayload(w) \/ Flush(w) \/ WriteFails(w)
     \/ Unresolved(w)
  /\ UNCHANGED <<side, broken, readerVars>>

ReaderStep ==
  /\ ReadRecord \/ ReadFromClient \/ ReadFromServer \/ SkipName \/ ReadPayload
  /\ UNCHANGED <<side, broken, writerVars>>

Next == Break \/ ReaderStep \/ \E w \in Writers : WriterStep(w)

Spec == Init /\ [][Next]_vars

-----------------------------------------------------------------------------
Payload(p) == IF ICMP THEN <<>> ELSE p.data

(* Datagrams arrive whole, in order and from or for the address they were  *)
(* written for, whoever writes at the same time and wherever the stream    *)
(* breaks: the format has no way to find the next header again.            *)
ArriveWhole ==
  \A i \in DOMAIN received :
    /\ received[i].data = Payload(sent[i])
    /\ Pad(received[i].addr) = Pad(sent[i].addr)

(* The loopback address of IPv6 and 0.0.0.1 have the same 16 bytes, as has *)
(* every IPv4 address and its IPv4-compatible IPv6 address: the parser has *)
(* to choose.  Of all addresses in use none becomes another one.           *)
InUse(a) == IF a.six THEN a.n >= V4 \/ a.n = 1 ELSE a.n # 1

AddressKept == \A i \in DOMAIN received : InUse(sent[i].addr) => received[i].addr = sent[i].addr

(* What the reader makes of a packet with this payload.                    *)
Datagram(p, data) == [addr |-> Parse(Pad(p.addr)), data |-> data]

Channel == INSTANCE DatagramChannel WITH
  Datagrams <- {Datagram(p, p.data) : p \in Packets} \cup {Datagram(p, <<>>) : p \in Packets},
  sent      <- [i \in DOMAIN sent |-> Datagram(sent[i], Payload(sent[i]))],
  up        <- ~broken,
  reading   <- rpc # "failed"

(* The stream implements the channel: nothing that several goroutines do   *)
(* with bytes shows, and a read fails for no other reason.                 *)
ChannelSpec == Channel!Spec

(* On a stream that works a read fails only because the very packet it     *)
(* reads does not fit the buffer it was given.                             *)
OnlySmallBuffersFail ==
  rpc = "failed" => broken \/ \E cap \in Caps : Len(sent[Len(received) + 1].data) > cap

(* A read that blocks: it wants more than has arrived.                     *)
Waiting ==
  \/ rpc = "idle" /\ ~Ready(IF ICMP THEN 5 ELSE IF side = "client" THEN 4 ELSE 3)
  \/ rpc = "header" /\ ~Ready(header.name)
  \/ /\ rpc = "payload" /\ ~Ready(header.len - Overhead)
     /\ \E cap \in Caps : header.len - Overhead \in 0..cap

(* What was written is not held back, nor does the reader wait for more    *)
(* than was written: once nobody writes, a read on a stream that works     *)
(* blocks only if everything has been read.                                *)
NothingHeldBack == Busy = {} /\ ~broken /\ Waiting => Len(received) = Len(sent)
=============================================================================
