---------------------------- MODULE PacketProofs ----------------------------
(***************************************************************************)
(* Datagrams on a byte stream arrive whole, for any number of writers, any *)
(* packets, names and buffers.                                             *)
(*                                                                         *)
(* The argument is one about places: every packet that was written and not *)
(* received has a place in the stream, counted from what the reader takes  *)
(* next, and every byte of wire and pending is the byte of the packet      *)
(* whose place it is in.                                                   *)
(***************************************************************************)
EXTENDS Packet, SequenceTheorems, TLAPS

(* What the packets are on the wire.                                       *)
Encoded == [i \in 1..Len(sent) |-> Bytes(sent[i])]

(* Packet i of bs begins behind at[i]; those from first on do not overlap. *)
Spaced(at, first, bs) ==
  /\ at \in Seq(Int) /\ Len(at) = Len(bs) + 1
  /\ \A i \in first..Len(bs) : at[i + 1] = at[i] + Len(bs[i])
  /\ \A i \in first..Len(bs), k \in first..Len(bs) + 1 : i < k => at[i] + Len(bs[i]) <= at[k]

(* The bytes of q, which begins behind off, are those of the packets.      *)
Fits(q, off, at, first, bs) ==
  \A i \in first..Len(bs) : \A j \in 1..Len(bs[i]), x \in 1..Len(q) :
    at[i] + j = off + x => q[x] = bs[i][j]

(* A packet is its fixed fields, a name and a payload; how much of them    *)
(* the reader has already taken.                                           *)
FixedLen == IF side = "client" THEN 4 ELSE IF side = "server" THEN 3 ELSE 5

NameLen == IF side = "client" THEN Len(Name) ELSE 0

Consumed == IF rpc = "header" THEN FixedLen
            ELSE IF rpc = "payload" THEN FixedLen + NameLen ELSE 0

(* A payload whose header went out alone.                                  *)
Owed == IF \E w \in Writers : wpc[w] = "payload" THEN Len(sent[Len(sent)].data) ELSE 0

(* Who writes in two parts is alone, and its packet is the last; only a    *)
(* server keeps anything back.                                             *)
WriterInv ==
  /\ \A w \in Writers :
       /\ wpc[w] # "idle" /\ ~job[w].shared => ~ICMP /\ \A v \in Writers : wpc[v] # "idle" => v = w
       /\ wpc[w] # "idle" /\ job[w].shared => job[w].room >= FrontHeadroom
       /\ wpc[w] = "payload" =>
            ~job[w].shared /\ Len(sent) > 0 /\ sent[Len(sent)] = job[w].packet
  /\ side \in {"client", "ping"} => pending = <<>>

(* The reader is in the packet behind the last that it delivered.          *)
ReaderInv ==
  /\ Len(received) <= Len(sent)
  /\ rpc \in {"header", "payload"} =>
       LET p == sent[Len(received) + 1] IN
       /\ ~ICMP /\ Len(received) < Len(sent)
       /\ header = [len |-> Fixed + NameLen + Len(p.data), addr |-> Parse(Pad(p.addr)),
                    name |-> NameLen]
  /\ rpc = "failed" /\ ~broken => Len(received) < Len(sent)

StreamLaidOut(at) ==
  LET first == Len(received) + 1 end == Len(sent) + 1 IN
  /\ Spaced(at, first, Encoded) /\ at[first] = -Consumed
  /\ Len(wire) <= at[end] /\ Fits(wire, 0, at, first, Encoded)
  /\ ~broken => Fits(pending, Len(wire), at, first, Encoded)
                /\ Len(wire) + Len(pending) + Owed = at[end]

StreamInv == rpc # "failed" => \E at \in Seq(Int) : StreamLaidOut(at)

DeliveredInv ==
  \A i \in 1..Len(received) :
    received[i] = [addr |-> Parse(Pad(sent[i].addr)), data |-> Payload(sent[i])]

IInv ==
  /\ TypeOK
  /\ WriterInv
  /\ ReaderInv
  /\ StreamInv
  /\ DeliveredInv
  /\ OnlySmallBuffersFail

-----------------------------------------------------------------------------
(* Layouts, whatever the packets are.                                      *)

(* Arithmetic, on its own.                                                 *)
LEMMA Minus ==
  \A a, b, l, n \in Int : a + l <= b => (a - n) + l <= b - n
OBVIOUS

(* Two pieces of the stream, one behind the other.                         *)
LEMMA ConcatFits ==
  ASSUME NEW q \in Seq(Nat), NEW r \in Seq(Nat), NEW off \in Int, NEW bs,
         NEW first, NEW at, Spaced(at, first, bs), first \in Nat \ {0},
         Fits(q, off, at, first, bs), Fits(r, off + Len(q), at, first, bs)
  PROVE  Fits(q \o r, off, at, first, bs)
<1>1. ASSUME NEW i \in first..Len(bs), NEW j \in 1..Len(bs[i]),
             NEW x \in 1..Len(q \o r), at[i] + j = off + x
      PROVE  (q \o r)[x] = bs[i][j]
  <2>1. CASE x <= Len(q)
    <3>1. x \in 1..Len(q)
      BY <2>1
    <3>2. (q \o r)[x] = q[x]
      BY <2>1
    <3> QED
      BY <1>1, <3>1, <3>2 DEF Fits
  <2>2. CASE ~(x <= Len(q))
    <3>1. PICK y \in 1..Len(r) : x = Len(q) + y
      <4>1. x - Len(q) \in 1..Len(r)
        BY <2>2
      <4>2. x = Len(q) + (x - Len(q))
        OBVIOUS
      <4> QED
        BY <4>1, <4>2
    <3>2. (q \o r)[x] = r[y]
      BY <3>1
    <3>3. at[i] + j = off + Len(q) + y
      BY <1>1, <3>1
    <3> QED
      BY <3>2, <3>3 DEF Fits
  <2> QED
    BY <2>1, <2>2
<1> QED
  BY <1>1 DEF Fits

(* What is left of a piece when its first n bytes were taken.              *)
Shifted(at, n) == [i \in 1..Len(at) |-> at[i] - n]

(* The places of the packets once n bytes were taken.                      *)
LEMMA TakeSpaced ==
  ASSUME NEW n \in Nat, NEW bs, NEW first \in Nat \ {0}, NEW at, Spaced(at, first, bs),
         bs \in Seq(Seq(Nat))
  PROVE  Spaced(Shifted(at, n), first, bs)
<1>1. Len(bs) \in Nat /\ at \in Seq(Int) /\ Len(at) = Len(bs) + 1
  BY DEF Spaced
<1>2. Shifted(at, n) \in Seq(Int) /\ Len(Shifted(at, n)) = Len(bs) + 1
  BY <1>1 DEF Shifted
<1>3. ASSUME NEW i \in 1..Len(bs) + 1 PROVE at[i] \in Int /\ Shifted(at, n)[i] = at[i] - n
  BY <1>1 DEF Shifted
<1>4. ASSUME NEW i \in 1..Len(bs) PROVE Len(bs[i]) \in Nat
  OBVIOUS
<1>5. ASSUME NEW i \in first..Len(bs)
      PROVE  Shifted(at, n)[i + 1] = Shifted(at, n)[i] + Len(bs[i])
  <2>1. i \in 1..Len(bs) /\ i \in 1..Len(bs) + 1 /\ i + 1 \in 1..Len(bs) + 1
    BY <1>1
  <2>2. at[i + 1] = at[i] + Len(bs[i])
    BY DEF Spaced
  <2>3. Shifted(at, n)[i + 1] = at[i + 1] - n /\ Shifted(at, n)[i] = at[i] - n
    BY <1>3, <2>1
  <2>4. at[i] \in Int /\ Len(bs[i]) \in Nat
    BY <1>3, <1>4, <2>1
  <2> QED
    BY <2>2, <2>3, <2>4
<1>6. ASSUME NEW i \in first..Len(bs), NEW k \in first..Len(bs) + 1, i < k
      PROVE  Shifted(at, n)[i] + Len(bs[i]) <= Shifted(at, n)[k]
  <2>1. i \in 1..Len(bs) /\ i \in 1..Len(bs) + 1 /\ k \in 1..Len(bs) + 1
    BY <1>1
  <2>2. at[i] + Len(bs[i]) <= at[k]
    BY <1>6 DEF Spaced
  <2>3. Shifted(at, n)[k] = at[k] - n /\ Shifted(at, n)[i] = at[i] - n
    BY <1>3, <2>1
  <2>4. at[i] \in Int /\ at[k] \in Int /\ Len(bs[i]) \in Int
    BY <1>3, <1>4, <2>1
  <2>5. (at[i] - n) + Len(bs[i]) <= at[k] - n
    BY <2>2, <2>4, Minus
  <2> QED
    BY <2>3, <2>5
<1> QED
  BY <1>2, <1>5, <1>6 DEF Spaced

(* What is behind the bytes taken fits those places.                       *)
LEMMA TakeFits ==
  ASSUME NEW q \in Seq(Nat), NEW n \in 0..Len(q), NEW bs, bs \in Seq(Seq(Nat)),
         NEW first \in Nat \ {0}, NEW at, Spaced(at, first, bs), Fits(q, 0, at, first, bs)
  PROVE  Fits(SubSeq(q, n + 1, Len(q)), 0, Shifted(at, n), first, bs)
<1>1. ASSUME NEW i \in first..Len(bs), NEW j \in 1..Len(bs[i]),
             NEW x \in 1..Len(SubSeq(q, n + 1, Len(q))), Shifted(at, n)[i] + j = 0 + x
      PROVE  SubSeq(q, n + 1, Len(q))[x] = bs[i][j]
  <2>1. at[i] \in Int /\ i \in 1..Len(at)
    BY DEF Spaced
  <2>2. Shifted(at, n)[i] = at[i] - n
    BY <2>1 DEF Shifted
  <2>0. x \in 1..Len(q) - n
    <3>1. Len(SubSeq(q, n + 1, Len(q))) = Len(q) - n
      OBVIOUS
    <3> QED
      BY <3>1
  <2>3. n + x \in 1..Len(q)
    BY <2>0
  <2>4. SubSeq(q, n + 1, Len(q))[x] = q[n + x]
    BY <2>0
  <2>5. PICK a \in Int : a = at[i]
    BY <2>1, Zenon
  <2>6. a - n + j = 0 + x
    BY <1>1, <2>2, <2>5, Zenon
  <2>7. a + j = 0 + (n + x)
    BY <2>6
  <2> QED
    BY <2>3, <2>4, <2>5, <2>7 DEF Fits
<1> QED
  BY <1>1 DEF Fits

(* A piece behind it is where it was, n bytes earlier.                     *)
LEMMA ShiftFits ==
  ASSUME NEW q, Len(q) \in Nat, NEW n \in Nat, NEW off \in Int, NEW bs, bs \in Seq(Seq(Nat)),
         NEW first \in Nat \ {0}, NEW at, Spaced(at, first, bs), Fits(q, off, at, first, bs)
  PROVE  Fits(q, off - n, Shifted(at, n), first, bs)
<1>1. ASSUME NEW i \in first..Len(bs), NEW j \in 1..Len(bs[i]),
             NEW x \in 1..Len(q), Shifted(at, n)[i] + j = off - n + x
      PROVE  q[x] = bs[i][j]
  <2>1. at[i] \in Int /\ i \in 1..Len(at)
    BY DEF Spaced
  <2>2. Shifted(at, n)[i] = at[i] - n
    BY <2>1 DEF Shifted
  <2>3. PICK a \in Int : a = at[i]
    BY <2>1, Zenon
  <2>4. a - n + j = off - n + x
    BY <1>1, <2>2, <2>3, Zenon
  <2>5. a + j = off + x
    BY <2>4
  <2> QED
    BY <2>3, <2>5 DEF Fits
<1> QED
  BY <1>1 DEF Fits

(* A piece that is cut.                                                    *)
LEMMA CutFits ==
  ASSUME NEW q \in Seq(Nat), NEW n \in 0..Len(q), NEW bs,
         NEW first, NEW at, Fits(q, 0, at, first, bs)
  PROVE  Fits(SubSeq(q, 1, n), 0, at, first, bs)
<1>1. ASSUME NEW x \in 1..Len(SubSeq(q, 1, n))
      PROVE  x \in 1..Len(q) /\ SubSeq(q, 1, n)[x] = q[x]
  OBVIOUS
<1> QED
  BY <1>1 DEF Fits

(* The place of one more packet is behind all others.                      *)
Extended(at, b) == Append(at, at[Len(at)] + Len(b))

(* One more place, and those before it as they were.                       *)
LEMMA ExtendedIs ==
  ASSUME NEW n \in Nat, NEW at \in Seq(Int), Len(at) = n + 1, NEW b \in Seq(Nat)
  PROVE  /\ Extended(at, b) \in Seq(Int) /\ Len(Extended(at, b)) = n + 2
         /\ Extended(at, b)[n + 2] = at[n + 1] + Len(b)
         /\ \A i \in 1..n + 1 : Extended(at, b)[i] = at[i] /\ at[i] \in Int
<1>1. at[n + 1] + Len(b) \in Int
  OBVIOUS
<1> QED
  BY <1>1 DEF Extended

(* ext and cs go on where at and bs end.                                   *)
Longer(n, at, bs, ext, cs) ==
  /\ bs \in Seq(Seq(Nat)) /\ Len(bs) = n /\ cs \in Seq(Seq(Nat)) /\ Len(cs) = n + 1
  /\ at \in Seq(Int) /\ Len(at) = n + 1 /\ ext \in Seq(Int) /\ Len(ext) = n + 2
  /\ \A i \in 1..n : cs[i] = bs[i]
  /\ \A i \in 1..n + 1 : ext[i] = at[i]
  /\ ext[n + 2] = at[n + 1] + Len(cs[n + 1])

(* One more packet keeps the packets apart.                                *)
LEMMA ExtendSpaced ==
  ASSUME NEW n \in Nat, NEW first \in 1..n + 1, NEW at, NEW bs, NEW ext, NEW cs,
         Spaced(at, first, bs), Longer(n, at, bs, ext, cs)
  PROVE  Spaced(ext, first, cs)
<1>1. /\ Len(bs) = n /\ Len(cs) = n + 1 /\ Len(ext) = n + 2 /\ ext \in Seq(Int)
  BY DEF Longer
<1>2. /\ \A i \in first..n : at[i + 1] = at[i] + Len(bs[i])
      /\ \A i \in first..n, k \in first..n + 1 : i < k => at[i] + Len(bs[i]) <= at[k]
  BY <1>1 DEF Spaced
<1>3. ASSUME NEW i \in 1..n + 1 PROVE at[i] \in Int /\ ext[i] = at[i] /\ Len(cs[i]) \in Nat
  BY DEF Longer
<1>4. ASSUME NEW i \in 1..n PROVE cs[i] = bs[i] /\ Len(bs[i]) \in Nat
  BY DEF Longer
<1>5. ext[n + 2] = at[n + 1] + Len(cs[n + 1])
  BY DEF Longer
<1>6. ASSUME NEW i \in first..n + 1 PROVE ext[i + 1] = ext[i] + Len(cs[i])
  <2>1. CASE i = n + 1
    BY <1>3, <1>5, <2>1
  <2>2. CASE i # n + 1
    <3>1. i \in first..n /\ i \in 1..n /\ i \in 1..n + 1 /\ i + 1 \in 1..n + 1
      BY <2>2
    <3> QED
      BY <1>2, <1>3, <1>4, <3>1
  <2> QED
    BY <2>1, <2>2
<1>7. ASSUME NEW i \in first..n + 1, NEW k \in first..n + 2, i < k
      PROVE  ext[i] + Len(cs[i]) <= ext[k]
  <2>1. CASE i = n + 1
    <3>1. k = n + 2
      BY <1>7, <2>1
    <3> QED
      BY <1>3, <1>5, <2>1, <3>1
  <2>2. CASE i # n + 1 /\ k # n + 2
    <3>1. i \in first..n /\ i \in 1..n /\ i \in 1..n + 1 /\ k \in first..n + 1 /\ k \in 1..n + 1
      BY <2>2
    <3> QED
      BY <1>2, <1>3, <1>4, <1>7, <3>1
  <2>3. CASE i # n + 1 /\ k = n + 2
    <3>1. i \in first..n /\ i \in 1..n /\ i \in 1..n + 1 /\ i < n + 1 /\ n + 1 \in first..n + 1
          /\ n + 1 \in 1..n + 1
      BY <2>3
    <3>2. at[i] + Len(bs[i]) <= at[n + 1]
      BY <1>2, <3>1
    <3>3. ext[k] = at[n + 1] + Len(cs[n + 1]) /\ ext[i] = at[i] /\ cs[i] = bs[i]
      BY <1>3, <1>4, <1>5, <2>3, <3>1
    <3>4. at[i] \in Int /\ at[n + 1] \in Int /\ Len(bs[i]) \in Nat /\ Len(cs[n + 1]) \in Nat
      BY <1>3, <1>4, <3>1
    <3> QED
      BY <3>2, <3>3, <3>4
  <2> QED
    BY <2>1, <2>2, <2>3
<1> QED
  BY <1>1, <1>6, <1>7 DEF Spaced

(* What was there before fits as it did.                                   *)
LEMMA ExtendFits ==
  ASSUME NEW n \in Nat, NEW first \in 1..n + 1, NEW at, NEW bs, NEW ext, NEW cs,
         Longer(n, at, bs, ext, cs),
         NEW q, Len(q) \in Nat, NEW off \in Int, off + Len(q) <= at[n + 1],
         Fits(q, off, at, first, bs)
  PROVE  Fits(q, off, ext, first, cs)
<1>1. Len(bs) = n /\ Len(cs) = n + 1
  BY DEF Longer
<1>2. ASSUME NEW i \in first..n + 1, NEW j \in 1..Len(cs[i]), NEW x \in 1..Len(q),
             ext[i] + j = off + x
      PROVE  q[x] = cs[i][j]
  <2>0. i \in 1..n + 1
    OBVIOUS
  <2>1. at[i] \in Int /\ ext[i] = at[i]
    BY <2>0 DEF Longer
  <2>2. Len(cs[i]) \in Nat
    BY <2>0 DEF Longer
  <2>3. i # n + 1
    BY <1>2, <2>1, <2>2
  <2>4. i \in first..n /\ i \in 1..n
    BY <2>3
  <2>5. cs[i] = bs[i]
    BY <2>4 DEF Longer
  <2> QED
    BY <1>1, <1>2, <2>1, <2>4, <2>5 DEF Fits
<1> QED
  BY <1>1, <1>2 DEF Fits

(* A piece of the last packet fits in its place.                           *)
LEMMA LastFits ==
  ASSUME NEW n \in Nat \ {0}, NEW first \in 1..n, NEW at, NEW bs, Len(bs) = n,
         Spaced(at, first, bs), bs \in Seq(Seq(Nat)),
         NEW q, Len(q) \in Nat, NEW o \in Nat,
         \A k \in 1..Len(q) : q[k] = bs[n][o + k]
  PROVE  Fits(q, at[n] + o, at, first, bs)
<1>1. ASSUME NEW i \in first..n, NEW j \in 1..Len(bs[i]), NEW x \in 1..Len(q),
             at[i] + j = at[n] + o + x
      PROVE  q[x] = bs[i][j]
  <2>1. at[i] \in Int
    BY DEF Spaced
  <2>2. at[n] \in Int
    BY DEF Spaced
  <2>3. Len(bs[i]) \in Nat
    OBVIOUS
  <2>4. CASE i = n
    <3>1. o + x = j
      BY <1>1, <2>2, <2>4
    <3> QED
      BY <2>4, <3>1
  <2>5. CASE i # n
    <3>1. i < n /\ n \in first..n + 1
      BY <2>5
    <3>2. at[i] + Len(bs[i]) <= at[n]
      BY <3>1 DEF Spaced
    <3>3. PICK a \in Int : a = at[i]
      BY <2>1, Zenon
    <3>4. PICK b \in Int : b = at[n]
      BY <2>2, Zenon
    <3>5. a + Len(bs[i]) <= b /\ a + j = b + o + x
      BY <1>1, <3>2, <3>3, <3>4, Zenon
    <3>6. j <= Len(bs[i])
      BY <2>3
    <3> QED
      BY <2>3, <3>5, <3>6
  <2> QED
    BY <2>4, <2>5
<1> QED
  BY <1>1 DEF Fits

-----------------------------------------------------------------------------
(* What a packet is on the wire.                                           *)

(* Packets and the addresses they are read back with; an address in use    *)
(* comes back as itself.                                                   *)
LEMMA PacketIs ==
  ASSUME NEW p \in Packets
  PROVE  /\ p.addr \in Addresses /\ Pad(p.addr) \in Nat /\ p.data \in Seq(Nat)
         /\ Parse(Pad(p.addr)) \in Addresses
         /\ InUse(p.addr) => Parse(Pad(p.addr)) = p.addr
BY PacketAssumption DEF Addresses, Pad, Parse, InUse

(* Sequences of symbols.                                                   *)
LEMMA ConcatIs ==
  ASSUME NEW q \in Seq(Nat), NEW r \in Seq(Nat)
  PROVE  /\ q \o r \in Seq(Nat) /\ Len(q \o r) = Len(q) + Len(r)
         /\ \A k \in 1..Len(q) : (q \o r)[k] = q[k]
         /\ \A k \in 1..Len(r) : (q \o r)[Len(q) + k] = r[k]
<1>1. q \o r \in Seq(Nat) /\ Len(q \o r) = Len(q) + Len(r)
  OBVIOUS
<1>2. ASSUME NEW k \in 1..Len(q) PROVE (q \o r)[k] = q[k]
  OBVIOUS
<1>3. ASSUME NEW k \in 1..Len(r) PROVE (q \o r)[Len(q) + k] = r[k]
  OBVIOUS
<1> QED
  BY <1>1, <1>2, <1>3, Zenon

(* A length that fits its byte is not changed by it.                       *)
LEMMA Modulo == \A m \in Nat : \A l \in 0..m : l % (m + 1) = l
OBVIOUS

(* The name that was cut fits its length field.                            *)
LEMMA NameIs == Name \in Seq(Nat) /\ Len(Name) \in Nat /\ Len(Name) % (MaxByte + 1) = Len(Name)
<1> SUFFICES Name \in Seq(Nat) /\ Len(Name) \in 0..MaxByte
  BY Modulo, PacketAssumption
<1>1. CASE Len(AppName) > MaxByte
  <2>1. Name = SubSeq(AppName, 1, MaxByte)
    BY <1>1 DEF Name
  <2>2. PICK a \in Seq(Nat), m \in Nat : a = AppName /\ m = MaxByte
    BY PacketAssumption, Zenon
  <2>3. Len(a) > m
    BY <1>1, <2>2
  <2>4. SubSeq(a, 1, m) \in Seq(Nat)
    BY <2>3
  <2>5. Len(SubSeq(a, 1, m)) = m
    BY <2>3
  <2>6. m \in 0..m
    OBVIOUS
  <2> QED
    BY <2>1, <2>2, <2>4, <2>5, <2>6, Zenon
<1>2. CASE ~(Len(AppName) > MaxByte)
  <2>1. Name = AppName
    BY <1>2 DEF Name
  <2>2. AppName \in Seq(Nat) /\ MaxByte \in Nat
    BY PacketAssumption
  <2>3. Len(AppName) \in 0..MaxByte
    BY <1>2, <2>2
  <2> QED
    BY <2>1, <2>2, <2>3, Zenon
<1> QED
  BY <1>1, <1>2

(* The bytes of a packet behind its fixed fields: f, name, data.           *)
LEMMA ThreeParts ==
  ASSUME NEW f \in Seq(Nat), NEW n \in Seq(Nat), NEW d \in Seq(Nat)
  PROVE  /\ (f \o n) \o d \in Seq(Nat) /\ Len((f \o n) \o d) = Len(f) + Len(n) + Len(d)
         /\ \A k \in 1..Len(f) : ((f \o n) \o d)[k] = f[k]
         /\ \A k \in 1..Len(d) : ((f \o n) \o d)[Len(f) + Len(n) + k] = d[k]
<1>1. PICK h \in Seq(Nat) : h = f \o n
  BY ConcatIs, Zenon
<1>2. Len(h) = Len(f) + Len(n) /\ \A k \in 1..Len(f) : h[k] = f[k]
  <2>1. Len(f \o n) = Len(f) + Len(n) /\ \A k \in 1..Len(f) : (f \o n)[k] = f[k]
    BY ConcatIs, Zenon
  <2> QED
    BY <1>1, <2>1
<1>3. Len(f) \in Nat /\ Len(n) \in Nat
  OBVIOUS
<1>4. \A k \in 1..Len(f) : k \in 1..Len(h)
  BY <1>2, <1>3
<1>5. /\ h \o d \in Seq(Nat) /\ Len(h \o d) = Len(h) + Len(d)
      /\ \A k \in 1..Len(h) : (h \o d)[k] = h[k]
      /\ \A k \in 1..Len(d) : (h \o d)[Len(h) + k] = d[k]
  BY ConcatIs, Zenon
<1> QED
  BY <1>1, <1>2, <1>4, <1>5, Zenon

(* Arithmetic, on its own.                                                 *)
LEMMA ThreeSum == \A a, b, c \in Nat : a + b + c \in Nat
OBVIOUS

(* What a client writes: where its fields, its name and its payload are.   *)
LEMMA ClientBytes ==
  ASSUME side = "client", NEW p \in Packets
  PROVE  /\ Bytes(p) \in Seq(Nat) /\ Len(Bytes(p)) = 4 + Len(Name) + Len(p.data)
         /\ Bytes(p)[1] = Fixed + Len(Name) + Len(p.data)
         /\ Bytes(p)[3] = Pad(p.addr) /\ Bytes(p)[4] = Len(Name)
         /\ \A k \in 1..Len(p.data) : Bytes(p)[4 + Len(Name) + k] = p.data[k]
<1>1. Name \in Seq(Nat) /\ p.data \in Seq(Nat) /\ Pad(p.addr) \in Nat
  BY NameIs, PacketIs
<1>2. Fixed \in Nat /\ Len(Name) \in Nat /\ Len(p.data) \in Nat
  BY <1>1 DEF Fixed, AddressPortLen
<1>3. PICK total \in Nat : total = Fixed + Len(Name) + Len(p.data)
  <2>1. Fixed + Len(Name) + Len(p.data) \in Nat
    BY <1>2, ThreeSum, Zenon
  <2> QED
    BY <2>1, Zenon
<1>4. PICK f : f = <<total, 0, Pad(p.addr), Len(Name)>>
  OBVIOUS
<1>5. f \in Seq(Nat) /\ Len(f) = 4
  BY <1>1, <1>2, <1>4
<1>6. f[1] = total /\ f[3] = Pad(p.addr) /\ f[4] = Len(Name)
  BY <1>4
<1>7. Bytes(p) = (f \o Name) \o p.data
  <2>1. ClientHeader(p) = f \o Name
    BY <1>3, <1>4, NameIs, Zenon DEF ClientHeader
  <2> QED
    BY <2>1 DEF Bytes, Header
<1>8. 1 \in 1..4 /\ 3 \in 1..4 /\ 4 \in 1..4
  OBVIOUS
<1>9. /\ (f \o Name) \o p.data \in Seq(Nat)
      /\ Len((f \o Name) \o p.data) = 4 + Len(Name) + Len(p.data)
      /\ \A k \in 1..4 : ((f \o Name) \o p.data)[k] = f[k]
      /\ \A k \in 1..Len(p.data) : ((f \o Name) \o p.data)[4 + Len(Name) + k] = p.data[k]
  <2>1. /\ (f \o Name) \o p.data \in Seq(Nat)
        /\ Len((f \o Name) \o p.data) = Len(f) + Len(Name) + Len(p.data)
        /\ \A k \in 1..Len(f) : ((f \o Name) \o p.data)[k] = f[k]
        /\ \A k \in 1..Len(p.data) : ((f \o Name) \o p.data)[Len(f) + Len(Name) + k] = p.data[k]
    BY <1>1, <1>5, ThreeParts, Zenon
  <2>2. Len(f) = 4
    BY <1>5
  <2> QED
    BY <2>1, <2>2
<1> QED
  BY <1>3, <1>6, <1>7, <1>8, <1>9, Zenon

(* What a server writes.                                                   *)
LEMMA ServerBytes ==
  ASSUME side = "server", NEW p \in Packets
  PROVE  /\ Bytes(p) \in Seq(Nat) /\ Len(Bytes(p)) = 3 + Len(p.data)
         /\ Bytes(p)[1] = Fixed + Len(p.data) /\ Bytes(p)[2] = Pad(p.addr)
         /\ \A k \in 1..Len(p.data) : Bytes(p)[3 + k] = p.data[k]
<1>1. p.data \in Seq(Nat) /\ Pad(p.addr) \in Nat
  BY PacketIs
<1>2. Fixed \in Nat /\ Len(p.data) \in Nat
  BY <1>1 DEF Fixed, AddressPortLen
<1>3. PICK total \in Nat : total = Fixed + Len(p.data)
  BY <1>2
<1>4. PICK f : f = <<total, Pad(p.addr), 0>>
  OBVIOUS
<1>5. f \in Seq(Nat) /\ Len(f) = 3
  BY <1>1, <1>4
<1>6. f[1] = total /\ f[2] = Pad(p.addr)
  BY <1>4
<1>7. Bytes(p) = f \o p.data
  BY <1>3, <1>4 DEF Bytes, Header, ServerHeader
<1>8. 1 \in 1..3 /\ 2 \in 1..3
  OBVIOUS
<1>9. /\ f \o p.data \in Seq(Nat) /\ Len(f \o p.data) = 3 + Len(p.data)
      /\ \A k \in 1..3 : (f \o p.data)[k] = f[k]
      /\ \A k \in 1..Len(p.data) : (f \o p.data)[3 + k] = p.data[k]
  <2>1. /\ f \o p.data \in Seq(Nat) /\ Len(f \o p.data) = Len(f) + Len(p.data)
        /\ \A k \in 1..Len(f) : (f \o p.data)[k] = f[k]
        /\ \A k \in 1..Len(p.data) : (f \o p.data)[Len(f) + k] = p.data[k]
    BY <1>1, <1>5, ConcatIs, Zenon
  <2>2. Len(f) = 3
    BY <1>5
  <2> QED
    BY <2>1, <2>2
<1> QED
  BY <1>3, <1>6, <1>7, <1>8, <1>9, Zenon

(* The records of ICMP.                                                    *)
LEMMA ICMPBytes ==
  ASSUME ICMP, NEW p \in Packets
  PROVE  Bytes(p) \in Seq(Nat) /\ Len(Bytes(p)) = 5 /\ Bytes(p)[2] = Pad(p.addr)
<1>1. Pad(p.addr) \in Nat
  BY PacketIs
<1> QED
  BY <1>1 DEF ICMP, Bytes, Ping, Pong

(* The header alone, of a UDP packet.                                      *)
LEMMA HeaderIs ==
  ASSUME side \in {"client", "server"}, NEW p \in Packets
  PROVE  /\ Header(p) \in Seq(Nat) /\ Len(Header(p)) = FixedLen + NameLen
         /\ FrontHeadroom = FixedLen + NameLen
         /\ Bytes(p) = Header(p) \o p.data
<1>1. Len(Name) \in Nat /\ Name \in Seq(Nat)
  BY NameIs
<1>2. p.data \in Seq(Nat) /\ Pad(p.addr) \in Nat
  BY PacketIs
<1>3. Fixed \in Nat /\ Len(p.data) \in Nat
  BY <1>2 DEF Fixed, AddressPortLen
<1>4. Bytes(p) = Header(p) \o p.data
  BY DEF Bytes
<1>5. CASE side = "client"
  <2>1. PICK total \in Nat : total = Fixed + Len(Name) + Len(p.data)
    <3>1. Fixed + Len(Name) + Len(p.data) \in Nat
      BY <1>1, <1>3, ThreeSum, Zenon
    <3> QED
      BY <3>1, Zenon
  <2>2. PICK f : f = <<total, 0, Pad(p.addr), Len(Name)>>
    OBVIOUS
  <2>3. f \in Seq(Nat) /\ Len(f) = 4
    BY <1>1, <1>2, <2>2
  <2>4. Header(p) = f \o Name
    <3>1. ClientHeader(p) = f \o Name
      BY <2>1, <2>2, NameIs, Zenon DEF ClientHeader
    <3> QED
      BY <1>5, <3>1 DEF Header
  <2>5. f \o Name \in Seq(Nat) /\ Len(f \o Name) = Len(f) + Len(Name)
    BY <1>1, <2>3, ConcatIs, Zenon
  <2>6. FixedLen = 4 /\ NameLen = Len(Name) /\ FrontHeadroom = 4 + Len(Name)
    BY <1>1, <1>5 DEF FixedLen, NameLen, FrontHeadroom, Fixed, AddressPortLen
  <2> QED
    BY <1>4, <2>3, <2>4, <2>5, <2>6
<1>6. CASE side = "server"
  <2>1. PICK total \in Nat : total = Fixed + Len(p.data)
    BY <1>3
  <2>2. Header(p) = <<total, Pad(p.addr), 0>>
    BY <1>6, <2>1 DEF Header, ServerHeader
  <2>3. FixedLen = 3 /\ NameLen = 0 /\ FrontHeadroom = 3
    BY <1>6 DEF FixedLen, NameLen, FrontHeadroom, Fixed, AddressPortLen
  <2> QED
    BY <1>2, <1>4, <2>2, <2>3
<1> QED
  BY <1>5, <1>6

(* All of a packet, of any kind.                                           *)
LEMMA BytesAre ==
  ASSUME TypeOK, NEW p \in Packets
  PROVE  /\ Bytes(p) \in Seq(Nat) /\ Payload(p) \in Seq(Nat)
         /\ Len(Bytes(p)) = FixedLen + NameLen + Len(Payload(p))
         /\ \A k \in 1..Len(Payload(p)) : Bytes(p)[FixedLen + NameLen + k] = Payload(p)[k]
<1>1. p.data \in Seq(Nat)
  BY PacketIs
<1>2. CASE side = "client"
  <2>1. FixedLen = 4 /\ NameLen = Len(Name) /\ Payload(p) = p.data
    BY <1>2 DEF FixedLen, NameLen, Payload, ICMP
  <2> QED
    BY <1>1, <1>2, <2>1, ClientBytes, Zenon
<1>3. CASE side = "server"
  <2>1. FixedLen = 3 /\ NameLen = 0 /\ Payload(p) = p.data /\ FixedLen + NameLen = 3
    BY <1>3 DEF FixedLen, NameLen, Payload, ICMP
  <2> QED
    BY <1>1, <1>3, <2>1, ServerBytes, Zenon
<1>4. CASE ICMP
  <2>1. FixedLen = 5 /\ NameLen = 0 /\ Payload(p) = <<>>
    BY <1>4 DEF FixedLen, NameLen, Payload, ICMP
  <2> QED
    BY <1>4, <2>1, ICMPBytes
<1> QED
  BY <1>2, <1>3, <1>4 DEF TypeOK, ICMP

(* Lengths.                                                                *)
LEMMA LensAre == FixedLen \in Nat \ {0} /\ NameLen \in Nat
BY NameIs DEF FixedLen, NameLen

(* What was sent, as bytes.                                                *)
LEMMA EncodedIs ==
  ASSUME TypeOK
  PROVE  /\ Encoded \in Seq(Seq(Nat)) /\ Len(Encoded) = Len(sent)
         /\ \A i \in 1..Len(sent) : sent[i] \in Packets /\ Encoded[i] = Bytes(sent[i])
<1>1. sent \in Seq(Packets)
  BY DEF TypeOK
<1>2. ASSUME NEW i \in 1..Len(sent) PROVE sent[i] \in Packets
  BY <1>1
<1>3. ASSUME NEW i \in 1..Len(sent) PROVE Bytes(sent[i]) \in Seq(Nat)
  BY <1>2, BytesAre
<1> QED
  BY <1>1, <1>2, <1>3 DEF Encoded

-----------------------------------------------------------------------------
(* The reader.                                                             *)

(* What a layout of the stream says, with its types.                       *)
LEMMA LayoutIs ==
  ASSUME TypeOK, ReaderInv, NEW at, StreamLaidOut(at)
  PROVE  /\ at \in Seq(Int) /\ Len(at) = Len(sent) + 1
         /\ Spaced(at, Len(received) + 1, Encoded)
         /\ Len(received) \in Nat /\ Len(sent) \in Nat /\ Len(received) <= Len(sent)
         /\ Len(wire) \in Nat /\ Len(pending) \in Nat /\ Consumed \in Nat
         /\ at[Len(received) + 1] = -Consumed
<1>1. Spaced(at, Len(received) + 1, Encoded) /\ at[Len(received) + 1] = -Consumed
  BY DEF StreamLaidOut
<1>2. at \in Seq(Int) /\ Len(at) = Len(sent) + 1
  BY <1>1, EncodedIs DEF Spaced
<1>3. Len(received) \in Nat /\ Len(sent) \in Nat /\ Len(wire) \in Nat /\ Len(pending) \in Nat
  BY DEF TypeOK
<1>4. Consumed \in Nat
  BY LensAre DEF Consumed
<1>5. Len(received) <= Len(sent)
  BY DEF ReaderInv
<1> QED
  BY <1>1, <1>2, <1>3, <1>4, <1>5

(* There is something to read only if something was written.               *)
LEMMA WireIsOwed ==
  ASSUME TypeOK, ReaderInv, NEW at, StreamLaidOut(at), Len(wire) > 0
  PROVE  Len(received) < Len(sent)
<1>1. SUFFICES ASSUME Len(received) = Len(sent) PROVE FALSE
  BY LayoutIs
<1>2. Len(wire) <= at[Len(sent) + 1] /\ at[Len(sent) + 1] = -Consumed
  BY <1>1 DEF StreamLaidOut
<1> QED
  BY <1>2, LayoutIs

(* What is there to read is what follows in the packet.                    *)
LEMMA WireBytes ==
  ASSUME TypeOK, ReaderInv, NEW at, StreamLaidOut(at), Len(received) < Len(sent),
         NEW k \in 1..Len(wire), Consumed + k <= Len(Bytes(sent[Len(received) + 1]))
  PROVE  wire[k] = Bytes(sent[Len(received) + 1])[Consumed + k]
<1>1. Len(received) + 1 \in 1..Len(sent) /\ Len(received) + 1 \in Len(received) + 1..Len(sent)
  BY LayoutIs
<1>2. Encoded[Len(received) + 1] = Bytes(sent[Len(received) + 1]) /\ Len(Encoded) = Len(sent)
  BY <1>1, EncodedIs
<1>3. Consumed + k \in 1..Len(Encoded[Len(received) + 1])
  <2>1. Len(Bytes(sent[Len(received) + 1])) \in Nat
    BY <1>1, EncodedIs, BytesAre
  <2> QED
    BY <1>2, <2>1, LayoutIs
<1>4. at[Len(received) + 1] + (Consumed + k) = 0 + k
  BY LayoutIs
<1>5. Fits(wire, 0, at, Len(received) + 1, Encoded)
  BY DEF StreamLaidOut
<1> QED
  BY <1>1, <1>2, <1>3, <1>4, <1>5 DEF Fits

(* What does not depend on the reader.                                     *)
LEMMA ReaderFrame ==
  ASSUME UNCHANGED <<side, writerVars>>
  PROVE  Encoded' = Encoded /\ Owed' = Owed /\ FixedLen' = FixedLen /\ NameLen' = NameLen
         /\ \A p : Bytes(p)' = Bytes(p) /\ Payload(p)' = Payload(p)
BY DEF writerVars, Encoded, Owed, FixedLen, NameLen, Bytes, Payload, ICMP, Header, ClientHeader,
       ServerHeader, Fixed, Ping, Pong

(* A payload that is still to come has a length.                           *)
LEMMA OwedIs == ASSUME TypeOK, WriterInv PROVE Owed \in Nat
<1>1. CASE \E w \in Writers : wpc[w] = "payload"
  <2>1. Len(sent) \in Nat /\ Len(sent) > 0
    BY <1>1 DEF TypeOK, WriterInv
  <2>2. sent[Len(sent)] \in Packets
    BY <2>1, EncodedIs
  <2>3. Len(sent[Len(sent)].data) \in Nat
    BY <2>2, PacketIs
  <2> QED
    BY <1>1, <2>3 DEF Owed
<1>2. CASE ~ \E w \in Writers : wpc[w] = "payload"
  BY <1>2 DEF Owed
<1> QED
  BY <1>1, <1>2

(* Every place is n earlier once n bytes were taken.                       *)
LEMMA TakeLaysOut ==
  ASSUME TypeOK, WriterInv, ReaderInv, NEW at, StreamLaidOut(at), NEW n \in 0..Len(wire), Take(n),
         UNCHANGED <<side, broken, writerVars>>
  PROVE  /\ Spaced(Shifted(at, n), Len(received) + 1, Encoded')
         /\ \A i \in 1..Len(sent) + 1 : at[i] \in Int /\ Shifted(at, n)[i] = at[i] - n
         /\ wire' \in Seq(Nat) /\ Len(wire') = Len(wire) - n
         /\ Len(wire') <= Shifted(at, n)[Len(sent) + 1]
         /\ Fits(wire', 0, Shifted(at, n), Len(received) + 1, Encoded')
         /\ ~broken => /\ Fits(pending', Len(wire'), Shifted(at, n), Len(received) + 1, Encoded')
                       /\ Len(wire') + Len(pending') + Owed' = Shifted(at, n)[Len(sent) + 1]
<1> DEFINE first == Len(received) + 1 end == Len(sent) + 1
<1>0. wire \in Seq(Nat) /\ Len(wire) \in Nat
  BY DEF TypeOK
<1>1. n \in Nat /\ n <= Len(wire) /\ first \in Nat \ {0} /\ Encoded \in Seq(Seq(Nat))
  BY <1>0, LayoutIs, EncodedIs
<1>2. /\ Spaced(at, first, Encoded) /\ Fits(wire, 0, at, first, Encoded) /\ Len(wire) <= at[end]
      /\ ~broken => Fits(pending, Len(wire), at, first, Encoded)
                    /\ Len(wire) + Len(pending) + Owed = at[end]
  BY DEF StreamLaidOut
<1>3. Encoded' = Encoded /\ Owed' = Owed /\ pending' = pending
  BY ReaderFrame DEF writerVars
<1>4. wire' = SubSeq(wire, n + 1, Len(wire))
  BY DEF Take
<1>5. wire' \in Seq(Nat)
  BY <1>0, <1>1, <1>4
<1>6. Len(wire') = Len(wire) - n
  BY <1>0, <1>1, <1>4
<1>7. Spaced(Shifted(at, n), first, Encoded)
  BY <1>1, <1>2, TakeSpaced
<1>8. Fits(wire', 0, Shifted(at, n), first, Encoded)
  BY <1>0, <1>1, <1>2, <1>4, TakeFits
<1>9. ASSUME NEW i \in 1..Len(sent) + 1 PROVE at[i] \in Int /\ Shifted(at, n)[i] = at[i] - n
  <2>1. at \in Seq(Int) /\ Len(at) = Len(sent) + 1
    BY LayoutIs
  <2> QED
    BY <2>1 DEF Shifted
<1>10. at[end] \in Int /\ Shifted(at, n)[end] = at[end] - n
  <2>1. end \in 1..Len(sent) + 1
    BY LayoutIs
  <2> QED
    BY <1>9, <2>1
<1>11. Len(wire') <= Shifted(at, n)[end]
  BY <1>0, <1>1, <1>2, <1>6, <1>10
<1>12. ASSUME ~broken
       PROVE  /\ Fits(pending', Len(wire'), Shifted(at, n), first, Encoded)
              /\ Len(wire') + Len(pending') + Owed' = Shifted(at, n)[end]
  <2>1. Len(pending) \in Nat /\ Owed \in Nat /\ Len(wire) \in Int
    BY <1>0, LayoutIs, OwedIs
  <2>2. Fits(pending, Len(wire) - n, Shifted(at, n), first, Encoded)
    BY <1>1, <1>2, <1>12, <2>1, ShiftFits
  <2>3. Len(wire) + Len(pending) + Owed = at[end]
    BY <1>2, <1>12
  <2>4. Len(wire) - n + Len(pending) + Owed = at[end] - n
    BY <1>1, <1>10, <2>1, <2>3
  <2> QED
    BY <1>3, <1>6, <1>10, <2>2, <2>4
<1> QED
  BY <1>3, <1>5, <1>6, <1>7, <1>8, <1>9, <1>11, <1>12

(* A part of a packet is taken: the reader stays in it.                    *)
LEMMA PartLaysOut ==
  ASSUME TypeOK, WriterInv, ReaderInv, NEW at, StreamLaidOut(at), NEW n \in 0..Len(wire), Take(n),
         UNCHANGED <<side, broken, writerVars, received>>, Consumed' = Consumed + n
  PROVE  StreamInv'
<1> DEFINE first == Len(received) + 1 end == Len(sent) + 1
<1>1. sent' = sent /\ received' = received /\ broken' = broken
  BY DEF writerVars
<1>2. Len(sent) \in Nat /\ n \in Int /\ Consumed \in Int /\ first \in 1..Len(sent) + 1
  BY LayoutIs DEF TypeOK
<1>3. at[first] = -Consumed /\ at[first] \in Int /\ Shifted(at, n)[first] = at[first] - n
  BY <1>2, LayoutIs, TakeLaysOut
<1>4. Shifted(at, n)[first] = -(Consumed')
  BY <1>2, <1>3
<1>5. Shifted(at, n) \in Seq(Int)
  BY LayoutIs, TakeLaysOut DEF Spaced
<1>6. StreamLaidOut(Shifted(at, n))'
  BY <1>1, <1>4, TakeLaysOut DEF StreamLaidOut
<1> QED
  BY <1>5, <1>6 DEF StreamInv

(* The rest of a packet is taken: the reader goes on with the next.        *)
LEMMA RestLaysOut ==
  ASSUME TypeOK, WriterInv, ReaderInv, NEW at, StreamLaidOut(at), NEW n \in 0..Len(wire), Take(n),
         UNCHANGED <<side, broken, writerVars>>, Len(received) < Len(sent),
         Len(received') = Len(received) + 1, Consumed' = 0,
         Consumed + n = Len(Bytes(sent[Len(received) + 1]))
  PROVE  StreamInv'
<1> DEFINE first == Len(received) + 1 end == Len(sent) + 1 s == Shifted(at, n)
<1>1. sent' = sent /\ broken' = broken
  BY DEF writerVars
<1>2. /\ Len(sent) \in Nat /\ n \in Int /\ Consumed \in Int
      /\ first \in 1..Len(sent) /\ first \in first..Len(sent) /\ first + 1 \in Nat
      /\ first \in 1..Len(sent) + 1 /\ first + 1 \in 1..Len(sent) + 1
  <2>1. Len(sent) \in Nat /\ Len(received) \in Nat /\ Consumed \in Nat /\ Len(wire) \in Nat
    BY LayoutIs
  <2> QED
    BY <2>1
<1>3. Encoded[first] = Bytes(sent[first]) /\ Len(Encoded) = Len(sent) /\ Encoded' = Encoded
  BY <1>2, EncodedIs, ReaderFrame
<1>4. at[first + 1] = at[first] + Len(Encoded[first]) /\ at[first] = -Consumed
  BY <1>2, <1>3, LayoutIs DEF Spaced
<1>5. s[first + 1] = at[first + 1] - n
  BY <1>2, TakeLaysOut
<1>6. s[first + 1] = -(Consumed')
  BY <1>2, <1>3, <1>4, <1>5
<1>7. /\ Spaced(s, first, Encoded) /\ Fits(wire', 0, s, first, Encoded)
      /\ ~broken => Fits(pending', Len(wire'), s, first, Encoded)
  BY <1>3, TakeLaysOut
<1>8. \A i \in first + 1..Len(sent) + 1 : i \in first..Len(sent) + 1
  BY <1>2
<1>9. \A i \in first + 1..Len(sent) : i \in first..Len(sent)
  BY <1>2
<1> HIDE DEF s
<1>10. Spaced(s, first + 1, Encoded)
  BY <1>3, <1>7, <1>8, <1>9 DEF Spaced
<1>11. /\ Fits(wire', 0, s, first + 1, Encoded)
       /\ ~broken => Fits(pending', Len(wire'), s, first + 1, Encoded)
  BY <1>3, <1>7, <1>9, Zenon DEF Fits
<1>12. /\ Len(wire') <= s[end]
       /\ ~broken => Len(wire') + Len(pending') + Owed' = s[end]
  BY TakeLaysOut DEF s
<1>13. s \in Seq(Int)
  BY <1>7 DEF Spaced
<1>14. StreamLaidOut(s)'
  BY <1>1, <1>3, <1>6, <1>10, <1>11, <1>12 DEF StreamLaidOut
<1> QED
  BY <1>13, <1>14 DEF StreamInv

(* The invariant of the writers does not look at the wire.                 *)
LEMMA SameWriters ==
  ASSUME WriterInv, UNCHANGED <<side, writerVars>>
  PROVE  WriterInv'
BY DEF WriterInv, writerVars, ICMP, FrontHeadroom, Fixed

(* A read that fails.                                                      *)
LEMMA GiveUpIInv ==
  ASSUME IInv, GiveUp, UNCHANGED <<side, broken, writerVars>>, wire' = wire,
         ~broken => Len(received) < Len(sent) /\ \E cap \in Caps : Len(sent[Len(received) + 1].data) > cap
  PROVE  IInv'
<1>1. TypeOK'
  BY DEF IInv, TypeOK, GiveUp, writerVars
<1>2. WriterInv'
  BY SameWriters DEF IInv
<1>3. ReaderInv'
  BY DEF IInv, ReaderInv, GiveUp, writerVars
<1>4. StreamInv'
  BY DEF StreamInv, GiveUp
<1>5. DeliveredInv'
  BY DEF IInv, DeliveredInv, GiveUp, writerVars, Payload, ICMP
<1>6. OnlySmallBuffersFail'
  BY DEF OnlySmallBuffersFail, GiveUp, writerVars
<1> QED
  BY <1>1, <1>2, <1>3, <1>4, <1>5, <1>6 DEF IInv

(* A reader that gives up preserves the invariant ...                      *)
LEMMA ReadFailsIInv ==
  ASSUME IInv, NEW n, ReadFails(n), UNCHANGED <<side, broken, writerVars>>
  PROVE  IInv'
BY GiveUpIInv DEF ReadFails

(* ... and so does one that takes some bytes: their type first,            *)
LEMMA TakeType ==
  ASSUME TypeOK, NEW n \in 0..Len(wire), Take(n)
  PROVE  wire' \in Seq(Nat)
BY DEF TypeOK, Take

(* A packet is delivered, and it is the next one.                          *)
LEMMA DeliverIInv ==
  ASSUME IInv, NEW n \in 0..Len(wire), Take(n), UNCHANGED <<side, broken, writerVars>>,
         rpc # "failed", Len(received) < Len(sent),
         Deliver(Parse(Pad(sent[Len(received) + 1].addr)), Payload(sent[Len(received) + 1])),
         Consumed + n = Len(Bytes(sent[Len(received) + 1]))
  PROVE  IInv'
<1> DEFINE p == sent[Len(received) + 1]
           x == [addr |-> Parse(Pad(p.addr)), data |-> Payload(p)]
<1>1. TypeOK /\ WriterInv /\ ReaderInv /\ StreamInv /\ DeliveredInv
  BY DEF IInv
<1>2. sent' = sent /\ header' = header /\ rpc' = "idle" /\ received' = Append(received, x)
  BY DEF writerVars, Deliver
<1>3. /\ Len(received) \in Nat /\ Len(sent) \in Nat
      /\ received \in Seq([addr : Addresses, data : Seq(Nat)])
  BY <1>1 DEF TypeOK
<1>4. p \in Packets
  <2>1. Len(received) + 1 \in 1..Len(sent)
    BY <1>3
  <2> QED
    BY <1>1, <2>1, EncodedIs
<1>5. x \in [addr : Addresses, data : Seq(Nat)]
  BY <1>1, <1>4, PacketIs, BytesAre
<1> HIDE DEF x
<1>6. received' \in Seq([addr : Addresses, data : Seq(Nat)])
  BY <1>2, <1>3, <1>5
<1>7. /\ Len(received') = Len(received) + 1 /\ received'[Len(received) + 1] = x
      /\ \A i \in 1..Len(received) : received'[i] = received[i]
  BY <1>2, <1>3, <1>5
<1>8. TypeOK'
  <2>1. wire' \in Seq(Nat)
    BY <1>1, TakeType
  <2> QED
    BY <1>1, <1>2, <1>6, <2>1 DEF TypeOK, writerVars
<1>9. WriterInv'
  BY <1>1, SameWriters
<1>10. ReaderInv'
  BY <1>2, <1>3, <1>7 DEF ReaderInv
<1>11. StreamInv'
  <2>1. PICK at \in Seq(Int) : StreamLaidOut(at)
    BY <1>1 DEF StreamInv
  <2>2. Consumed' = 0
    BY <1>2 DEF Consumed
  <2> QED
    BY <1>1, <1>7, <2>1, <2>2, RestLaysOut
<1>12. DeliveredInv'
  <2>1. \A q : Payload(q)' = Payload(q)
    BY ReaderFrame
  <2>2. SUFFICES ASSUME NEW i \in 1..Len(received) + 1
                 PROVE  received'[i] = [addr |-> Parse(Pad(sent[i].addr)), data |-> Payload(sent[i])]
    BY <1>2, <1>7, <2>1 DEF DeliveredInv
  <2>3. CASE i = Len(received) + 1
    BY <1>7, <2>3 DEF x
  <2>4. CASE i \in 1..Len(received)
    BY <1>1, <1>7, <2>4 DEF DeliveredInv
  <2> QED
    BY <1>3, <2>3, <2>4
<1>13. OnlySmallBuffersFail'
  BY <1>2 DEF OnlySmallBuffersFail
<1> QED
  BY <1>8, <1>9, <1>10, <1>11, <1>12, <1>13 DEF IInv

(* The reader gets on within a packet.                                     *)
LEMMA ProceedIInv ==
  ASSUME IInv, NEW n \in 0..Len(wire), Take(n), UNCHANGED <<side, broken, writerVars, received>>,
         rpc # "failed", rpc' \in {"header", "payload"}, ~ICMP, Len(received) < Len(sent),
         header' = [len |-> Fixed + NameLen + Len(sent[Len(received) + 1].data),
                    addr |-> Parse(Pad(sent[Len(received) + 1].addr)), name |-> NameLen],
         Consumed' = Consumed + n
  PROVE  IInv'
<1>1. TypeOK /\ WriterInv /\ ReaderInv /\ StreamInv /\ DeliveredInv
  BY DEF IInv
<1>2. sent' = sent /\ received' = received
  BY DEF writerVars
<1>3. sent[Len(received) + 1] \in Packets
  <2>1. Len(received) + 1 \in 1..Len(sent)
    BY <1>1 DEF TypeOK
  <2> QED
    BY <1>1, <2>1, EncodedIs
<1>4. header' \in [len : Nat, addr : Addresses, name : Nat]
  <2>1. Fixed \in Nat /\ NameLen \in Nat
    BY LensAre DEF Fixed, AddressPortLen
  <2>2. Len(sent[Len(received) + 1].data) \in Nat
    BY <1>3, PacketIs
  <2>3. Fixed + NameLen + Len(sent[Len(received) + 1].data) \in Nat
    BY <2>1, <2>2, ThreeSum, Zenon
  <2>4. Parse(Pad(sent[Len(received) + 1].addr)) \in Addresses
    BY <1>3, PacketIs
  <2> QED
    BY <2>1, <2>3, <2>4
<1>5. TypeOK'
  <2>1. wire' \in Seq(Nat)
    BY <1>1, TakeType
  <2> QED
    BY <1>1, <1>4, <2>1 DEF TypeOK, writerVars
<1>6. WriterInv'
  BY <1>1, SameWriters
<1>7. ReaderInv'
  BY <1>1, <1>2, ReaderFrame DEF ReaderInv, ICMP, Fixed
<1>8. StreamInv'
  <2>1. PICK at \in Seq(Int) : StreamLaidOut(at)
    BY <1>1 DEF StreamInv
  <2> QED
    BY <1>1, <2>1, PartLaysOut
<1>9. DeliveredInv'
  BY <1>1, <1>2, ReaderFrame DEF DeliveredInv
<1>10. OnlySmallBuffersFail'
  BY DEF OnlySmallBuffersFail
<1> QED
  BY <1>5, <1>6, <1>7, <1>8, <1>9, <1>10 DEF IInv

(* What the reader finds on the wire if there are n bytes more.            *)
LEMMA ReadyIs ==
  ASSUME IInv, rpc # "failed", NEW n \in Nat, n > 0, Ready(n)
  PROVE  /\ Len(received) < Len(sent) /\ n \in 0..Len(wire)
         /\ sent[Len(received) + 1] \in Packets
         /\ \A k \in 1..n : Consumed + k <= Len(Bytes(sent[Len(received) + 1]))
              => wire[k] = Bytes(sent[Len(received) + 1])[Consumed + k]
<1>1. TypeOK /\ WriterInv /\ ReaderInv
  BY DEF IInv
<1>2. PICK at \in Seq(Int) : StreamLaidOut(at)
  BY DEF IInv, StreamInv
<1>3. Len(wire) \in Nat /\ Len(wire) >= n
  BY <1>1 DEF TypeOK, Ready
<1>4. Len(received) < Len(sent)
  BY <1>1, <1>2, <1>3, WireIsOwed
<1>5. n \in 0..Len(wire) /\ \A k \in 1..n : k \in 1..Len(wire)
  BY <1>3
<1>6. sent[Len(received) + 1] \in Packets
  <2>1. Len(received) + 1 \in 1..Len(sent)
    BY <1>1, <1>4 DEF TypeOK
  <2> QED
    BY <1>1, <2>1, EncodedIs
<1> QED
  BY <1>1, <1>2, <1>4, <1>5, <1>6, WireBytes

(* a record of ICMP,                                                       *)
LEMMA RecordIInv ==
  ASSUME IInv, ReadRecord, UNCHANGED <<side, broken, writerVars>>
  PROVE  IInv'
<1> DEFINE p == sent[Len(received) + 1]
<1>1. rpc = "idle" /\ ICMP
  BY DEF ReadRecord
<1>2. CASE ReadFails(5)
  BY <1>2, ReadFailsIInv
<1>3. CASE Ready(5) /\ Take(5) /\ Deliver(Parse(wire[2]), <<>>)
  <2>1. /\ Len(received) < Len(sent) /\ 5 \in 0..Len(wire) /\ p \in Packets
        /\ \A k \in 1..5 : Consumed + k <= Len(Bytes(p)) => wire[k] = Bytes(p)[Consumed + k]
    BY <1>1, <1>3, ReadyIs
  <2>2. Consumed = 0 /\ Payload(p) = <<>>
    BY <1>1 DEF Consumed, Payload
  <2>3. Len(Bytes(p)) = 5 /\ Bytes(p)[2] = Pad(p.addr)
    BY <1>1, <2>1, ICMPBytes
  <2>4. wire[2] = Pad(p.addr)
    BY <2>1, <2>2, <2>3
  <2> QED
    BY <1>1, <1>3, <2>1, <2>2, <2>3, <2>4, DeliverIInv
<1> QED
  BY <1>2, <1>3 DEF ReadRecord

(* the header that a client wrote,                                         *)
LEMMA FromClientIInv ==
  ASSUME IInv, ReadFromClient, UNCHANGED <<side, broken, writerVars>>
  PROVE  IInv'
<1> DEFINE p == sent[Len(received) + 1]
<1>1. rpc = "idle" /\ side = "client" /\ ReadHeader(4, 3, 4)
  BY DEF ReadFromClient, ReadHeader
<1>2. CASE ReadFails(4)
  BY <1>2, ReadFailsIInv
<1>3. CASE ~ReadFails(4)
  <2>1. /\ Ready(4) /\ Take(4) /\ rpc' = "header" /\ received' = received
        /\ header' = [len |-> wire[1], addr |-> Parse(wire[3]), name |-> wire[4]]
    BY <1>1, <1>3 DEF ReadHeader
  <2>2. /\ Len(received) < Len(sent) /\ 4 \in 0..Len(wire) /\ p \in Packets
        /\ \A k \in 1..4 : Consumed + k <= Len(Bytes(p)) => wire[k] = Bytes(p)[Consumed + k]
    BY <1>1, <2>1, ReadyIs
  <2>3. Consumed = 0 /\ FixedLen = 4 /\ NameLen = Len(Name) /\ ~ICMP
    BY <1>1 DEF Consumed, FixedLen, NameLen, ICMP
  <2>4. /\ Len(Bytes(p)) = 4 + Len(Name) + Len(p.data)
        /\ Bytes(p)[1] = Fixed + Len(Name) + Len(p.data)
        /\ Bytes(p)[3] = Pad(p.addr) /\ Bytes(p)[4] = Len(Name)
    BY <1>1, <2>2, ClientBytes
  <2>5. Len(Name) \in Nat /\ Len(p.data) \in Nat
    BY <2>2, NameIs, PacketIs
  <2>6. \A k \in 1..4 : wire[k] = Bytes(p)[k]
    <3>1. PICK l \in Nat, m \in Nat : l = Len(p.data) /\ m = Len(Name)
      BY <2>5, Zenon
    <3>2. ASSUME NEW k \in 1..4 PROVE Consumed + k = k /\ k <= Len(Bytes(p))
      <4>1. Len(Bytes(p)) = 4 + m + l
        BY <2>4, <3>1
      <4>2. k <= 4 + m + l
        OBVIOUS
      <4> QED
        BY <2>3, <4>1, <4>2
    <3> QED
      BY <2>2, <3>2
  <2>7. wire[1] = Fixed + Len(Name) + Len(p.data) /\ wire[3] = Pad(p.addr) /\ wire[4] = Len(Name)
    BY <2>4, <2>6
  <2>8. Consumed' = Consumed + 4
    BY <2>1, <2>3, ReaderFrame DEF Consumed
  <2> QED
    BY <1>1, <2>1, <2>2, <2>3, <2>7, <2>8, ProceedIInv
<1> QED
  BY <1>2, <1>3

(* the header that a server wrote,                                         *)
LEMMA FromServerIInv ==
  ASSUME IInv, ReadFromServer, UNCHANGED <<side, broken, writerVars>>
  PROVE  IInv'
<1> DEFINE p == sent[Len(received) + 1]
<1>1. rpc = "idle" /\ side = "server" /\ ReadHeader(3, 2, 0)
  BY DEF ReadFromServer, ReadHeader
<1>2. CASE ReadFails(3)
  BY <1>2, ReadFailsIInv
<1>3. CASE ~ReadFails(3)
  <2>1. /\ Ready(3) /\ Take(3) /\ rpc' = "header" /\ received' = received
        /\ header' = [len |-> wire[1], addr |-> Parse(wire[2]), name |-> 0]
    BY <1>1, <1>3 DEF ReadHeader
  <2>2. /\ Len(received) < Len(sent) /\ 3 \in 0..Len(wire) /\ p \in Packets
        /\ \A k \in 1..3 : Consumed + k <= Len(Bytes(p)) => wire[k] = Bytes(p)[Consumed + k]
    BY <1>1, <2>1, ReadyIs
  <2>3. Consumed = 0 /\ FixedLen = 3 /\ NameLen = 0 /\ ~ICMP
    BY <1>1 DEF Consumed, FixedLen, NameLen, ICMP
  <2>4. /\ Len(Bytes(p)) = 3 + Len(p.data)
        /\ Bytes(p)[1] = Fixed + Len(p.data) /\ Bytes(p)[2] = Pad(p.addr)
    BY <1>1, <2>2, ServerBytes
  <2>5. Len(p.data) \in Nat /\ Fixed \in Nat
    BY <2>2, PacketIs DEF Fixed, AddressPortLen
  <2>6. \A k \in 1..3 : wire[k] = Bytes(p)[k]
    <3>1. PICK l \in Nat : l = Len(p.data)
      BY <2>5, Zenon
    <3>2. ASSUME NEW k \in 1..3 PROVE Consumed + k = k /\ k <= Len(Bytes(p))
      BY <2>3, <2>4, <2>5, <3>1
    <3> QED
      BY <2>2, <3>2
  <2>7. wire[1] = Fixed + NameLen + Len(p.data) /\ wire[2] = Pad(p.addr)
    BY <2>3, <2>4, <2>5, <2>6
  <2>8. Consumed' = Consumed + 3
    BY <2>1, <2>3, ReaderFrame DEF Consumed
  <2> QED
    BY <1>1, <2>1, <2>2, <2>3, <2>7, <2>8, ProceedIInv
<1> QED
  BY <1>2, <1>3

(* the name in it,                                                         *)
LEMMA SkipNameIInv ==
  ASSUME IInv, SkipName, UNCHANGED <<side, broken, writerVars>>
  PROVE  IInv'
<1> DEFINE p == sent[Len(received) + 1] n == header.name
<1>1. rpc = "header"
  BY DEF SkipName
<1>2. CASE ReadFails(n)
  BY <1>2, ReadFailsIInv
<1>3. CASE ~ReadFails(n)
  <2>1. Ready(n) /\ Take(n) /\ rpc' = "payload" /\ header' = header /\ received' = received
    BY <1>3 DEF SkipName
  <2>2. /\ ~ICMP /\ Len(received) < Len(sent)
        /\ header = [len |-> Fixed + NameLen + Len(p.data), addr |-> Parse(Pad(p.addr)), name |-> NameLen]
    BY <1>1 DEF IInv, ReaderInv
  <2>3. n = NameLen /\ n \in Nat
    BY <2>2, LensAre
  <2>4. n \in 0..Len(wire)
    BY <2>1, <2>3 DEF IInv, TypeOK, Ready
  <2>5. Consumed' = Consumed + n
    BY <1>1, <2>1, <2>3, ReaderFrame DEF Consumed
  <2> QED
    BY <1>1, <2>1, <2>2, <2>4, <2>5, ProceedIInv
<1> QED
  BY <1>2, <1>3

(* and the payload, which completes the packet.                            *)
LEMMA ReadPayloadIInv ==
  ASSUME IInv, ReadPayload, UNCHANGED <<side, broken, writerVars>>
  PROVE  IInv'
<1> DEFINE p == sent[Len(received) + 1] size == header.len - Overhead
<1>1. rpc = "payload" /\ TypeOK
  BY DEF ReadPayload, IInv
<1>2. /\ ~ICMP /\ Len(received) < Len(sent)
      /\ header = [len |-> Fixed + NameLen + Len(p.data), addr |-> Parse(Pad(p.addr)), name |-> NameLen]
  BY <1>1 DEF IInv, ReaderInv
<1>3. p \in Packets
  <2>1. Len(received) + 1 \in 1..Len(sent)
    BY <1>1, <1>2 DEF TypeOK
  <2> QED
    BY <1>1, <2>1, EncodedIs
<1>4. Fixed \in Nat /\ NameLen \in Nat /\ Len(p.data) \in Nat /\ FixedLen \in Nat
  BY <1>3, LensAre, PacketIs DEF Fixed, AddressPortLen
<1>5. size = Len(p.data) /\ ~(header.len < Overhead)
  <2>1. header.len = Fixed + NameLen + Len(p.data) /\ Overhead = Fixed + NameLen
    BY <1>2 DEF Overhead
  <2>2. PICK l \in Nat, f \in Nat, n \in Nat : l = Len(p.data) /\ f = Fixed /\ n = NameLen
    BY <1>4, Zenon
  <2>3. header.len = f + n + l /\ Overhead = f + n
    BY <2>1, <2>2, Zenon
  <2> HIDE DEF p
  <2>4. size = l /\ ~(header.len < Overhead)
    BY <2>3
  <2> QED
    BY <2>2, <2>4
<1>6. PICK cap \in Caps :
        \/ size > cap /\ GiveUp /\ UNCHANGED wire
        \/ ReadFails(size)
        \/ Ready(size) /\ Take(size) /\ Deliver(header.addr, SubSeq(wire, 1, size))
  BY <1>5, Zenon DEF ReadPayload
<1>7. CASE size > cap /\ GiveUp /\ UNCHANGED wire
  BY <1>2, <1>5, <1>7, GiveUpIInv
<1>8. CASE ReadFails(size)
  BY <1>8, ReadFailsIInv
<1>9. CASE Ready(size) /\ Take(size) /\ Deliver(header.addr, SubSeq(wire, 1, size))
  <2>1. Consumed = FixedLen + NameLen /\ Payload(p) = p.data
    BY <1>1, <1>2 DEF Consumed, Payload
  <2>2. /\ Len(Bytes(p)) = FixedLen + NameLen + Len(p.data)
        /\ \A k \in 1..Len(p.data) : Bytes(p)[FixedLen + NameLen + k] = p.data[k]
    BY <1>1, <1>3, <2>1, BytesAre
  <2>3. wire \in Seq(Nat) /\ Len(wire) \in Nat /\ size \in 0..Len(wire) /\ p.data \in Seq(Nat)
    <3>1. wire \in Seq(Nat) /\ Len(wire) \in Nat
      BY <1>1 DEF TypeOK
    <3>2. Len(wire) >= size
      BY <1>9 DEF Ready
    <3> QED
      BY <1>3, <1>4, <1>5, <3>1, <3>2, PacketIs
  <2>4. ASSUME NEW k \in 1..size PROVE wire[k] = p.data[k]
    <3>1. size > 0 /\ k \in 1..Len(p.data)
      BY <1>4, <1>5
    <3>2. Consumed + k <= Len(Bytes(p))
      BY <1>4, <2>1, <2>2, <3>1
    <3>3. wire[k] = Bytes(p)[Consumed + k]
      BY <1>1, <1>4, <1>5, <1>9, <3>1, <3>2, ReadyIs
    <3> QED
      BY <2>1, <2>2, <3>1, <3>3
  <2>5. SubSeq(wire, 1, size) = p.data
    <3> HIDE DEF p, size
    <3>1. PICK d \in Seq(Nat) : d = p.data
      BY <2>3, Zenon
    <3>2. Len(d) = size /\ \A k \in 1..size : wire[k] = d[k]
      BY <1>5, <2>4, <3>1
    <3>3. SubSeq(wire, 1, size) \in Seq(Nat)
      BY <2>3
    <3>4. Len(SubSeq(wire, 1, size)) = size
      BY <2>3
    <3>5. \A k \in 1..size : SubSeq(wire, 1, size)[k] = wire[k]
      BY <2>3
    <3>6. SubSeq(wire, 1, size) = d
      BY <3>2, <3>3, <3>4, <3>5, SeqEqual
    <3> QED
      BY <3>1, <3>6
  <2>6. Consumed + size = Len(Bytes(p))
    BY <1>5, <2>1, <2>2
  <2>7. Deliver(Parse(Pad(p.addr)), Payload(p))
    BY <1>2, <1>9, <2>1, <2>5
  <2> QED
    BY <1>1, <1>2, <1>9, <2>3, <2>6, <2>7, DeliverIInv
<1> QED
  BY <1>6, <1>7, <1>8, <1>9

(* The reader preserves the invariant.                                     *)
LEMMA ReaderIInv == IInv /\ ReaderStep => IInv'
<1> SUFFICES ASSUME IInv, ReaderStep PROVE IInv'
  OBVIOUS
<1>1. UNCHANGED <<side, broken, writerVars>>
  BY DEF ReaderStep
<1> QED
  BY <1>1, RecordIInv, FromClientIInv, FromServerIInv, SkipNameIInv, ReadPayloadIInv DEF ReaderStep

-----------------------------------------------------------------------------
(* The writers.                                                            *)

(* Room for a header is a length.                                          *)
LEMMA RoomIs == side \in {"client", "server", "ping", "pong"} => FrontHeadroom \in Nat
BY NameIs DEF FrontHeadroom, Fixed, AddressPortLen

(* The job of a writer that has none.                                      *)
LEMMA NoJobIs == NoJob \in [packet : Packets, shared : BOOLEAN, room : Nat]
BY PacketAssumption DEF NoJob

(* What does not depend on the writers, if nothing is sent.                *)
LEMMA WriterFrame ==
  ASSUME UNCHANGED <<side, readerVars>>
  PROVE  /\ FixedLen' = FixedLen /\ NameLen' = NameLen /\ Consumed' = Consumed /\ Fixed' = Fixed
         /\ FrontHeadroom' = FrontHeadroom /\ ICMP' = ICMP
         /\ \A p : Bytes(p)' = Bytes(p) /\ Payload(p)' = Payload(p)
BY DEF readerVars, FixedLen, NameLen, Consumed, Bytes, Payload, ICMP, Header, ClientHeader,
       ServerHeader, Fixed, FrontHeadroom, Ping, Pong

(* A step of a writer that neither sends nor flushes.                      *)
LEMMA QuietIInv ==
  ASSUME IInv, UNCHANGED <<side, broken, readerVars, pending, sent, wire>>,
         wpc' \in [Writers -> {"idle", "write", "payload", "flush"}],
         job' \in [Writers -> [packet : Packets, shared : BOOLEAN, room : Nat]],
         WriterInv', broken \/ Owed' = Owed
  PROVE  IInv'
<1>1. TypeOK /\ ReaderInv /\ StreamInv /\ DeliveredInv /\ OnlySmallBuffersFail
  BY DEF IInv
<1>2. Encoded' = Encoded /\ Consumed' = Consumed
  BY WriterFrame DEF Encoded
<1>3. TypeOK'
  BY <1>1 DEF TypeOK, readerVars
<1>4. ReaderInv'
  BY <1>1, WriterFrame DEF ReaderInv, readerVars
<1>5. StreamInv'
  BY <1>1, <1>2 DEF StreamInv, StreamLaidOut, readerVars
<1>6. DeliveredInv'
  BY <1>1, WriterFrame DEF DeliveredInv, readerVars
<1>7. OnlySmallBuffersFail'
  BY <1>1 DEF OnlySmallBuffersFail, readerVars
<1> QED
  BY <1>3, <1>4, <1>5, <1>6, <1>7 DEF IInv

(* What was sent, after one more packet.                                   *)
LEMMA EncodedNext ==
  ASSUME side' = side
  PROVE  Encoded' = [i \in 1..Len(sent') |-> Bytes(sent'[i])]
BY DEF Encoded, Bytes, Header, ClientHeader, ServerHeader, Fixed, Ping, Pong, ICMP

(* A writer that begins has written nothing yet.                           *)
LEMMA BeginIInv ==
  ASSUME IInv, UNCHANGED <<side, broken, readerVars>>, NEW w \in Writers, WriteTo(w) \/ WritePacket(w)
  PROVE  IInv'
<1>1. TypeOK /\ WriterInv
  BY DEF IInv
<1>2. PICK p \in Packets, shared \in BOOLEAN, room \in Nat :
        /\ Begin(w, p, shared, room)
        /\ shared => room = FrontHeadroom /\ \A v \in Busy : job[v].shared
        /\ ~shared => ~ICMP /\ Busy = {}
  <2>1. FrontHeadroom \in Nat
    BY <1>1, RoomIs DEF TypeOK
  <2> QED
    BY <2>1 DEF WriteTo, WritePacket
<1>3. /\ wpc[w] = "idle" /\ wpc' = [wpc EXCEPT ![w] = "write"]
      /\ job' = [job EXCEPT ![w] = [packet |-> p, shared |-> shared, room |-> room]]
      /\ UNCHANGED <<pending, sent, wire>>
  BY <1>2 DEF Begin
<1>4. WriterInv'
  <2>1. /\ shared => room >= FrontHeadroom /\ \A v \in Writers : wpc[v] # "idle" => job[v].shared
        /\ ~shared => ~ICMP /\ \A v \in Writers : wpc[v] = "idle"
    <3>1. FrontHeadroom \in Nat
      BY <1>1, RoomIs DEF TypeOK
    <3> QED
      BY <1>2, <3>1 DEF Busy
  <2>2. FrontHeadroom' = FrontHeadroom /\ ICMP' = ICMP
    BY WriterFrame
  <2> QED
    BY <1>1, <1>3, <2>1, <2>2 DEF WriterInv, TypeOK
<1>5. Owed' = Owed
  BY <1>1, <1>3 DEF Owed, TypeOK
<1>6. wpc' \in [Writers -> {"idle", "write", "payload", "flush"}]
      /\ job' \in [Writers -> [packet : Packets, shared : BOOLEAN, room : Nat]]
  BY <1>1, <1>3 DEF TypeOK
<1> QED
  BY <1>3, <1>4, <1>5, <1>6, QuietIInv

(* A writer that stops short of its packet.                                *)
LEMMA StopIInv ==
  ASSUME IInv, UNCHANGED <<side, broken, readerVars, pending, sent, wire>>, NEW w \in Writers,
         wpc' = [wpc EXCEPT ![w] = "idle"], job' = [job EXCEPT ![w] = NoJob],
         broken \/ wpc[w] # "payload"
  PROVE  IInv'
<1>1. TypeOK /\ WriterInv
  BY DEF IInv
<1>2. WriterInv'
  <2>1. FrontHeadroom' = FrontHeadroom /\ ICMP' = ICMP
    BY WriterFrame
  <2> QED
    BY <1>1, <2>1 DEF WriterInv, TypeOK
<1>3. broken \/ Owed' = Owed
  BY <1>1 DEF Owed, TypeOK
<1>4. wpc' \in [Writers -> {"idle", "write", "payload", "flush"}]
      /\ job' \in [Writers -> [packet : Packets, shared : BOOLEAN, room : Nat]]
  BY <1>1, NoJobIs DEF TypeOK
<1> QED
  BY <1>2, <1>3, <1>4, QuietIInv

(* Bytes that fit behind everything written so far, wherever Write and     *)
(* FlushAll put them.                                                      *)
LEMMA WriteFits ==
  ASSUME TypeOK, side \in {"client", "ping"} => pending = <<>>, NEW b \in Seq(Nat), Write(b),
         NEW at, NEW first \in Nat \ {0}, NEW cs, Spaced(at, first, cs),
         Fits(wire, 0, at, first, cs), Fits(pending, Len(wire), at, first, cs),
         Fits(b, Len(wire) + Len(pending), at, first, cs)
  PROVE  /\ wire' \in Seq(Nat) /\ pending' \in Seq(Nat)
         /\ side \in {"client", "ping"} => pending' = <<>>
         /\ Len(wire') + Len(pending') = Len(wire) + Len(pending) + Len(b)
         /\ Fits(wire', 0, at, first, cs) /\ Fits(pending', Len(wire'), at, first, cs)
<1>1. wire \in Seq(Nat) /\ pending \in Seq(Nat) /\ Len(wire) \in Nat /\ Len(pending) \in Nat /\ Len(b) \in Nat
  BY DEF TypeOK
<1>2. CASE side \in {"client", "ping"}
  <2>1. wire' = wire \o b /\ pending' = <<>> /\ Len(pending) = 0 /\ Len(pending') = 0
    BY <1>2 DEF Write
  <2>2. wire' \in Seq(Nat) /\ Len(wire') = Len(wire) + Len(b)
    BY <1>1, <2>1, ConcatIs
  <2>3. Fits(b, 0 + Len(wire), at, first, cs)
    <3>1. Len(wire) + Len(pending) = 0 + Len(wire)
      BY <1>1, <2>1
    <3> QED
      BY <3>1
  <2>4. Fits(wire', 0, at, first, cs)
    BY <1>1, <2>1, <2>3, ConcatFits
  <2>5. Fits(pending', Len(wire'), at, first, cs)
    BY <2>1 DEF Fits
  <2> QED
    BY <1>1, <2>1, <2>2, <2>4, <2>5
<1>3. CASE ~(side \in {"client", "ping"})
  <2>1. wire' = wire /\ pending' = pending \o b
    BY <1>3 DEF Write
  <2>2. pending' \in Seq(Nat) /\ Len(pending') = Len(pending) + Len(b)
    BY <1>1, <2>1, ConcatIs
  <2>3. Fits(pending', Len(wire), at, first, cs)
    <3>1. PICK off \in Int : off = Len(wire)
      BY <1>1
    <3>2. Fits(pending \o b, off, at, first, cs)
      BY <1>1, <3>1, ConcatFits
    <3> QED
      BY <2>1, <3>1, <3>2
  <2> QED
    BY <1>1, <1>3, <2>1, <2>2, <2>3
<1> QED
  BY <1>2, <1>3

(* Flushing moves bytes from one piece of the stream to the other.         *)
LEMMA FlushIInv ==
  ASSUME IInv, UNCHANGED <<side, broken, readerVars>>, NEW w \in Writers, Flush(w)
  PROVE  IInv'
<1>1. TypeOK /\ WriterInv /\ ReaderInv /\ StreamInv /\ DeliveredInv /\ OnlySmallBuffersFail
  BY DEF IInv
<1>2. /\ wpc[w] = "flush" /\ ~broken /\ pending' = <<>> /\ wire' = wire \o pending /\ sent' = sent
      /\ wpc' = [wpc EXCEPT ![w] = "idle"] /\ job' = [job EXCEPT ![w] = NoJob]
  BY DEF Flush, FlushAll
<1>3. wire \in Seq(Nat) /\ pending \in Seq(Nat) /\ Len(wire) \in Nat /\ Len(pending) \in Nat
  BY <1>1 DEF TypeOK
<1>4. wire' \in Seq(Nat) /\ Len(wire') = Len(wire) + Len(pending) /\ Len(pending') = 0
  BY <1>2, <1>3, ConcatIs
<1>5. TypeOK'
  <2>1. pending' \in Seq(Nat)
    BY <1>2
  <2> QED
    BY <1>1, <1>2, <1>4, <2>1, NoJobIs DEF TypeOK, readerVars
<1>6. WriterInv'
  <2>1. FrontHeadroom' = FrontHeadroom /\ ICMP' = ICMP
    BY WriterFrame
  <2> QED
    BY <1>1, <1>2, <2>1 DEF WriterInv, TypeOK
<1>7. ReaderInv'
  BY <1>1, <1>2, WriterFrame DEF ReaderInv, readerVars
<1>8. StreamInv'
  <2>1. SUFFICES ASSUME rpc # "failed" PROVE StreamInv'
    BY DEF StreamInv, readerVars
  <2>2. PICK at \in Seq(Int) : StreamLaidOut(at)
    BY <1>1, <2>1 DEF StreamInv
  <2> DEFINE first == Len(received) + 1
  <2>3. first \in Nat \ {0} /\ Spaced(at, first, Encoded)
    BY <1>1, <2>2, LayoutIs
  <2>4. /\ Fits(wire, 0, at, first, Encoded) /\ Fits(pending, 0 + Len(wire), at, first, Encoded)
        /\ Len(wire) + Len(pending) + Owed = at[Len(sent) + 1]
    <3>1. 0 + Len(wire) = Len(wire)
      BY <1>3
    <3> QED
      BY <1>2, <2>2, <3>1 DEF StreamLaidOut
  <2>5. Fits(wire', 0, at, first, Encoded)
    BY <1>2, <1>3, <2>3, <2>4, ConcatFits
  <2>6. Fits(pending', Len(wire'), at, first, Encoded)
    BY <1>2 DEF Fits
  <2>7. Owed' = Owed /\ Owed \in Nat
    BY <1>1, <1>2, OwedIs DEF Owed, TypeOK
  <2>8. Encoded' = Encoded /\ Consumed' = Consumed
    BY <1>2, WriterFrame DEF Encoded
  <2>9. Len(wire') <= at[Len(sent) + 1] /\ Len(wire') + Len(pending') + Owed' = at[Len(sent) + 1]
    BY <1>3, <1>4, <2>4, <2>7
  <2>10. StreamLaidOut(at)'
    BY <1>2, <2>2, <2>5, <2>6, <2>8, <2>9 DEF StreamLaidOut, readerVars
  <2> QED
    BY <2>10 DEF StreamInv
<1>9. DeliveredInv'
  BY <1>1, <1>2, WriterFrame DEF DeliveredInv, readerVars
<1>10. OnlySmallBuffersFail'
  BY <1>1, <1>2 DEF OnlySmallBuffersFail, readerVars
<1> QED
  BY <1>5, <1>6, <1>7, <1>8, <1>9, <1>10 DEF IInv

(* One more packet is sent: all of it, or its header.                      *)
LEMMA WriteFirstIInv ==
  ASSUME IInv, UNCHANGED <<side, broken, readerVars>>, NEW w \in Writers, WriteFirst(w)
  PROVE  IInv'
<1> DEFINE p == job[w].packet n == Len(sent) first == Len(received) + 1
<1>1. TypeOK /\ WriterInv /\ ReaderInv /\ StreamInv /\ DeliveredInv /\ OnlySmallBuffersFail
  BY DEF IInv
<1>2. PICK whole \in BOOLEAN :
        /\ whole <=> ICMP \/ job[w].room >= Len(Header(p))
        /\ wpc[w] = "write" /\ ~broken
        /\ Write(IF whole THEN Bytes(p) ELSE Header(p))
        /\ wpc' = [wpc EXCEPT ![w] = IF whole THEN "flush" ELSE "payload"]
        /\ sent' = Append(sent, p) /\ job' = job
  BY DEF WriteFirst
<1>3. p \in Packets
  BY <1>1 DEF TypeOK
<1>4. /\ n \in Nat /\ sent \in Seq(Packets) /\ Len(received) \in Nat /\ first \in Nat \ {0}
      /\ Len(received) <= n
  BY <1>1 DEF TypeOK, ReaderInv
<1>5. /\ sent' \in Seq(Packets) /\ Len(sent') = n + 1 /\ sent'[n + 1] = p
      /\ \A i \in 1..n : sent'[i] = sent[i]
  <2> HIDE DEF p
  <2> QED
    BY <1>2, <1>3, <1>4
<1>6. PICK b \in Seq(Nat), d \in Seq(Nat) :
        /\ b = IF whole THEN Bytes(p) ELSE Header(p)
        /\ Len(b) <= Len(Bytes(p)) /\ \A k \in 1..Len(b) : b[k] = Bytes(p)[k]
        /\ d = (IF whole THEN <<>> ELSE p.data) /\ Len(b) + Len(d) = Len(Bytes(p))
  <2>1. Bytes(p) \in Seq(Nat) /\ Len(Bytes(p)) \in Nat
    BY <1>1, <1>3, BytesAre
  <2>2. CASE whole
    <3>0. <<>> \in Seq(Nat)
      OBVIOUS
    <3>1. PICK e \in Seq(Nat) : e = <<>>
      BY <3>0, Zenon
    <3>2. PICK l \in Nat : l = Len(Bytes(p))
      BY <2>1, Zenon
    <3>3. Len(e) = 0 /\ l <= l /\ l + 0 = l
      BY <3>1
    <3>4. /\ Bytes(p) \in Seq(Nat) /\ Len(Bytes(p)) <= Len(Bytes(p))
          /\ Len(Bytes(p)) + Len(e) = Len(Bytes(p))
      BY <2>1, <3>2, <3>3
    <3> QED
      BY <2>2, <3>1, <3>4, Zenon
  <2>3. CASE ~whole
    <3>1. side \in {"client", "server"}
      BY <1>1, <1>2, <2>3 DEF TypeOK, ICMP
    <3>2. Header(p) \in Seq(Nat) /\ p.data \in Seq(Nat) /\ Bytes(p) = Header(p) \o p.data
      BY <1>3, <3>1, HeaderIs, PacketIs
    <3>3. /\ Len(Bytes(p)) = Len(Header(p)) + Len(p.data)
          /\ \A k \in 1..Len(Header(p)) : Bytes(p)[k] = Header(p)[k]
      BY <3>2, ConcatIs
    <3>4. Len(Header(p)) <= Len(Bytes(p))
      <4>1. PICK h \in Nat, l \in Nat : h = Len(Header(p)) /\ l = Len(p.data)
        BY <3>2
      <4>2. h <= h + l
        OBVIOUS
      <4> QED
        BY <3>3, <4>1, <4>2
    <3> QED
      BY <2>3, <3>2, <3>3, <3>4
  <2> QED
    BY <2>2, <2>3
<1>7. ~whole => ~job[w].shared /\ ~ICMP
  <2>1. SUFFICES ASSUME ~whole PROVE ~job[w].shared
    BY <1>2
  <2>2. side \in {"client", "server"} /\ ~(job[w].room >= Len(Header(p)))
    BY <1>1, <1>2, <2>1 DEF TypeOK, ICMP
  <2>3. Len(Header(p)) = FrontHeadroom
    BY <1>3, <2>2, HeaderIs
  <2> QED
    BY <1>1, <1>2, <2>2, <2>3 DEF WriterInv
<1>8. \A v \in Writers : wpc[v] # "payload"
  BY <1>1, <1>2 DEF WriterInv
<1>9. Owed = 0 /\ Owed' = Len(d)
  <2>1. Owed = 0
    BY <1>8 DEF Owed
  <2>2. CASE whole
    <3>1. Owed' = 0
      BY <1>1, <1>2, <1>8, <2>2 DEF Owed, TypeOK
    <3>2. d = <<>> /\ Len(<<>>) = 0
      BY <1>6, <2>2
    <3> QED
      BY <2>1, <3>1, <3>2
  <2>3. CASE ~whole
    <3>1. wpc'[w] = "payload"
      BY <1>1, <1>2, <2>3 DEF TypeOK
    <3>2. Owed' = Len(p.data)
      BY <1>5, <3>1 DEF Owed
    <3>3. d = p.data
      BY <1>6, <2>3
    <3> QED
      BY <2>1, <3>2, <3>3, Zenon
  <2> QED
    BY <2>1, <2>2, <2>3
<1>10. PICK at \in Seq(Int) : rpc # "failed" => StreamLaidOut(at)
  <2>1. <<>> \in Seq(Int)
    OBVIOUS
  <2> QED
    BY <1>1, <2>1, Zenon DEF StreamInv
<1>14. TypeOK'
  <2>1. wire' \in Seq(Nat) /\ pending' \in Seq(Nat)
    <3>1. wire \in Seq(Nat) /\ pending \in Seq(Nat) /\ Write(b)
      BY <1>1, <1>2, <1>6 DEF TypeOK
    <3> QED
      BY <3>1, ConcatIs DEF Write
  <2> QED
    BY <1>1, <1>2, <1>5, <2>1 DEF TypeOK, readerVars
<1>15. WriterInv'
  <2>1. FrontHeadroom' = FrontHeadroom /\ ICMP' = ICMP
    BY WriterFrame
  <2>2. side \in {"client", "ping"} => pending' = <<>>
    BY <1>1, <1>2 DEF Write, WriterInv
  <2>3. ASSUME NEW v \in Writers
        PROVE  /\ wpc'[v] # "idle" /\ ~job'[v].shared
                    => ~ICMP /\ \A u \in Writers : wpc'[u] # "idle" => u = v
               /\ wpc'[v] # "idle" /\ job'[v].shared => job'[v].room >= FrontHeadroom
               /\ wpc'[v] = "payload" =>
                    ~job'[v].shared /\ Len(sent') > 0 /\ sent'[Len(sent')] = job'[v].packet
    <3>1. \A u \in Writers : wpc'[u] # "idle" => wpc[u] # "idle"
      BY <1>1, <1>2 DEF TypeOK
    <3>2. job' = job
      BY <1>2
    <3>3. wpc'[v] = "payload" => v = w /\ ~whole
      BY <1>1, <1>2, <1>8 DEF TypeOK
    <3>4. Len(sent') > 0 /\ sent'[Len(sent')] = p
      BY <1>4, <1>5
    <3> QED
      BY <1>1, <1>7, <3>1, <3>2, <3>3, <3>4 DEF WriterInv
  <2> QED
    BY <1>2, <2>1, <2>2, <2>3 DEF WriterInv
<1>16. StreamInv'
  <2>1. SUFFICES ASSUME rpc # "failed" PROVE StreamInv'
    BY DEF StreamInv, readerVars
  <2> DEFINE cs == Encoded'
  <2>2. StreamLaidOut(at)
    BY <1>10, <2>1
  <2>3. /\ Len(at) = n + 1 /\ Spaced(at, first, Encoded) /\ first \in 1..n + 1
        /\ at[first] = -Consumed
    BY <1>1, <1>4, <2>2, LayoutIs
  <2>4. /\ Bytes(p) \in Seq(Nat)
        /\ Encoded \in Seq(Seq(Nat)) /\ Len(Encoded) = n
        /\ \A i \in 1..n : Encoded[i] = Bytes(sent[i]) /\ Bytes(sent[i]) \in Seq(Nat)
    BY <1>1, <1>3, BytesAre, EncodedIs
  <2>5. /\ cs \in Seq(Seq(Nat)) /\ Len(cs) = n + 1 /\ cs[n + 1] = Bytes(p)
        /\ \A i \in 1..n : cs[i] = Encoded[i]
    <3>1. cs = [i \in 1..n + 1 |-> Bytes(sent'[i])]
      BY <1>5, EncodedNext
    <3>2. n + 1 \in 1..n + 1 /\ \A i \in 1..n : i \in 1..n + 1
      BY <1>4
    <3>3. \A i \in 1..n + 1 : i \in 1..n \/ i = n + 1
      BY <1>4
    <3>4. \A i \in 1..n + 1 : Bytes(sent'[i]) \in Seq(Nat)
      BY <1>5, <2>4, <3>3
    <3> HIDE DEF cs
    <3>5. cs[n + 1] = Bytes(p) /\ \A i \in 1..n : cs[i] = Encoded[i]
      BY <1>5, <2>4, <3>1, <3>2
    <3>6. cs \in Seq(Seq(Nat)) /\ Len(cs) = n + 1
      BY <1>4, <3>1, <3>4
    <3> QED
      BY <3>5, <3>6
  <2>6. PICK ext \in Seq(Int) :
          /\ Len(ext) = n + 2 /\ ext[n + 2] = at[n + 1] + Len(Bytes(p))
          /\ \A i \in 1..n + 1 : ext[i] = at[i] /\ at[i] \in Int
    BY <1>4, <2>3, <2>4, ExtendedIs
  <2> HIDE DEF cs
  <2>7. Longer(n, at, Encoded, ext, cs)
    BY <2>3, <2>4, <2>5, <2>6 DEF Longer
  <2>8. Spaced(ext, first, cs)
    BY <1>4, <2>3, <2>7, ExtendSpaced
  <2>9. /\ wire \in Seq(Nat) /\ pending \in Seq(Nat) /\ Len(wire) \in Nat /\ Len(pending) \in Nat
        /\ Len(b) \in Nat /\ Len(d) \in Nat
    BY <1>1 DEF TypeOK
  <2>10. /\ Fits(wire, 0, at, first, Encoded) /\ Fits(pending, Len(wire), at, first, Encoded)
         /\ Len(wire) + Len(pending) + Owed = at[n + 1]
    BY <1>2, <2>2 DEF StreamLaidOut
  <2>11. at[n + 1] \in Int /\ ext[n + 1] = at[n + 1] /\ Len(wire) + Len(pending) = at[n + 1]
    <3>1. n + 1 \in 1..n + 1
      BY <1>4
    <3>2. PICK x \in Nat, y \in Nat : x = Len(wire) /\ y = Len(pending)
      BY <2>9
    <3>3. x + y + 0 = x + y
      OBVIOUS
    <3> QED
      BY <1>9, <2>6, <2>10, <3>1, <3>2, <3>3
  <2>12. Fits(wire, 0, ext, first, cs)
    <3>1. PICK off \in Int : off = 0
      OBVIOUS
    <3>2. PICK x \in Nat, y \in Nat : x = Len(wire) /\ y = Len(pending)
      BY <2>9
    <3>3. off + Len(wire) <= at[n + 1]
      BY <2>11, <3>1, <3>2
    <3>4. Fits(wire, off, at, first, Encoded)
      BY <2>10, <3>1
    <3>5. Fits(wire, off, ext, first, cs)
      BY <1>4, <2>3, <2>7, <2>9, <3>3, <3>4, ExtendFits
    <3> QED
      BY <3>1, <3>5
  <2>13. Fits(pending, Len(wire), ext, first, cs)
    <3>1. PICK off \in Int : off = Len(wire)
      BY <2>9
    <3>2. off + Len(pending) <= at[n + 1] /\ Fits(pending, off, at, first, Encoded)
      BY <2>9, <2>10, <2>11, <3>1
    <3>3. Fits(pending, off, ext, first, cs)
      BY <1>4, <2>3, <2>7, <2>9, <3>2, ExtendFits
    <3> QED
      BY <3>1, <3>3
  <2>14. Fits(b, Len(wire) + Len(pending), ext, first, cs)
    <3>1. n + 1 \in Nat \ {0} /\ first \in 1..n + 1
      BY <1>4, <2>3
    <3>2. \A k \in 1..Len(b) : b[k] = cs[n + 1][0 + k]
      BY <1>6, <2>5
    <3>3. Fits(b, ext[n + 1] + 0, ext, first, cs)
      BY <2>5, <2>8, <2>9, <3>1, <3>2, LastFits
    <3> QED
      BY <2>11, <3>3
  <2>15. /\ Len(wire') + Len(pending') = Len(wire) + Len(pending) + Len(b)
         /\ Fits(wire', 0, ext, first, cs) /\ Fits(pending', Len(wire'), ext, first, cs)
    <3>1. Write(b)
      BY <1>2, <1>6
    <3> QED
      BY <1>1, <1>4, <2>8, <2>12, <2>13, <2>14, <3>1, WriteFits DEF WriterInv
  <2>16. /\ Len(wire') + Len(pending') + Owed' = ext[n + 2]
         /\ Len(wire') <= ext[n + 2]
    <3>1. PICK x \in Nat, y \in Nat : x = Len(wire') /\ y = Len(pending')
      BY <1>14 DEF TypeOK
    <3>2. PICK a \in Int, l \in Nat, m \in Nat : a = at[n + 1] /\ l = Len(b) /\ m = Len(d)
      BY <2>9, <2>11
    <3>3. x + y = a + l /\ ext[n + 2] = a + (l + m)
      BY <1>6, <2>6, <2>11, <2>15, <3>1, <3>2
    <3>4. x + y + m = a + (l + m) /\ x <= a + (l + m)
      BY <3>3
    <3> QED
      BY <1>9, <3>1, <3>2, <3>3, <3>4
  <2>17. Consumed' = Consumed /\ ext[first] = -Consumed
    BY <2>3, <2>6, WriterFrame
  <2>18. Len(received') + 1 = first /\ Len(sent') + 1 = n + 2
    BY <1>4, <1>5 DEF readerVars
  <2>19. StreamLaidOut(ext)'
    BY <2>8, <2>15, <2>16, <2>17, <2>18 DEF StreamLaidOut, cs
  <2> QED
    BY <2>6, <2>19 DEF StreamInv
<1>11. ReaderInv'
  <2>1. \A i \in 1..n : sent'[i] = sent[i]
    BY <1>5
  <2>2. Len(received) < n => Len(received) + 1 \in 1..n
    BY <1>4
  <2> QED
    BY <1>1, <1>4, <1>5, <2>1, <2>2, WriterFrame DEF ReaderInv, readerVars
<1>12. DeliveredInv'
  <2>1. \A i \in 1..Len(received) : i \in 1..n
    BY <1>4
  <2> QED
    BY <1>1, <1>5, <2>1, WriterFrame DEF DeliveredInv, readerVars
<1>13. OnlySmallBuffersFail'
  <2>1. rpc = "failed" => Len(received) + 1 \in 1..n
    BY <1>1, <1>2, <1>4 DEF ReaderInv
  <2> QED
    BY <1>1, <1>5, <2>1 DEF OnlySmallBuffersFail, readerVars
<1> QED
  BY <1>11, <1>12, <1>13, <1>14, <1>15, <1>16 DEF IInv

(* The payload of the last packet follows its header.                      *)
LEMMA WritePayloadIInv ==
  ASSUME IInv, UNCHANGED <<side, broken, readerVars>>, NEW w \in Writers, WritePayload(w)
  PROVE  IInv'
<1> DEFINE p == job[w].packet n == Len(sent) first == Len(received) + 1 h == FixedLen + NameLen
<1>1. TypeOK /\ WriterInv /\ ReaderInv /\ StreamInv /\ DeliveredInv /\ OnlySmallBuffersFail
  BY DEF IInv
<1>2. /\ wpc[w] = "payload" /\ ~broken /\ Write(p.data) /\ sent' = sent /\ job' = job
      /\ wpc' = [wpc EXCEPT ![w] = "flush"]
  BY DEF WritePayload
<1>3. /\ n \in Nat /\ n > 0 /\ sent[n] = p /\ p \in Packets /\ ~job[w].shared
      /\ \A v \in Writers : wpc[v] # "idle" => v = w
  <2>1. sent \in Seq(Packets) /\ p \in Packets
    BY <1>1 DEF TypeOK
  <2>2. n \in Nat
    BY <2>1
  <2>3. wpc[w] # "idle"
    BY <1>2
  <2>4. n > 0 /\ sent[n] = p /\ ~job[w].shared
    BY <1>1, <1>2 DEF WriterInv
  <2>5. \A v \in Writers : wpc[v] # "idle" => v = w
    BY <1>1, <2>3, <2>4 DEF WriterInv
  <2> QED
    BY <2>1, <2>2, <2>4, <2>5
<1>4. p.data \in Seq(Nat) /\ Len(p.data) \in Nat /\ Payload(p) = p.data /\ h \in Nat
  <2>1. ~ICMP
    BY <1>1, <1>2, <1>3 DEF WriterInv
  <2>2. p.data \in Seq(Nat)
    BY <1>3, PacketIs
  <2>3. Len(p.data) \in Nat
    BY <2>2
  <2>4. Payload(p) = p.data
    BY <2>1 DEF Payload
  <2>5. h \in Nat
    BY LensAre
  <2> QED
    BY <2>2, <2>3, <2>4, <2>5
<1>5. Owed = Len(p.data) /\ Owed' = 0
  <2>1. \A v \in Writers : wpc'[v] # "payload"
    BY <1>1, <1>2, <1>3 DEF TypeOK
  <2> QED
    BY <1>2, <1>3, <2>1 DEF Owed
<1>6. TypeOK'
  <2>1. wire' \in Seq(Nat) /\ pending' \in Seq(Nat)
    <3>1. wire \in Seq(Nat) /\ pending \in Seq(Nat)
      BY <1>1 DEF TypeOK
    <3> QED
      BY <1>2, <1>4, <3>1, ConcatIs DEF Write
  <2> QED
    BY <1>1, <1>2, <2>1 DEF TypeOK, readerVars
<1>7. WriterInv'
  <2>1. FrontHeadroom' = FrontHeadroom /\ ICMP' = ICMP
    BY WriterFrame
  <2>2. side \in {"client", "ping"} => pending' = <<>>
    BY <1>1, <1>2 DEF Write, WriterInv
  <2> QED
    BY <1>1, <1>2, <1>3, <2>1, <2>2 DEF WriterInv, TypeOK
<1>8. ReaderInv'
  BY <1>1, <1>2, WriterFrame DEF ReaderInv, readerVars
<1>9. StreamInv'
  <2>1. SUFFICES ASSUME rpc # "failed" PROVE StreamInv'
    BY DEF StreamInv, readerVars
  <2>2. PICK at \in Seq(Int) : StreamLaidOut(at)
    BY <1>1, <2>1 DEF StreamInv
  <2>3. /\ Len(at) = n + 1 /\ Spaced(at, first, Encoded) /\ first \in 1..n + 1 /\ first \in Nat \ {0}
        /\ Encoded \in Seq(Seq(Nat)) /\ Len(Encoded) = n /\ Encoded[n] = Bytes(p) /\ n \in 1..n
    <3>1. /\ Len(at) = n + 1 /\ Spaced(at, first, Encoded) /\ Len(received) \in Nat
          /\ Len(received) <= n
      BY <1>1, <2>2, LayoutIs
    <3>2. first \in 1..n + 1 /\ first \in Nat \ {0} /\ n \in 1..n
      BY <1>3, <3>1
    <3>3. Encoded \in Seq(Seq(Nat)) /\ Len(Encoded) = n /\ Encoded[n] = Bytes(sent[n])
      BY <1>1, <3>2, EncodedIs
    <3> QED
      BY <1>3, <3>1, <3>2, <3>3
  <2>4. /\ wire \in Seq(Nat) /\ pending \in Seq(Nat) /\ Len(wire) \in Nat /\ Len(pending) \in Nat
    BY <1>1 DEF TypeOK
  <2>5. /\ Fits(wire, 0, at, first, Encoded) /\ Fits(pending, Len(wire), at, first, Encoded)
        /\ Len(wire) + Len(pending) + Owed = at[n + 1]
    BY <1>2, <2>2 DEF StreamLaidOut
  <2>6. /\ Len(Bytes(p)) = h + Len(p.data)
        /\ \A k \in 1..Len(p.data) : Encoded[n][h + k] = p.data[k]
    <3>1. /\ Len(Bytes(p)) = FixedLen + NameLen + Len(Payload(p))
          /\ \A k \in 1..Len(Payload(p)) : Bytes(p)[FixedLen + NameLen + k] = Payload(p)[k]
      <4> HIDE DEF p
      <4> QED
        BY <1>1, <1>3, BytesAre
    <3>2. Payload(p) = p.data /\ Encoded[n] = Bytes(p)
      BY <1>4, <2>3
    <3> QED
      BY <3>1, <3>2
  <2>7. Fits(p.data, Len(wire) + Len(pending), at, first, Encoded)
    <3>1. CASE first = n + 1
      BY <1>3, <2>3, <3>1 DEF Fits
    <3>2. CASE first \in 1..n
      <4>1. at[n + 1] = at[n] + Len(Encoded[n]) /\ at[n] \in Int
        BY <1>3, <2>3, <3>2 DEF Spaced
      <4>2. PICK x \in Nat, y \in Nat, l \in Nat, g \in Nat, a \in Int :
              x = Len(wire) /\ y = Len(pending) /\ l = Len(p.data) /\ g = h /\ a = at[n]
        BY <1>4, <2>4, <4>1, Zenon
      <4>3. x + y + l = a + (g + l)
        BY <1>5, <2>3, <2>5, <2>6, <4>1, <4>2
      <4>4. x + y = a + g
        BY <4>3
      <4>5. Fits(p.data, at[n] + h, at, first, Encoded)
        <5>1. PICK d \in Seq(Nat), o \in Nat : d = p.data /\ o = h
          BY <1>4
        <5>2. n \in Nat \ {0} /\ Len(d) \in Nat
          BY <1>3, <5>1
        <5>3. \A k \in 1..Len(d) : d[k] = Encoded[n][o + k]
          BY <2>6, <5>1
        <5>4. Fits(d, at[n] + o, at, first, Encoded)
          BY <2>3, <3>2, <5>2, <5>3, LastFits
        <5> QED
          BY <5>1, <5>4
      <4> QED
        BY <4>2, <4>4, <4>5
    <3> QED
      BY <1>3, <2>3, <3>1, <3>2
  <2>8. /\ Len(wire') + Len(pending') = Len(wire) + Len(pending) + Len(p.data)
        /\ Fits(wire', 0, at, first, Encoded) /\ Fits(pending', Len(wire'), at, first, Encoded)
    BY <1>1, <1>2, <1>4, <2>3, <2>5, <2>7, WriteFits DEF WriterInv
  <2>9. Len(wire') + Len(pending') + Owed' = at[n + 1] /\ Len(wire') <= at[n + 1]
    <3>1. PICK x \in Nat, y \in Nat : x = Len(wire') /\ y = Len(pending')
      BY <1>6 DEF TypeOK
    <3>2. PICK u \in Nat, v \in Nat, l \in Nat : u = Len(wire) /\ v = Len(pending) /\ l = Len(p.data)
      BY <1>4, <2>4
    <3>3. x + y = u + v + l /\ at[n + 1] = u + v + l
      BY <1>5, <2>5, <2>8, <3>1, <3>2
    <3>4. x + y + 0 = u + v + l /\ x <= u + v + l
      BY <3>3
    <3> QED
      BY <1>5, <3>1, <3>3, <3>4
  <2>10. Encoded' = Encoded /\ Consumed' = Consumed /\ at[first] = -Consumed
    BY <1>1, <1>2, <2>2, WriterFrame, LayoutIs DEF Encoded
  <2>11. StreamLaidOut(at)'
    BY <1>2, <2>3, <2>8, <2>9, <2>10 DEF StreamLaidOut, readerVars
  <2> QED
    BY <2>11 DEF StreamInv
<1>10. DeliveredInv'
  BY <1>1, <1>2, WriterFrame DEF DeliveredInv, readerVars
<1>11. OnlySmallBuffersFail'
  BY <1>1, <1>2 DEF OnlySmallBuffersFail, readerVars
<1> QED
  BY <1>6, <1>7, <1>8, <1>9, <1>10, <1>11 DEF IInv

(* Every writer preserves the invariant.                                   *)
LEMMA WriterIInv == ASSUME IInv, NEW w \in Writers, WriterStep(w) PROVE IInv'
<1>1. UNCHANGED <<side, broken, readerVars>>
  BY DEF WriterStep
<1>2. CASE WriteFails(w)
  BY <1>1, <1>2, StopIInv DEF WriteFails
<1>3. CASE Unresolved(w)
  BY <1>1, <1>3, StopIInv DEF Unresolved
<1> QED
  BY <1>1, <1>2, <1>3, BeginIInv, WriteFirstIInv, WritePayloadIInv, FlushIInv DEF WriterStep

(* A stream that breaks loses what was under way, from some byte on.       *)
LEMMA BreakIInv == IInv /\ Break => IInv'
<1> SUFFICES ASSUME IInv, Break PROVE IInv'
  OBVIOUS
<1>1. TypeOK /\ WriterInv /\ ReaderInv /\ StreamInv /\ DeliveredInv /\ OnlySmallBuffersFail
  BY DEF IInv
<1>2. PICK n \in 0..Len(wire) : wire' = SubSeq(wire, 1, n)
  BY DEF Break
<1>3. broken' = TRUE /\ UNCHANGED <<side, writerVars, readerVars>>
  BY DEF Break
<1>4. wire \in Seq(Nat) /\ Len(wire) \in Nat
  BY <1>1 DEF TypeOK
<1>5. wire' \in Seq(Nat) /\ Len(wire') = n
  <2>1. SubSeq(wire, 1, n) \in Seq(Nat)
    BY <1>4
  <2>2. Len(SubSeq(wire, 1, n)) = n
    BY <1>4
  <2> QED
    BY <1>2, <2>1, <2>2
<1>6. TypeOK'
  BY <1>1, <1>3, <1>5 DEF TypeOK, writerVars, readerVars
<1>7. WriterInv'
  BY <1>1, <1>3, SameWriters
<1>8. ReaderInv'
  BY <1>1, <1>3, ReaderFrame DEF ReaderInv, writerVars, readerVars, ICMP, Fixed
<1>9. StreamInv'
  <2>1. SUFFICES ASSUME rpc # "failed" PROVE StreamInv'
    BY <1>3 DEF StreamInv, readerVars
  <2>2. PICK at \in Seq(Int) : StreamLaidOut(at)
    BY <1>1, <2>1 DEF StreamInv
  <2>3. /\ Spaced(at, Len(received) + 1, Encoded) /\ Fits(wire, 0, at, Len(received) + 1, Encoded)
        /\ at[Len(received) + 1] = -Consumed /\ Len(wire) <= at[Len(sent) + 1]
    BY <2>2 DEF StreamLaidOut
  <2>4. Fits(wire', 0, at, Len(received) + 1, Encoded)
    BY <1>2, <1>4, <2>3, CutFits
  <2>5. Len(wire') <= at[Len(sent) + 1]
    <3>1. at[Len(sent) + 1] \in Int
      <4>1. at \in Seq(Int) /\ Len(at) = Len(sent) + 1 /\ Len(sent) \in Nat
        BY <1>1, <2>2, LayoutIs
      <4> QED
        BY <4>1
    <3> QED
      BY <1>4, <1>5, <2>3, <3>1
  <2>6. Encoded' = Encoded /\ Consumed' = Consumed
    BY <1>3, ReaderFrame, WriterFrame
  <2>7. StreamLaidOut(at)'
    BY <1>3, <2>3, <2>4, <2>5, <2>6 DEF StreamLaidOut, writerVars, readerVars
  <2> QED
    BY <2>7 DEF StreamInv
<1>10. DeliveredInv'
  BY <1>1, <1>3, ReaderFrame DEF DeliveredInv, writerVars, readerVars
<1>11. OnlySmallBuffersFail'
  BY <1>3 DEF OnlySmallBuffersFail
<1> QED
  BY <1>6, <1>7, <1>8, <1>9, <1>10, <1>11 DEF IInv

-----------------------------------------------------------------------------
(* The initial state satisfies the inductive invariant.                    *)
LEMMA InitIInv == Init => IInv
<1> SUFFICES ASSUME Init PROVE IInv
  OBVIOUS
<1>1. /\ sent = <<>> /\ received = <<>> /\ wire = <<>> /\ pending = <<>> /\ rpc = "idle" /\ broken = FALSE
      /\ \A w \in Writers : wpc[w] = "idle"
  BY DEF Init
<1>2. TypeOK
  <2>1. NoJob.packet.addr \in Addresses
    BY NoJobIs, PacketIs
  <2>2. /\ side \in {"client", "server", "ping", "pong"} /\ broken \in BOOLEAN
        /\ wpc \in [Writers -> {"idle", "write", "payload", "flush"}]
        /\ rpc \in {"idle", "header", "payload", "failed"}
    BY DEF Init
  <2>3. job \in [Writers -> [packet : Packets, shared : BOOLEAN, room : Nat]]
    BY NoJobIs DEF Init
  <2>4. pending \in Seq(Nat) /\ wire \in Seq(Nat)
    BY <1>1
  <2>5. header \in [len : Nat, addr : Addresses, name : Nat]
    BY <2>1 DEF Init
  <2>6. sent \in Seq(Packets)
    BY <1>1
  <2>7. received \in Seq([addr : Addresses, data : Seq(Nat)])
    <3>1. <<>> \in Seq([addr : Addresses, data : Seq(Nat)])
      BY EmptySeq
    <3> QED
      BY <1>1, <3>1, Zenon
  <2> QED
    BY <2>2, <2>3, <2>4, <2>5, <2>6, <2>7 DEF TypeOK
<1>3. WriterInv
  BY <1>1 DEF WriterInv
<1>4. ReaderInv
  BY <1>1 DEF ReaderInv
<1>5. StreamInv
  <2>1. PICK at \in Seq(Int) : Len(at) = 1 /\ at[1] = 0
    <3>1. <<0>> \in Seq(Int) /\ Len(<<0>>) = 1 /\ <<0>>[1] = 0
      OBVIOUS
    <3> QED
      BY <3>1
  <2>2. Len(sent) = 0 /\ Len(received) = 0 /\ Len(wire) = 0 /\ Len(pending) = 0 /\ Consumed = 0 /\ Owed = 0
    BY <1>1 DEF Consumed, Owed
  <2>3. Len(Encoded) = 0
    BY <1>2, <2>2, EncodedIs
  <2>4. Spaced(at, 1, Encoded)
    BY <2>1, <2>3 DEF Spaced
  <2>5. Fits(wire, 0, at, 1, Encoded) /\ Fits(pending, 0, at, 1, Encoded)
    BY <2>3 DEF Fits
  <2>6. StreamLaidOut(at)
    BY <2>1, <2>2, <2>4, <2>5 DEF StreamLaidOut
  <2> QED
    BY <2>6 DEF StreamInv
<1>6. DeliveredInv /\ OnlySmallBuffersFail
  BY <1>1 DEF DeliveredInv, OnlySmallBuffersFail
<1> QED
  BY <1>2, <1>3, <1>4, <1>5, <1>6 DEF IInv

(* Every step preserves it.                                                *)
LEMMA NextIInv == IInv /\ [Next]_vars => IInv'
<1> SUFFICES ASSUME IInv, [Next]_vars PROVE IInv'
  OBVIOUS
<1>1. CASE Next
  BY <1>1, BreakIInv, ReaderIInv, WriterIInv DEF Next
<1>2. CASE UNCHANGED vars
  <2>1. UNCHANGED <<side, broken, readerVars, pending, sent, wire, wpc, job>>
    BY <1>2 DEF vars, writerVars
  <2>2. WriterInv'
    BY <2>1, SameWriters DEF IInv, writerVars
  <2>3. Owed' = Owed
    BY <2>1 DEF Owed
  <2> QED
    BY <2>1, <2>2, <2>3, QuietIInv DEF IInv, TypeOK
<1> QED
  BY <1>1, <1>2

(* The inductive invariant holds for any number of writers and packets.    *)
THEOREM Invariance == Spec => []IInv
BY InitIInv, NextIInv, PTL DEF Spec

(* TypeOK: no goroutine leaves its program, whatever is written.           *)
THEOREM TypeCorrect == Spec => []TypeOK
<1>1. IInv => TypeOK
  BY DEF IInv
<1> QED
  BY <1>1, Invariance, PTL

(* ArriveWhole: what ReadPacket returns is what WritePacket or WriteTo was *)
(* given, in the order of the first Write of each, for every packet and    *)
(* name, however many goroutines write and wherever the stream breaks.     *)
THEOREM DatagramsArriveWhole == Spec => []ArriveWhole
<1>1. IInv => ArriveWhole
  <2> SUFFICES ASSUME IInv, NEW i \in DOMAIN received
               PROVE  received[i].data = Payload(sent[i]) /\ Pad(received[i].addr) = Pad(sent[i].addr)
    BY DEF ArriveWhole
  <2>1. i \in 1..Len(received)
    BY DEF IInv, TypeOK
  <2>2. received[i] = [addr |-> Parse(Pad(sent[i].addr)), data |-> Payload(sent[i])]
    BY <2>1 DEF IInv, DeliveredInv
  <2> QED
    BY <2>2 DEF Parse, Pad
<1> QED
  BY <1>1, Invariance, PTL

(* AddressKept: the 16 bytes of an address that is in use are read back as *)
(* that address, of its own family.                                        *)
THEOREM AddressesSurvive == Spec => []AddressKept
<1>1. IInv => AddressKept
  <2> SUFFICES ASSUME IInv, NEW i \in DOMAIN received, InUse(sent[i].addr)
               PROVE  received[i].addr = sent[i].addr
    BY DEF AddressKept
  <2>1. i \in 1..Len(received) /\ i \in 1..Len(sent)
    BY DEF IInv, TypeOK, ReaderInv
  <2>2. received[i] = [addr |-> Parse(Pad(sent[i].addr)), data |-> Payload(sent[i])]
    BY <2>1 DEF IInv, DeliveredInv
  <2>3. sent[i] \in Packets
    BY <2>1, EncodedIs DEF IInv
  <2>4. Parse(Pad(sent[i].addr)) = sent[i].addr
    BY <2>3, PacketIs
  <2> QED
    BY <2>2, <2>4
<1> QED
  BY <1>1, Invariance, PTL

(* OnlySmallBuffersFail: the reader is never out of step, so on a stream   *)
(* that works the lengths it reads are never invalid.                      *)
THEOREM ReadsFailForSize == Spec => []OnlySmallBuffersFail
<1>1. IInv => OnlySmallBuffersFail
  BY DEF IInv
<1> QED
  BY <1>1, Invariance, PTL

-----------------------------------------------------------------------------
(* What was written waits for no one but the goroutine that wrote it: as   *)
(* long as the stream works, something is kept back only between a Write   *)
(* and its Flush.                                                          *)
Drained == ~broken /\ pending # <<>> => \E w \in Writers : wpc[w] \in {"payload", "flush"}

(* Every step of a writer preserves that.                                  *)
LEMMA WriterDrained ==
  ASSUME TypeOK, Drained, NEW w \in Writers, WriterStep(w)
  PROVE  Drained'
<1>1. broken' = broken /\ wpc \in [Writers -> {"idle", "write", "payload", "flush"}]
  BY DEF WriterStep, TypeOK
<1>2. CASE WriteTo(w) \/ WritePacket(w)
  <2>1. pending' = pending /\ wpc' = [wpc EXCEPT ![w] = "write"] /\ wpc[w] = "idle"
    BY <1>2 DEF WriteTo, WritePacket, Begin
  <2>2. \A v \in Writers : wpc[v] \in {"payload", "flush"} => wpc'[v] = wpc[v]
    BY <1>1, <2>1
  <2> QED
    BY <1>1, <2>1, <2>2 DEF Drained
<1>3. CASE WriteFirst(w)
  <2>1. wpc'[w] \in {"payload", "flush"}
    BY <1>1, <1>3 DEF WriteFirst
  <2> QED
    BY <2>1 DEF Drained
<1>4. CASE WritePayload(w)
  <2>1. wpc'[w] = "flush"
    BY <1>1, <1>4 DEF WritePayload
  <2> QED
    BY <2>1 DEF Drained
<1>5. CASE Flush(w)
  BY <1>5 DEF Flush, FlushAll, Drained
<1>6. CASE WriteFails(w)
  BY <1>1, <1>6 DEF WriteFails, Drained
<1>7. CASE Unresolved(w)
  <2>1. pending' = pending /\ wpc' = [wpc EXCEPT ![w] = "idle"] /\ wpc[w] = "write"
    BY <1>7 DEF Unresolved
  <2>2. \A v \in Writers : wpc[v] \in {"payload", "flush"} => wpc'[v] = wpc[v]
    BY <1>1, <2>1
  <2> QED
    BY <1>1, <2>1, <2>2 DEF Drained
<1> QED
  BY <1>2, <1>3, <1>4, <1>5, <1>6, <1>7 DEF WriterStep

(* It holds in every state.                                                *)
LEMMA AlwaysDrained == Spec => []Drained
<1>1. Init => Drained
  BY DEF Init, Drained
<1>2. TypeOK /\ Drained /\ [Next]_vars => Drained'
  <2> SUFFICES ASSUME TypeOK, Drained, [Next]_vars PROVE Drained'
    OBVIOUS
  <2>1. CASE Break
    BY <2>1 DEF Break, Drained
  <2>2. CASE ReaderStep
    BY <2>2 DEF ReaderStep, writerVars, Drained
  <2>3. CASE UNCHANGED vars
    BY <2>3 DEF vars, writerVars, Drained
  <2> QED
    BY <2>1, <2>2, <2>3, WriterDrained DEF Next
<1> QED
  BY <1>1, <1>2, TypeCorrect, PTL DEF Spec

(* When nobody writes, the whole packet the reader is in is on the wire.   *)
LEMMA AllOnTheWire ==
  ASSUME IInv, Drained, Busy = {}, ~broken, rpc # "failed", Len(received) < Len(sent)
  PROVE  /\ sent[Len(received) + 1] \in Packets
         /\ Consumed + Len(wire) >= Len(Bytes(sent[Len(received) + 1]))
<1> DEFINE first == Len(received) + 1 end == Len(sent) + 1 p == sent[first]
<1>1. TypeOK /\ WriterInv /\ ReaderInv
  BY DEF IInv
<1>2. \A w \in Writers : wpc[w] = "idle"
  BY DEF Busy
<1>3. pending = <<>> /\ Owed = 0
  BY <1>2 DEF Drained, Owed
<1>4. PICK at \in Seq(Int) : StreamLaidOut(at)
  BY DEF IInv, StreamInv
<1>5. first \in 1..Len(sent) /\ first \in first..Len(sent) /\ end \in first..Len(sent) + 1 /\ first < end
  BY <1>1, <1>4, LayoutIs
<1>6. p \in Packets /\ Encoded[first] = Bytes(p) /\ Len(Encoded) = Len(sent)
  BY <1>1, <1>5, EncodedIs
<1>7. Len(Bytes(p)) \in Nat
  BY <1>1, <1>6, BytesAre
<1>8. at[first] = -Consumed /\ Len(wire) + 0 + 0 = at[end]
  BY <1>3, <1>4 DEF StreamLaidOut
<1>9. at[first] + Len(Encoded[first]) <= at[end]
  BY <1>1, <1>4, <1>5, <1>6, LayoutIs DEF Spaced
<1>10. PICK c \in Nat, l \in Nat, b \in Nat : c = Consumed /\ l = Len(wire) /\ b = Len(Bytes(p))
  BY <1>1, <1>4, <1>7, LayoutIs
<1>11. -c + b <= l
  BY <1>6, <1>8, <1>9, <1>10
<1> QED
  BY <1>6, <1>10, <1>11

(* NothingHeldBack: on a stream that works no read waits for a datagram    *)
(* that was written, once the goroutines that write are done.              *)
THEOREM NothingIsHeldBack == Spec => []NothingHeldBack
<1>1. IInv /\ Drained => NothingHeldBack
  <2> SUFFICES ASSUME IInv, Drained, Busy = {}, ~broken, Waiting, Len(received) # Len(sent)
               PROVE  FALSE
    BY DEF NothingHeldBack
  <2> DEFINE p == sent[Len(received) + 1]
  <2>1. TypeOK /\ ReaderInv /\ rpc # "failed"
    BY DEF IInv, Waiting
  <2>2. Len(received) < Len(sent)
    BY <2>1 DEF TypeOK, ReaderInv
  <2>3. p \in Packets /\ Consumed + Len(wire) >= Len(Bytes(p))
    BY <2>1, <2>2, AllOnTheWire
  <2>4. Len(Bytes(p)) = FixedLen + NameLen + Len(Payload(p)) /\ Len(Payload(p)) \in Nat
    BY <2>1, <2>3, BytesAre
  <2>5. PICK f \in Nat, n \in Nat, d \in Nat, w \in Nat :
          f = FixedLen /\ n = NameLen /\ d = Len(Payload(p)) /\ w = Len(wire)
    <3>1. Len(wire) \in Nat
      BY <2>1 DEF TypeOK
    <3> QED
      BY <2>4, <3>1, LensAre, Zenon
  <2>6. Consumed + w >= f + n + d
    BY <2>3, <2>4, <2>5
  <2>7. CASE rpc = "idle"
    <3>1. Consumed = 0 /\ ~(w >= f)
      BY <2>1, <2>5, <2>7 DEF Waiting, Ready, Consumed, FixedLen, ICMP, TypeOK
    <3> QED
      BY <2>6, <3>1
  <2>8. CASE rpc = "header"
    <3>1. Consumed = f /\ ~(w >= n)
      BY <2>1, <2>5, <2>8 DEF Waiting, Ready, Consumed, ReaderInv
    <3> QED
      BY <2>6, <3>1
  <2>9. CASE rpc = "payload"
    <3>1. Consumed = f + n /\ ~(w >= header.len - Overhead)
      BY <2>5, <2>9 DEF Waiting, Ready, Consumed
    <3>2. Payload(p) = p.data /\ header.len = Fixed + n + d /\ Overhead = Fixed + n
      BY <2>1, <2>5, <2>9 DEF ReaderInv, Payload, Overhead
    <3>3. header.len - Overhead = d
      <4>1. PICK g \in Nat : g = Fixed
        BY DEF Fixed, AddressPortLen
      <4> QED
        BY <3>2, <4>1
    <3> QED
      BY <2>6, <3>1, <3>3
  <2> QED
    BY <2>7, <2>8, <2>9 DEF Waiting
<1> QED
  BY <1>1, Invariance, AlwaysDrained, PTL

-----------------------------------------------------------------------------
(* What was sent, as the abstract channel has it.                          *)
Mapped == [i \in DOMAIN sent |-> Datagram(sent[i], Payload(sent[i]))]

(* One datagram for every packet.                                          *)
LEMMA MappedIs ==
  ASSUME TypeOK
  PROVE  /\ Len(sent) \in Nat /\ DOMAIN sent = 1..Len(sent)
         /\ Len(Mapped) = Len(sent) /\ Mapped = [i \in 1..Len(sent) |-> Mapped[i]]
         /\ \A i \in 1..Len(sent) : Mapped[i] = Datagram(sent[i], Payload(sent[i]))
<1>1. Len(sent) \in Nat /\ DOMAIN sent = 1..Len(sent)
  BY DEF TypeOK
<1> QED
  BY <1>1 DEF Mapped

(* A step of the reader ends it, moves it or delivers a datagram.          *)
LEMMA ReaderStepIs ==
  ASSUME IInv, ReaderStep
  PROVE  /\ rpc # "failed" /\ UNCHANGED <<side, broken, sent>>
         /\ \/ rpc' = "failed" /\ received' = received /\ (broken \/ rpc = "payload")
            \/ rpc' # "failed" /\ received' = received
            \/ rpc' # "failed" /\ \E d : received' = Append(received, d)
<1>1. rpc # "failed" /\ UNCHANGED <<side, broken, sent>>
  BY DEF ReaderStep, writerVars, ReadRecord, ReadFromClient, ReadFromServer, ReadHeader, SkipName,
         ReadPayload
<1>2. CASE ReadRecord
  BY <1>1, <1>2 DEF ReadRecord, ReadFails, GiveUp, Deliver
<1>3. CASE ReadFromClient
  BY <1>1, <1>3 DEF ReadFromClient, ReadHeader, ReadFails, GiveUp
<1>4. CASE ReadFromServer
  BY <1>1, <1>4 DEF ReadFromServer, ReadHeader, ReadFails, GiveUp
<1>5. CASE SkipName
  BY <1>1, <1>5 DEF SkipName, ReadFails, GiveUp
<1>6. CASE ReadPayload
  BY <1>1, <1>6 DEF ReadPayload, ReadFails, GiveUp, Deliver
<1> QED
  BY <1>1, <1>2, <1>3, <1>4, <1>5, <1>6 DEF ReaderStep

(* ChannelSpec: whatever the goroutines do with bytes, headers and buffers *)
(* is a step of the abstract channel or leaves it alone.                   *)
THEOREM ImplementsChannel == Spec => ChannelSpec
<1>1. Init => Channel!Init
  <2> SUFFICES ASSUME Init PROVE Channel!Init
    OBVIOUS
  <2>1. sent = <<>> /\ received = <<>> /\ broken = FALSE /\ rpc = "idle"
    BY DEF Init
  <2>2. Mapped = <<>>
    BY <2>1 DEF Mapped
  <2> QED
    BY <2>1, <2>2 DEF Channel!Init, Mapped
<1>2. IInv /\ IInv' /\ [Next]_vars => [Channel!Next]_(Channel!channelVars)
  <2> SUFFICES ASSUME IInv, IInv', [Next]_vars
               PROVE  Channel!Next \/ UNCHANGED Channel!channelVars
    OBVIOUS
  <2>1. TypeOK /\ TypeOK' /\ ReaderInv /\ ReaderInv' /\ DeliveredInv' /\ OnlySmallBuffersFail'
    BY DEF IInv
  <2>2. ASSUME UNCHANGED <<side, sent>> PROVE Mapped' = Mapped
    BY <2>2 DEF Mapped, Datagram, Payload, ICMP
  <2>3. ASSUME UNCHANGED <<side, sent, received, broken, rpc>> PROVE UNCHANGED Channel!channelVars
    BY <2>2, <2>3 DEF Channel!channelVars, Mapped
  <2>4. CASE Break
    <3>1. ~broken /\ broken' = TRUE /\ UNCHANGED <<side, sent, received, rpc>>
      BY <2>4 DEF Break, writerVars, readerVars
    <3> QED
      BY <2>2, <3>1 DEF Channel!Next, Channel!Break, Mapped
  <2>5. CASE ReaderStep
    <3>1. rpc # "failed" /\ UNCHANGED <<side, broken, sent>> /\ Mapped' = Mapped
      BY <2>2, <2>5, ReaderStepIs
    <3>2. CASE rpc' = "failed" /\ received' = received /\ (broken \/ rpc = "payload")
      <4>1. ASSUME ~broken
            PROVE  Len(received) < Len(Mapped)
                   /\ \E cap \in Caps : Len(Mapped[Len(received) + 1].data) > cap
        <5>1. ~ICMP /\ Len(received) < Len(sent)
          BY <2>1, <3>2, <4>1 DEF ReaderInv
        <5>2. \E cap \in Caps : Len(sent[Len(received) + 1].data) > cap
          BY <2>1, <3>1, <3>2, <4>1 DEF OnlySmallBuffersFail
        <5>3. Len(received) + 1 \in 1..Len(sent)
          BY <2>1, <5>1 DEF TypeOK
        <5>4. Mapped[Len(received) + 1].data = sent[Len(received) + 1].data /\ Len(Mapped) = Len(sent)
          BY <2>1, <5>1, <5>3, MappedIs DEF Datagram, Payload
        <5> QED
          BY <5>1, <5>2, <5>4
      <4>2. Channel!GiveUp
        BY <3>1, <3>2, <4>1 DEF Channel!GiveUp, Channel!Pending, Channel!Oldest, Mapped
      <4> QED
        BY <4>2 DEF Channel!Next
    <3>3. CASE rpc' # "failed" /\ received' = received
      BY <2>3, <3>1, <3>3 DEF Channel!channelVars, Mapped
    <3>4. CASE rpc' # "failed" /\ \E d : received' = Append(received, d)
      <4>1. PICK d : received' = Append(received, d)
        BY <3>4
      <4>2. Len(received) \in Nat /\ Len(received') = Len(received) + 1
            /\ received'[Len(received) + 1] = d
        BY <2>1, <4>1 DEF TypeOK
      <4>3. Len(received) + 1 \in 1..Len(sent) /\ Len(received) + 1 \in 1..Len(received')
        BY <2>1, <3>1, <4>2 DEF ReaderInv, TypeOK
      <4>4. d = Datagram(sent[Len(received) + 1], Payload(sent[Len(received) + 1]))
        BY <2>1, <3>1, <4>2, <4>3 DEF DeliveredInv, Datagram, Payload, ICMP
      <4>5. Mapped[Len(received) + 1] = d /\ Len(received) < Len(Mapped)
        BY <2>1, <4>2, <4>3, <4>4, MappedIs
      <4>6. Channel!Receive
        BY <3>1, <3>4, <4>1, <4>5 DEF Channel!Receive, Channel!Pending, Channel!Oldest, Mapped
      <4> QED
        BY <4>6 DEF Channel!Next
    <3> QED
      BY <2>5, <3>2, <3>3, <3>4, ReaderStepIs
  <2>6. ASSUME NEW w \in Writers, WriterStep(w) PROVE Channel!Next \/ UNCHANGED Channel!channelVars
    <3>1. UNCHANGED <<side, broken, received, rpc>>
      BY <2>6 DEF WriterStep, readerVars
    <3>2. CASE WriteFirst(w)
      <4> DEFINE p == job[w].packet
      <4>1. ~broken /\ sent' = Append(sent, p) /\ p \in Packets /\ sent \in Seq(Packets)
        BY <2>1, <3>2 DEF WriteFirst, TypeOK
      <4> HIDE DEF p
      <4> DEFINE d == Datagram(p, Payload(p))
      <4>2. d \in {Datagram(q, q.data) : q \in Packets} \cup {Datagram(q, <<>>) : q \in Packets}
        BY <4>1 DEF Payload
      <4>3. Mapped' = Append(Mapped, d)
        <5>1. Mapped' = [i \in 1..Len(sent) + 1 |-> Datagram(sent'[i], Payload(sent'[i]))]
          BY <3>1, <4>1 DEF Mapped, Datagram, Payload, ICMP
        <5>2. Len(sent) \in Nat /\ Mapped = [i \in 1..Len(sent) |-> Datagram(sent[i], Payload(sent[i]))]
          BY <4>1 DEF Mapped
        <5>3. \A i \in 1..Len(sent) : sent'[i] = sent[i]
          BY <4>1
        <5>4. sent'[Len(sent) + 1] = p
          BY <4>1
        <5> QED
          BY <5>1, <5>2, <5>3, <5>4
      <4>4. Channel!Send
        BY <3>1, <4>1, <4>2, <4>3 DEF Channel!Send, Mapped
      <4> QED
        BY <4>4 DEF Channel!Next
    <3>3. CASE ~WriteFirst(w)
      <4>1. sent' = sent
        BY <2>6, <3>3 DEF WriterStep, WriteTo, WritePacket, Begin, WritePayload, Flush, WriteFails,
                          Unresolved
      <4> QED
        BY <2>3, <3>1, <4>1
    <3> QED
      BY <3>2, <3>3
  <2>7. CASE UNCHANGED vars
    BY <2>3, <2>7 DEF vars, writerVars, readerVars
  <2> QED
    BY <2>4, <2>5, <2>6, <2>7 DEF Next
<1> QED
  BY <1>1, <1>2, Invariance, PTL DEF Spec, ChannelSpec, Channel!Spec
=============================================================================
