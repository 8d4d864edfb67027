------------------------------- MODULE TTURL -------------------------------
(***************************************************************************)
(* The links of package tturl: QUIC varints (varint.go), tag-length-value  *)
(* fields, Build and Parse (url.go), the client random prefix              *)
(* (client_random.go), and the configurations the command line turns into  *)
(* links and back (cmd/sing-trusttunnel/url.go).                           *)
(*                                                                         *)
(* A byte is a symbol below Radix; its two highest bits, which quarter of  *)
(* the symbols it is from, tell the length of a varint.  With few symbols  *)
(* every length of varint occurs in short inputs.  A string is a sequence  *)
(* of symbols, a URL a function of its tags.  The base64 around the bytes  *)
(* and the scheme before them are left out.                                *)
(***************************************************************************)
EXTENDS Integers, Sequences, SequencesExt

CONSTANTS
  Quarter,    \* 2^6
  Hex,        \* base of the digits, the symbols below it
  Slash,      \* the symbol between a prefix and its mask
  Https,      \* the symbol for "https://"
  MaxPrefix,  \* maxRandomPrefixLen
  Urls,       \* the links to build
  Configs,    \* configurations of a client
  Unknown,    \* fields of later versions: <<tag, value>>
  Raw         \* what else is parsed

Radix == 4 * Quarter

Symbols == 0..Radix - 1

String == Seq(Symbols)

(* Two digits make a byte, and no digit is a slash.                        *)
ASSUME SymbolAssumption ==
  /\ Quarter \in Nat \ {0} /\ Hex \in Nat /\ Hex * Hex = Radix
  /\ Slash \in Symbols /\ Slash >= Hex /\ Https \in Symbols /\ MaxPrefix \in Nat

(* The tags by name, and what readTLV* makes of their values.              *)
Version == 0
Hostname == 1
Addresses == 2
SNI == 3
Username == 5
Password == 6
SkipVerification == 7
Protocol == 9
Prefix == 11
SubscriptionURL == 14
AuthKey == 15

Kind == [t \in (0..15) \ {4} |->
  CASE t = 0 -> "version"       [] t = 2 -> "addresses"
    [] t \in {7, 10} -> "bool"  [] t = 9 -> "protocol"
    [] t = 11 -> "prefix"       [] t = 13 -> "strings"
    [] t = 15 -> "hex"          [] OTHER -> "string"]

Tags == DOMAIN Kind

Zero == [t \in Tags |->
  CASE Kind[t] \in {"version", "protocol"} -> 0
    [] Kind[t] = "bool" -> FALSE
    [] Kind[t] = "prefix" -> [prefix |-> <<>>, mask |-> <<>>]
    [] OTHER -> <<>>]

-----------------------------------------------------------------------------
(* Varints.                                                                *)

Power[k \in 0..7] == IF k = 0 THEN 1 ELSE Radix * Power[k - 1]

ByteLength(code) == <<1, 2, 4, 8>>[code + 1]

MaxVarint(code) == Quarter * Power[ByteLength(code) - 1] - 1

(* Mutant: the largest value of a length is off by one.                    *)
SizeCodeLoose(v) == CHOOSE c \in 0..3 : v <= MaxVarint(c) + 1 /\ \A b \in 0..c-1 : v > MaxVarint(b) + 1

SizeCode(v) == CHOOSE c \in 0..3 : v <= MaxVarint(c) /\ \A b \in 0..c-1 : v > MaxVarint(b)

WriteVarint(v) ==
  LET n == ByteLength(SizeCode(v)) IN
  [i \in 1..n |-> ((v \div Power[n - i]) % Radix) + (IF i = 1 THEN SizeCode(v) * Quarter ELSE 0)]

(* What a read returns: an error or none, a value, and what is left.       *)
Got(v, rest) == [err |-> "none", v |-> v, rest |-> rest]

Failed(e) == [err |-> e, v |-> 0, rest |-> <<>>]

(* Mutant: a varint that is cut off looks like the end of the input.       *)
TruncatedEOF == Failed("EOF")

Truncated == Failed("unexpected EOF")

(* What the first n symbols say, read one by one.                          *)
Value(s, n) ==
  LET value[i \in 1..n] == IF i = 1 THEN s[1] % Quarter ELSE value[i - 1] * Radix + s[i]
  IN  value[n]

ReadVarint(s) ==
  IF s = <<>> THEN Failed("EOF")
  ELSE LET n == ByteLength(s[1] \div Quarter) IN
       IF Len(s) < n THEN Truncated ELSE Got(Value(s, n), SubSeq(s, n + 1, Len(s)))

(* A length, which must not exceed what is left, and as many bytes.        *)
ReadTLVBytes(s) ==
  LET l == ReadVarint(s) IN
  IF l.err # "none" THEN l
  ELSE IF l.v > Len(l.rest) THEN Failed("length")
  ELSE Got(SubSeq(l.rest, 1, l.v), SubSeq(l.rest, l.v + 1, Len(l.rest)))

WithLength(s) == WriteVarint(Len(s)) \o s

-----------------------------------------------------------------------------
(* Values.                                                                 *)

EncodeHex(s) ==
  [i \in 1..2 * Len(s) |-> IF i % 2 = 1 THEN s[(i + 1) \div 2] \div Hex ELSE s[i \div 2] % Hex]

IsHex(s) == Len(s) % 2 = 0 /\ \A i \in DOMAIN s : s[i] < Hex

DecodeHex(s) == [i \in 1..Len(s) \div 2 |-> s[2 * i - 1] * Hex + s[2 * i]]

(* Mutant: a prefix is printed without its mask.                           *)
PrefixMaskless(p) == EncodeHex(p.prefix)

PrefixString(p) ==
  IF p.mask = <<>> THEN EncodeHex(p.prefix) ELSE EncodeHex(p.prefix) \o <<Slash>> \o EncodeHex(p.mask)

(* strings.Cut at the first slash; a mask must not be empty.               *)
ParsePrefix(s) ==
  LET cut == SelectInSeq(s, LAMBDA b : b = Slash)
      parts == IF cut = 0 THEN <<s>> ELSE <<SubSeq(s, 1, cut - 1), SubSeq(s, cut + 1, Len(s))>>
  IN  IF /\ \A i \in DOMAIN parts : IsHex(parts[i]) /\ Len(parts[i]) \div 2 <= MaxPrefix
         /\ cut > 0 => parts[2] # <<>>
      THEN Got([prefix |-> DecodeHex(parts[1]),
                mask |-> IF cut = 0 THEN <<>> ELSE DecodeHex(parts[2])], <<>>)
      ELSE Failed("prefix")

(* readTLVStringArray: an item in every round, as long as there is any     *)
(* left, and every item takes a symbol at least.                           *)
ReadStrings(s) ==
  LET loop[k \in 0..Len(s)] ==
        IF k = 0 THEN Got(<<>>, s)
        ELSE LET before == loop[k - 1]
                 item == ReadTLVBytes(before.rest)
             IN  IF before.rest = <<>> THEN before
                 ELSE IF item.err # "none" THEN Failed("item")
                 ELSE Got(Append(before.v, item.v), item.rest)
  IN  loop[Len(s)]

(* An address is a host and a port, the last symbol, which is not 0.       *)
ValidAddress(a) == Len(a) > 1 /\ a[Len(a)] # 0

(* readTLVFixedBytes for one byte, with its check.                         *)
Byte(s, allowed) == IF Len(s) = 1 /\ s[1] \in allowed THEN Got(s[1], <<>>) ELSE Failed("byte")

(* What parseTag makes of the bytes of a field.                            *)
Decode(t, s) ==
  CASE Kind[t] = "version" -> Byte(s, 0..2)
    [] Kind[t] = "protocol" -> Byte(s, 1..2)
    [] Kind[t] = "bool" -> LET b == Byte(s, Symbols) IN [b EXCEPT !.v = @ # 0]
    [] Kind[t] = "prefix" -> ParsePrefix(s)
    [] Kind[t] = "strings" -> ReadStrings(s)
    [] Kind[t] = "hex" -> IF IsHex(s) THEN Got(DecodeHex(s), <<>>) ELSE Failed("hex")
    [] Kind[t] = "addresses" -> IF ValidAddress(s) THEN Got(s, <<>>) ELSE Failed("address")
    [] OTHER -> Got(s, <<>>)

(* writeTLV                                                                *)
Encode(t, v) ==
  CASE Kind[t] \in {"version", "protocol"} -> <<v>>
    [] Kind[t] = "bool" -> <<IF v THEN 1 ELSE 0>>
    [] Kind[t] = "prefix" -> PrefixString(v)
    [] Kind[t] = "strings" -> FlattenSeq([i \in DOMAIN v |-> WithLength(v[i])])
    [] Kind[t] = "hex" -> EncodeHex(v)
    [] OTHER -> v

-----------------------------------------------------------------------------
(* URLs.                                                                   *)

ApplyDefaults(u) == IF u[Protocol] = 0 THEN [u EXCEPT ![Protocol] = 1] ELSE u

(* A subscription, which is fetched, or all it takes to connect.           *)
RequireValid(u) ==
  /\ u[Version] \in 0..2 /\ u[Protocol] \in 1..2
  /\ IF u[SubscriptionURL] # <<>> THEN u[SubscriptionURL][1] = Https
     ELSE \A t \in {Hostname, Username, Password, Addresses} : u[t] # <<>>
  /\ \A i \in DOMAIN u[Addresses] : ValidAddress(u[Addresses][i])

LowestVersion(u) == IF u[SubscriptionURL] # <<>> \/ u[AuthKey] # <<>> THEN 2 ELSE 1

(* What a link that is built says.                                         *)
Raised(u) ==
  [ApplyDefaults(u) EXCEPT ![Version] = IF @ > LowestVersion(u) THEN @ ELSE LowestVersion(u)]

TLV(t, s) == WriteVarint(t) \o WithLength(s)

(* Fields that Build leaves out.                                           *)
Omitted(t, v) == v = Zero[t] \/ (t = Protocol /\ v = 1)

Order == <<0, 1, 2, 3, 5, 6, 11, 7, 8, 9, 10, 12, 13, 14, 15>>

(* The fields of a link and their bytes, in the order of Build; there may  *)
(* be many addresses.                                                      *)
Entry(t, s) == [tag |-> t, data |-> s]

Fields(t, v) ==
  IF Omitted(t, v) THEN <<>>
  ELSE IF t = Addresses THEN [i \in DOMAIN v |-> Entry(t, v[i])]
  ELSE <<Entry(t, Encode(t, v))>>

Entries(url) == FlattenSeq([i \in DOMAIN Order |-> Fields(Order[i], Raised(url)[Order[i]])])

Bytes(entries) == FlattenSeq([i \in DOMAIN entries |-> TLV(entries[i].tag, entries[i].data)])

(* A URL that is not valid is refused.                                     *)
Build(url) == Bytes(Entries(url))

(* runConfigToURL and the client's runURLToConfig.                         *)
ConfigToURL(c) ==
  [Zero EXCEPT ![Hostname] = c.server, ![Addresses] = <<Append(c.server, c.port)>>,
               ![Username] = c.username, ![Password] = c.password, ![SNI] = c.serverName,
               ![SkipVerification] = c.insecure, ![Protocol] = IF c.quic THEN 2 ELSE 1]

URLToConfig(u) ==
  [server |-> u[Hostname], port |-> IF u[Addresses] = <<>> THEN 0 ELSE Last(u[Addresses][1]),
   username |-> u[Username], password |-> u[Password], serverName |-> u[SNI],
   insecure |-> u[SkipVerification], quic |-> u[Protocol] = 2]

(* Mutant: a server that is always called by its host.                     *)
HostnameOnly(u) == u[Hostname]

(* cmp.Or: the name the client of the link asks for.                       *)
ServerName(u) == IF u[SNI] # <<>> THEN u[SNI] ELSE u[Hostname]

(* The server's runURLToConfig.                                            *)
URLToServerConfig(u) ==
  [serverName |-> ServerName(u), listenQUIC |-> u[Protocol] = 2,
   listenPort |-> IF u[Addresses] = <<>> THEN 0 ELSE Last(u[Addresses][1])]

-----------------------------------------------------------------------------
(* What the fields of a URL may hold.                                      *)
Values(t) ==
  CASE Kind[t] \in {"version", "protocol"} -> 0..2
    [] Kind[t] = "bool" -> BOOLEAN
    [] Kind[t] = "prefix" -> [prefix : String, mask : String]
    [] Kind[t] \in {"strings", "addresses"} -> Seq(String)
    [] OTHER -> String

IsURL(u) == u = [t \in Tags |-> u[t]] /\ \A t \in Tags : u[t] \in Values(t)

(* A length has to fit a varint.                                           *)
Fits(t, v) ==
  /\ Kind[t] \in {"strings", "addresses"} => \A i \in DOMAIN v : Len(v[i]) <= MaxVarint(3)
  /\ t # Addresses => Len(Encode(t, v)) <= MaxVarint(3)

(* A client random prefix that Parse takes; Build takes any.               *)
PrefixFits(u) == Len(u[Prefix].prefix) <= MaxPrefix /\ Len(u[Prefix].mask) <= MaxPrefix

(* What may be read from a link: addresses are complete.                   *)
Readable(u) ==
  /\ PrefixFits(u) /\ \A t \in Tags : Fits(t, u[t])
  /\ \A i \in DOMAIN u[Addresses] : ValidAddress(u[Addresses][i])

Sources == Urls \cup {ConfigToURL(c) : c \in Configs}

(* What there is to build can be written; fields of later versions have    *)
(* tags of their own.                                                      *)
ASSUME SourceAssumption ==
  /\ \A u \in Sources : IsURL(u) /\ \A t \in Tags : Fits(t, u[t])
  /\ Configs \subseteq [server : String, port : Symbols, username : String, password : String,
                        serverName : String, insecure : BOOLEAN, quic : BOOLEAN]
  /\ \A x \in Unknown :
       /\ x[1] \in 0..MaxVarint(3) /\ x[1] \notin Tags
       /\ x[2] \in String /\ Len(x[2]) <= MaxVarint(3)
  /\ Raw \subseteq String

-----------------------------------------------------------------------------
VARIABLES
  mode,    \* where the bytes come from
  origin,  \* the URL they were built from
  rest,    \* the buffer
  url,     \* what was parsed
  status,
  first    \* of a link that is built from a parsed one: that one

vars == <<mode, origin, rest, url, status, first>>

TypeOK ==
  /\ mode \in {"whole", "extended", "cut", "raw", "again"}
  /\ status \in {"parsing", "ok", "refused"}
  /\ rest \in String
  /\ IsURL(origin) /\ IsURL(url) /\ IsURL(first)
  /\ Readable(url) /\ Readable(first)

Origins == {u \in Sources : RequireValid(ApplyDefaults(u))}

Input(m, s) == mode = m /\ rest = s

(* A link; one with a field nobody knows, one cut within a field.          *)
Init ==
  /\ url = Zero /\ status = "parsing" /\ first = Zero
  /\ \/ origin \in Origins /\ Input("whole", Build(origin))
     \/ origin \in Origins /\ \E x \in Unknown, i \in 1..Len(Entries(origin)) + 1 :
          Input("extended", Bytes(InsertAt(Entries(origin), i, Entry(x[1], x[2]))))
     \/ origin \in Origins /\ \E i \in DOMAIN Entries(origin) :
          LET last == Entries(origin)[i]
              field == TLV(last.tag, last.data)
          IN  \E n \in 1..Len(field) - 1 :
                Input("cut", Bytes(SubSeq(Entries(origin), 1, i - 1)) \o SubSeq(field, 1, n))
     \/ origin = Zero /\ \E s \in Raw : Input("raw", s)

(* Addresses add up, of any other field the last one counts.               *)
Set(t, v) == url' = [url EXCEPT ![t] = IF t = Addresses THEN Append(@, v) ELSE v]

(* skipTLV                                                                 *)
AfterUnknown(s) == ReadTLVBytes(s).rest

(* parseTLV and parseTag: one field.                                       *)
ParseTag ==
  LET tag == ReadVarint(rest)
      data == ReadTLVBytes(tag.rest)
  IN  /\ status = "parsing" /\ tag.err # "EOF"
      /\ UNCHANGED <<mode, origin, first>>
      /\ \/ /\ tag.err # "none" \/ data.err # "none"
            /\ status' = "refused" /\ UNCHANGED <<rest, url>>
         \/ /\ tag.err = "none" /\ data.err = "none" /\ tag.v \notin Tags
            /\ rest' = AfterUnknown(tag.rest) /\ UNCHANGED <<url, status>>
         \/ /\ tag.err = "none" /\ data.err = "none" /\ tag.v \in Tags
            /\ LET value == Decode(tag.v, data.v) IN
               IF value.err = "none"
               THEN Set(tag.v, value.v) /\ rest' = data.rest /\ UNCHANGED status
               ELSE status' = "refused" /\ UNCHANGED <<rest, url>>

(* io.EOF where a tag would begin.                                         *)
Finish ==
  /\ status = "parsing" /\ ReadVarint(rest).err = "EOF"
  /\ url' = ApplyDefaults(url)
  /\ status' = IF RequireValid(ApplyDefaults(url)) THEN "ok" ELSE "refused"
  /\ UNCHANGED <<mode, origin, rest, first>>

(* A parsed link is built again, and that one parsed.                      *)
Rebuild ==
  /\ status = "ok" /\ mode # "again"
  /\ mode' = "again" /\ status' = "parsing"
  /\ first' = url /\ url' = Zero /\ rest' = Build(url)
  /\ UNCHANGED origin

Next == ParseTag \/ Finish \/ Rebuild

Spec == Init /\ [][Next]_vars

-----------------------------------------------------------------------------
(* Parse reads what Build wrote, up to the defaults and the version that   *)
(* its fields call for; a field of a later version changes nothing,        *)
(* wherever it stands.  The one thing that Build writes and Parse does not *)
(* read is a client random prefix that is too long, and that it refuses,   *)
(* whatever else the link says.                                            *)
RoundTrip ==
  mode \in {"whole", "extended"}
    => /\ status = "refused" => ~PrefixFits(origin)
       /\ status = "ok" => PrefixFits(origin) /\ url = Raised(origin)

(* varint.go:67: a link that is cut within a field is refused.             *)
CutIsRefused == mode = "cut" => status # "ok"

(* Whatever Parse accepts, of any bytes, Build can write and Parse reads   *)
(* again, and nothing but the version moves.                               *)
SecondIsFirst ==
  mode = "again" => status # "refused" /\ (status = "ok" => url = Raised(first))

(* A client's configuration survives config-to-url and url-to-config, and  *)
(* a server configured from its link has the name, the port and the        *)
(* protocol that the client is going to ask for.                           *)
ConfigSurvives ==
  mode = "whole" /\ status = "ok" =>
    \A c \in Configs : origin = ConfigToURL(c) =>
      /\ URLToConfig(url) = c
      /\ LET server == URLToServerConfig(url) IN
         /\ server.serverName = (IF c.serverName = <<>> THEN c.server ELSE c.serverName)
         /\ server.listenPort = c.port /\ server.listenQUIC = c.quic
=============================================================================
