------------------------------ MODULE MCTTURL ------------------------------
(* An instance of TTURL for TLC: symbols below 16. *)
EXTENDS TTURL

Plain ==
  [Zero EXCEPT ![Hostname] = <<8>>, ![Addresses] = <<<<8, 1>>>>,
               ![Username] = <<9>>, ![Password] = <<10>>]

Long(n) == [i \in 1..n |-> i % 16]

(* Empty fields and full ones, lengths on both sides of every varint size. *)
MCUrls ==
  {Plain, [Plain EXCEPT ![Version] = 2], [Plain EXCEPT ![SubscriptionURL] = <<7>>],
   [Zero EXCEPT ![SubscriptionURL] = <<7, 8>>],
   [Zero EXCEPT ![SubscriptionURL] = <<8>>], [Plain EXCEPT ![Addresses] = <<>>],
   [Plain EXCEPT ![Addresses] = <<<<8, 1>>, Long(5)>>], [Plain EXCEPT ![Addresses] = <<<<8, 0>>>>],
   [Plain EXCEPT ![Protocol] = 2], [Plain EXCEPT ![Protocol] = 1],
   [Plain EXCEPT ![SkipVerification] = TRUE, ![10] = TRUE],
   [Plain EXCEPT ![AuthKey] = <<0, 15>>], [Plain EXCEPT ![AuthKey] = Long(8)],
   [Plain EXCEPT ![13] = << <<>> >>], [Plain EXCEPT ![13] = << <<7>>, <<>>, Long(4) >>],
   [Plain EXCEPT ![Prefix] = [prefix |-> <<1, 14>>, mask |-> <<>>]],
   [Plain EXCEPT ![Prefix] = [prefix |-> <<1>>, mask |-> <<15, 0>>]],
   [Plain EXCEPT ![Prefix] = [prefix |-> <<>>, mask |-> <<3>>]],
   [Plain EXCEPT ![Prefix] = [prefix |-> <<1, 2, 3>>, mask |-> <<>>]],
   [Plain EXCEPT ![Prefix] = [prefix |-> <<1>>, mask |-> <<15, 0, 2>>]]}
  \cup {[Plain EXCEPT ![8] = Long(n)] : n \in {3, 4, 63, 64}}

MCConfigs ==
  [server : {<<>>, <<8>>, <<8, 0>>}, port : 0..1, username : {<<9>>}, password : {<<>>, <<10>>},
   serverName : {<<>>, <<8>>}, insecure : BOOLEAN, quic : BOOLEAN]

MCUnknown == {<<4, <<>>>>, <<4, <<1>>>>, <<16, <<2, 2, 2, 2>>>>, <<64, <<0>>>>}

(* Every input of three symbols, and fields that may come twice or be bad. *)
RawFields ==
  {TLV(Version, <<0>>), TLV(Version, <<3>>), TLV(Addresses, <<8, 2>>), TLV(Addresses, <<8>>),
   TLV(Protocol, <<2>>), TLV(Protocol, <<0>>),
   TLV(SkipVerification, <<2>>), TLV(SkipVerification, <<1, 1>>),
   TLV(Prefix, <<0, 1, 12, 3, 3>>), TLV(Prefix, <<0, 1, 12>>), TLV(Prefix, <<0>>),
   TLV(13, <<1, 9, 0>>), TLV(13, <<2, 9>>),
   TLV(AuthKey, <<>>), TLV(AuthKey, <<3, 2>>), TLV(AuthKey, <<5, 5>>),
   TLV(SubscriptionURL, <<7>>), TLV(SubscriptionURL, <<>>), <<1, 4, 1, 9>>, <<4, 1, 1, 8>>}

MCRaw ==
  [1..3 -> 0..15] \cup [1..2 -> 0..15]
  \cup {Build(Plain) \o f \o g : f, g \in RawFields}
  \cup {f \o g \o TLV(SubscriptionURL, <<7, 7>>) : f, g \in RawFields}
=============================================================================
