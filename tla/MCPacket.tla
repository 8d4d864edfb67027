------------------------------ MODULE MCPacket ------------------------------
(* Instances of Packet for TLC. *)
EXTENDS Packet, TLC

P(six, n, data) == [addr |-> [six |-> six, n |-> n], data |-> data]

(* For 0.0.0.2, 0.0.0.1, ::1, ::2 and an address of IPv6 proper, with      *)
(* payloads that could pass for a header.                                  *)
MCPackets == {P(FALSE, 2, <<4, 0, 2, 0>>), P(FALSE, 1, <<3>>), P(TRUE, 1, <<>>),
              P(TRUE, 2, <<>>), P(TRUE, 5, <<3>>)}

(* One symbol more than fits the length field of a name.                   *)
MCName == <<3, 3, 3>>

MCCaps == {2, 4}

Symmetry == Permutations(Writers)
=============================================================================
