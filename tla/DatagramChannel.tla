-------------------------- MODULE DatagramChannel --------------------------
(***************************************************************************)
(* What a datagram stream promises its users, without bytes, headers,      *)
(* buffers and flushes: datagrams come out as they went in, one by one and *)
(* in order, none is lost, doubled or joined with another.  A channel that *)
(* breaks takes no more, and may lose what it has.  Reading ends only then *)
(* or at a datagram for which the reader brought too small a buffer.       *)
(***************************************************************************)
EXTENDS Naturals, Sequences

CONSTANTS
  Datagrams,  \* [addr |-> an address, data |-> a sequence]
  Caps        \* room in the buffers of the reader

VARIABLES
  sent,
  received,
  up,       \* the channel works
  reading   \* the reader has seen no error

channelVars == <<sent, received, up, reading>>

Init == sent = <<>> /\ received = <<>> /\ up = TRUE /\ reading = TRUE

Send ==
  /\ up
  /\ \E d \in Datagrams : sent' = Append(sent, d)
  /\ UNCHANGED <<received, up, reading>>

Pending == Len(received) < Len(sent)

Oldest == sent[Len(received) + 1]

Receive ==
  /\ reading /\ Pending
  /\ received' = Append(received, Oldest)
  /\ UNCHANGED <<sent, up, reading>>

(* A datagram is not cut to what the buffer has room for.                  *)
GiveUp ==
  /\ reading
  /\ ~up \/ (Pending /\ \E cap \in Caps : Len(Oldest.data) > cap)
  /\ reading' = FALSE
  /\ UNCHANGED <<sent, received, up>>

Break == up /\ up' = FALSE /\ UNCHANGED <<sent, received, reading>>

Next == Send \/ Receive \/ GiveUp \/ Break

Spec == Init /\ [][Next]_channelVars
=============================================================================
