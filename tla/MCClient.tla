------------------------------ MODULE MCClient ------------------------------
(* Instances of Client for TLC. *)
EXTENDS Client, TLC

Symmetry == Permutations(Streams) \cup Permutations(Callers)

(* No stream exempts itself: what keeps a connection is keep alone.        *)
PlainInit == Init /\ \A s \in Streams : ~keepSession[s]

PlainSpec == PlainInit /\ [][Next]_vars /\ Fairness

(* One stream may, while the client does not keep its connections.         *)
ExemptInit ==
  /\ Init
  /\ Cardinality({s \in Streams : keepSession[s]}) <= 1
  /\ \A s \in Streams : keepSession[s] => ~keep
  /\ \E c \in Callers : call[c] # "resume"

ExemptSpec == ExemptInit /\ [][Next]_vars
=============================================================================
