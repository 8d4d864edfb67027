--------------------------- MODULE TTURLProofs ---------------------------
(***************************************************************************)
(* Proofs about TTURL, for every base, every link and every field of a     *)
(* later version.  What is written is read back: varints, lengths, hex,    *)
(* prefixes, lists, the value of every tag (DecodeBack).  The fields of a  *)
(* link make an empty URL into what the link says (EntriesRun), and every  *)
(* state of a parse is within such a run (Following), or has a part of a   *)
(* field left (TornLink); the four invariants follow.                      *)
(*                                                                         *)
(* What needs an induction (SumsExist, ReadsExists and others) states it   *)
(* of a set of naturals (Induction) instead of a predicate.                *)
(***************************************************************************)
EXTENDS TTURL, WellFoundedInduction, SequenceTheorems, TLAPS

(* A set of naturals that is not empty has a least element.                *)
LEMMA Least ==
  ASSUME NEW T, T \subseteq Nat, T # {}
  PROVE  \E x \in T : \A y \in T : x <= y
<1>1. PICK x \in T : \A y \in T : ~ (<<y, x>> \in OpToRel(<, Nat))
  BY NatLessThanWellFounded, WFMin
<1>2. \A y \in T : ~ (y < x)
  BY <1>1 DEF OpToRel
<1> QED
  BY <1>2

(* Induction, of a set instead of a predicate.                             *)
LEMMA Induction ==
  ASSUME NEW T, 0 \in T, \A n \in Nat : n \in T => n + 1 \in T
  PROVE  Nat \subseteq T
<1> SUFFICES ASSUME Nat \ T # {} PROVE FALSE
  OBVIOUS
<1>1. PICK x \in Nat \ T : \A y \in Nat \ T : x <= y
  BY Least
<1>2. x # 0 /\ x - 1 \in Nat /\ x - 1 \notin Nat \ T
  BY <1>1
<1> QED
  BY <1>1, <1>2

(* Induction up to a bound.                                                *)
LEMMA InductionTo ==
  ASSUME NEW T, NEW m \in Nat, 0 \in T, \A n \in 0..m - 1 : n \in T => n + 1 \in T
  PROVE  0..m \subseteq T
<1> DEFINE R == {n \in Nat : n \in 0..m => n \in T}
<1>1. 0 \in R
  OBVIOUS
<1>2. ASSUME NEW n \in Nat, n \in R PROVE n + 1 \in R
  <2>1. CASE n + 1 \in 0..m
    <3>1. n \in 0..m - 1 /\ n \in 0..m
      BY <2>1
    <3>2. n + 1 \in T
      BY <3>1, <1>2
    <3> QED
      BY <3>2
  <2>2. CASE n + 1 \notin 0..m
    BY <2>2
  <2> QED
    BY <2>1, <2>2
<1> HIDE DEF R
<1>3. Nat \subseteq R
  BY <1>1, <1>2, Induction
<1> QED
  BY <1>3 DEF R

(* What a function recursive in its index needs to be well defined: one    *)
(* step after another, from a first value on.                              *)
LEMMA Iterates ==
  ASSUME NEW S, NEW c \in S, NEW n \in Nat, NEW g \in [1..n -> [S -> S]]
  PROVE  \E f \in [0..n -> S] : f[0] = c /\ \A i \in 1..n : f[i] = g[i][f[i - 1]]
<1> DEFINE T == {m \in 0..n : \E f \in [0..m -> S] :
                                f[0] = c /\ \A i \in 1..m : f[i] = g[i][f[i - 1]]}
<1>1. 0 \in T
  <2> DEFINE f == [i \in 0..0 |-> c]
  <2>1. f \in [0..0 -> S] /\ f[0] = c /\ \A i \in 1..0 : f[i] = g[i][f[i - 1]]
    OBVIOUS
  <2> HIDE DEF f
  <2>2. 0 \in 0..n
    OBVIOUS
  <2> QED
    BY <2>1, <2>2
<1>2. ASSUME NEW m \in 0..n - 1, m \in T PROVE m + 1 \in T
  <2>1. PICK f \in [0..m -> S] : f[0] = c /\ \A i \in 1..m : f[i] = g[i][f[i - 1]]
    BY <1>2
  <2> DEFINE h == [i \in 0..m + 1 |-> IF i = m + 1 THEN g[m + 1][f[m]] ELSE f[i]]
  <2>2. m + 1 \in 1..n /\ m \in 0..m
    OBVIOUS
  <2>3. g[m + 1] \in [S -> S] /\ f[m] \in S
    BY <2>2
  <2>4. g[m + 1][f[m]] \in S
    BY <2>3
  <2>5. h \in [0..m + 1 -> S]
    <3>1. \A i \in 0..m + 1 : i # m + 1 => i \in 0..m
      OBVIOUS
    <3> QED
      BY <2>4, <3>1
  <2>6. h[0] = c
    BY <2>1
  <2>7. ASSUME NEW i \in 1..m + 1 PROVE h[i] = g[i][h[i - 1]]
    <3>1. CASE i = m + 1
      <4>1. h[i - 1] = f[m] /\ h[i] = g[m + 1][f[m]]
        BY <3>1
      <4> QED
        BY <3>1, <4>1
    <3>2. CASE i # m + 1
      <4>1. i \in 1..m /\ i \in 0..m + 1 /\ i - 1 \in 0..m + 1 /\ i - 1 # m + 1
        BY <3>2
      <4>2. h[i - 1] = f[i - 1] /\ h[i] = f[i]
        BY <4>1, <3>2
      <4> QED
        BY <4>1, <4>2, <2>1
    <3> QED
      BY <3>1, <3>2
  <2> HIDE DEF h
  <2>8. m + 1 \in 0..n
    OBVIOUS
  <2>9. \E k \in [0..m + 1 -> S] : k[0] = c /\ \A i \in 1..m + 1 : k[i] = g[i][k[i - 1]]
    BY <2>5, <2>6, <2>7
  <2> QED
    BY <2>8, <2>9, Zenon
<1> HIDE DEF T
<1>3. n \in T
  <2>1. 0..n \subseteq T
    BY <1>1, <1>2, InductionTo
  <2> QED
    BY <2>1
<1> QED
  BY <1>3 DEF T

-----------------------------------------------------------------------------
(* Sequences.                                                              *)
(* A sequence by its length and its elements.                              *)
LEMMA IsSeq ==
  ASSUME NEW S, NEW n \in Nat, NEW s \in [1..n -> S]
  PROVE  s \in Seq(S) /\ Len(s) = n
OBVIOUS

(* A sequence of a length.                                                 *)
Sized(s, m, S) == s \in Seq(S) /\ Len(s) = m

(* A concatenation comes apart where it was put together.                  *)
Apart(st, s, t, m, k) ==
  /\ \A i \in 1..m : st[i] = s[i]
  /\ \A i \in 1..k : st[m + i] = t[i]
  /\ SubSeq(st, 1, m) = s /\ SubSeq(st, m + 1, m + k) = t

(* Two sequences joined: the one is where it begins, the other behind it.  *)
LEMMA Joined ==
  ASSUME NEW S, NEW s, NEW t, NEW m \in Nat, NEW k \in Nat, Sized(s, m, S), Sized(t, k, S)
  PROVE  Sized(s \o t, m + k, S) /\ Apart(s \o t, s, t, m, k)
<1>0. s \in Seq(S) /\ Len(s) = m /\ t \in Seq(S) /\ Len(t) = k
  BY DEF Sized
<1>1. /\ s \o t \in Seq(S) /\ Len(s \o t) = m + k
      /\ \A i \in 1..m + k : (s \o t)[i] = IF i <= m THEN s[i] ELSE t[i - m]
  BY <1>0, ConcatProperties
<1>2. PICK st \in Seq(S) : st = s \o t
  BY <1>1
<1>5. /\ Len(st) = m + k
      /\ \A i \in 1..m + k : st[i] = IF i <= m THEN s[i] ELSE t[i - m]
  BY <1>1, <1>2
<1>6. \A i \in 1..m + k : st[i] \in S
  BY <1>0, <1>5, ElementOfSeq
<1>7. /\ SubSeq(st, 1, m) \in Seq(S) /\ Len(SubSeq(st, 1, m)) = m
      /\ \A i \in 1..m : SubSeq(st, 1, m)[i] = st[i]
  <2>1. \A i \in 1..m : st[i] \in S
    BY <1>6
  <2>2. /\ SubSeq(st, 1, m) \in Seq(S)
        /\ Len(SubSeq(st, 1, m)) = IF 1 <= m THEN m - 1 + 1 ELSE 0
        /\ \A i \in 1..m - 1 + 1 : SubSeq(st, 1, m)[i] = st[1 + i - 1]
    BY <2>1, SubSeqProperties
  <2> QED
    BY <2>2
<1>8. /\ SubSeq(st, m + 1, m + k) \in Seq(S) /\ Len(SubSeq(st, m + 1, m + k)) = k
      /\ \A i \in 1..k : SubSeq(st, m + 1, m + k)[i] = st[m + i]
  <2>1. \A i \in m + 1..m + k : st[i] \in S
    BY <1>6
  <2>2. /\ SubSeq(st, m + 1, m + k) \in Seq(S)
        /\ Len(SubSeq(st, m + 1, m + k)) = IF m + 1 <= m + k THEN (m + k) - (m + 1) + 1 ELSE 0
        /\ \A i \in 1..(m + k) - (m + 1) + 1 : SubSeq(st, m + 1, m + k)[i] = st[m + 1 + i - 1]
    BY <2>1, SubSeqProperties
  <2> QED
    BY <2>2
<1>9. SubSeq(st, 1, m) = s
  <2>1. \A i \in 1..m : SubSeq(st, 1, m)[i] = s[i]
    BY <1>7, <1>5
  <2> QED
    BY <1>0, <2>1, <1>7, SeqEqual
<1>10. SubSeq(st, m + 1, m + k) = t
  <2>1. \A i \in 1..k : SubSeq(st, m + 1, m + k)[i] = t[i]
    <3>1. \A i \in 1..k : m + i \in 1..m + k /\ ~ (m + i <= m) /\ (m + i) - m = i
      OBVIOUS
    <3>2. \A i \in 1..k : st[m + i] = t[(m + i) - m]
      BY <3>1, <1>5
    <3>3. \A i \in 1..k : st[m + i] = t[i]
      BY <3>1, <3>2
    <3> QED
      BY <1>8, <3>3
  <2> QED
    BY <1>0, <2>1, <1>8, SeqEqual
<1>11. \A i \in 1..m : st[i] = s[i]
  <2>1. \A i \in 1..m : i \in 1..m + k /\ i <= m
    OBVIOUS
  <2> QED
    BY <2>1, <1>5
<1>12. \A i \in 1..k : st[m + i] = t[i]
  <2>1. \A i \in 1..k : m + i \in 1..m + k /\ ~ (m + i <= m) /\ (m + i) - m = i
    OBVIOUS
  <2>2. \A i \in 1..k : st[m + i] = t[(m + i) - m]
    BY <2>1, <1>5
  <2> QED
    BY <2>1, <2>2
<1> QED
  BY <1>2, <1>5, <1>9, <1>10, <1>11, <1>12 DEF Sized, Apart

(* A part of a sequence.                                                   *)
LEMMA PartOf ==
  ASSUME NEW S, NEW s \in Seq(S), NEW m \in Nat, NEW n \in Nat, m >= 1, n <= Len(s)
  PROVE  /\ SubSeq(s, m, n) \in Seq(S)
         /\ Len(SubSeq(s, m, n)) = IF m <= n THEN n - m + 1 ELSE 0
         /\ \A i \in 1..n - m + 1 : SubSeq(s, m, n)[i] = s[m + i - 1]
<1>1. PICK l \in Nat : l = Len(s)
  BY LenProperties
<1>2. \A i \in m..n : i \in 1..l
  BY <1>1
<1>3. \A i \in m..n : s[i] \in S
  BY <1>1, <1>2, ElementOfSeq
<1> QED
  BY <1>3, SubSeqProperties

(* A sequence is its first n elements and the others.                      *)
LEMMA InTwo ==
  ASSUME NEW S, NEW s \in Seq(S), NEW n \in 0..Len(s)
  PROVE  /\ SubSeq(s, 1, n) \in Seq(S) /\ Len(SubSeq(s, 1, n)) = n
         /\ SubSeq(s, n + 1, Len(s)) \in Seq(S) /\ Len(SubSeq(s, n + 1, Len(s))) = Len(s) - n
         /\ s = SubSeq(s, 1, n) \o SubSeq(s, n + 1, Len(s))
<1>1. PICK l \in Nat : l = Len(s)
  BY LenProperties
<1>2. n \in 0..l /\ n \in Nat /\ n + 1 \in Nat /\ n + 1 >= 1 /\ n <= l
  BY <1>1
<1>3. SubSeq(s, 1, n) \in Seq(S) /\ Len(SubSeq(s, 1, n)) = n
  <2>1. SubSeq(s, 1, n) \in Seq(S) /\ Len(SubSeq(s, 1, n)) = IF 1 <= n THEN n - 1 + 1 ELSE 0
    BY <1>1, <1>2, PartOf
  <2> QED
    BY <2>1, <1>2
<1>4. SubSeq(s, n + 1, l) \in Seq(S) /\ Len(SubSeq(s, n + 1, l)) = l - n
  <2>1. SubSeq(s, n + 1, l) \in Seq(S) /\ Len(SubSeq(s, n + 1, l)) = IF n + 1 <= l THEN l - (n + 1) + 1 ELSE 0
    BY <1>1, <1>2, PartOf
  <2> QED
    BY <2>1, <1>2
<1>5. s = SubSeq(s, 1, n) \o SubSeq(s, n + 1, l)
  <2>1. 1 \in 1..l + 1 /\ n \in 1 - 1..l /\ l \in n..l
    BY <1>2
  <2>2. SubSeq(s, 1, n) \o SubSeq(s, n + 1, l) = SubSeq(s, 1, l)
    BY <2>1, <1>1, ConcatAdjacentSubSeq
  <2> QED
    BY <2>2, <1>1, SubSeqFull
<1> QED
  BY <1>1, <1>3, <1>4, <1>5

(* A sequence of a length is its elements.                                 *)
LEMMA SizedEqual ==
  ASSUME NEW S, NEW s, NEW t, NEW m \in Nat, Sized(s, m, S), Sized(t, m, S), \A i \in 1..m : s[i] = t[i]
  PROVE  s = t
BY SeqEqual DEF Sized

(* The first n elements, and those behind them.                            *)
LEMMA Split ==
  ASSUME NEW S, NEW s, NEW l \in Nat, Sized(s, l, S), NEW n \in Nat, n <= l
  PROVE  /\ Sized(SubSeq(s, 1, n), n, S)
         /\ \A i \in 1..n : SubSeq(s, 1, n)[i] = s[i]
         /\ Sized(SubSeq(s, n + 1, l), l - n, S)
         /\ \A i \in 1..l - n : SubSeq(s, n + 1, l)[i] = s[n + i]
         /\ s = SubSeq(s, 1, n) \o SubSeq(s, n + 1, l)
<1>0. s \in Seq(S) /\ Len(s) = l
  BY DEF Sized
<1>1. n \in 0..Len(s) /\ n + 1 \in Nat /\ n + 1 >= 1 /\ l <= Len(s) /\ 1 \in Nat /\ 1 >= 1 /\ n <= Len(s)
  BY <1>0
<1>2. /\ SubSeq(s, 1, n) \in Seq(S) /\ Len(SubSeq(s, 1, n)) = n
      /\ SubSeq(s, n + 1, l) \in Seq(S) /\ Len(SubSeq(s, n + 1, l)) = l - n
      /\ s = SubSeq(s, 1, n) \o SubSeq(s, n + 1, l)
  BY <1>0, <1>1, InTwo
<1>3. \A i \in 1..n : SubSeq(s, 1, n)[i] = s[i]
  <2>1. \A i \in 1..n - 1 + 1 : SubSeq(s, 1, n)[i] = s[1 + i - 1]
    BY <1>0, <1>1, PartOf
  <2>2. n - 1 + 1 = n /\ \A i \in 1..n : 1 + i - 1 = i
    OBVIOUS
  <2> QED
    BY <2>1, <2>2
<1>4. \A i \in 1..l - n : SubSeq(s, n + 1, l)[i] = s[n + i]
  <2>1. \A i \in 1..l - (n + 1) + 1 : SubSeq(s, n + 1, l)[i] = s[n + 1 + i - 1]
    BY <1>0, <1>1, PartOf
  <2>2. l - (n + 1) + 1 = l - n /\ \A i \in 1..l - n : n + 1 + i - 1 = n + i
    OBVIOUS
  <2> QED
    BY <2>1, <2>2
<1> QED
  BY <1>2, <1>3, <1>4 DEF Sized

(* A concatenation that is cut, in its first part or behind it.            *)
Cuts(c, s, t, n, m) ==
  /\ \A i \in 1..n : i <= m => c[i] = s[i]
  /\ n >= m => c = s \o SubSeq(t, 1, n - m)

(* The beginning of two joined sequences: of the first, or all of it and a *)
(* beginning of the second.                                                *)
LEMMA CutConcat ==
  ASSUME NEW S, NEW s, NEW t, NEW m \in Nat, NEW k \in Nat, Sized(s, m, S), Sized(t, k, S),
         NEW n \in Nat, n <= m + k
  PROVE  Sized(SubSeq(s \o t, 1, n), n, S) /\ Cuts(SubSeq(s \o t, 1, n), s, t, n, m)
<1>1. PICK st : st = s \o t
  OBVIOUS
<1>2. PICK o \in Nat : o = m + k /\ n <= o
  OBVIOUS
<1>3. Sized(st, o, S) /\ (\A i \in 1..m : st[i] = s[i]) /\ \A i \in 1..k : st[m + i] = t[i]
  <2>1. /\ Sized(s \o t, m + k, S) /\ (\A i \in 1..m : (s \o t)[i] = s[i])
        /\ \A i \in 1..k : (s \o t)[m + i] = t[i]
    BY Joined DEF Apart
  <2> QED
    BY <1>1, <1>2, <2>1, Zenon
<1>4. PICK a : a = SubSeq(st, 1, n)
  OBVIOUS
<1>5. Sized(a, n, S) /\ \A i \in 1..n : a[i] = st[i]
  BY <1>2, <1>3, <1>4, Split
<1>6. \A i \in 1..n : i <= m => a[i] = s[i]
  BY <1>3, <1>5
<1>7. ASSUME n >= m PROVE a = s \o SubSeq(t, 1, n - m)
  <2>1. PICK l \in Nat : l = n - m /\ l <= k /\ n = m + l
    <3>1. n - m \in Nat /\ n - m <= k /\ n = m + (n - m)
      BY <1>7
    <3> QED
      BY <3>1
  <2>2. PICK b : b = SubSeq(t, 1, l)
    OBVIOUS
  <2>3. Sized(b, l, S) /\ \A i \in 1..l : b[i] = t[i]
    <3>1. l <= k
      BY <2>1
    <3>2. Sized(SubSeq(t, 1, l), l, S) /\ \A i \in 1..l : SubSeq(t, 1, l)[i] = t[i]
      BY <3>1, Split
    <3> QED
      BY <2>2, <3>2, Zenon
  <2>4. PICK c : c = s \o b
    OBVIOUS
  <2>5. Sized(c, m + l, S) /\ (\A i \in 1..m : c[i] = s[i]) /\ \A i \in 1..l : c[m + i] = b[i]
    BY <2>3, <2>4, Joined DEF Apart
  <2>6. ASSUME NEW i \in 1..n PROVE a[i] = c[i]
    <3>1. CASE i <= m
      BY <1>6, <2>5, <3>1
    <3>2. CASE ~ (i <= m)
      <4>1. PICK j \in 1..l : i = m + j
        <5>1. i - m \in 1..l /\ i = m + (i - m)
          BY <2>1, <3>2
        <5> QED
          BY <5>1
      <4>2. j \in 1..k
        BY <2>1
      <4>3. a[m + j] = t[j] /\ c[m + j] = t[j]
        BY <1>3, <1>5, <2>3, <2>5, <4>1, <4>2
      <4> QED
        BY <4>1, <4>3
    <3> QED
      BY <3>1, <3>2
  <2>7. Sized(c, n, S)
    BY <2>1, <2>5
  <2>8. a = c
    BY <1>5, <2>6, <2>7, SizedEqual
  <2> QED
    BY <2>1, <2>2, <2>4, <2>8
<1> QED
  BY <1>1, <1>4, <1>5, <1>6, <1>7 DEF Cuts

-----------------------------------------------------------------------------
(* FlattenSeq, by its partial sums.                                        *)

(* Concatenation is associative, of sequences of anything.                 *)
LEMMA Assoc == \A S : \A s, t, u \in Seq(S) : (s \o t) \o u = s \o (t \o u)
BY ConcatAssociative

(* What makes putting sequences of Q one after another safe.               *)
Joins(Q) ==
  /\ <<>> \in Q /\ \A x, y \in Q : x \o y \in Q
  /\ \A x \in Q : <<>> \o x = x /\ x \o <<>> = x
  /\ \A x, y, z \in Q : (x \o y) \o z = x \o (y \o z)

(* Sequences can be joined, and joining is associative.                    *)
LEMMA SeqJoins == \A S : Joins(Seq(S))
<1> TAKE S
<1>1. <<>> \in Seq(S) /\ \A x, y \in Seq(S) : x \o y \in Seq(S)
  OBVIOUS
<1>2. \A x \in Seq(S) : <<>> \o x = x /\ x \o <<>> = x
  BY ConcatEmptySeq
<1>3. \A x, y, z \in Seq(S) : (x \o y) \o z = x \o (y \o z)
  BY Assoc
<1> QED
  BY <1>1, <1>2, <1>3, Zenon DEF Joins

(* The first so many of them, one after another.                           *)
Sums(f, ss, n, Q) ==
  f \in [0..n -> Q] /\ f[0] = <<>> /\ \A i \in 1..n : f[i] = f[i - 1] \o ss[i]

(* FlattenSeq is what putting one sequence after another comes to.         *)
LEMMA FlattenIs ==
  ASSUME NEW Q, Joins(Q), NEW ss \in Seq(Q), NEW n \in Nat, n = Len(ss), NEW f, Sums(f, ss, n, Q)
  PROVE  FlattenSeq(ss) = f[n]
<1>1. f \in [0..n -> Q] /\ f[0] = <<>> /\ \A i \in 1..n : f[i] = f[i - 1] \o ss[i] /\ n = Len(ss)
  BY DEF Sums
<1>2. CASE n = 0
  <2>1. ss = <<>>
    BY <1>1, <1>2, EmptySeq
  <2>2. FlattenSeq(ss) = ss
    BY <1>1, <1>2 DEF FlattenSeq
  <2> QED
    BY <2>1, <2>2, <1>1, <1>2
<1>3. CASE n # 0
  <2> DEFINE h == [i \in 1..n |-> f[i]]
  <2>1. \A i \in 1..n : f[i] = IF i = 1 THEN ss[i] ELSE f[i - 1] \o ss[i]
    <3> SUFFICES ASSUME NEW i \in 1..n PROVE f[i] = IF i = 1 THEN ss[i] ELSE f[i - 1] \o ss[i]
      OBVIOUS
    <3>1. CASE i = 1
      <4>1. ss[1] \in Q
        BY <3>1, <1>1, ElementOfSeq
      <4>2. f[1] = f[0] \o ss[1]
        <5>1. i - 1 = 0 /\ i \in 1..Len(ss)
          BY <3>1, <1>1
        <5>2. f[i] = f[i - 1] \o ss[i]
          BY <3>1, <1>1
        <5> QED
          BY <3>1, <5>1, <5>2
      <4>3. <<>> \o ss[1] = ss[1]
        BY <4>1 DEF Joins
      <4> QED
        BY <3>1, <4>2, <4>3, <1>1
    <3>2. CASE i # 1
      BY <3>2, <1>1
    <3> QED
      BY <3>1, <3>2
  <2>2. h = [i \in 1..n |-> IF i = 1 THEN ss[i] ELSE h[i - 1] \o ss[i]]
    <3>1. \A i \in 1..n : i # 1 => h[i - 1] = f[i - 1]
      OBVIOUS
    <3>2. \A i \in 1..n : h[i] = f[i]
      OBVIOUS
    <3>3. h = [i \in 1..n |-> f[i]]
      OBVIOUS
    <3> HIDE DEF h
    <3>4. \A i \in 1..n : f[i] = IF i = 1 THEN ss[i] ELSE h[i - 1] \o ss[i]
      BY <2>1, <3>1
    <3> QED
      BY <3>3, <3>4
  <2> HIDE DEF h
  <2> DEFINE g == CHOOSE g : g = [i \in 1..n |-> IF i = 1 THEN ss[i] ELSE g[i - 1] \o ss[i]]
  <2>3. g = [i \in 1..n |-> IF i = 1 THEN ss[i] ELSE g[i - 1] \o ss[i]]
    BY <2>2, Zenon
  <2>4. FlattenSeq(ss) = g[n]
    BY <1>1, <1>3, Zenon DEF FlattenSeq
  <2> HIDE DEF g
  <2>5. \A i \in 1..n : g[i] = IF i = 1 THEN ss[i] ELSE g[i - 1] \o ss[i]
    BY <2>3, Zenon
  <2> DEFINE T == {i \in 0..n : i # 0 => g[i] = f[i]}
  <2>6. 0 \in T
    OBVIOUS
  <2>7. ASSUME NEW i \in 0..n - 1, i \in T PROVE i + 1 \in T
    <3>1. i + 1 \in 1..n /\ (i + 1) - 1 = i
      OBVIOUS
    <3>2. i + 1 # 1 => g[i] = f[i]
      BY <2>7
    <3>3. g[i + 1] = IF i + 1 = 1 THEN ss[i + 1] ELSE g[i] \o ss[i + 1]
      BY <2>5, <3>1
    <3>4. f[i + 1] = IF i + 1 = 1 THEN ss[i + 1] ELSE f[i] \o ss[i + 1]
      BY <2>1, <3>1
    <3>5. g[i + 1] = f[i + 1]
      BY <3>2, <3>3, <3>4
    <3>6. i + 1 \in 0..n
      BY <3>1
    <3> QED
      BY <3>5, <3>6
  <2> HIDE DEF T
  <2>8. n \in T
    <3>1. 0..n \subseteq T
      BY <2>6, <2>7, InductionTo
    <3> QED
      BY <3>1
  <2> QED
    BY <2>8, <2>4, <1>1, <1>3 DEF T
<1> QED
  BY <1>2, <1>3

(* There are partial sums: what the first i of the parts come to, for      *)
(* every i.                                                                *)
LEMMA SumsExist ==
  ASSUME NEW Q, NEW n \in Nat, NEW ss
  PROVE  Joins(Q) /\ (\A i \in 1..n : ss[i] \in Q) => \E f : Sums(f, ss, n, Q)
<1>1. ASSUME Joins(Q), \A i \in 1..n : ss[i] \in Q PROVE \E f : Sums(f, ss, n, Q)
  <2> DEFINE g == [i \in 1..n |-> [x \in Q |-> x \o ss[i]]]
  <2>1. g \in [1..n -> [Q -> Q]]
    BY <1>1 DEF Joins
  <2>2. \A i \in 1..n : \A x \in Q : g[i][x] = x \o ss[i]
    OBVIOUS
  <2> HIDE DEF g
  <2>3. PICK e \in Q : e = <<>>
    BY <1>1 DEF Joins
  <2>4. PICK f \in [0..n -> Q] : f[0] = e /\ \A i \in 1..n : f[i] = g[i][f[i - 1]]
    BY <2>1, Iterates
  <2>5. \A i \in 1..n : f[i - 1] \in Q
    OBVIOUS
  <2>6. \A i \in 1..n : f[i] = f[i - 1] \o ss[i]
    BY <2>2, <2>4, <2>5
  <2>7. Sums(f, ss, n, Q)
    BY <2>3, <2>4, <2>6 DEF Sums
  <2> QED
    BY <2>7
<1> QED
  BY <1>1

(* FlattenSeq joins its parts in their order: it is the last of the sums.  *)
LEMMA FlattenSums ==
  ASSUME NEW Q, Joins(Q), NEW ss \in Seq(Q), NEW n \in Nat, n = Len(ss)
  PROVE  \E f : Sums(f, ss, n, Q) /\ FlattenSeq(ss) = f[n]
<1>1. \A i \in 1..n : ss[i] \in Q
  BY ElementOfSeq
<1>2. PICK f : Sums(f, ss, n, Q)
  BY <1>1, SumsExist, Zenon
<1>3. FlattenSeq(ss) = f[n]
  BY <1>2, FlattenIs
<1> QED
  BY <1>2, <1>3

(* The result is a sequence; that of no sequences is empty.                *)
LEMMA FlattenType ==
  ASSUME NEW Q, Joins(Q), NEW ss \in Seq(Q)
  PROVE  FlattenSeq(ss) \in Q
<1>1. PICK n \in Nat : n = Len(ss)
  BY LenProperties
<1>2. PICK f : Sums(f, ss, n, Q) /\ FlattenSeq(ss) = f[n]
  BY <1>1, FlattenSums
<1> QED
  BY <1>2 DEF Sums

(* FlattenSeq of no parts.                                                 *)
LEMMA FlattenEmpty == FlattenSeq(<<>>) = <<>>
BY DEF FlattenSeq

(* One sequence more.                                                      *)
LEMMA FlattenAppend ==
  ASSUME NEW Q, Joins(Q), NEW ss \in Seq(Q), NEW s \in Q
  PROVE  FlattenSeq(Append(ss, s)) = FlattenSeq(ss) \o s
<1>1. PICK n \in Nat : n = Len(ss)
  BY LenProperties
<1>0. PICK f : Sums(f, ss, n, Q) /\ FlattenSeq(ss) = f[n]
  BY <1>1, FlattenSums
<1>2. /\ f \in [0..n -> Q] /\ f[0] = <<>> /\ \A i \in 1..n : f[i] = f[i - 1] \o ss[i]
      /\ FlattenSeq(ss) = f[n]
  BY <1>0 DEF Sums
<1>3. PICK tt \in Seq(Q) : tt = Append(ss, s)
  BY AppendProperties
<1>4. Len(tt) = n + 1 /\ tt[n + 1] = s /\ \A i \in 1..n : tt[i] = ss[i]
  BY <1>1, <1>3, AppendProperties
<1> DEFINE h == [i \in 0..n + 1 |-> IF i = n + 1 THEN f[n] \o s ELSE f[i]]
<1>5. h \in [0..n + 1 -> Q]
  <2>1. f[n] \o s \in Q
    <3>1. f[n] \in Q
      BY <1>2
    <3> QED
      BY <3>1 DEF Joins
  <2>2. \A i \in 0..n + 1 : i # n + 1 => i \in 0..n
    OBVIOUS
  <2> QED
    BY <2>1, <2>2, <1>2
<1>6. h[0] = <<>> /\ h[n + 1] = f[n] \o s
  BY <1>2
<1>7. ASSUME NEW i \in 1..n + 1 PROVE h[i] = h[i - 1] \o tt[i]
  <2>1. CASE i = n + 1
    <3>1. h[i] = f[n] \o s /\ h[i - 1] = f[n]
      BY <2>1
    <3> QED
      BY <3>1, <2>1, <1>4
  <2>2. CASE i # n + 1
    <3>1. i \in 1..n /\ i \in 0..n + 1 /\ i - 1 \in 0..n + 1 /\ i - 1 # n + 1
      BY <2>2
    <3>2. h[i] = f[i] /\ h[i - 1] = f[i - 1]
      BY <2>2, <3>1
    <3>3. f[i] = f[i - 1] \o tt[i]
      BY <3>1, <1>2, <1>4
    <3> QED
      BY <3>2, <3>3
  <2> QED
    BY <2>1, <2>2
<1> HIDE DEF h
<1>8. PICK m \in Nat : m = n + 1
  OBVIOUS
<1>9. Sums(h, tt, m, Q)
  BY <1>5, <1>6, <1>7, <1>8 DEF Sums
<1>10. FlattenSeq(tt) = h[m]
  BY <1>4, <1>8, <1>9, FlattenIs
<1> QED
  BY <1>2, <1>3, <1>6, <1>8, <1>10

(* A part that starts at the front, one longer.                            *)
LEMMA OneMore ==
  ASSUME NEW S, NEW s \in Seq(S), NEW n \in 0..Len(s) - 1
  PROVE  /\ SubSeq(s, 1, n) \in Seq(S) /\ s[n + 1] \in S
         /\ SubSeq(s, 1, n + 1) = Append(SubSeq(s, 1, n), s[n + 1])
<1>1. PICK l \in Nat : l = Len(s)
  BY LenProperties
<1>2. /\ n \in 0..l - 1 /\ n \in 0..l /\ 1 \in 1..l /\ n + 1 \in 1..l
      /\ n + 1 \in 1..l /\ (n + 1) - 1 = n
  BY <1>1
<1>3. SubSeq(s, 1, n) \in Seq(S)
  BY <1>1, <1>2, InTwo
<1>4. s[n + 1] \in S
  BY <1>1, <1>2, ElementOfSeq
<1>5. SubSeq(s, 1, n + 1) = SubSeq(s, 1, (n + 1) - 1) \o <<s[n + 1]>>
  BY <1>1, <1>2, SubSeqRecursiveSecond
<1>6. Append(SubSeq(s, 1, n), s[n + 1]) = SubSeq(s, 1, n) \o <<s[n + 1]>>
  BY <1>3, <1>4, AppendIsConcat
<1> QED
  BY <1>2, <1>3, <1>4, <1>5, <1>6

(* Two lists of sequences, one after the other.                            *)
LEMMA FlattenConcat ==
  ASSUME NEW Q, Joins(Q), NEW ss \in Seq(Q), NEW tt \in Seq(Q)
  PROVE  FlattenSeq(ss \o tt) = FlattenSeq(ss) \o FlattenSeq(tt)
<1>1. PICK m \in Nat : m = Len(tt)
  BY LenProperties
<1> DEFINE T == {k \in 0..m : FlattenSeq(ss \o SubSeq(tt, 1, k)) = FlattenSeq(ss) \o FlattenSeq(SubSeq(tt, 1, k))}
<1>2. 0 \in T
  <2>1. SubSeq(tt, 1, 0) = <<>>
    BY SubSeqEmpty
  <2>2. ss \o <<>> = ss
    BY ConcatEmptySeq
  <2>3. FlattenSeq(ss) \o <<>> = FlattenSeq(ss)
    BY FlattenType DEF Joins
  <2>4. FlattenSeq(ss \o SubSeq(tt, 1, 0)) = FlattenSeq(ss) \o FlattenSeq(SubSeq(tt, 1, 0))
    BY <2>1, <2>2, <2>3, FlattenEmpty
  <2>5. 0 \in 0..m
    OBVIOUS
  <2> QED
    BY <2>4, <2>5
<1>3. ASSUME NEW k \in 0..m - 1, k \in T PROVE k + 1 \in T
  <2>1. PICK p \in Seq(Q) : p = SubSeq(tt, 1, k)
    BY <1>1, OneMore
  <2>2. PICK e \in Q : e = tt[k + 1]
    BY <1>1, OneMore
  <2>3. SubSeq(tt, 1, k + 1) = Append(p, e)
    BY <1>1, <2>1, <2>2, OneMore
  <2>4. FlattenSeq(ss \o p) = FlattenSeq(ss) \o FlattenSeq(p)
    BY <1>3, <2>1
  <2>5. ss \o Append(p, e) = Append(ss \o p, e)
    <3>1. Append(p, e) = p \o <<e>>
      BY AppendIsConcat
    <3>2. ss \o p \in Seq(Q)
      BY ConcatProperties
    <3>3. Append(ss \o p, e) = (ss \o p) \o <<e>>
      BY <3>2, AppendIsConcat
    <3>4. <<e>> \in Seq(Q)
      OBVIOUS
    <3>5. (ss \o p) \o <<e>> = ss \o (p \o <<e>>)
      BY <3>4, ConcatAssociative
    <3> QED
      BY <3>1, <3>3, <3>5
  <2>6. FlattenSeq(Append(ss \o p, e)) = FlattenSeq(ss \o p) \o e
    <3>1. ss \o p \in Seq(Q)
      BY ConcatProperties
    <3> QED
      BY <3>1, FlattenAppend
  <2>7. FlattenSeq(Append(p, e)) = FlattenSeq(p) \o e
    BY FlattenAppend
  <2>8. (FlattenSeq(ss) \o FlattenSeq(p)) \o e = FlattenSeq(ss) \o (FlattenSeq(p) \o e)
    BY FlattenType DEF Joins
  <2>9. FlattenSeq(ss \o SubSeq(tt, 1, k + 1)) = FlattenSeq(ss) \o FlattenSeq(SubSeq(tt, 1, k + 1))
    BY <2>3, <2>4, <2>5, <2>6, <2>7, <2>8
  <2>10. k + 1 \in 0..m
    OBVIOUS
  <2> QED
    BY <2>9, <2>10
<1> HIDE DEF T
<1>4. m \in T
  <2>1. 0..m \subseteq T
    BY <1>2, <1>3, InductionTo
  <2> QED
    BY <2>1
<1>5. SubSeq(tt, 1, m) = tt
  BY <1>1, SubSeqFull
<1> QED
  BY <1>4, <1>5 DEF T

(* One sequence and others.                                                *)
LEMMA FlattenFirst ==
  ASSUME NEW Q, Joins(Q), NEW s \in Q, NEW tt \in Seq(Q)
  PROVE  FlattenSeq(<<s>>) = s /\ FlattenSeq(<<s>> \o tt) = s \o FlattenSeq(tt)
<1>1. <<s>> \in Seq(Q) /\ <<>> \in Seq(Q) /\ <<>> \in Q
  BY DEF Joins
<1>2. FlattenSeq(<<s>>) = s
  <2>1. Append(<<>>, s) = <<s>>
    OBVIOUS
  <2>2. FlattenSeq(Append(<<>>, s)) = FlattenSeq(<<>>) \o s
    BY <1>1, FlattenAppend
  <2>3. <<>> \o s = s
    BY DEF Joins
  <2> QED
    BY <2>1, <2>2, <2>3, FlattenEmpty
<1> QED
  BY <1>1, <1>2, FlattenConcat

-----------------------------------------------------------------------------
(* Numbers.                                                                *)

(* Products keep an order.                                                 *)
LEMMA Monotone ==
  ASSUME NEW a \in Nat, NEW b \in Nat, NEW c \in Nat, a <= b
  PROVE  c * a \in Nat /\ c * b \in Nat /\ c * a <= c * b
<1>1. PICK d \in Nat : b = a + d
  <2>1. b - a \in Nat /\ b = a + (b - a)
    OBVIOUS
  <2> QED
    BY <2>1
<1>2. c * b = c * a + c * d
  BY <1>1
<1>3. c * a \in Nat /\ c * d \in Nat
  OBVIOUS
<1> QED
  BY <1>2, <1>3

(* Division with a remainder.                                              *)
LEMMA DivMod ==
  ASSUME NEW a \in Nat, NEW b \in Nat \ {0}
  PROVE  /\ a \div b \in Nat /\ a % b \in Nat /\ a % b < b
         /\ a = b * (a \div b) + (a % b)
OBVIOUS

(* Quotient and remainder are the only such pair.                          *)
LEMMA DivUnique ==
  ASSUME NEW a \in Nat, NEW b \in Nat \ {0}, NEW q \in Nat, NEW r \in Nat, r < b, a = b * q + r
  PROVE  a \div b = q /\ a % b = r
<1>1. PICK x \in Nat, y \in Nat : x = a \div b /\ y = a % b /\ y < b /\ a = b * x + y
  BY DivMod
<1>2. ~ (x < q)
  <2> SUFFICES ASSUME x + 1 <= q PROVE FALSE
    BY <1>1
  <2>1. b * (x + 1) <= b * q /\ b * (x + 1) \in Nat /\ b * q \in Nat
    BY Monotone
  <2>2. b * (x + 1) = b * x + b
    OBVIOUS
  <2>3. b * x \in Nat
    OBVIOUS
  <2> QED
    BY <1>1, <2>1, <2>2, <2>3
<1>3. ~ (q < x)
  <2> SUFFICES ASSUME q + 1 <= x PROVE FALSE
    BY <1>1
  <2>1. b * (q + 1) <= b * x /\ b * (q + 1) \in Nat /\ b * x \in Nat
    BY <1>1, Monotone
  <2>2. b * (q + 1) = b * q + b
    OBVIOUS
  <2>3. b * q \in Nat
    OBVIOUS
  <2> QED
    BY <1>1, <2>1, <2>2, <2>3
<1>4. x = q
  BY <1>2, <1>3
<1>5. b * q \in Nat
  OBVIOUS
<1> QED
  BY <1>1, <1>4, <1>5

(* To divide by a product is to divide twice.                              *)
LEMMA DivDiv ==
  ASSUME NEW a \in Nat, NEW b \in Nat \ {0}, NEW c \in Nat \ {0}
  PROVE  b * c \in Nat \ {0} /\ a \div (c * b) = (a \div b) \div c
<1>1. PICK x \in Nat, r \in Nat : x = a \div b /\ r < b /\ a = b * x + r
  BY DivMod
<1>2. PICK y \in Nat, s \in Nat : y = x \div c /\ s < c /\ x = c * y + s
  BY DivMod
<1>3. PICK m \in Nat \ {0} : m = c * b
  OBVIOUS
<1>4. PICK t \in Nat : t = b * s + r
  OBVIOUS
<1>5. t < m
  <2>1. b * (s + 1) <= b * c /\ b * (s + 1) \in Nat /\ b * c \in Nat
    BY <1>2, Monotone
  <2>2. b * (s + 1) = b * s + b /\ b * s \in Nat /\ c * b = b * c
    OBVIOUS
  <2> QED
    BY <1>1, <1>3, <1>4, <2>1, <2>2
<1>6. a = m * y + t
  <2>1. b * x = b * (c * y) + b * s
    <3>1. PICK z \in Nat : z = c * y
      OBVIOUS
    <3>2. b * (z + s) = b * z + b * s
      OBVIOUS
    <3> QED
      BY <1>2, <3>1, <3>2
  <2>2. b * (c * y) = m * y
    BY <1>3
  <2> QED
    BY <1>1, <1>4, <2>1, <2>2
<1>7. a \div m = y
  BY <1>5, <1>6, DivUnique
<1> QED
  BY <1>1, <1>2, <1>3, <1>7

(* The constants.                                                          *)
LEMMA RadixIs == Radix \in Nat /\ Radix >= 4 /\ Radix = 4 * Quarter
                 /\ Quarter \in Nat /\ Quarter >= 1 /\ Symbols = 0..Radix - 1
BY SymbolAssumption DEF Radix, Symbols

(* The powers of the radix that WriteVarint divides by.                    *)
LEMMA PowerIs ==
  /\ \A k \in 0..7 : Power[k] \in Nat /\ Power[k] >= 1
  /\ Power[0] = 1
  /\ \A k \in 1..7 : Power[k] = Radix * Power[k - 1]
<1>1. Radix \in Nat /\ Radix >= 1
  BY RadixIs
<1> DEFINE S == {x \in Nat : x >= 1}
<1> DEFINE g == [i \in 1..7 |-> [x \in S |-> Radix * x]]
<1>2. g \in [1..7 -> [S -> S]]
  <2>1. ASSUME NEW x \in S PROVE Radix * x \in S
    <3>1. x * 1 <= x * Radix /\ x * Radix \in Nat
      BY <1>1, Monotone
    <3> QED
      BY <1>1, <3>1
  <2> QED
    BY <2>1
<1>3. \A i \in 1..7 : \A x \in S : g[i][x] = Radix * x
  OBVIOUS
<1>4. 1 \in S /\ S \subseteq Nat /\ \A x \in S : x >= 1
  OBVIOUS
<1> HIDE DEF S, g
<1>5. PICK f \in [0..7 -> S] : f[0] = 1 /\ \A i \in 1..7 : f[i] = g[i][f[i - 1]]
  <2>1. PICK n \in Nat : n = 7
    OBVIOUS
  <2>2. PICK e \in S : e = 1
    BY <1>4
  <2>3. g \in [1..n -> [S -> S]]
    BY <1>2, <2>1
  <2>4. PICK f \in [0..n -> S] : f[0] = e /\ \A i \in 1..n : f[i] = g[i][f[i - 1]]
    BY <2>3, Iterates
  <2> QED
    BY <2>1, <2>2, <2>4
<1>6. \A i \in 1..7 : f[i - 1] \in S
  BY <1>5
<1>7. \A i \in 1..7 : f[i] = Radix * f[i - 1]
  BY <1>3, <1>5, <1>6
<1>8. f = [k \in 0..7 |-> IF k = 0 THEN 1 ELSE Radix * f[k - 1]]
  <2>1. \A k \in 0..7 : f[k] = IF k = 0 THEN 1 ELSE Radix * f[k - 1]
    BY <1>5, <1>7
  <2>2. f = [k \in 0..7 |-> f[k]]
    BY <1>5
  <2> QED
    BY <2>1, <2>2
<1>9. Power = [k \in 0..7 |-> IF k = 0 THEN 1 ELSE Radix * Power[k - 1]]
  BY <1>8, Zenon DEF Power
<1>10. \A k \in 0..7 : Power[k] = IF k = 0 THEN 1 ELSE Radix * Power[k - 1]
  BY <1>9, Zenon
<1>11. Power[0] = 1 /\ \A k \in 1..7 : Power[k] = Radix * Power[k - 1]
  BY <1>10
<1> DEFINE T == {k \in 0..7 : Power[k] \in S}
<1>12. 0 \in T
  BY <1>4, <1>11
<1>13. ASSUME NEW k \in 0..6, k \in T PROVE k + 1 \in T
  <2>1. Power[k + 1] = Radix * Power[k]
    <3>1. k + 1 \in 1..7 /\ (k + 1) - 1 = k
      OBVIOUS
    <3> QED
      BY <1>11, <3>1
  <2>2. g[1][Power[k]] = Radix * Power[k] /\ g[1] \in [S -> S] /\ Power[k] \in S
    BY <1>2, <1>3, <1>13
  <2> QED
    BY <2>1, <2>2
<1> HIDE DEF T
<1>14. 0..7 \subseteq T
  <2>1. 7 - 1 = 6 /\ 7 \in Nat
    OBVIOUS
  <2> QED
    BY <1>12, <1>13, <2>1, InductionTo
<1>15. \A k \in 0..7 : Power[k] \in S
  BY <1>14 DEF T
<1> QED
  BY <1>4, <1>11, <1>15

-----------------------------------------------------------------------------
(* Varints.                                                                *)

(* The lengths of varints, and what fits each.                             *)
LEMMA LengthsAre ==
  /\ ByteLength(0) = 1 /\ ByteLength(1) = 2 /\ ByteLength(2) = 4 /\ ByteLength(3) = 8
  /\ \A c \in 0..3 :
       /\ ByteLength(c) \in 1..8 /\ ByteLength(c) - 1 \in 0..7
       /\ MaxVarint(c) \in Nat /\ MaxVarint(c) + 1 = Quarter * Power[ByteLength(c) - 1]
  /\ \A b, c \in 0..3 : b <= c => ByteLength(b) <= ByteLength(c) /\ MaxVarint(b) <= MaxVarint(c)
<1>1. ByteLength(0) = 1 /\ ByteLength(1) = 2 /\ ByteLength(2) = 4 /\ ByteLength(3) = 8
  BY DEF ByteLength
<1>2. \A c \in 0..3 : ByteLength(c) \in 1..8 /\ ByteLength(c) - 1 \in 0..7
  BY <1>1
<1>3. ASSUME NEW k \in 0..7 PROVE Quarter * Power[k] \in Nat /\ Quarter * Power[k] >= 1
  <2>1. PICK p \in Nat : p = Power[k] /\ p >= 1
    BY PowerIs
  <2>2. Quarter * 1 <= Quarter * p /\ Quarter * p \in Nat
    BY <2>1, RadixIs, Monotone
  <2> QED
    BY <2>1, <2>2, RadixIs
<1>4. \A c \in 0..3 : MaxVarint(c) \in Nat /\ MaxVarint(c) + 1 = Quarter * Power[ByteLength(c) - 1]
  BY <1>2, <1>3 DEF MaxVarint
<1>5. ASSUME NEW k \in 0..6 PROVE Power[k] <= Power[k + 1]
  <2>1. PICK p \in Nat : p = Power[k]
    BY PowerIs
  <2>2. Power[k + 1] = Radix * p
    <3>1. k + 1 \in 1..7 /\ (k + 1) - 1 = k
      OBVIOUS
    <3> QED
      BY <2>1, <3>1, PowerIs
  <2>3. p * 1 <= p * Radix
    BY RadixIs, Monotone
  <2> QED
    BY <2>1, <2>2, <2>3, RadixIs
<1>6. Power[0] <= Power[1] /\ Power[1] <= Power[3] /\ Power[3] <= Power[7]
  <2>1. /\ Power[0] <= Power[1] /\ Power[1] <= Power[2] /\ Power[2] <= Power[3]
        /\ Power[3] <= Power[4] /\ Power[4] <= Power[5] /\ Power[5] <= Power[6] /\ Power[6] <= Power[7]
    BY <1>5
  <2>2. \A k \in 0..7 : Power[k] \in Nat
    BY PowerIs
  <2> QED
    BY <2>1, <2>2
<1>7. \A b, c \in 0..3 : b <= c => ByteLength(b) <= ByteLength(c) /\ Power[ByteLength(b) - 1] <= Power[ByteLength(c) - 1]
  <2>1. \A k \in 0..7 : Power[k] \in Nat
    BY PowerIs
  <2> QED
    BY <1>1, <1>6, <2>1
<1>8. ASSUME NEW b \in 0..3, NEW c \in 0..3, b <= c PROVE MaxVarint(b) <= MaxVarint(c)
  <2>1. PICK p \in Nat : p = Power[ByteLength(b) - 1]
    BY <1>2, PowerIs
  <2>2. PICK q \in Nat : q = Power[ByteLength(c) - 1]
    BY <1>2, PowerIs
  <2>3. Quarter * p <= Quarter * q
    BY <1>7, <1>8, <2>1, <2>2, RadixIs, Monotone
  <2>4. MaxVarint(b) \in Nat /\ MaxVarint(c) \in Nat /\ MaxVarint(b) + 1 = Quarter * p /\ MaxVarint(c) + 1 = Quarter * q
    BY <1>4, <2>1, <2>2
  <2> QED
    BY <2>3, <2>4
<1> QED
  BY <1>1, <1>2, <1>4, <1>7, <1>8

(* SizeCode is the first code that fits.                                   *)
LEMMA SizeIs ==
  ASSUME NEW v \in Nat, NEW c \in 0..3, v <= MaxVarint(c)
  PROVE  SizeCode(v) \in 0..3 /\ SizeCode(v) <= c /\ v <= MaxVarint(SizeCode(v))
<1> DEFINE T == {d \in 0..3 : v <= MaxVarint(d)}
<1>1. T \subseteq Nat /\ T # {}
  OBVIOUS
<1>2. PICK d \in T : \A e \in T : d <= e
  BY <1>1, Least
<1>3. d \in 0..3 /\ v <= MaxVarint(d) /\ \A b \in 0..d - 1 : v > MaxVarint(b)
  <2>1. d \in 0..3 /\ v <= MaxVarint(d)
    OBVIOUS
  <2>2. ASSUME NEW b \in 0..d - 1 PROVE v > MaxVarint(b)
    <3>1. b \in 0..3 /\ ~ (d <= b)
      BY <2>1
    <3>2. ~ (v <= MaxVarint(b))
      BY <1>2, <3>1
    <3> QED
      BY <3>1, <3>2, LengthsAre
  <2> QED
    BY <2>1, <2>2
<1>4. SizeCode(v) \in 0..3 /\ v <= MaxVarint(SizeCode(v)) /\ \A b \in 0..SizeCode(v) - 1 : v > MaxVarint(b)
  BY <1>3, Zenon DEF SizeCode
<1>5. ~ (c < SizeCode(v))
  <2> SUFFICES ASSUME c < SizeCode(v) PROVE FALSE
    OBVIOUS
  <2>1. c \in 0..SizeCode(v) - 1
    BY <1>4
  <2>2. v > MaxVarint(c) /\ MaxVarint(c) \in Nat
    BY <1>4, <2>1, LengthsAre
  <2> QED
    BY <2>2
<1> QED
  BY <1>4, <1>5

(* What Value says is determined by the symbols it is read from.           *)
Reads(f, s, n) ==
  /\ f \in [1..n -> Nat] /\ f[1] = s[1] % Quarter
  /\ \A i \in 2..n : f[i] = f[i - 1] * Radix + s[i]

(* Reading symbol by symbol is well defined: Value is what any such        *)
(* reading ends with.                                                      *)
LEMMA ValueIs ==
  ASSUME NEW n \in Nat, n >= 1, NEW s, NEW f, Reads(f, s, n)
  PROVE  Value(s, n) = f[n]
<1> DEFINE g == CHOOSE g : g = [i \in 1..n |-> IF i = 1 THEN s[1] % Quarter ELSE g[i - 1] * Radix + s[i]]
<1>1. f = [i \in 1..n |-> IF i = 1 THEN s[1] % Quarter ELSE f[i - 1] * Radix + s[i]]
  <2>1. \A i \in 1..n : f[i] = IF i = 1 THEN s[1] % Quarter ELSE f[i - 1] * Radix + s[i]
    BY DEF Reads
  <2>2. f = [i \in 1..n |-> f[i]]
    BY DEF Reads
  <2> QED
    BY <2>1, <2>2
<1>2. g = [i \in 1..n |-> IF i = 1 THEN s[1] % Quarter ELSE g[i - 1] * Radix + s[i]]
  BY <1>1, Zenon
<1>3. Value(s, n) = g[n]
  BY Zenon DEF Value
<1> HIDE DEF g
<1>4. \A i \in 1..n : g[i] = IF i = 1 THEN s[1] % Quarter ELSE g[i - 1] * Radix + s[i]
  BY <1>2, Zenon
<1> DEFINE T == {i \in 0..n : i # 0 => g[i] = f[i]}
<1>5. 0 \in T
  OBVIOUS
<1>6. ASSUME NEW i \in 0..n - 1, i \in T PROVE i + 1 \in T
  <2>1. i + 1 \in 1..n /\ (i + 1) - 1 = i /\ i + 1 \in 0..n
    OBVIOUS
  <2>2. g[i + 1] = IF i + 1 = 1 THEN s[1] % Quarter ELSE g[i] * Radix + s[i + 1]
    BY <1>4, <2>1
  <2>3. CASE i = 0
    <3>1. g[1] = s[1] % Quarter /\ f[1] = s[1] % Quarter
      BY <2>2, <2>3 DEF Reads
    <3> QED
      BY <2>1, <2>3, <3>1
  <2>4. CASE i # 0
    <3>1. f[i + 1] = f[i] * Radix + s[i + 1]
      <4>1. i + 1 \in 2..n
        BY <2>4
      <4> QED
        BY <2>1, <4>1 DEF Reads
    <3>2. g[i] = f[i] /\ i + 1 # 1
      BY <1>6, <2>4
    <3>3. g[i + 1] = g[i] * Radix + s[i + 1]
      BY <2>2, <3>2
    <3>4. g[i + 1] = f[i + 1]
      BY <3>1, <3>2, <3>3
    <3> QED
      BY <2>1, <3>4
  <2> QED
    BY <2>3, <2>4
<1> HIDE DEF T
<1>7. n \in T
  <2>1. 0..n \subseteq T
    BY <1>5, <1>6, InductionTo
  <2> QED
    BY <2>1
<1> QED
  BY <1>3, <1>7 DEF T

(* There is such a reading of every string.                                *)
LEMMA ReadsExists ==
  ASSUME NEW n \in Nat, NEW s
  PROVE  n >= 1 /\ (\A i \in 1..n : s[i] \in Symbols) => \E f : Reads(f, s, n)
<1>1. ASSUME n >= 1, \A i \in 1..n : s[i] \in Symbols PROVE \E f : Reads(f, s, n)
  <2> DEFINE g == [i \in 1..n |-> [x \in Nat |-> IF i = 1 THEN s[1] % Quarter ELSE x * Radix + s[i]]]
  <2>1. g \in [1..n -> [Nat -> Nat]]
    <3>1. ASSUME NEW i \in 1..n, NEW x \in Nat
          PROVE  (IF i = 1 THEN s[1] % Quarter ELSE x * Radix + s[i]) \in Nat
      <4>1. PICK y \in Nat : y = s[i]
        BY <1>1, RadixIs
      <4>2. x * Radix + y \in Nat /\ (i = 1 => y % Quarter \in Nat)
        BY RadixIs
      <4> QED
        BY <4>1, <4>2
    <3> QED
      BY <3>1
  <2>2. \A i \in 1..n : \A x \in Nat : g[i][x] = IF i = 1 THEN s[1] % Quarter ELSE x * Radix + s[i]
    OBVIOUS
  <2> HIDE DEF g
  <2>3. PICK S : S = Nat
    OBVIOUS
  <2>4. PICK f \in [0..n -> Nat] : \A i \in 1..n : f[i] = g[i][f[i - 1]]
    <3>1. PICK c \in S : c = 0
      BY <2>3
    <3>2. g \in [1..n -> [S -> S]]
      BY <2>1, <2>3
    <3>3. PICK f \in [0..n -> S] : f[0] = c /\ \A i \in 1..n : f[i] = g[i][f[i - 1]]
      BY <3>2, Iterates
    <3> QED
      BY <2>3, <3>3
  <2>5. \A i \in 1..n : f[i - 1] \in Nat
    OBVIOUS
  <2>6. \A i \in 1..n : f[i] = IF i = 1 THEN s[1] % Quarter ELSE f[i - 1] * Radix + s[i]
    BY <2>2, <2>4, <2>5
  <2> DEFINE h == [i \in 1..n |-> f[i]]
  <2>7. h \in [1..n -> Nat] /\ \A i \in 1..n : h[i] = f[i]
    OBVIOUS
  <2> HIDE DEF h
  <2>8. \A i \in 2..n : h[i] = h[i - 1] * Radix + s[i]
    <3>1. \A i \in 2..n : i \in 1..n /\ i # 1 /\ i - 1 \in 1..n
      OBVIOUS
    <3> QED
      BY <2>6, <2>7, <3>1
  <2>9. h[1] = s[1] % Quarter
    <3>1. 1 \in 1..n
      BY <1>1
    <3> QED
      BY <2>6, <2>7, <3>1
  <2>10. Reads(h, s, n)
    BY <2>7, <2>8, <2>9 DEF Reads
  <2> QED
    BY <2>10
<1> QED
  BY <1>1

(* A value fits the length it is read from.                                *)
LEMMA ValueFits ==
  ASSUME NEW n \in 1..8, NEW s, \A i \in 1..n : s[i] \in Symbols
  PROVE  Value(s, n) \in Nat /\ Value(s, n) < Quarter * Power[n - 1]
<1>0. n \in Nat /\ n >= 1
  OBVIOUS
<1>1. PICK f : Reads(f, s, n)
  BY <1>0, ReadsExists, Zenon
<1>2. /\ f \in [1..n -> Nat] /\ f[1] = s[1] % Quarter
      /\ \A i \in 2..n : f[i] = f[i - 1] * Radix + s[i]
  BY <1>1 DEF Reads
<1> DEFINE T == {i \in 0..n : i # 0 => f[i] < Quarter * Power[i - 1]}
<1>3. 0 \in T
  OBVIOUS
<1>4. ASSUME NEW i \in 0..n - 1, i \in T PROVE i + 1 \in T
  <2>1. i + 1 \in 1..n /\ (i + 1) - 1 = i /\ i + 1 \in 0..n /\ i \in 0..7
    OBVIOUS
  <2>2. CASE i = 0
    <3>1. s[1] \in Nat
      BY <2>1, <2>2, RadixIs
    <3>2. f[1] < Quarter
      BY <1>2, <3>1, RadixIs, DivMod
    <3>3. Quarter * Power[0] = Quarter
      BY PowerIs, RadixIs
    <3> QED
      BY <2>1, <2>2, <3>2, <3>3
  <2>3. CASE i # 0
    <3>1. i \in 1..n /\ i \in 1..7 /\ i - 1 \in 0..7 /\ i + 1 \in 2..n
      BY <2>1, <2>3
    <3>2. PICK x \in Nat : x = f[i] /\ x < Quarter * Power[i - 1]
      BY <1>2, <1>4, <3>1
    <3>3. PICK p \in Nat : p = Power[i - 1]
      BY <3>1, PowerIs
    <3>4. PICK y \in Nat : y = s[i + 1] /\ y < Radix
      BY <2>1, RadixIs
    <3>5. f[i + 1] = x * Radix + y
      BY <1>2, <2>1, <3>1, <3>2, <3>4
    <3>6. Quarter * Power[i] = Radix * (Quarter * p)
      <4>1. Power[i] = Radix * p
        BY <3>1, <3>3, PowerIs
      <4> QED
        BY <4>1, RadixIs
    <3>7. PICK m \in Nat : m = Quarter * p
      BY RadixIs
    <3>8. x + 1 <= m
      BY <3>2, <3>3, <3>7
    <3>9. Radix * (x + 1) <= Radix * m /\ Radix * m \in Nat
      BY <3>8, RadixIs, Monotone
    <3>10. Radix * (x + 1) = x * Radix + Radix /\ x * Radix \in Nat
      BY RadixIs
    <3>11. x * Radix + y < Radix * m
      <4>1. PICK a \in Nat : a = x * Radix
        BY <3>10
      <4>2. PICK r \in Nat : r = Radix
        BY RadixIs
      <4>3. a + r <= Radix * m /\ y < r
        BY <3>4, <3>9, <3>10, <4>1, <4>2
      <4> QED
        BY <3>9, <4>1, <4>2, <4>3
    <3>12. f[i + 1] < Quarter * Power[i]
      BY <3>5, <3>6, <3>7, <3>11
    <3> QED
      BY <2>1, <3>12
  <2> QED
    BY <2>2, <2>3
<1> HIDE DEF T
<1>5. n \in T
  <2>1. 0..n \subseteq T
    BY <1>0, <1>3, <1>4, InductionTo
  <2> QED
    BY <2>1, <1>0
<1>6. Value(s, n) = f[n]
  BY <1>0, <1>1, ValueIs
<1> QED
  BY <1>2, <1>5, <1>6 DEF T

(* Strings are sequences of symbols.                                       *)
LEMMA StringIs ==
  /\ \A s, m : Sized(s, m, Symbols) <=> s \in String /\ Len(s) = m
  /\ \A s \in String : Len(s) \in Nat /\ (s = <<>> <=> Len(s) = 0)
  /\ <<>> \in String /\ Len(<<>>) = 0 /\ Joins(String)
  /\ \A s \in String : \A i \in 1..Len(s) : s[i] \in Symbols
  /\ \A s, t \in String : s \o t \in String /\ s \o <<>> = s /\ <<>> \o s = s
  /\ \A s, t, u \in String : (s \o t) \o u = s \o (t \o u)
<1>0. \A s, m : Sized(s, m, Symbols) <=> s \in String /\ Len(s) = m
  BY DEF Sized, String
<1>1. \A s \in String : Len(s) \in Nat /\ (s = <<>> <=> Len(s) = 0)
  BY EmptySeq, LenProperties DEF String
<1>2. Joins(String)
  BY SeqJoins DEF String
<1>3. \A s \in String : \A i \in 1..Len(s) : s[i] \in Symbols
  BY ElementOfSeq DEF String
<1>4. Len(<<>>) = 0
  OBVIOUS
<1> QED
  BY <1>0, <1>1, <1>2, <1>3, <1>4 DEF Joins

(* The digit at a power of the radix, and the number before it.            *)
Digit(v, p, m, r) == v \div p = (v \div m) * r + ((v \div p) % r)

(* Two digits of a number, one above the other, are what the upper one     *)
(* would be with a larger base.                                            *)
LEMMA DigitIs ==
  ASSUME NEW v \in Nat, NEW p \in Nat \ {0}, NEW r \in Nat \ {0}
  PROVE  Digit(v, p, r * p, r)
<1>1. v \div (r * p) = (v \div p) \div r
  BY DivDiv
<1>2. PICK z \in Nat : z = v \div p
  BY DivMod
<1>3. z \div r \in Nat /\ z % r \in Nat /\ z = r * (z \div r) + (z % r)
  BY DivMod
<1>4. PICK x \in Nat, y \in Nat : x = z \div r /\ y = z % r
  BY <1>3
<1>5. z = x * r + y
  BY <1>3, <1>4
<1> QED
  BY <1>1, <1>2, <1>4, <1>5 DEF Digit

(* What a varint can say.                                                  *)
Varint(v) == v \in Nat /\ v <= MaxVarint(3)

(* A written varint: its length, its first symbol, and what it reads as,   *)
(* whatever comes behind it.                                               *)
LEMMA WriteIs ==
  ASSUME NEW v \in Nat, Varint(v)
  PROVE  /\ WriteVarint(v) \in String /\ SizeCode(v) \in 0..3
         /\ Len(WriteVarint(v)) = ByteLength(SizeCode(v))
         /\ WriteVarint(v)[1] \in Symbols /\ WriteVarint(v)[1] \div Quarter = SizeCode(v)
         /\ \A s : (\A i \in 1..ByteLength(SizeCode(v)) : s[i] = WriteVarint(v)[i])
                     => Value(s, ByteLength(SizeCode(v))) = v
<1>1. PICK c \in 0..3 : c = SizeCode(v) /\ v <= MaxVarint(c)
  BY SizeIs DEF Varint
<1>2. PICK n \in Nat : n = ByteLength(c) /\ n \in 1..8 /\ n - 1 \in 0..7
  BY LengthsAre
<1>3. v < Quarter * Power[n - 1]
  BY <1>1, <1>2, LengthsAre
<1> DEFINE w == [i \in 1..n |-> ((v \div Power[n - i]) % Radix) + (IF i = 1 THEN c * Quarter ELSE 0)]
<1>4. WriteVarint(v) = w
  BY <1>1, <1>2 DEF WriteVarint
<1>5. \A i \in 1..n : w[i] = ((v \div Power[n - i]) % Radix) + (IF i = 1 THEN c * Quarter ELSE 0)
  OBVIOUS
<1>6. w = [i \in 1..n |-> w[i]]
  OBVIOUS
<1> HIDE DEF w
<1>7. \A k \in 0..7 : Power[k] \in Nat \ {0}
  BY PowerIs
<1>8. PICK q \in Nat : q = v \div Power[n - 1] /\ q < Quarter
  <2>1. PICK p \in Nat \ {0} : p = Power[n - 1]
    BY <1>2, <1>7
  <2>2. PICK q \in Nat, r \in Nat : q = v \div p /\ v = p * q + r
    <3>1. v \div p \in Nat /\ v % p \in Nat /\ v = p * (v \div p) + (v % p)
      BY DivMod
    <3> QED
      BY <3>1
  <2>3. ~ (Quarter <= q)
    <3> SUFFICES ASSUME Quarter <= q PROVE FALSE
      OBVIOUS
    <3>1. p * Quarter <= p * q /\ p * q \in Nat /\ p * Quarter \in Nat
      BY RadixIs, Monotone
    <3>2. p * Quarter = Quarter * p
      BY RadixIs
    <3> QED
      BY <1>3, <2>1, <2>2, <3>1, <3>2
  <2> QED
    BY <2>1, <2>2, <2>3, RadixIs
<1>9. w[1] = q + c * Quarter
  <2>1. q % Radix = q
    <3>1. q < Radix /\ Radix \in Nat \ {0}
      BY <1>8, RadixIs
    <3>2. q = Radix * 0 + q
      BY <3>1
    <3> QED
      BY <3>1, <3>2, DivUnique
  <2> QED
    BY <1>2, <1>5, <1>8, <2>1
<1>10. w[1] \in Symbols /\ w[1] \div Quarter = c /\ w[1] % Quarter = q
  <2>1. PICK a \in Nat : a = q + c * Quarter
    BY RadixIs
  <2>2. a = Quarter * c + q /\ Quarter \in Nat \ {0}
    BY <2>1, RadixIs
  <2>3. a \div Quarter = c /\ a % Quarter = q
    <3>1. c \in Nat
      OBVIOUS
    <3> QED
      BY <1>8, <2>2, <3>1, DivUnique
  <2>4. a < Radix
    <3>1. Quarter * c <= Quarter * 3 /\ Quarter * c \in Nat
      BY RadixIs, Monotone
    <3> QED
      BY <1>8, <2>2, <3>1, RadixIs
  <2> QED
    BY <1>9, <2>1, <2>3, <2>4, RadixIs
<1>11. \A i \in 2..n : w[i] = (v \div Power[n - i]) % Radix /\ w[i] \in Symbols
  <2> SUFFICES ASSUME NEW i \in 2..n PROVE w[i] = (v \div Power[n - i]) % Radix /\ w[i] \in Symbols
    OBVIOUS
  <2>1. PICK x \in Nat : x = v \div Power[n - i]
    <3>1. PICK p \in Nat \ {0} : p = Power[n - i]
      BY <1>2, <1>7
    <3> QED
      BY <3>1, DivMod
  <2>2. x % Radix \in Nat /\ x % Radix < Radix
    BY RadixIs, DivMod
  <2>3. w[i] = x % Radix
    BY <1>2, <1>5, <2>1, <2>2
  <2> QED
    BY <2>1, <2>2, <2>3, RadixIs
<1>12. w \in [1..n -> Symbols]
  <2>1. \A i \in 1..n : w[i] \in Symbols
    BY <1>10, <1>11
  <2> QED
    BY <1>6, <2>1
<1>13. w \in String /\ Len(w) = n
  BY <1>12, IsSeq DEF String
<1>20. ASSUME NEW i \in 2..n
       PROVE  v \div Power[n - i] = (v \div Power[n - (i - 1)]) * Radix + w[i]
  <2>1. i \in 1..n /\ n - i \in 0..7 /\ n - i + 1 \in 1..7 /\ n - (i - 1) = n - i + 1
        /\ (n - i + 1) - 1 = n - i
    BY <1>2
  <2>2. PICK p \in Nat \ {0} : p = Power[n - i]
    BY <1>7, <2>1
  <2>3. PICK r \in Nat \ {0} : r = Radix
    BY RadixIs
  <2>4. Power[n - i + 1] = r * p
    BY <2>1, <2>2, <2>3, PowerIs
  <2>5. Digit(v, p, r * p, r)
    BY DigitIs, Zenon
  <2>6. v \div p = (v \div (r * p)) * r + ((v \div p) % r)
    BY <2>5, Zenon DEF Digit
  <2>7. w[i] = (v \div p) % r
    BY <1>11, <2>1, <2>2, <2>3
  <2> QED
    BY <2>1, <2>2, <2>3, <2>4, <2>6, <2>7, Zenon
<1>14. ASSUME NEW s, \A i \in 1..n : s[i] = w[i] PROVE Value(s, n) = v
  <2> DEFINE f == [i \in 1..n |-> v \div Power[n - i]]
  <2>1. f \in [1..n -> Nat]
    <3>1. ASSUME NEW i \in 1..n PROVE v \div Power[n - i] \in Nat
      <4>1. PICK p \in Nat \ {0} : p = Power[n - i]
        BY <1>2, <1>7
      <4> QED
        BY <4>1, DivMod
    <3> QED
      BY <3>1
  <2>2. \A i \in 1..n : f[i] = v \div Power[n - i]
    OBVIOUS
  <2> HIDE DEF f
  <2>3. f[1] = s[1] % Quarter
    BY <1>2, <1>8, <1>10, <1>14, <2>2
  <2>4. ASSUME NEW i \in 2..n PROVE f[i] = f[i - 1] * Radix + s[i]
    <3>1. i \in 1..n /\ i - 1 \in 1..n
      OBVIOUS
    <3>2. f[i] = v \div Power[n - i] /\ f[i - 1] = v \div Power[n - (i - 1)] /\ s[i] = w[i]
      BY <1>14, <2>2, <3>1
    <3> QED
      BY <1>20, <3>2
  <2>5. Reads(f, s, n)
    BY <2>1, <2>3, <2>4 DEF Reads
  <2>6. Value(s, n) = f[n]
    BY <1>2, <2>5, ValueIs
  <2>7. f[n] = v
    <3>1. f[n] = v \div Power[0]
      BY <1>2, <2>2
    <3>2. v \div 1 = v
      OBVIOUS
    <3> QED
      BY <3>1, <3>2, PowerIs
  <2> QED
    BY <2>6, <2>7
<1> QED
  BY <1>1, <1>2, <1>4, <1>10, <1>13, <1>14

(* Every symbol starts a varint of one of the lengths.                     *)
LEMMA CodeIs ==
  ASSUME NEW b \in Symbols
  PROVE  b \div Quarter \in 0..3
<1>1. b \in Nat /\ b < 4 * Quarter /\ Quarter \in Nat \ {0}
  BY RadixIs
<1>2. PICK q \in Nat, r \in Nat : q = b \div Quarter /\ b = Quarter * q + r
  BY <1>1, DivMod
<1>3. ~ (4 <= q)
  <2> SUFFICES ASSUME 4 <= q PROVE FALSE
    OBVIOUS
  <2>1. Quarter * 4 <= Quarter * q /\ Quarter * q \in Nat
    BY <1>1, Monotone
  <2> QED
    BY <1>1, <1>2, <2>1
<1> QED
  BY <1>2, <1>3

(* What ReadVarint returns, of any symbols: to write what it returns takes *)
(* no more of them than it was read from.                                  *)
LEMMA ReadIs ==
  ASSUME NEW s \in String
  PROVE  \/ s = <<>> /\ ReadVarint(s) = Failed("EOF")
         \/ s # <<>> /\ ReadVarint(s) = Failed("unexpected EOF")
         \/ \E v \in Nat, rem \in String :
              /\ s # <<>> /\ ReadVarint(s) = Got(v, rem) /\ Varint(v)
              /\ Len(WriteVarint(v)) + Len(rem) <= Len(s)
<1>1. CASE s = <<>>
  BY <1>1 DEF ReadVarint
<1>2. CASE s # <<>>
  <2>1. PICK l \in Nat : l = Len(s) /\ l >= 1
    BY <1>2, StringIs
  <2>2. \A i \in 1..l : s[i] \in Symbols
    BY <2>1, StringIs
  <2>3. PICK c \in 0..3 : c = s[1] \div Quarter
    BY <2>1, <2>2, CodeIs
  <2>4. PICK n \in 1..8 : n = ByteLength(c)
    BY LengthsAre
  <2>5. ReadVarint(s) = IF l < n THEN Truncated ELSE Got(Value(s, n), SubSeq(s, n + 1, l))
    BY <1>2, <2>1, <2>3, <2>4 DEF ReadVarint
  <2>6. CASE l < n
    <3>1. ReadVarint(s) = Failed("unexpected EOF")
      BY <2>5, <2>6 DEF Truncated
    <3> QED
      BY <1>2, <3>1
  <2>7. CASE ~ (l < n)
    <3>1. \A i \in 1..n : s[i] \in Symbols
      BY <2>1, <2>2, <2>7
    <3>2. PICK v \in Nat : v = Value(s, n) /\ v < Quarter * Power[n - 1]
      BY <3>1, ValueFits
    <3>3. v <= MaxVarint(c)
      BY <2>4, <3>2, LengthsAre
    <3>4. Varint(v)
      <4>1. MaxVarint(c) \in Nat /\ MaxVarint(3) \in Nat /\ MaxVarint(c) <= MaxVarint(3)
        BY LengthsAre
      <4> QED
        BY <3>3, <4>1 DEF Varint
    <3>5. SizeCode(v) \in 0..3 /\ SizeCode(v) <= c
      BY <3>3, SizeIs
    <3>6. PICK k \in 1..8 : k = Len(WriteVarint(v)) /\ k <= n
      <4>1. Len(WriteVarint(v)) = ByteLength(SizeCode(v))
        BY <3>4, WriteIs
      <4>2. ByteLength(SizeCode(v)) \in 1..8 /\ ByteLength(SizeCode(v)) <= ByteLength(c)
        BY <3>5, LengthsAre
      <4> QED
        BY <2>4, <4>1, <4>2
    <3>7. PICK rem : rem = SubSeq(s, n + 1, l)
      OBVIOUS
    <3>8. rem \in String /\ Len(rem) = l - n
      <4>1. n \in Nat /\ n <= l /\ Sized(s, l, Symbols)
        BY <2>1, <2>7, StringIs
      <4>2. Sized(SubSeq(s, n + 1, l), l - n, Symbols)
        BY <4>1, Split
      <4> QED
        BY <3>7, <4>2, StringIs
    <3>9. ReadVarint(s) = Got(v, rem)
      BY <2>5, <2>7, <3>2, <3>7
    <3>10. Len(WriteVarint(v)) + Len(rem) <= Len(s)
      BY <2>1, <3>6, <3>8
    <3> QED
      BY <1>2, <3>4, <3>8, <3>9, <3>10
  <2> QED
    BY <2>6, <2>7
<1> QED
  BY <1>1, <1>2

(* A varint is read as it was written, and none of what follows.           *)
THEOREM ReadsBack ==
  ASSUME NEW v \in Nat, Varint(v), NEW r \in String
  PROVE  ReadVarint(WriteVarint(v) \o r) = Got(v, r) /\ WriteVarint(v) \o r # <<>>
<1>1. PICK w \in String : w = WriteVarint(v)
  BY WriteIs
<1>2. PICK c \in 0..3 : c = SizeCode(v)
  BY WriteIs
<1>3. PICK n \in Nat : n = ByteLength(c) /\ n \in 1..8 /\ n >= 1
  BY LengthsAre
<1>4. /\ Len(w) = n /\ w[1] \div Quarter = c
      /\ \A s : (\A i \in 1..n : s[i] = w[i]) => Value(s, n) = v
  BY <1>1, <1>2, <1>3, WriteIs
<1>5. PICK m \in Nat : m = Len(r)
  BY StringIs
<1>6. PICK s : s = w \o r
  OBVIOUS
<1>7. Sized(w, n, Symbols) /\ Sized(r, m, Symbols)
  BY <1>4, <1>5, StringIs
<1>8. Sized(s, n + m, Symbols) /\ SubSeq(s, n + 1, n + m) = r /\ \A i \in 1..n : s[i] = w[i]
  <2>1. Sized(w \o r, n + m, Symbols) /\ Apart(w \o r, w, r, n, m)
    BY <1>7, Joined, Zenon
  <2> QED
    BY <1>6, <2>1, Zenon DEF Apart
<1>9. Len(s) = n + m /\ s # <<>>
  <2>1. s \in String /\ Len(s) = n + m
    BY <1>8, StringIs
  <2>2. n + m # 0
    <3>1. n >= 1
      BY <1>3, Zenon
    <3> QED
      BY <3>1
  <2> QED
    BY <2>1, <2>2, StringIs
<1>10. Value(s, n) = v
  BY <1>4, <1>8, Zenon
<1>11. s[1] \div Quarter = c
  <2>1. 1 \in 1..n
    BY <1>3
  <2> QED
    BY <1>4, <1>8, <2>1
<1>12. ~ (n + m < n)
  OBVIOUS
<1>13. ReadVarint(s) = IF n + m < n THEN Truncated ELSE Got(Value(s, n), SubSeq(s, n + 1, n + m))
  BY <1>3, <1>9, <1>11, Zenon DEF ReadVarint
<1>14. ReadVarint(s) = Got(v, r)
  BY <1>8, <1>10, <1>12, <1>13, Zenon
<1> QED
  BY <1>1, <1>6, <1>9, <1>14

(* A varint that is cut off is neither read nor taken for the end.         *)
LEMMA CutVarint ==
  ASSUME NEW v \in Nat, Varint(v), NEW k \in Nat, k >= 1, k < Len(WriteVarint(v)),
         NEW s, Sized(s, k, Symbols), \A i \in 1..k : s[i] = WriteVarint(v)[i]
  PROVE  ReadVarint(s) = Failed("unexpected EOF")
<1>1. PICK c \in 0..3 : c = SizeCode(v)
  BY WriteIs
<1>2. PICK n \in 1..8 : n = ByteLength(c)
  BY LengthsAre
<1>3. k < n /\ s[1] \div Quarter = c
  BY <1>1, <1>2, WriteIs
<1>4. Len(s) = k /\ s # <<>>
  BY StringIs
<1>5. ReadVarint(s) = IF k < n THEN Truncated ELSE Got(Value(s, n), SubSeq(s, n + 1, k))
  BY <1>2, <1>3, <1>4, Zenon DEF ReadVarint
<1> QED
  BY <1>3, <1>5 DEF Truncated

-----------------------------------------------------------------------------
(* Lengths and what they are the lengths of.                               *)

(* The parts of what a read returns.                                       *)
LEMMA GotIs ==
  /\ \A v, r : Got(v, r).err = "none" /\ Got(v, r).v = v /\ Got(v, r).rest = r
  /\ \A e : Failed(e).err = e /\ Failed(e).v = 0 /\ Failed(e).rest = <<>>
BY DEF Got, Failed

(* A varint that is cut off is an error, and not the end of the input.     *)
LEMMA CutOff == Failed("unexpected EOF").err # "none" /\ Failed("unexpected EOF").err # "EOF"
BY DEF Failed

(* A part that fits: what a length can say.                                *)
Short(s) == s \in String /\ Varint(Len(s))

(* Strings are joined in any order.                                        *)
LEMMA StringAssoc == \A s, t, u \in String : (s \o t) \o u = s \o (t \o u)
BY ConcatAssociative DEF String

(* Two strings, one after the other, by their lengths.                     *)
LEMMA StringsJoined ==
  ASSUME NEW s \in String, NEW t \in String
  PROVE  /\ s \o t \in String /\ Len(s \o t) = Len(s) + Len(t)
         /\ Apart(s \o t, s, t, Len(s), Len(t))
<1>1. PICK m \in Nat, k \in Nat : m = Len(s) /\ k = Len(t)
  BY StringIs
<1>2. Sized(s, m, Symbols) /\ Sized(t, k, Symbols)
  BY <1>1, StringIs
<1>3. Sized(s \o t, m + k, Symbols) /\ Apart(s \o t, s, t, m, k)
  BY <1>2, Joined, Zenon
<1>4. s \o t \in String /\ Len(s \o t) = m + k
  BY <1>3, StringIs
<1> QED
  BY <1>1, <1>3, <1>4, Zenon

(* A written varint is a string that is not empty.                         *)
LEMMA VarintString ==
  ASSUME NEW v \in Nat, Varint(v)
  PROVE  WriteVarint(v) \in String /\ Len(WriteVarint(v)) \in Nat /\ Len(WriteVarint(v)) >= 1
<1>1. PICK n \in 1..8 : n = ByteLength(SizeCode(v))
  BY WriteIs, LengthsAre
<1>2. WriteVarint(v) \in String /\ Len(WriteVarint(v)) = n
  BY <1>1, WriteIs
<1> QED
  BY <1>2

(* A length and its bytes are read as they were written.                   *)
LEMMA LengthReadsBack ==
  ASSUME NEW s, Short(s), NEW r \in String
  PROVE  /\ WithLength(s) \in String /\ Len(WithLength(s)) = Len(WriteVarint(Len(s))) + Len(s)
         /\ Len(WithLength(s)) \in Nat /\ Len(WithLength(s)) >= 1
         /\ ReadTLVBytes(WithLength(s) \o r) = Got(s, r)
<1>0. s \in String
  BY DEF Short
<1>1. PICK n \in Nat : n = Len(s) /\ Varint(n)
  BY <1>0, StringIs DEF Short
<1>3. PICK w \in String : w = WriteVarint(n)
  BY <1>1, VarintString
<1>4. PICK k \in Nat : k = Len(w) /\ k >= 1
  BY <1>1, <1>3, VarintString
<1>5. PICK x : x = w \o s
  OBVIOUS
<1>6. x \in String /\ Len(x) = k + n /\ WithLength(s) = x
  <2>1. w \o s \in String /\ Len(w \o s) = k + n
    BY <1>0, <1>1, <1>4, StringsJoined
  <2> QED
    BY <1>1, <1>3, <1>5, <2>1 DEF WithLength
<1>7. PICK y \in String : y = s \o r
  BY <1>0, StringIs
<1>8. x \o r = w \o y
  <2>1. (w \o s) \o r = w \o (s \o r)
    BY <1>0, StringAssoc
  <2> QED
    BY <1>5, <1>7, <2>1
<1>9. ReadVarint(w \o y) = Got(n, y)
  BY <1>1, <1>3, ReadsBack
<1>10. PICK m \in Nat : m = Len(r)
  BY StringIs
<1>11. Len(y) = n + m /\ Apart(y, s, r, n, m)
  BY <1>0, <1>1, <1>7, <1>10, StringsJoined
<1>12. SubSeq(y, 1, n) = s /\ SubSeq(y, n + 1, n + m) = r
  BY <1>11, Zenon DEF Apart
<1>13. ReadTLVBytes(w \o y) = Got(s, r)
  <2>1. ~ (n > n + m)
    OBVIOUS
  <2>2. Got(n, y).err = "none" /\ Got(n, y).v = n /\ Got(n, y).rest = y
    BY GotIs
  <2>3. ReadTLVBytes(w \o y) = IF n > n + m THEN Failed("length")
                               ELSE Got(SubSeq(y, 1, n), SubSeq(y, n + 1, n + m))
    BY <1>9, <1>11, <2>2 DEF ReadTLVBytes
  <2> QED
    BY <1>12, <2>1, <2>3
<1>14. Len(x) \in Nat /\ Len(x) >= 1
  <2>1. k + n \in Nat /\ k + n >= 1
    BY <1>4
  <2> QED
    BY <1>6, <2>1
<1> QED
  BY <1>1, <1>3, <1>4, <1>6, <1>8, <1>13, <1>14, Zenon

(* What ReadTLVBytes returns, of any symbols: to write what it returns     *)
(* takes no more than it was read from.                                    *)
LEMMA LengthReadIs ==
  ASSUME NEW s \in String
  PROVE  \/ ReadTLVBytes(s).err # "none"
         \/ \E d, r \in String :
              /\ ReadTLVBytes(s) = Got(d, r) /\ Short(d) /\ s # <<>>
              /\ Len(WithLength(d)) + Len(r) <= Len(s)
<1>1. CASE ReadVarint(s) \in {Failed("EOF"), Failed("unexpected EOF")}
  <2>1. Failed("EOF").err # "none" /\ Failed("unexpected EOF").err # "none"
    BY DEF Failed
  <2>2. ReadVarint(s).err # "none"
    BY <1>1, <2>1
  <2> QED
    BY <2>2 DEF ReadTLVBytes
<1>2. ASSUME NEW v \in Nat, NEW rem \in String,
             s # <<>>, ReadVarint(s) = Got(v, rem), Varint(v),
             Len(WriteVarint(v)) + Len(rem) <= Len(s)
      PROVE  \/ ReadTLVBytes(s).err # "none"
             \/ \E d, r \in String :
                  /\ ReadTLVBytes(s) = Got(d, r) /\ Short(d) /\ s # <<>>
                  /\ Len(WithLength(d)) + Len(r) <= Len(s)
  <2>1. PICK l \in Nat : l = Len(rem)
    BY StringIs
  <2>2. Got(v, rem).err = "none" /\ Got(v, rem).v = v /\ Got(v, rem).rest = rem
    BY GotIs
  <2>3. ReadTLVBytes(s) = IF v > l THEN Failed("length")
                          ELSE Got(SubSeq(rem, 1, v), SubSeq(rem, v + 1, l))
    BY <1>2, <2>1, <2>2 DEF ReadTLVBytes
  <2>4. CASE v > l
    BY <2>3, <2>4, GotIs
  <2>5. CASE ~ (v > l)
    <3>1. v <= l /\ Sized(rem, l, Symbols)
      BY <2>1, <2>5, StringIs
    <3>2. Sized(SubSeq(rem, 1, v), v, Symbols) /\ Sized(SubSeq(rem, v + 1, l), l - v, Symbols)
      BY <3>1, Split
    <3>3. PICK d : d = SubSeq(rem, 1, v)
      OBVIOUS
    <3>4. PICK r : r = SubSeq(rem, v + 1, l)
      OBVIOUS
    <3>5. d \in String /\ Len(d) = v /\ r \in String /\ Len(r) = l - v
      BY <3>2, <3>3, <3>4, StringIs
    <3>6. Short(d)
      BY <1>2, <3>5 DEF Short
    <3>7. PICK k \in Nat : k = Len(WriteVarint(v))
      BY <1>2, VarintString
    <3>8. Len(WithLength(d)) = k + v
      <4>1. <<>> \in String
        BY StringIs
      <4> QED
        BY <3>5, <3>6, <3>7, <4>1, LengthReadsBack
    <3>9. PICK m \in Nat : m = Len(s) /\ k + l <= m
      BY <1>2, <2>1, <3>7, StringIs
    <3>10. k + v + (l - v) <= m
      BY <3>9
    <3>11. Len(WithLength(d)) + Len(r) <= Len(s)
      BY <3>5, <3>8, <3>9, <3>10
    <3>12. ReadTLVBytes(s) = Got(d, r)
      BY <2>3, <2>5, <3>3, <3>4
    <3> QED
      BY <1>2, <3>5, <3>6, <3>11, <3>12
  <2> QED
    BY <2>4, <2>5
<1> QED
  BY <1>1, <1>2, ReadIs

(* A field is read as it was written.                                      *)
LEMMA FieldReadsBack ==
  ASSUME NEW t \in Nat, Varint(t), NEW s, Short(s), NEW r \in String
  PROVE  /\ TLV(t, s) \in String /\ TLV(t, s) \o r # <<>>
         /\ ReadVarint(TLV(t, s) \o r) = Got(t, WithLength(s) \o r)
<1>1. PICK w \in String : w = WriteVarint(t)
  BY VarintString
<1>2. PICK x \in String : x = WithLength(s)
  BY LengthReadsBack
<1>3. TLV(t, s) = w \o x /\ w \o x \in String
  BY <1>1, <1>2, StringIs DEF TLV
<1>4. (w \o x) \o r = w \o (x \o r) /\ x \o r \in String
  <2>1. (w \o x) \o r = w \o (x \o r)
    BY StringAssoc
  <2>2. x \o r \in String
    BY StringIs
  <2> QED
    BY <2>1, <2>2
<1>5. ReadVarint(w \o (x \o r)) = Got(t, x \o r) /\ w \o (x \o r) # <<>>
  BY <1>1, <1>4, ReadsBack
<1> QED
  BY <1>2, <1>3, <1>4, <1>5

(* A string that is cut in its first part, or behind it.                   *)
LEMMA StringCut ==
  ASSUME NEW s \in String, NEW t \in String, NEW n \in Nat, NEW m \in Nat, NEW k \in Nat,
         m = Len(s), k = Len(t), n <= m + k
  PROVE  Sized(SubSeq(s \o t, 1, n), n, Symbols) /\ Cuts(SubSeq(s \o t, 1, n), s, t, n, m)
<1>1. Sized(s, m, Symbols) /\ Sized(t, k, Symbols)
  BY StringIs
<1> QED
  BY <1>1, CutConcat, Zenon

(* The beginning of a string.                                              *)
LEMMA StringPart ==
  ASSUME NEW s \in String, NEW n \in Nat, n <= Len(s)
  PROVE  SubSeq(s, 1, n) \in String /\ Len(SubSeq(s, 1, n)) = n
<1>1. PICK m \in Nat : m = Len(s) /\ n <= m
  BY StringIs
<1>2. Sized(s, m, Symbols)
  BY <1>1, StringIs
<1>3. Sized(SubSeq(s, 1, n), n, Symbols)
  BY <1>1, <1>2, Split
<1> QED
  BY <1>3, StringIs

(* A field that is cut off is refused, in its tag, its length or its data. *)
THEOREM CutField ==
  ASSUME NEW t \in Nat, Varint(t), NEW d, Short(d),
         NEW n \in Nat, n >= 1, n < Len(TLV(t, d)), NEW s, s = SubSeq(TLV(t, d), 1, n)
  PROVE  /\ s \in String /\ s # <<>> /\ ReadVarint(s).err # "EOF"
         /\ ReadVarint(s).err = "none" => ReadTLVBytes(ReadVarint(s).rest).err # "none"
<1>1. PICK w \in String : w = WriteVarint(t)
  BY VarintString
<1>2. PICK lw \in Nat : lw = Len(w)
  BY StringIs
<1>3. d \in String
  BY DEF Short
<1>4. PICK m \in Nat : m = Len(d) /\ Varint(m)
  BY <1>3, StringIs DEF Short
<1>5. PICK v \in String : v = WriteVarint(m)
  BY <1>4, VarintString
<1>6. PICK lv \in Nat : lv = Len(v)
  BY StringIs
<1>7. PICK x : x = v \o d
  OBVIOUS
<1>8. x \in String /\ Len(x) = lv + m /\ WithLength(d) = x
  <2>1. v \o d \in String /\ Len(v \o d) = lv + m
    BY <1>3, <1>4, <1>6, StringsJoined
  <2> QED
    BY <1>4, <1>5, <1>7, <2>1 DEF WithLength
<1>9. PICK lx \in Nat : lx = Len(x) /\ lx = lv + m
  BY <1>8
<1>10. s = SubSeq(w \o x, 1, n) /\ n < lw + lx
  <2>1. TLV(t, d) = w \o x
    BY <1>1, <1>8 DEF TLV
  <2>2. Len(w \o x) = lw + lx
    BY <1>2, <1>8, <1>9, StringsJoined
  <2> QED
    BY <2>1, <2>2
<1>11. Sized(s, n, Symbols) /\ Cuts(s, w, x, n, lw)
  <2>1. n <= lw + lx
    BY <1>10
  <2>2. x \in String
    BY <1>8
  <2> QED
    BY <1>2, <1>9, <1>10, <2>1, <2>2, StringCut, Zenon
<1>12. s \in String /\ s # <<>>
  <2>1. s \in String /\ Len(s) = n
    BY <1>11, StringIs
  <2>2. n # 0
    OBVIOUS
  <2> QED
    BY <2>1, <2>2, StringIs, Zenon
<1>13. CASE n < lw
  <2>1. \A i \in 1..n : s[i] = w[i]
    <3>1. \A i \in 1..n : i <= lw => s[i] = w[i]
      BY <1>11, Zenon DEF Cuts
    <3> QED
      BY <1>13, <3>1
  <2>2. ReadVarint(s) = Failed("unexpected EOF")
    <3>1. n < Len(WriteVarint(t))
      BY <1>1, <1>2, <1>13
    <3> QED
      BY <1>1, <1>11, <2>1, <3>1, CutVarint, Zenon
  <2>3. ReadVarint(s).err # "none" /\ ReadVarint(s).err # "EOF"
    BY <2>2, CutOff, Zenon
  <2> QED
    BY <1>12, <2>3
<1>14. CASE ~ (n < lw)
  <2>1. PICK k \in Nat : k = n - lw /\ k < lx
    <3>1. n - lw \in Nat /\ n - lw < lx
      BY <1>10, <1>14
    <3> QED
      BY <3>1
  <2>2. PICK y : y = SubSeq(x, 1, k)
    OBVIOUS
  <2>3. s = w \o y
    <3>1. n >= lw
      BY <1>14
    <3>2. n >= lw => s = w \o SubSeq(x, 1, n - lw)
      BY <1>11, Zenon DEF Cuts
    <3> QED
      BY <2>1, <2>2, <3>1, <3>2, Zenon
  <2>4. y \in String /\ Len(y) = k
    <3>1. k <= Len(x)
      BY <1>9, <2>1
    <3> QED
      BY <1>8, <2>2, <3>1, StringPart
  <2>5. ReadVarint(s) = Got(t, y)
    BY <1>1, <2>3, <2>4, ReadsBack
  <2>6. ReadVarint(s).err = "none" /\ ReadVarint(s).rest = y
    BY <2>5, GotIs
  <2>7. Sized(y, k, Symbols) /\ Cuts(y, v, d, k, lv)
    <3>1. k <= lv + m
      BY <1>9, <2>1
    <3>2. y = SubSeq(v \o d, 1, k)
      BY <1>7, <2>2
    <3> QED
      BY <1>3, <1>4, <1>6, <3>1, <3>2, StringCut, Zenon
  <2>8. ReadTLVBytes(y).err # "none"
    <3>1. CASE k = 0
      <4>1. y = <<>>
        BY <2>4, <3>1, StringIs
      <4>2. ReadVarint(y).err # "none"
        BY <4>1, GotIs DEF ReadVarint
      <4> QED
        BY <4>2 DEF ReadTLVBytes
    <3>2. CASE k # 0 /\ k < lv
      <4>1. \A i \in 1..k : y[i] = v[i]
        <5>1. \A i \in 1..k : i <= lv => y[i] = v[i]
          BY <2>7, Zenon DEF Cuts
        <5> QED
          BY <3>2, <5>1
      <4>2. ReadVarint(y) = Failed("unexpected EOF")
        <5>1. k < Len(WriteVarint(m)) /\ k >= 1
          BY <1>5, <1>6, <3>2
        <5> QED
          BY <1>4, <1>5, <2>7, <4>1, <5>1, CutVarint, Zenon
      <4>3. ReadVarint(y).err # "none"
        BY <4>2, CutOff, Zenon
      <4> QED
        BY <4>3 DEF ReadTLVBytes
    <3>3. CASE ~ (k < lv)
      <4>1. PICK j \in Nat : j = k - lv /\ j < m
        <5>1. k - lv \in Nat /\ k - lv < m
          BY <1>9, <2>1, <3>3
        <5> QED
          BY <5>1
      <4>2. PICK z : z = SubSeq(d, 1, j)
        OBVIOUS
      <4>3. y = v \o z
        <5>1. k >= lv
          BY <3>3
        <5>2. k >= lv => y = v \o SubSeq(d, 1, k - lv)
          BY <2>7, Zenon DEF Cuts
        <5> QED
          BY <4>1, <4>2, <5>1, <5>2, Zenon
      <4>4. z \in String /\ Len(z) = j
        <5>1. j <= Len(d)
          BY <1>4, <4>1
        <5> QED
          BY <1>3, <4>2, <5>1, StringPart
      <4>5. ReadVarint(y) = Got(m, z)
        BY <1>4, <1>5, <4>3, <4>4, ReadsBack
      <4>6. Got(m, z).err = "none" /\ Got(m, z).v = m /\ Got(m, z).rest = z
        BY GotIs
      <4>7. m > j
        BY <4>1
      <4>8. ReadTLVBytes(y) = Failed("length")
        BY <4>4, <4>5, <4>6, <4>7 DEF ReadTLVBytes
      <4> QED
        BY <4>8, GotIs
    <3> QED
      BY <3>1, <3>2, <3>3
  <2> QED
    BY <1>12, <2>6, <2>8
<1> QED
  BY <1>13, <1>14

-----------------------------------------------------------------------------
(* Hex.                                                                    *)

(* Digits, two of which make a symbol.                                     *)
Digits == 0..Hex - 1

(* A symbol is two digits, and two digits are a symbol.                    *)
LEMMA HexIs ==
  /\ Hex \in Nat \ {0} /\ Digits \subseteq Symbols
  /\ \A b \in Symbols : b \div Hex \in Digits /\ b % Hex \in Digits /\ (b \div Hex) * Hex + (b % Hex) = b
  /\ \A x, y \in Digits : x * Hex + y \in Symbols
<1>1. PICK h \in Nat : h = Hex
  BY SymbolAssumption
<1>2. Radix = h * h /\ Radix >= 4 /\ Radix \in Nat /\ Symbols = 0..Radix - 1
  BY <1>1, SymbolAssumption, RadixIs
<1>3. h \in Nat \ {0} /\ h >= 1
  <2>1. h # 0
    <3> SUFFICES ASSUME h = 0 PROVE FALSE
      OBVIOUS
    <3>1. h * h = 0
      OBVIOUS
    <3> QED
      BY <1>2, <3>1
  <2> QED
    BY <2>1
<1>4. h <= Radix
  <2>1. h * 1 <= h * h
    BY <1>3, Monotone
  <2> QED
    BY <1>2, <2>1
<1>5. Digits \subseteq Symbols
  <2>1. \A x \in 0..h - 1 : x \in 0..Radix - 1
    BY <1>2, <1>4
  <2> QED
    BY <1>1, <1>2, <2>1 DEF Digits
<1>6. ASSUME NEW b \in Symbols
      PROVE  b \div h \in 0..h - 1 /\ b % h \in 0..h - 1 /\ (b \div h) * h + (b % h) = b
  <2>1. b \in Nat /\ b < h * h
    BY <1>2
  <2>2. b \div h \in Nat /\ b % h \in Nat /\ b % h < h /\ b = h * (b \div h) + (b % h)
    BY <1>3, <2>1, DivMod
  <2>3. PICK q \in Nat, r \in Nat : q = b \div h /\ r = b % h
    BY <2>2
  <2>4. r < h /\ b = h * q + r
    BY <2>2, <2>3
  <2>5. ~ (h <= q)
    <3> SUFFICES ASSUME h <= q PROVE FALSE
      OBVIOUS
    <3>1. h * h <= h * q /\ h * q \in Nat /\ h * h \in Nat
      BY Monotone
    <3> QED
      BY <2>1, <2>4, <3>1
  <2>6. q * h + r = b
    BY <2>4
  <2> QED
    BY <2>3, <2>4, <2>5, <2>6
<1>7. ASSUME NEW x \in 0..h - 1, NEW y \in 0..h - 1 PROVE x * h + y \in 0..h * h - 1
  <2>1. x \in Nat /\ y \in Nat /\ x + 1 <= h /\ y < h /\ x + 1 \in Nat
    OBVIOUS
  <2>2. h * (x + 1) <= h * h /\ h * (x + 1) \in Nat /\ h * h \in Nat
    BY <2>1, Monotone
  <2>3. h * (x + 1) = x * h + h /\ x * h \in Nat
    BY <2>1
  <2> QED
    BY <2>1, <2>2, <2>3
<1>8. Digits = 0..h - 1
  BY <1>1 DEF Digits
<1> QED
  BY <1>1, <1>2, <1>3, <1>5, <1>6, <1>7, <1>8

(* Bytes that are printed are read as they were.                           *)
LEMMA HexReadsBack ==
  ASSUME NEW s \in String
  PROVE  /\ EncodeHex(s) \in String /\ Len(EncodeHex(s)) = 2 * Len(s) /\ IsHex(EncodeHex(s))
         /\ \A i \in 1..Len(EncodeHex(s)) : EncodeHex(s)[i] \in Digits
         /\ DecodeHex(EncodeHex(s)) = s
<1>1. PICK n \in Nat : n = Len(s)
  BY StringIs
<1>2. \A i \in 1..n : s[i] \in Symbols
  BY <1>1, StringIs
<1>3. s = [i \in 1..n |-> s[i]]
  BY <1>1 DEF String
<1> DEFINE e == [i \in 1..2 * n |-> IF i % 2 = 1 THEN s[(i + 1) \div 2] \div Hex ELSE s[i \div 2] % Hex]
<1>4. EncodeHex(s) = e
  BY <1>1 DEF EncodeHex
<1>5. \A i \in 1..2 * n : e[i] = IF i % 2 = 1 THEN s[(i + 1) \div 2] \div Hex ELSE s[i \div 2] % Hex
  OBVIOUS
<1>6. e = [i \in 1..2 * n |-> e[i]]
  OBVIOUS
<1> HIDE DEF e
<1>7. ASSUME NEW i \in 1..2 * n PROVE e[i] \in Digits
  <2>1. CASE i % 2 = 1
    <3>1. (i + 1) \div 2 \in 1..n
      BY <2>1
    <3>2. PICK b \in Symbols : b = s[(i + 1) \div 2]
      BY <1>2, <3>1
    <3>3. e[i] = b \div Hex
      BY <1>5, <2>1, <3>2
    <3> QED
      BY <3>3, HexIs
  <2>2. CASE i % 2 # 1
    <3>1. i \div 2 \in 1..n
      BY <2>2
    <3>2. PICK b \in Symbols : b = s[i \div 2]
      BY <1>2, <3>1
    <3>3. e[i] = b % Hex
      BY <1>5, <2>2, <3>2
    <3> QED
      BY <3>3, HexIs
  <2> QED
    BY <2>1, <2>2
<1>8. ASSUME NEW j \in 1..n PROVE e[2 * j - 1] * Hex + e[2 * j] = s[j]
  <2>1. /\ 2 * j - 1 \in 1..2 * n /\ (2 * j - 1) % 2 = 1 /\ ((2 * j - 1) + 1) \div 2 = j
        /\ 2 * j \in 1..2 * n /\ (2 * j) % 2 # 1 /\ (2 * j) \div 2 = j
    OBVIOUS
  <2>2. e[2 * j - 1] = s[j] \div Hex
    BY <1>5, <2>1
  <2>3. e[2 * j] = s[j] % Hex
    BY <1>5, <2>1
  <2>4. PICK b \in Symbols : b = s[j]
    BY <1>2
  <2> QED
    BY <2>2, <2>3, <2>4, HexIs, Zenon
<1>9. e \in [1..2 * n -> Symbols]
  <2>1. \A i \in 1..2 * n : e[i] \in Symbols
    BY <1>7, HexIs
  <2> QED
    BY <1>6, <2>1
<1>10. 2 * n \in Nat
  OBVIOUS
<1>11. e \in String /\ Len(e) = 2 * n
  BY <1>9, <1>10, IsSeq DEF String
<1>12. DOMAIN e = 1..2 * n
  BY <1>9
<1>13. IsHex(e)
  <2>1. (2 * n) % 2 = 0
    OBVIOUS
  <2>2. \A i \in 1..2 * n : e[i] < Hex
    <3>1. \A x \in Digits : x < Hex
      BY HexIs DEF Digits
    <3> QED
      BY <1>7, <3>1
  <2> QED
    BY <1>11, <1>12, <2>1, <2>2 DEF IsHex
<1>14. DecodeHex(e) = s
  <2>1. (2 * n) \div 2 = n
    OBVIOUS
  <2>2. DecodeHex(e) = [i \in 1..n |-> e[2 * i - 1] * Hex + e[2 * i]]
    BY <1>11, <2>1 DEF DecodeHex
  <2>3. [i \in 1..n |-> e[2 * i - 1] * Hex + e[2 * i]] = [i \in 1..n |-> s[i]]
    BY <1>8, Zenon
  <2> QED
    BY <1>3, <2>2, <2>3, Zenon
<1> QED
  BY <1>1, <1>4, <1>7, <1>11, <1>13, <1>14

(* What digits say takes as many digits to print.                          *)
LEMMA HexReadIs ==
  ASSUME NEW s \in String, IsHex(s)
  PROVE  /\ DecodeHex(s) \in String /\ Len(DecodeHex(s)) = Len(s) \div 2
         /\ 2 * Len(DecodeHex(s)) = Len(s)
<1>1. PICK n \in Nat : n = Len(s) /\ n % 2 = 0
  BY StringIs DEF IsHex
<1>2. PICK m \in Nat : m = n \div 2 /\ n = 2 * m
  <2>1. n \div 2 \in Nat /\ n = 2 * (n \div 2)
    BY <1>1
  <2> QED
    BY <2>1
<1>3. ASSUME NEW i \in 1..n PROVE s[i] \in Digits
  <2>1. s[i] \in Symbols /\ s[i] < Hex
    <3>1. DOMAIN s = 1..n
      BY <1>1 DEF String
    <3>2. s[i] < Hex
      BY <3>1 DEF IsHex
    <3>3. s[i] \in Symbols
      BY <1>1, StringIs
    <3> QED
      BY <3>2, <3>3
  <2>2. PICK b \in Symbols : b = s[i] /\ b < Hex
    BY <2>1
  <2>3. b \in Nat
    BY RadixIs
  <2>4. b \in 0..Hex - 1
    <3>1. Hex \in Nat
      BY HexIs
    <3> QED
      BY <2>2, <2>3, <3>1
  <2> QED
    BY <2>2, <2>4 DEF Digits
<1> DEFINE d == [i \in 1..m |-> s[2 * i - 1] * Hex + s[2 * i]]
<1>4. d \in [1..m -> Symbols]
  <2>1. ASSUME NEW i \in 1..m PROVE s[2 * i - 1] * Hex + s[2 * i] \in Symbols
    <3>1. 2 * i - 1 \in 1..n /\ 2 * i \in 1..n
      BY <1>2
    <3>2. PICK x \in Digits, y \in Digits : x = s[2 * i - 1] /\ y = s[2 * i]
      BY <1>3, <3>1
    <3>3. x * Hex + y \in Symbols
      BY HexIs
    <3> QED
      BY <3>2, <3>3
  <2> QED
    BY <2>1
<1>5. DecodeHex(s) = d
  BY <1>1, <1>2 DEF DecodeHex
<1> HIDE DEF d
<1>6. d \in String /\ Len(d) = m
  BY <1>4, IsSeq DEF String
<1> QED
  BY <1>1, <1>2, <1>5, <1>6

-----------------------------------------------------------------------------
(* Client random prefixes.                                                 *)

(* Where the first slash is, or 0.                                         *)
SlashAt(s) == SelectInSeq(s, LAMBDA b : b = Slash)

(* strings.Cut: the first slash, if there is any.                          *)
LEMMA SlashIs ==
  ASSUME NEW s \in String
  PROVE  \/ SlashAt(s) = 0 /\ \A i \in 1..Len(s) : s[i] # Slash
         \/ SlashAt(s) \in 1..Len(s) /\ s[SlashAt(s)] = Slash /\ \A i \in 1..SlashAt(s) - 1 : s[i] # Slash
<1> DEFINE I == {i \in 1..Len(s) : s[i] = Slash}
<1>1. SlashAt(s) = IF I # {} THEN Min(I) ELSE 0
  BY DEF SlashAt, SelectInSeq
<1>2. CASE I = {}
  BY <1>1, <1>2
<1>3. CASE I # {}
  <2>1. PICK x \in I : \A y \in I : x <= y
    <3>1. I \subseteq Nat
      OBVIOUS
    <3> HIDE DEF I
    <3> QED
      BY <1>3, <3>1, Least
  <2>2. Min(I) = CHOOSE z \in I : \A y \in I : z <= y
    BY Zenon DEF Min
  <2>3. Min(I) \in I /\ \A y \in I : Min(I) <= y
    <3> HIDE DEF I
    <3> QED
      BY <2>1, <2>2, Zenon
  <2>4. PICK c : c = Min(I)
    OBVIOUS
  <2>5. c \in 1..Len(s) /\ s[c] = Slash
    BY <2>3, <2>4
  <2>6. PICK l \in Nat : l = Len(s)
    BY StringIs
  <2>7. ASSUME NEW i \in 1..c - 1, s[i] = Slash PROVE FALSE
    <3>1. i \in 1..l /\ ~ (c <= i)
      BY <2>5, <2>6
    <3>2. i \in I
      BY <2>6, <2>7, <3>1
    <3> QED
      BY <2>3, <2>4, <3>1, <3>2
  <2> QED
    BY <1>1, <1>3, <2>4, <2>5, <2>7
<1> QED
  BY <1>2, <1>3

(* ParsePrefix, of a string without a slash and of one with a slash.       *)
LEMMA ParseWhole ==
  ASSUME NEW s \in String, SlashAt(s) = 0
  PROVE  ParsePrefix(s) = IF IsHex(s) /\ Len(s) \div 2 <= MaxPrefix
                          THEN Got([prefix |-> DecodeHex(s), mask |-> <<>>], <<>>) ELSE Failed("prefix")
<1> DEFINE P(x) == IsHex(x) /\ Len(x) \div 2 <= MaxPrefix
<1>1. (\A i \in DOMAIN <<s>> : P(<<s>>[i])) <=> P(s)
  <2>1. DOMAIN <<s>> = {1} /\ <<s>>[1] = s
    OBVIOUS
  <2> HIDE DEF P
  <2> QED
    BY <2>1
<1>2. <<s>>[1] = s
  OBVIOUS
<1>3. ParsePrefix(s) = IF \A i \in DOMAIN <<s>> : P(<<s>>[i])
                       THEN Got([prefix |-> DecodeHex(<<s>>[1]), mask |-> <<>>], <<>>) ELSE Failed("prefix")
  <2>1. PICK c \in Nat : c = SlashAt(s) /\ c = 0 /\ ~ (c > 0)
    OBVIOUS
  <2> QED
    BY <2>1 DEF ParsePrefix, SlashAt
<1> HIDE DEF P
<1>4. ParsePrefix(s) = IF P(s) THEN Got([prefix |-> DecodeHex(s), mask |-> <<>>], <<>>) ELSE Failed("prefix")
  BY <1>1, <1>2, <1>3
<1> QED
  BY <1>4 DEF P

(* A prefix with a slash is one with a mask.                               *)
LEMMA ParseParts ==
  ASSUME NEW s, NEW c \in Nat, SlashAt(s) = c, c > 0,
         NEW a, a = SubSeq(s, 1, c - 1), NEW b, b = SubSeq(s, c + 1, Len(s))
  PROVE  ParsePrefix(s) = IF /\ IsHex(a) /\ Len(a) \div 2 <= MaxPrefix
                             /\ IsHex(b) /\ Len(b) \div 2 <= MaxPrefix /\ b # <<>>
                          THEN Got([prefix |-> DecodeHex(a), mask |-> DecodeHex(b)], <<>>) ELSE Failed("prefix")
<1> DEFINE P(x) == IsHex(x) /\ Len(x) \div 2 <= MaxPrefix
<1>1. (\A i \in DOMAIN <<a, b>> : P(<<a, b>>[i])) <=> P(a) /\ P(b)
  <2>1. DOMAIN <<a, b>> = {1, 2} /\ <<a, b>>[1] = a /\ <<a, b>>[2] = b
    OBVIOUS
  <2> HIDE DEF P
  <2> QED
    BY <2>1
<1>2. <<a, b>>[1] = a /\ <<a, b>>[2] = b
  OBVIOUS
<1>3. c # 0
  OBVIOUS
<1>4. ParsePrefix(s) = IF (\A i \in DOMAIN <<a, b>> : P(<<a, b>>[i])) /\ (c > 0 => <<a, b>>[2] # <<>>)
                       THEN Got([prefix |-> DecodeHex(<<a, b>>[1]), mask |-> DecodeHex(<<a, b>>[2])], <<>>)
                       ELSE Failed("prefix")
  BY <1>3 DEF ParsePrefix, SlashAt
<1>5. c > 0 => <<a, b>>[2] # <<>> <=> b # <<>>
  BY <1>2
<1> HIDE DEF P
<1>6. ParsePrefix(s) = IF P(a) /\ P(b) /\ b # <<>>
                       THEN Got([prefix |-> DecodeHex(a), mask |-> DecodeHex(b)], <<>>)
                       ELSE Failed("prefix")
  BY <1>1, <1>2, <1>4, <1>5
<1> QED
  BY <1>6 DEF P

(* The prefixes of client randoms, and those that Parse takes.             *)
PrefixSet == [prefix : String, mask : String]

Fitting(p) == Len(p.prefix) <= MaxPrefix /\ Len(p.mask) <= MaxPrefix

(* What is printed for a prefix and its mask.                              *)
LEMMA PrintedIs ==
  ASSUME NEW p \in PrefixSet
  PROVE  /\ PrefixString(p) \in String
         /\ p.mask = <<>> => Len(PrefixString(p)) = 2 * Len(p.prefix)
         /\ p.mask # <<>> => Len(PrefixString(p)) = 2 * Len(p.prefix) + 1 + 2 * Len(p.mask)
<1>1. PICK a \in String, b \in String : a = p.prefix /\ b = p.mask
  BY DEF PrefixSet
<1>2. PICK m \in Nat, n \in Nat : m = Len(a) /\ n = Len(b)
  BY StringIs
<1>3. PICK x \in String : x = EncodeHex(a) /\ Len(x) = 2 * m
  BY <1>2, HexReadsBack
<1>4. PICK y \in String : y = EncodeHex(b) /\ Len(y) = 2 * n
  BY <1>2, HexReadsBack
<1>5. <<Slash>> \in String /\ Len(<<Slash>>) = 1
  BY SymbolAssumption DEF String
<1>6. x \o <<Slash>> \in String /\ Len(x \o <<Slash>>) = 2 * m + 1
  <2>1. /\ x \o <<Slash>> \in String
        /\ Len(x \o <<Slash>>) = Len(x) + Len(<<Slash>>)
    BY <1>5, StringsJoined
  <2> QED
    BY <1>3, <1>5, <2>1
<1>7. (x \o <<Slash>>) \o y \in String /\ Len((x \o <<Slash>>) \o y) = 2 * m + 1 + 2 * n
  BY <1>4, <1>6, StringsJoined
<1>8. PrefixString(p) = IF b = <<>> THEN x ELSE (x \o <<Slash>>) \o y
  BY <1>1, <1>3, <1>4 DEF PrefixString
<1> QED
  BY <1>1, <1>2, <1>3, <1>6, <1>7, <1>8

(* A prefix is parsed as it was printed, unless it is too long.            *)
LEMMA PrefixReadsBack ==
  ASSUME NEW p \in PrefixSet
  PROVE  ParsePrefix(PrefixString(p)) = IF Fitting(p) THEN Got(p, <<>>) ELSE Failed("prefix")
<1>1. PICK a \in String, b \in String : a = p.prefix /\ b = p.mask /\ p = [prefix |-> a, mask |-> b]
  BY DEF PrefixSet
<1>2. PICK m \in Nat, n \in Nat : m = Len(a) /\ n = Len(b) /\ (b = <<>> <=> n = 0)
  BY StringIs
<1>3. PICK x \in String : /\ x = EncodeHex(a) /\ Len(x) = 2 * m /\ IsHex(x) /\ DecodeHex(x) = a
                          /\ \A i \in 1..2 * m : x[i] \in Digits
  BY <1>2, HexReadsBack
<1>4. PICK y \in String : y = EncodeHex(b) /\ Len(y) = 2 * n /\ IsHex(y) /\ DecodeHex(y) = b
  BY <1>2, HexReadsBack
<1>5. \A d \in Digits : d # Slash
  <2>1. Slash \in Nat /\ Slash >= Hex /\ Hex \in Nat
    BY SymbolAssumption, HexIs, RadixIs
  <2> QED
    BY <2>1 DEF Digits
<1>6. (2 * m) \div 2 = m /\ (2 * n) \div 2 = n /\ 2 * m \in Nat /\ 2 * n \in Nat
  OBVIOUS
<1>7. Fitting(p) <=> m <= MaxPrefix /\ n <= MaxPrefix
  BY <1>1, <1>2 DEF Fitting
<1>8. CASE b = <<>>
  <2>1. PrefixString(p) = x
    BY <1>1, <1>3, <1>8 DEF PrefixString
  <2>2. SlashAt(x) = 0
    <3>1. \A i \in 1..2 * m : x[i] # Slash
      BY <1>3, <1>5
    <3>2. ~ (SlashAt(x) \in 1..2 * m /\ x[SlashAt(x)] = Slash)
      BY <3>1
    <3> QED
      BY <1>3, <3>2, SlashIs
  <2>3. ParsePrefix(x) = IF IsHex(x) /\ (2 * m) \div 2 <= MaxPrefix
                         THEN Got([prefix |-> DecodeHex(x), mask |-> <<>>], <<>>) ELSE Failed("prefix")
    BY <1>3, <2>2, ParseWhole
  <2>4. n <= MaxPrefix
    BY <1>2, <1>8, SymbolAssumption
  <2>5. ParsePrefix(x) = IF m <= MaxPrefix THEN Got(p, <<>>) ELSE Failed("prefix")
    BY <1>1, <1>3, <1>6, <1>8, <2>3
  <2> QED
    BY <1>7, <2>1, <2>4, <2>5
<1>9. CASE b # <<>>
  <2>1. PICK z : z = <<Slash>> \o y
    OBVIOUS
  <2>2. <<Slash>> \in String /\ Len(<<Slash>>) = 1 /\ <<Slash>>[1] = Slash
    BY SymbolAssumption DEF String
  <2>3. z \in String /\ Len(z) = 1 + 2 * n /\ Apart(z, <<Slash>>, y, 1, 2 * n)
    BY <1>4, <2>1, <2>2, StringsJoined
  <2>4. PICK s : s = x \o z
    OBVIOUS
  <2>5. s \in String /\ Len(s) = 2 * m + (1 + 2 * n) /\ Apart(s, x, z, 2 * m, 1 + 2 * n)
    <3>1. x \o z \in String /\ Len(x \o z) = Len(x) + Len(z) /\ Apart(x \o z, x, z, Len(x), Len(z))
      BY <2>3, StringsJoined
    <3> QED
      BY <1>3, <2>3, <2>4, <3>1, Zenon
  <2>6. PrefixString(p) = s
    <3>1. PrefixString(p) = (x \o <<Slash>>) \o y
      BY <1>1, <1>3, <1>4, <1>9 DEF PrefixString
    <3>2. (x \o <<Slash>>) \o y = x \o (<<Slash>> \o y)
      BY <2>2, StringAssoc
    <3> QED
      BY <2>1, <2>4, <3>1, <3>2
  <2>7. /\ \A i \in 1..2 * m : s[i] = x[i]
        /\ \A i \in 1..1 + 2 * n : s[2 * m + i] = z[i]
        /\ SubSeq(s, 1, 2 * m) = x
    BY <2>5, Zenon DEF Apart
  <2>8. s[2 * m + 1] = Slash
    <3>1. z[1] = Slash
      BY <2>2, <2>3 DEF Apart
    <3>2. 1 \in 1..1 + 2 * n
      OBVIOUS
    <3> QED
      BY <2>7, <3>1, <3>2
  <2>9. \A i \in 1..2 * m : s[i] # Slash
    BY <1>3, <1>5, <2>7
  <2>10. SlashAt(s) = 2 * m + 1
    <3>1. PICK c : c = SlashAt(s)
      OBVIOUS
    <3>2. \/ c = 0 /\ \A i \in 1..2 * m + (1 + 2 * n) : s[i] # Slash
          \/ c \in 1..2 * m + (1 + 2 * n) /\ s[c] = Slash /\ \A i \in 1..c - 1 : s[i] # Slash
      BY <2>5, <3>1, SlashIs
    <3>3. 2 * m + 1 \in 1..2 * m + (1 + 2 * n)
      OBVIOUS
    <3>4. c \in 1..2 * m + (1 + 2 * n) /\ s[c] = Slash /\ \A i \in 1..c - 1 : s[i] # Slash
      BY <2>8, <3>2, <3>3
    <3>5. ~ (c <= 2 * m)
      BY <2>9, <3>4
    <3>6. ~ (2 * m + 1 <= c - 1)
      BY <2>8, <3>4
    <3> QED
      BY <3>1, <3>4, <3>5, <3>6
  <2>11. SubSeq(s, 2 * m + 2, 2 * m + (1 + 2 * n)) = y
    <3>1. PICK k \in Nat : k = 2 * m + 1
      OBVIOUS
    <3>2. x \o <<Slash>> \in String /\ Len(x \o <<Slash>>) = k
      <4>1. /\ x \o <<Slash>> \in String
            /\ Len(x \o <<Slash>>) = Len(x) + Len(<<Slash>>)
        BY <2>2, StringsJoined
      <4> QED
        BY <1>3, <2>2, <3>1, <4>1
    <3>3. s = (x \o <<Slash>>) \o y
      BY <2>1, <2>2, <2>4, StringAssoc
    <3>4. Apart(s, x \o <<Slash>>, y, k, 2 * n)
      BY <1>4, <3>2, <3>3, StringsJoined
    <3>5. SubSeq(s, k + 1, k + 2 * n) = y
      BY <3>4, Zenon DEF Apart
    <3>6. k + 1 = 2 * m + 2 /\ k + 2 * n = 2 * m + (1 + 2 * n)
      BY <3>1
    <3> QED
      BY <3>5, <3>6
  <2>12. ParsePrefix(s) = IF /\ IsHex(x) /\ Len(x) \div 2 <= MaxPrefix
                             /\ IsHex(y) /\ Len(y) \div 2 <= MaxPrefix /\ y # <<>>
                          THEN Got([prefix |-> DecodeHex(x), mask |-> DecodeHex(y)], <<>>) ELSE Failed("prefix")
    <3>1. PICK c \in Nat : c = 2 * m + 1
      OBVIOUS
    <3>2. SlashAt(s) = c /\ c > 0 /\ c - 1 = 2 * m /\ c + 1 = 2 * m + 2
      BY <2>10, <3>1
    <3>3. x = SubSeq(s, 1, c - 1)
      BY <2>7, <3>2
    <3>4. y = SubSeq(s, c + 1, Len(s))
      BY <2>5, <2>11, <3>2
    <3> QED
      BY <3>2, <3>3, <3>4, ParseParts, Zenon
  <2>13. y # <<>>
    <3>1. 2 * n # 0
      BY <1>2, <1>9
    <3> QED
      BY <1>4, <3>1, StringIs
  <2>14. ParsePrefix(s) = IF m <= MaxPrefix /\ n <= MaxPrefix THEN Got(p, <<>>) ELSE Failed("prefix")
    BY <1>1, <1>3, <1>4, <1>6, <2>12, <2>13
  <2> QED
    BY <1>7, <2>6, <2>14
<1> QED
  BY <1>8, <1>9

-----------------------------------------------------------------------------
(* Lists.                                                                  *)

(* What is left of a prefix that was parsed: to print it takes no more     *)
(* symbols than it was parsed from.                                        *)
LEMMA PrefixReadIs ==
  ASSUME NEW s \in String, ParsePrefix(s).err = "none"
  PROVE  \E p \in PrefixSet : ParsePrefix(s) = Got(p, <<>>) /\ Fitting(p) /\ Len(PrefixString(p)) <= Len(s)
<1>1. PICK n \in Nat : n = Len(s)
  BY StringIs
<1>2. Failed("prefix").err # "none"
  BY DEF Failed
<1>3. CASE SlashAt(s) = 0
  <2>1. /\ IsHex(s) /\ Len(s) \div 2 <= MaxPrefix
        /\ ParsePrefix(s) = Got([prefix |-> DecodeHex(s), mask |-> <<>>], <<>>)
    BY <1>2, <1>3, ParseWhole
  <2>2. PICK a \in String : a = DecodeHex(s) /\ Len(a) <= MaxPrefix /\ 2 * Len(a) = n
    BY <1>1, <2>1, HexReadIs
  <2>3. PICK p : p = [prefix |-> a, mask |-> <<>>]
    OBVIOUS
  <2>4. p \in PrefixSet /\ p.prefix = a /\ p.mask = <<>>
    BY <2>3, StringIs DEF PrefixSet
  <2>5. Fitting(p)
    <3>1. Len(<<>>) = 0 /\ MaxPrefix \in Nat
      BY SymbolAssumption
    <3> QED
      BY <2>2, <2>4, <3>1 DEF Fitting
  <2>6. Len(PrefixString(p)) = n
    <3>1. Len(PrefixString(p)) = 2 * Len(p.prefix)
      BY <2>4, PrintedIs
    <3> QED
      BY <2>2, <2>4, <3>1
  <2>7. Len(PrefixString(p)) <= Len(s)
    BY <1>1, <2>6
  <2> QED
    BY <2>1, <2>2, <2>3, <2>4, <2>5, <2>7
<1>4. CASE SlashAt(s) # 0
  <2>1. PICK c \in Nat : c = SlashAt(s) /\ c \in 1..n /\ s[c] = Slash
    BY <1>1, <1>4, SlashIs
  <2>2. PICK a : a = SubSeq(s, 1, c - 1)
    OBVIOUS
  <2>3. PICK b : b = SubSeq(s, c + 1, n)
    OBVIOUS
  <2>4. a \in String /\ Len(a) = c - 1
    <3>1. c - 1 \in Nat /\ c - 1 <= n
      BY <2>1
    <3> QED
      BY <1>1, <2>2, <3>1, StringPart
  <2>5. b \in String /\ Len(b) = n - c
    <3>1. Sized(s, n, Symbols) /\ c <= n
      BY <1>1, <2>1, StringIs
    <3>2. Sized(SubSeq(s, c + 1, n), n - c, Symbols)
      BY <3>1, Split
    <3> QED
      BY <2>3, <3>2, StringIs
  <2>6. /\ IsHex(a) /\ Len(a) \div 2 <= MaxPrefix
        /\ IsHex(b) /\ Len(b) \div 2 <= MaxPrefix /\ b # <<>>
        /\ ParsePrefix(s) = Got([prefix |-> DecodeHex(a), mask |-> DecodeHex(b)], <<>>)
    <3>1. c > 0
      BY <2>1
    <3>2. ParsePrefix(s) = IF /\ IsHex(a) /\ Len(a) \div 2 <= MaxPrefix
                              /\ IsHex(b) /\ Len(b) \div 2 <= MaxPrefix /\ b # <<>>
                           THEN Got([prefix |-> DecodeHex(a), mask |-> DecodeHex(b)], <<>>) ELSE Failed("prefix")
      BY <1>1, <2>1, <2>2, <2>3, <3>1, ParseParts
    <3> QED
      BY <1>2, <3>2
  <2>7. PICK x \in String : x = DecodeHex(a) /\ Len(x) <= MaxPrefix /\ 2 * Len(x) = c - 1
    BY <2>4, <2>6, HexReadIs
  <2>8. PICK y \in String : y = DecodeHex(b) /\ Len(y) <= MaxPrefix /\ 2 * Len(y) = n - c
    BY <2>5, <2>6, HexReadIs
  <2>9. y # <<>>
    <3>1. n - c # 0
      BY <2>5, <2>6, StringIs
    <3>2. Len(y) # 0
      BY <2>8, <3>1
    <3> QED
      BY <3>2
  <2>10. PICK p : p = [prefix |-> x, mask |-> y]
    OBVIOUS
  <2>11. p \in PrefixSet /\ p.prefix = x /\ p.mask = y
    BY <2>10 DEF PrefixSet
  <2>12. Fitting(p)
    BY <2>7, <2>8, <2>11 DEF Fitting
  <2>13. Len(PrefixString(p)) <= Len(s)
    <3>1. Len(PrefixString(p)) = 2 * Len(p.prefix) + 1 + 2 * Len(p.mask)
      BY <2>9, <2>11, PrintedIs
    <3>2. Len(PrefixString(p)) = (c - 1) + 1 + (n - c)
      BY <2>7, <2>8, <2>11, <3>1
    <3> QED
      BY <1>1, <3>2
  <2> QED
    BY <2>6, <2>7, <2>8, <2>10, <2>11, <2>12, <2>13
<1> QED
  BY <1>3, <1>4

(* A part for every element, one after another.                            *)
All(g, v) == FlattenSeq([i \in DOMAIN v |-> g[v[i]]])

(* What is written for a list, one item behind the other, is what is       *)
(* written for its parts.                                                  *)
LEMMA AllIs ==
  ASSUME NEW Q, Joins(Q), NEW S, NEW g \in [S -> Q]
  PROVE  /\ All(g, <<>>) = <<>>
         /\ \A x \in S : All(g, <<x>>) = g[x]
         /\ \A v \in Seq(S) : All(g, v) \in Q
         /\ \A v, w \in Seq(S) : All(g, v \o w) = All(g, v) \o All(g, w)
<1> DEFINE M(v) == [i \in DOMAIN v |-> g[v[i]]]
<1>1. ASSUME NEW v \in Seq(S)
      PROVE  /\ M(v) \in Seq(Q) /\ Len(M(v)) = Len(v)
             /\ \A i \in 1..Len(v) : M(v)[i] = g[v[i]]
  <2>1. PICK n \in Nat : n = Len(v) /\ DOMAIN v = 1..n
    BY LenProperties
  <2>2. \A i \in 1..n : v[i] \in S
    BY <2>1, ElementOfSeq
  <2>3. M(v) \in [1..n -> Q]
    BY <2>1, <2>2
  <2>4. M(v) \in Seq(Q) /\ Len(M(v)) = n
    BY <2>3, IsSeq
  <2> QED
    BY <2>1, <2>4
<1>2. All(g, <<>>) = <<>>
  <2>1. M(<<>>) = <<>>
    OBVIOUS
  <2> QED
    BY <2>1, FlattenEmpty DEF All
<1>3. ASSUME NEW x \in S PROVE All(g, <<x>>) = g[x]
  <2>1. M(<<x>>) = <<g[x]>>
    OBVIOUS
  <2>2. g[x] \in Q /\ <<>> \in Seq(Q)
    OBVIOUS
  <2>3. FlattenSeq(<<g[x]>>) = g[x]
    BY <2>2, FlattenFirst
  <2> QED
    BY <2>1, <2>3 DEF All
<1>4. \A v \in Seq(S) : All(g, v) \in Q
  BY <1>1, FlattenType DEF All
<1>5. ASSUME NEW v \in Seq(S), NEW w \in Seq(S) PROVE All(g, v \o w) = All(g, v) \o All(g, w)
  <2>1. PICK m \in Nat, n \in Nat : m = Len(v) /\ n = Len(w)
    BY LenProperties
  <2>2. PICK vw : vw = v \o w
    OBVIOUS
  <2>3. vw \in Seq(S) /\ Len(vw) = m + n /\ Apart(vw, v, w, m, n)
    <3>1. Sized(v, m, S) /\ Sized(w, n, S)
      BY <2>1 DEF Sized
    <3>2. Sized(v \o w, m + n, S) /\ Apart(v \o w, v, w, m, n)
      BY <3>1, Joined, Zenon
    <3> QED
      BY <2>2, <3>2 DEF Sized
  <2>4. PICK a : a = M(v) /\ Sized(a, m, Q) /\ \A i \in 1..m : a[i] = g[v[i]]
    BY <1>1, <2>1 DEF Sized
  <2>5. PICK b : b = M(w) /\ Sized(b, n, Q) /\ \A i \in 1..n : b[i] = g[w[i]]
    BY <1>1, <2>1 DEF Sized
  <2>6. PICK c : c = M(vw) /\ Sized(c, m + n, Q) /\ \A i \in 1..m + n : c[i] = g[vw[i]]
    <3>1. /\ M(vw) \in Seq(Q) /\ Len(M(vw)) = Len(vw)
          /\ \A i \in 1..Len(vw) : M(vw)[i] = g[vw[i]]
      BY <1>1, <2>3
    <3> QED
      BY <2>3, <3>1 DEF Sized
  <2> HIDE DEF M
  <2>7. PICK ab : ab = a \o b
    OBVIOUS
  <2>8. Sized(ab, m + n, Q) /\ Apart(ab, a, b, m, n)
    BY <2>4, <2>5, <2>7, Joined, Zenon
  <2>9. \A i \in 1..m + n : c[i] = ab[i]
    <3>1. \A i \in 1..m : vw[i] = v[i] /\ ab[i] = a[i]
      BY <2>3, <2>8, Zenon DEF Apart
    <3>2. \A i \in 1..n : vw[m + i] = w[i] /\ ab[m + i] = b[i]
      BY <2>3, <2>8, Zenon DEF Apart
    <3>3. ASSUME NEW i \in 1..m PROVE c[i] = ab[i]
      <4>1. i \in 1..m + n
        OBVIOUS
      <4>2. c[i] = g[vw[i]] /\ a[i] = g[v[i]] /\ vw[i] = v[i] /\ ab[i] = a[i]
        BY <2>4, <2>6, <3>1, <4>1, Zenon
      <4> QED
        BY <4>2
    <3>4. ASSUME NEW i \in 1..n PROVE c[m + i] = ab[m + i]
      <4>1. m + i \in 1..m + n
        OBVIOUS
      <4>2. c[m + i] = g[vw[m + i]] /\ b[i] = g[w[i]] /\ vw[m + i] = w[i] /\ ab[m + i] = b[i]
        BY <2>5, <2>6, <3>2, <4>1, Zenon
      <4> QED
        BY <4>2, Zenon
    <3>5. ASSUME NEW i \in 1..m + n PROVE i \in 1..m \/ \E j \in 1..n : i = m + j
      <4>1. i \in 1..m \/ (i - m \in 1..n /\ i = m + (i - m))
        OBVIOUS
      <4> QED
        BY <4>1
    <3> QED
      BY <3>3, <3>4, <3>5, Zenon
  <2>10. c = ab
    <3>1. m + n \in Nat
      OBVIOUS
    <3> QED
      BY <2>6, <2>8, <2>9, <3>1, SizedEqual
  <2>12. a \in Seq(Q) /\ b \in Seq(Q)
    BY <2>4, <2>5 DEF Sized
  <2>11. FlattenSeq(a \o b) = FlattenSeq(a) \o FlattenSeq(b)
    BY <2>12, FlattenConcat
  <2> QED
    BY <2>2, <2>4, <2>5, <2>6, <2>7, <2>10, <2>11 DEF All, M
<1> QED
  BY <1>2, <1>3, <1>4, <1>5

(* Items of a list, each with its length.                                  *)
Shorts == {s \in String : Short(s)}

Prefixed == [s \in Shorts |-> WithLength(s)]

Items(v) == All(Prefixed, v)

(* The items of a list, each behind its length.                            *)
LEMMA ItemsAre ==
  /\ Items(<<>>) = <<>>
  /\ \A x \in Shorts : Items(<<x>>) = WithLength(x)
  /\ \A v \in Seq(Shorts) : Items(v) \in String
  /\ \A v, w \in Seq(Shorts) : Items(v \o w) = Items(v) \o Items(w)
<1>1. Prefixed \in [Shorts -> String]
  <2>1. \A s \in Shorts : WithLength(s) \in String
    <3> SUFFICES ASSUME NEW s \in Shorts PROVE WithLength(s) \in String
      OBVIOUS
    <3>1. Short(s) /\ <<>> \in String
      BY StringIs DEF Shorts
    <3> QED
      BY <3>1, LengthReadsBack
  <2> QED
    BY <2>1 DEF Prefixed
<1>2. Joins(String)
  BY StringIs
<1>3. \A s \in Shorts : Prefixed[s] = WithLength(s)
  BY DEF Prefixed
<1>4. /\ All(Prefixed, <<>>) = <<>>
      /\ \A x \in Shorts : All(Prefixed, <<x>>) = Prefixed[x]
      /\ \A v \in Seq(Shorts) : All(Prefixed, v) \in String
      /\ \A v, w \in Seq(Shorts) : All(Prefixed, v \o w) = All(Prefixed, v) \o All(Prefixed, w)
  BY <1>1, <1>2, AllIs
<1> QED
  BY <1>3, <1>4 DEF Items

(* A string array is written item by item.                                 *)
LEMMA ItemsWritten ==
  ASSUME NEW v \in Seq(Shorts)
  PROVE  FlattenSeq([i \in DOMAIN v |-> WithLength(v[i])]) = Items(v)
<1>1. PICK n \in Nat : n = Len(v) /\ DOMAIN v = 1..n
  BY LenProperties
<1>2. \A i \in 1..n : v[i] \in Shorts
  BY <1>1, ElementOfSeq
<1>3. [i \in 1..n |-> WithLength(v[i])] = [i \in 1..n |-> Prefixed[v[i]]]
  BY <1>2 DEF Prefixed
<1> QED
  BY <1>1, <1>3 DEF Items, All

(* A round of readTLVStringArray.                                          *)
Round(before) ==
  IF before.rest = <<>> THEN before
  ELSE IF ReadTLVBytes(before.rest).err # "none" THEN Failed("item")
  ELSE Got(Append(before.v, ReadTLVBytes(before.rest).v), ReadTLVBytes(before.rest).rest)

(* What its rounds come to, one after another.                             *)
Rounds(f, s, n) ==
  f = [k \in 0..n |-> f[k]] /\ f[0] = Got(<<>>, s) /\ \A k \in 1..n : f[k] = Round(f[k - 1])

(* The loop of readTLVStringArray is well defined: what it returns is      *)
(* where its rounds end.                                                   *)
LEMMA LoopIs ==
  ASSUME NEW s, NEW n \in Nat, n = Len(s), NEW f, Rounds(f, s, n)
  PROVE  ReadStrings(s) = f[n]
<1> DEFINE g == CHOOSE g : g = [k \in 0..n |-> IF k = 0 THEN Got(<<>>, s) ELSE Round(g[k - 1])]
<1>1. f = [k \in 0..n |-> IF k = 0 THEN Got(<<>>, s) ELSE Round(f[k - 1])]
  <2>1. \A k \in 0..n : f[k] = IF k = 0 THEN Got(<<>>, s) ELSE Round(f[k - 1])
    <3>1. \A k \in 0..n : k # 0 => k \in 1..n
      OBVIOUS
    <3> QED
      BY <3>1, Zenon DEF Rounds
  <2>2. f = [k \in 0..n |-> f[k]]
    BY DEF Rounds
  <2> QED
    BY <2>1, <2>2
<1>2. g = [k \in 0..n |-> IF k = 0 THEN Got(<<>>, s) ELSE Round(g[k - 1])]
  BY <1>1, Zenon
<1>3. ReadStrings(s) = g[n]
  BY Zenon DEF ReadStrings, Round
<1> HIDE DEF g
<1>4. \A k \in 0..n : g[k] = IF k = 0 THEN Got(<<>>, s) ELSE Round(g[k - 1])
  BY <1>2, Zenon
<1> DEFINE T == {k \in 0..n : g[k] = f[k]}
<1>5. 0 \in T
  BY <1>4 DEF Rounds
<1>6. ASSUME NEW k \in 0..n - 1, k \in T PROVE k + 1 \in T
  <2>1. k + 1 \in 1..n /\ (k + 1) - 1 = k /\ k + 1 \in 0..n /\ k + 1 # 0
    OBVIOUS
  <2>2. g[k + 1] = Round(g[k])
    BY <1>4, <2>1
  <2>3. f[k + 1] = Round(f[k])
    BY <2>1 DEF Rounds
  <2> QED
    BY <1>6, <2>1, <2>2, <2>3
<1> HIDE DEF T
<1>7. n \in T
  <2>1. 0..n \subseteq T
    BY <1>5, <1>6, InductionTo
  <2> QED
    BY <2>1
<1> QED
  BY <1>3, <1>7 DEF T

(* Items that were read, and what is left: to write them takes no more     *)
(* symbols than they were read from.                                       *)
Half(x, l) ==
  \/ x = Failed("item")
  \/ \E v \in Seq(Shorts), r \in String : x = Got(v, r) /\ Len(Items(v)) + Len(r) <= l

(* A round keeps what can be read, and leaves less of it.                  *)
LEMMA RoundIs ==
  ASSUME NEW l \in Nat, NEW x, Half(x, l)
  PROVE  /\ Half(Round(x), l)
         /\ Round(x).rest # <<>> => x.rest # <<>> /\ Len(Round(x).rest) < Len(x.rest)
         /\ x.rest \in String /\ Round(x).rest \in String
<1>1. <<>> \in String /\ Failed("item").rest = <<>>
  BY StringIs, GotIs
<1>2. CASE x.rest = <<>>
  BY <1>1, <1>2 DEF Round
<1>3. CASE x.rest # <<>>
  <2>1. PICK v \in Seq(Shorts), r \in String : x = Got(v, r) /\ Len(Items(v)) + Len(r) <= l
    BY <1>1, <1>3 DEF Half
  <2>2. x.rest = r /\ x.v = v
    BY <2>1, GotIs
  <2>3. CASE ReadTLVBytes(r).err # "none"
    <3>1. Round(x) = Failed("item")
      BY <1>3, <2>2, <2>3 DEF Round
    <3> QED
      BY <1>1, <2>2, <3>1 DEF Half
  <2>4. ASSUME NEW d \in String, NEW t \in String,
               ReadTLVBytes(r) = Got(d, t), Short(d), Len(WithLength(d)) + Len(t) <= Len(r)
        PROVE  /\ Half(Round(x), l)
               /\ Round(x).rest # <<>> => x.rest # <<>> /\ Len(Round(x).rest) < Len(x.rest)
               /\ x.rest \in String /\ Round(x).rest \in String
    <3>1. d \in Shorts
      BY <2>4 DEF Shorts
    <3>2. PICK w \in Seq(Shorts) : w = Append(v, d) /\ w = v \o <<d>>
      BY <3>1, AppendProperties, AppendIsConcat
    <3>3. Got(d, t).err = "none" /\ Got(d, t).v = d /\ Got(d, t).rest = t
      BY GotIs
    <3>4. Round(x) = Got(w, t)
      BY <1>3, <2>2, <2>4, <3>2, <3>3 DEF Round
    <3>5. Items(w) = Items(v) \o WithLength(d)
      <4>1. <<d>> \in Seq(Shorts)
        BY <3>1
      <4>2. Items(v \o <<d>>) = Items(v) \o Items(<<d>>) /\ Items(<<d>>) = WithLength(d)
        BY <3>1, <4>1, ItemsAre
      <4> QED
        BY <3>2, <4>2
    <3>6. PICK a \in String : a = Items(v)
      BY ItemsAre
    <3>7. PICK b \in String : b = WithLength(d) /\ Len(b) >= 1
      BY <2>4, LengthReadsBack
    <3>8. Len(a \o b) = Len(a) + Len(b)
      BY StringsJoined
    <3>9. PICK la \in Nat, lb \in Nat, lr \in Nat, lt \in Nat :
            la = Len(a) /\ lb = Len(b) /\ lr = Len(r) /\ lt = Len(t)
      BY StringIs
    <3>10. la + lr <= l /\ lb + lt <= lr /\ lb >= 1
      BY <2>1, <2>4, <3>6, <3>7, <3>9
    <3>11. la + lb + lt <= l /\ lt < lr
      BY <3>10
    <3>12. Len(Items(w)) + Len(t) <= l
      BY <3>5, <3>6, <3>7, <3>8, <3>9, <3>11
    <3>13. Half(Round(x), l)
      BY <3>4, <3>12 DEF Half
    <3>14. Round(x).rest = t
      BY <3>4, GotIs
    <3> QED
      BY <1>3, <2>2, <3>9, <3>11, <3>13, <3>14
  <2> QED
    BY <2>1, <2>3, <2>4, LengthReadIs
<1> QED
  BY <1>2, <1>3

(* What readTLVStringArray returns, of any symbols.                        *)
LEMMA StringsReadIs ==
  ASSUME NEW s \in String
  PROVE  \/ ReadStrings(s) = Failed("item")
         \/ \E v \in Seq(Shorts) : ReadStrings(s) = Got(v, <<>>) /\ Len(Items(v)) <= Len(s)
<1>1. PICK n \in Nat : n = Len(s)
  BY StringIs
<1> DEFINE H == {x \in {Failed("item")} \cup {Got(v, r) : v \in Seq(Shorts), r \in String} : Half(x, n)}
<1>2. \A x : x \in H <=> Half(x, n)
  BY DEF Half
<1> HIDE DEF H
<1>3. Got(<<>>, s) \in H
  <2>1. <<>> \in Seq(Shorts) /\ Items(<<>>) = <<>> /\ Len(<<>>) = 0
    BY ItemsAre
  <2>2. Len(Items(<<>>)) + Len(s) <= n
    BY <1>1, <2>1
  <2>3. Half(Got(<<>>, s), n)
    BY <2>1, <2>2 DEF Half
  <2> QED
    BY <1>2, <2>3
<1> DEFINE g == [k \in 1..n |-> [x \in H |-> Round(x)]]
<1>4. g \in [1..n -> [H -> H]]
  <2>1. \A x \in H : Round(x) \in H
    BY <1>2, RoundIs
  <2> QED
    BY <2>1
<1>5. \A k \in 1..n : \A x \in H : g[k][x] = Round(x)
  OBVIOUS
<1> HIDE DEF g
<1>6. PICK e \in H : e = Got(<<>>, s)
  BY <1>3
<1>7. PICK f \in [0..n -> H] : f[0] = e /\ \A k \in 1..n : f[k] = g[k][f[k - 1]]
  BY <1>4, Iterates
<1>8. \A k \in 0..n : f[k] \in H
  OBVIOUS
<1>9. \A k \in 1..n : f[k - 1] \in H /\ f[k] = Round(f[k - 1])
  <2>1. \A k \in 1..n : k - 1 \in 0..n
    OBVIOUS
  <2> QED
    BY <1>5, <1>7, <1>8, <2>1
<1>10. ReadStrings(s) = f[n]
  <2>1. Rounds(f, s, n)
    BY <1>6, <1>7, <1>9 DEF Rounds
  <2> QED
    BY <1>1, <2>1, LoopIs
<1> DEFINE T == {k \in 0..n : f[k].rest # <<>> => Len(f[k].rest) + k <= n}
<1>11. 0 \in T
  <2>1. f[0].rest = s
    BY <1>6, <1>7, GotIs
  <2> QED
    BY <1>1, <2>1
<1>12. ASSUME NEW k \in 0..n - 1, k \in T PROVE k + 1 \in T
  <2>1. k + 1 \in 1..n /\ (k + 1) - 1 = k /\ k + 1 \in 0..n
    OBVIOUS
  <2>2. PICK x : x = f[k] /\ x \in H
    BY <1>8
  <2>3. f[k + 1] = Round(x)
    BY <1>9, <2>1, <2>2
  <2>4. Half(x, n)
    BY <1>2, <2>2
  <2>5. /\ Round(x).rest # <<>> => x.rest # <<>> /\ Len(Round(x).rest) < Len(x.rest)
        /\ x.rest \in String /\ Round(x).rest \in String
    BY <2>4, RoundIs
  <2>6. PICK a \in String, b \in String : a = x.rest /\ b = Round(x).rest
    BY <2>5
  <2>7. PICK la \in Nat, lb \in Nat : la = Len(a) /\ lb = Len(b)
    BY StringIs
  <2>8. b # <<>> => a # <<>> /\ lb < la
    BY <2>5, <2>6, <2>7
  <2>9. a # <<>> => la + k <= n
    BY <1>12, <2>2, <2>6, <2>7
  <2>10. b # <<>> => lb + (k + 1) <= n
    BY <2>8, <2>9
  <2> QED
    BY <2>1, <2>3, <2>6, <2>7, <2>10
<1> HIDE DEF T
<1>13. n \in T
  <2>1. 0..n \subseteq T
    BY <1>11, <1>12, InductionTo
  <2> QED
    BY <2>1
<1>14. PICK x : x = f[n] /\ Half(x, n)
  BY <1>2, <1>8
<1>15. x.rest = <<>>
  <2>1. x.rest # <<>> => Len(x.rest) + n <= n
    BY <1>13, <1>14 DEF T
  <2>2. x.rest \in String
    BY <1>14, RoundIs
  <2>3. PICK r \in String, l \in Nat : r = x.rest /\ l = Len(r) /\ (r = <<>> <=> l = 0)
    BY <2>2, StringIs
  <2>4. r # <<>> => l + n <= n
    BY <2>1, <2>3
  <2>5. ~ (l + n <= n) \/ l = 0
    OBVIOUS
  <2> QED
    BY <2>3, <2>4, <2>5
<1>16. CASE x = Failed("item")
  BY <1>10, <1>14, <1>16
<1>17. ASSUME NEW v \in Seq(Shorts), NEW r \in String, x = Got(v, r), Len(Items(v)) + Len(r) <= n
       PROVE  \E w \in Seq(Shorts) : ReadStrings(s) = Got(w, <<>>) /\ Len(Items(w)) <= Len(s)
  <2>1. r = <<>>
    BY <1>15, <1>17, GotIs
  <2>2. PICK l \in Nat : l = Len(Items(v))
    BY ItemsAre, StringIs
  <2>3. l <= n
    <3>1. Len(<<>>) = 0
      OBVIOUS
    <3> QED
      BY <1>17, <2>1, <2>2, <3>1
  <2> QED
    BY <1>1, <1>10, <1>14, <1>17, <2>1, <2>2, <2>3
<1> QED
  BY <1>14, <1>16, <1>17 DEF Half

(* A string array is read as it was written.                               *)
LEMMA StringsReadBack ==
  ASSUME NEW v \in Seq(Shorts)
  PROVE  ReadStrings(Items(v)) = Got(v, <<>>)
<1>1. PICK m \in Nat : m = Len(v)
  BY LenProperties
<1>2. PICK s \in String : s = Items(v)
  BY ItemsAre
<1>3. PICK n \in Nat : n = Len(s)
  BY StringIs
<1>4. SubSeq(v, 1, m) = v
  BY <1>1, SubSeqFull
<1>5. m <= n
  <2> DEFINE T == {k \in 0..m : k <= Len(Items(SubSeq(v, 1, k)))}
  <2>1. 0 \in T
    <3>1. SubSeq(v, 1, 0) = <<>> /\ Items(<<>>) = <<>> /\ Len(<<>>) = 0
      BY ItemsAre, SubSeqEmpty
    <3> QED
      BY <3>1
  <2>2. ASSUME NEW k \in 0..m - 1, k \in T PROVE k + 1 \in T
    <3>1. PICK p : p = SubSeq(v, 1, k) /\ p \in Seq(Shorts)
      BY <1>1, OneMore
    <3>2. PICK d \in Shorts : d = v[k + 1]
      BY <1>1, OneMore
    <3>3. SubSeq(v, 1, k + 1) = p \o <<d>>
      BY <1>1, <3>1, <3>2, OneMore, AppendIsConcat
    <3>4. <<d>> \in Seq(Shorts)
      OBVIOUS
    <3>5. Items(p \o <<d>>) = Items(p) \o WithLength(d)
      BY <3>1, <3>4, ItemsAre
    <3>6. PICK a \in String : a = Items(p)
      BY <3>1, ItemsAre
    <3>7. PICK b \in String : b = WithLength(d) /\ Len(b) >= 1
      BY LengthReadsBack, StringIs DEF Shorts
    <3>8. Len(a \o b) = Len(a) + Len(b)
      BY StringsJoined
    <3>9. PICK la \in Nat, lb \in Nat : la = Len(a) /\ lb = Len(b)
      BY StringIs
    <3>10. k <= la /\ lb >= 1
      BY <2>2, <3>1, <3>6, <3>7, <3>9
    <3>11. k + 1 <= la + lb /\ k + 1 \in 0..m
      BY <3>10
    <3> QED
      BY <3>3, <3>5, <3>6, <3>7, <3>8, <3>9, <3>11
  <2> HIDE DEF T
  <2>3. m \in T
    <3>1. 0..m \subseteq T
      BY <2>1, <2>2, InductionTo
    <3> QED
      BY <3>1
  <2>4. m <= Len(Items(SubSeq(v, 1, m)))
    BY <2>3 DEF T
  <2> QED
    BY <1>2, <1>3, <1>4, <2>4
<1> DEFINE f == [k \in 0..n |-> IF k <= m THEN Got(SubSeq(v, 1, k), Items(SubSeq(v, k + 1, m))) ELSE Got(v, <<>>)]
<1>6. f = [k \in 0..n |-> f[k]]
  OBVIOUS
<1>7. /\ \A k \in 0..n : k <= m => f[k] = Got(SubSeq(v, 1, k), Items(SubSeq(v, k + 1, m)))
      /\ \A k \in 0..n : ~ (k <= m) => f[k] = Got(v, <<>>)
  OBVIOUS
<1> HIDE DEF f
<1>8. f[0] = Got(<<>>, s)
  <2>1. f[0] = Got(SubSeq(v, 1, 0), Items(SubSeq(v, 0 + 1, m)))
    BY <1>7
  <2>2. 0 + 1 = 1 /\ SubSeq(v, 1, 0) = <<>>
    BY SubSeqEmpty
  <2> QED
    BY <1>2, <1>4, <2>1, <2>2
<1>9. f[m] = Got(v, <<>>)
  <2>1. f[m] = Got(SubSeq(v, 1, m), Items(SubSeq(v, m + 1, m)))
    BY <1>5, <1>7
  <2>2. SubSeq(v, m + 1, m) = <<>>
    BY SubSeqEmpty
  <2> QED
    BY <1>4, <2>1, <2>2, ItemsAre
<1>10. ASSUME NEW k \in 1..n PROVE f[k] = Round(f[k - 1])
  <2>0. k \in 0..n /\ k - 1 \in 0..n
    OBVIOUS
  <2>1. CASE k <= m
    <3>1. k \in 1..m /\ m \in k..m /\ k - 1 \in 0..m - 1 /\ k - 1 <= m /\ (k - 1) + 1 = k
      BY <2>1
    <3>2. PICK d \in Shorts : d = v[k]
      BY <1>1, <3>1, ElementOfSeq
    <3>3. SubSeq(v, k, m) = <<d>> \o SubSeq(v, k + 1, m)
      BY <1>1, <3>1, <3>2, SubSeqRecursiveFirst
    <3>4. PICK q : q = SubSeq(v, k + 1, m) /\ q \in Seq(Shorts)
      <4>1. k \in 0..m
        BY <3>1
      <4> QED
        BY <1>1, <4>1, InTwo
    <3>5. PICK r \in String : r = Items(q)
      BY <3>4, ItemsAre
    <3>6. <<d>> \in Seq(Shorts)
      OBVIOUS
    <3>7. Items(SubSeq(v, k, m)) = WithLength(d) \o r
      BY <3>3, <3>4, <3>5, <3>6, ItemsAre
    <3>8. PICK p : p = SubSeq(v, 1, k - 1)
      OBVIOUS
    <3>9. f[k - 1] = Got(p, WithLength(d) \o r)
      BY <1>7, <2>0, <3>1, <3>7, <3>8
    <3>10. SubSeq(v, 1, k) = Append(p, d)
      BY <1>1, <3>1, <3>2, <3>8, OneMore
    <3>11. f[k] = Got(Append(p, d), r)
      BY <1>7, <2>0, <2>1, <3>4, <3>5, <3>10
    <3>12. ReadTLVBytes(WithLength(d) \o r) = Got(d, r)
      BY LengthReadsBack DEF Shorts
    <3>13. WithLength(d) \o r # <<>>
      <4>1. ReadTLVBytes(<<>>).err # "none"
        <5>1. ReadVarint(<<>>) = Failed("EOF") /\ Failed("EOF").err # "none"
          BY DEF ReadVarint, Failed
        <5> QED
          BY <5>1 DEF ReadTLVBytes
      <4>2. Got(d, r).err = "none"
        BY GotIs
      <4> QED
        BY <3>12, <4>1, <4>2
    <3>14. Got(d, r).err = "none" /\ Got(d, r).v = d /\ Got(d, r).rest = r
      BY GotIs
    <3>15. PICK x : x = WithLength(d) \o r
      OBVIOUS
    <3>16. Got(p, x).rest = x /\ Got(p, x).v = p
      BY GotIs
    <3>17. Round(Got(p, x)) = Got(Append(p, d), r)
      BY <3>12, <3>13, <3>14, <3>15, <3>16 DEF Round
    <3> QED
      BY <3>9, <3>11, <3>15, <3>17
  <2>2. CASE ~ (k <= m)
    <3>1. f[k] = Got(v, <<>>)
      BY <1>7, <2>0, <2>2
    <3>2. f[k - 1] = Got(v, <<>>)
      <4>1. k - 1 = m \/ ~ (k - 1 <= m)
        BY <2>2
      <4> QED
        BY <1>7, <1>9, <2>0, <4>1
    <3>3. Round(Got(v, <<>>)) = Got(v, <<>>)
      BY GotIs DEF Round
    <3> QED
      BY <3>1, <3>2, <3>3
  <2> QED
    BY <2>1, <2>2
<1>11. Rounds(f, s, n)
  BY <1>6, <1>8, <1>10 DEF Rounds
<1>12. ReadStrings(s) = f[n]
  BY <1>3, <1>11, LoopIs
<1>13. f[n] = Got(v, <<>>)
  <2>1. n = m \/ ~ (n <= m)
    BY <1>5
  <2> QED
    BY <1>7, <1>9, <2>1
<1> QED
  BY <1>2, <1>12, <1>13

-----------------------------------------------------------------------------
(* The values of the tags.                                                 *)

(* What kind of field every tag has.                                       *)
LEMMA Kinds ==
  /\ Tags = (0..15) \ {4}
  /\ \A t \in Tags :
       \/ t = Version /\ Kind[t] = "version"
       \/ t = Addresses /\ Kind[t] = "addresses"
       \/ t \in {SkipVerification, 10} /\ Kind[t] = "bool"
       \/ t = Protocol /\ Kind[t] = "protocol"
       \/ t = Prefix /\ Kind[t] = "prefix"
       \/ t = 13 /\ Kind[t] = "strings"
       \/ t = AuthKey /\ Kind[t] = "hex"
       \/ t \in {Hostname, SNI, Username, Password, 8, 12, SubscriptionURL} /\ Kind[t] = "string"
  /\ {Version, Hostname, Addresses, SNI, Username, Password, SkipVerification, Protocol, Prefix,
      SubscriptionURL, AuthKey} \subseteq Tags
<1>1. Tags = (0..15) \ {4}
  BY DEF Tags, Kind
<1>2. /\ Version = 0 /\ Hostname = 1 /\ Addresses = 2 /\ SNI = 3 /\ Username = 5 /\ Password = 6
      /\ SkipVerification = 7 /\ Protocol = 9 /\ Prefix = 11 /\ SubscriptionURL = 14 /\ AuthKey = 15
  BY DEF Version, Hostname, Addresses, SNI, Username, Password, SkipVerification, Protocol, Prefix,
         SubscriptionURL, AuthKey
<1>3. /\ Kind[0] = "version" /\ Kind[2] = "addresses" /\ Kind[9] = "protocol" /\ Kind[11] = "prefix"
      /\ Kind[13] = "strings" /\ Kind[15] = "hex" /\ \A t \in {7, 10} : Kind[t] = "bool"
      /\ \A t \in {1, 3, 5, 6, 8, 12, 14} : Kind[t] = "string"
  BY DEF Kind
<1>4. \A t \in Tags : t \in {0, 1, 2, 3, 5, 6, 7, 8, 9, 10, 11, 12, 13, 14, 15}
  BY <1>1
<1> QED
  BY <1>1, <1>2, <1>3, <1>4

(* There is room for every tag, and for a length of one.                   *)
LEMMA Room ==
  /\ MaxVarint(3) \in Nat /\ MaxVarint(3) >= 15
  /\ \A t \in Tags : t \in Nat /\ Varint(t)
<1>1. PICK r \in Nat : r = Radix /\ r >= 4
  BY RadixIs
<1>2. \A k \in 1..7 : Power[k] >= 4 * Power[k - 1]
  <2> SUFFICES ASSUME NEW k \in 1..7 PROVE Power[k] >= 4 * Power[k - 1]
    OBVIOUS
  <2>1. PICK p \in Nat : p = Power[k - 1]
    <3>1. k - 1 \in 0..7
      OBVIOUS
    <3> QED
      BY <3>1, PowerIs
  <2>2. Power[k] = r * p
    BY <1>1, <2>1, PowerIs
  <2>3. p * 4 <= p * r /\ p * 4 \in Nat /\ p * r \in Nat
    BY <1>1, Monotone
  <2>4. r * p = p * r
    OBVIOUS
  <2> QED
    BY <2>1, <2>2, <2>3, <2>4
<1>3. PICK p \in Nat : p = Power[7] /\ p >= 16
  <2>1. \A k \in 0..7 : Power[k] \in Nat /\ Power[k] >= 1
    BY PowerIs
  <2>2. Power[7] >= 4 * Power[6] /\ Power[6] >= 4 * Power[5]
    BY <1>2
  <2>3. Power[7] \in Nat /\ Power[6] \in Nat /\ Power[5] \in Nat /\ Power[5] >= 1
    BY <2>1
  <2>4. Power[7] >= 16
    BY <2>2, <2>3
  <2> QED
    BY <2>3, <2>4
<1>4. MaxVarint(3) + 1 = Quarter * p /\ MaxVarint(3) \in Nat
  BY <1>3, LengthsAre
<1>5. PICK q \in Nat : q = Quarter /\ q >= 1
  BY RadixIs
<1>6. p * 1 <= p * q /\ p * q = q * p /\ q * p \in Nat
  BY <1>5, Monotone
<1>7. MaxVarint(3) \in Nat /\ MaxVarint(3) >= 15
  BY <1>3, <1>4, <1>5, <1>6
<1> QED
  <2>1. PICK m \in Nat : m = MaxVarint(3) /\ m >= 15
    BY <1>7
  <2>2. \A t \in (0..15) \ {4} : t \in Nat /\ t <= m
    BY <2>1
  <2> QED
    BY <1>7, <2>1, <2>2, Kinds DEF Varint

(* A byte is read as it was written.                                       *)
LEMMA ByteReadsBack ==
  ASSUME NEW b \in 0..2
  PROVE  /\ Short(<<b>>) /\ b \in Symbols
         /\ \A allowed : b \in allowed => Byte(<<b>>, allowed) = Got(b, <<>>)
<1>1. b \in Symbols
  BY RadixIs
<1>2. <<b>> \in String /\ Len(<<b>>) = 1 /\ <<b>>[1] = b
  BY <1>1 DEF String
<1>3. Short(<<b>>)
  BY <1>2, Room DEF Short, Varint
<1>4. ASSUME NEW allowed, b \in allowed PROVE Byte(<<b>>, allowed) = Got(b, <<>>)
  BY <1>2, <1>4 DEF Byte
<1> QED
  BY <1>1, <1>3, <1>4

(* What a byte is read as.                                                 *)
LEMMA ByteIs ==
  ASSUME NEW s, NEW allowed
  PROVE  \/ Byte(s, allowed) = Failed("byte")
         \/ \E b \in allowed : Byte(s, allowed) = Got(b, <<>>)
BY DEF Byte

(* A list of parts that fit.                                               *)
LEMMA ShortList ==
  ASSUME NEW v \in Seq(String), \A i \in DOMAIN v : Len(v[i]) <= MaxVarint(3)
  PROVE  v \in Seq(Shorts)
<1>1. PICK n \in Nat : n = Len(v) /\ DOMAIN v = 1..n
  BY LenProperties
<1>2. \A i \in 1..n : v[i] \in Shorts
  <2> SUFFICES ASSUME NEW i \in 1..n PROVE v[i] \in Shorts
    OBVIOUS
  <2>1. v[i] \in String
    BY <1>1, ElementOfSeq
  <2>2. Len(v[i]) \in Nat
    BY <2>1, StringIs
  <2>3. Len(v[i]) <= MaxVarint(3)
    BY <1>1
  <2> QED
    BY <2>1, <2>2, <2>3 DEF Shorts, Short, Varint
<1>3. v = [i \in 1..n |-> v[i]]
  BY <1>1
<1>4. v \in [1..n -> Shorts]
  BY <1>2, <1>3
<1> QED
  BY <1>4, IsSeq

(* A value is parsed from what was written for it, unless it is a client   *)
(* random prefix that is too long.                                         *)
THEOREM DecodeBack ==
  ASSUME NEW t \in Tags, t # Addresses, NEW v \in Values(t), Fits(t, v), ~ Omitted(t, v)
  PROVE  /\ Short(Encode(t, v))
         /\ Decode(t, Encode(t, v)) = IF t = Prefix /\ ~ Fitting(v) THEN Failed("prefix") ELSE Got(v, <<>>)
<1>0. /\ Version # Prefix /\ Protocol # Prefix /\ SkipVerification # Prefix /\ 10 # Prefix
      /\ 13 # Prefix /\ AuthKey # Prefix /\ Hostname # Prefix /\ SNI # Prefix /\ Username # Prefix
      /\ Password # Prefix /\ 8 # Prefix /\ 12 # Prefix /\ SubscriptionURL # Prefix
  BY DEF Version, Hostname, SNI, Username, Password, SkipVerification, Protocol, Prefix,
         SubscriptionURL, AuthKey
<1>1. Len(Encode(t, v)) <= MaxVarint(3)
  BY DEF Fits
<1>2. ASSUME Encode(t, v) \in String PROVE Short(Encode(t, v))
  <2>1. Len(Encode(t, v)) \in Nat
    BY <1>2, StringIs
  <2> QED
    BY <1>1, <1>2, <2>1 DEF Short, Varint
<1>3. CASE t = Version /\ Kind[t] = "version"
  <2>1. v \in 0..2
    BY <1>3 DEF Values
  <2>2. Encode(t, v) = <<v>>
    BY <1>3 DEF Encode
  <2>3. Decode(t, <<v>>) = Byte(<<v>>, 0..2)
    BY <1>3 DEF Decode
  <2>4. Byte(<<v>>, 0..2) = Got(v, <<>>) /\ Short(<<v>>)
    BY <2>1, ByteReadsBack
  <2> QED
    BY <1>0, <1>3, <2>2, <2>3, <2>4
<1>4. CASE t = Protocol /\ Kind[t] = "protocol"
  <2>1. v \in 0..2
    BY <1>4 DEF Values
  <2>2. v # 0
    <3>1. Zero[t] = 0
      BY <1>4 DEF Zero
    <3> QED
      BY <3>1 DEF Omitted
  <2>3. Encode(t, v) = <<v>>
    BY <1>4 DEF Encode
  <2>4. Decode(t, <<v>>) = Byte(<<v>>, 1..2)
    BY <1>4 DEF Decode
  <2>5. v \in 1..2
    BY <2>1, <2>2
  <2>6. Byte(<<v>>, 1..2) = Got(v, <<>>) /\ Short(<<v>>)
    BY <2>1, <2>5, ByteReadsBack
  <2> QED
    BY <1>0, <1>4, <2>3, <2>4, <2>6
<1>5. CASE t \in {SkipVerification, 10} /\ Kind[t] = "bool"
  <2>1. v = TRUE
    <3>1. v \in BOOLEAN
      BY <1>5 DEF Values
    <3>2. Zero[t] = FALSE
      BY <1>5 DEF Zero
    <3> QED
      BY <3>1, <3>2 DEF Omitted
  <2>2. Encode(t, v) = <<1>>
    BY <1>5, <2>1 DEF Encode
  <2>3. Decode(t, <<1>>) = [Byte(<<1>>, Symbols) EXCEPT !.v = @ # 0]
    BY <1>5 DEF Decode
  <2>4. Byte(<<1>>, Symbols) = Got(1, <<>>) /\ Short(<<1>>)
    BY ByteReadsBack
  <2>5. [Got(1, <<>>) EXCEPT !.v = @ # 0] = Got(TRUE, <<>>)
    <3>1. \A x : [Got(1, <<>>) EXCEPT !.v = x] = Got(x, <<>>)
      BY DEF Got
    <3>2. (Got(1, <<>>).v # 0) = TRUE
      BY DEF Got
    <3>3. [Got(1, <<>>) EXCEPT !.v = @ # 0] = [Got(1, <<>>) EXCEPT !.v = TRUE]
      BY <3>2
    <3> QED
      BY <3>1, <3>3
  <2> QED
    BY <1>0, <1>5, <2>1, <2>2, <2>3, <2>4, <2>5
<1>6. CASE t = Prefix /\ Kind[t] = "prefix"
  <2>1. v \in PrefixSet
    BY <1>6 DEF Values, PrefixSet
  <2>2. Encode(t, v) = PrefixString(v) /\ Decode(t, PrefixString(v)) = ParsePrefix(PrefixString(v))
    BY <1>6 DEF Encode, Decode
  <2>3. PrefixString(v) \in String
    BY <2>1, PrintedIs
  <2>4. ParsePrefix(PrefixString(v)) = IF Fitting(v) THEN Got(v, <<>>) ELSE Failed("prefix")
    BY <2>1, PrefixReadsBack
  <2> QED
    BY <1>2, <1>6, <2>2, <2>3, <2>4
<1>7. CASE t = 13 /\ Kind[t] = "strings"
  <2>1. v \in Seq(String) /\ \A i \in DOMAIN v : Len(v[i]) <= MaxVarint(3)
    BY <1>7 DEF Values, Fits
  <2>2. v \in Seq(Shorts)
    BY <2>1, ShortList
  <2>3. Encode(t, v) = FlattenSeq([i \in DOMAIN v |-> WithLength(v[i])])
    BY <1>7 DEF Encode
  <2>4. Encode(t, v) = Items(v) /\ Items(v) \in String
    BY <2>2, <2>3, ItemsWritten, ItemsAre
  <2>5. Decode(t, Items(v)) = ReadStrings(Items(v))
    BY <1>7 DEF Decode
  <2> QED
    BY <1>0, <1>2, <1>7, <2>2, <2>4, <2>5, StringsReadBack
<1>8. CASE t = AuthKey /\ Kind[t] = "hex"
  <2>1. v \in String
    BY <1>8 DEF Values
  <2>2. Encode(t, v) = EncodeHex(v)
    BY <1>8 DEF Encode
  <2>3. EncodeHex(v) \in String /\ IsHex(EncodeHex(v)) /\ DecodeHex(EncodeHex(v)) = v
    BY <2>1, HexReadsBack
  <2>4. PICK x : x = EncodeHex(v)
    OBVIOUS
  <2>5. Decode(t, x) = IF IsHex(x) THEN Got(DecodeHex(x), <<>>) ELSE Failed("hex")
    BY <1>8 DEF Decode
  <2> QED
    BY <1>0, <1>2, <1>8, <2>2, <2>3, <2>4, <2>5
<1>9. CASE /\ t \in {Hostname, SNI, Username, Password, 8, 12, SubscriptionURL}
           /\ Kind[t] = "string"
  <2>1. v \in String
    BY <1>9 DEF Values
  <2>2. Encode(t, v) = v /\ Decode(t, v) = Got(v, <<>>)
    BY <1>9 DEF Encode, Decode
  <2> QED
    BY <1>0, <1>2, <1>9, <2>1, <2>2
<1> QED
  BY <1>3, <1>4, <1>5, <1>6, <1>7, <1>8, <1>9, Kinds

(* What is parsed from a value of a field can be written again.            *)
LEMMA DecodedIs ==
  ASSUME NEW t \in Tags, NEW s, Short(s), Decode(t, s).err = "none"
  PROVE  /\ t = Addresses => Decode(t, s).v = s /\ ValidAddress(s)
         /\ t # Addresses => Decode(t, s).v \in Values(t) /\ Fits(t, Decode(t, s).v)
         /\ t = Prefix => Fitting(Decode(t, s).v)
<1>0. /\ \A u \in {Version, Hostname, SNI, Username, Password, SkipVerification, Protocol,
                   SubscriptionURL, AuthKey, 8, 10, 12, 13} : u # Prefix /\ u # Addresses
      /\ Prefix # Addresses
  BY DEF Version, Hostname, SNI, Username, Password, SkipVerification, Protocol, Prefix,
         SubscriptionURL, AuthKey, Addresses
<1>1. s \in String /\ Len(s) \in Nat /\ Len(s) <= MaxVarint(3)
  BY StringIs DEF Short, Varint
<1>2. \A e : Failed(e).err = e
  BY GotIs
<1>3. CASE t = Version /\ Kind[t] = "version"
  <2>1. Decode(t, s) = Byte(s, 0..2)
    BY <1>3 DEF Decode
  <2>2. PICK b \in 0..2 : Byte(s, 0..2) = Got(b, <<>>)
    <3>1. Failed("byte").err # "none"
      BY <1>2
    <3> QED
      BY <2>1, <3>1, ByteIs
  <2>3. Decode(t, s).v = b
    BY <2>1, <2>2, GotIs
  <2>4. Fits(t, b)
    <3>1. Encode(t, b) = <<b>> /\ Len(<<b>>) = 1
      BY <1>3 DEF Encode
    <3> QED
      BY <1>3, <3>1, Room DEF Fits
  <2>5. b \in Values(t)
    BY <1>3 DEF Values
  <2> QED
    BY <1>0, <1>3, <2>3, <2>4, <2>5
<1>4. CASE t = Protocol /\ Kind[t] = "protocol"
  <2>1. Decode(t, s) = Byte(s, 1..2)
    BY <1>4 DEF Decode
  <2>2. PICK b \in 1..2 : Byte(s, 1..2) = Got(b, <<>>)
    <3>1. Failed("byte").err # "none"
      BY <1>2
    <3> QED
      BY <2>1, <3>1, ByteIs
  <2>3. Decode(t, s).v = b
    BY <2>1, <2>2, GotIs
  <2>4. Fits(t, b)
    <3>1. Encode(t, b) = <<b>> /\ Len(<<b>>) = 1
      BY <1>4 DEF Encode
    <3> QED
      BY <1>4, <3>1, Room DEF Fits
  <2>5. b \in Values(t)
    BY <1>4 DEF Values
  <2> QED
    BY <1>0, <1>4, <2>3, <2>4, <2>5
<1>5. CASE t \in {SkipVerification, 10} /\ Kind[t] = "bool"
  <2>1. Decode(t, s) = [Byte(s, Symbols) EXCEPT !.v = @ # 0]
    BY <1>5 DEF Decode
  <2>2. PICK b \in Symbols : Byte(s, Symbols) = Got(b, <<>>)
    <3>1. [Failed("byte") EXCEPT !.v = @ # 0].err # "none"
      BY DEF Failed
    <3> QED
      BY <2>1, <3>1, ByteIs
  <2>3. [Got(b, <<>>) EXCEPT !.v = @ # 0].v = (b # 0)
    BY DEF Got
  <2>4. PICK v \in BOOLEAN : v = Decode(t, s).v
    BY <2>1, <2>2, <2>3
  <2>5. Fits(t, v)
    <3>1. Encode(t, v) = <<IF v THEN 1 ELSE 0>>
      BY <1>5 DEF Encode
    <3>2. Len(Encode(t, v)) = 1
      BY <3>1
    <3> QED
      BY <1>5, <3>2, Room DEF Fits
  <2>6. v \in Values(t)
    BY <1>5 DEF Values
  <2> QED
    BY <1>0, <1>5, <2>4, <2>5, <2>6
<1>6. CASE t = Prefix /\ Kind[t] = "prefix"
  <2>1. Decode(t, s) = ParsePrefix(s)
    BY <1>6 DEF Decode
  <2>2. PICK p \in PrefixSet : ParsePrefix(s) = Got(p, <<>>) /\ Fitting(p) /\ Len(PrefixString(p)) <= Len(s)
    BY <1>1, <2>1, PrefixReadIs
  <2>3. Decode(t, s).v = p
    BY <2>1, <2>2, GotIs
  <2>4. Fits(t, p)
    <3>1. Encode(t, p) = PrefixString(p)
      BY <1>6 DEF Encode
    <3>2. Len(PrefixString(p)) \in Nat
      BY PrintedIs, StringIs
    <3>3. Len(PrefixString(p)) <= MaxVarint(3)
      BY <1>1, <2>2, <3>2, Room
    <3> QED
      BY <1>6, <3>1, <3>3 DEF Fits
  <2>5. p \in Values(t)
    BY <1>6 DEF Values, PrefixSet
  <2> QED
    BY <1>0, <1>6, <2>2, <2>3, <2>4, <2>5
<1>7. CASE t = 13 /\ Kind[t] = "strings"
  <2>1. Decode(t, s) = ReadStrings(s)
    BY <1>7 DEF Decode
  <2>2. PICK v \in Seq(Shorts) : ReadStrings(s) = Got(v, <<>>) /\ Len(Items(v)) <= Len(s)
    <3>1. Failed("item").err # "none"
      BY <1>2
    <3> QED
      BY <1>1, <2>1, <3>1, StringsReadIs
  <2>3. Decode(t, s).v = v
    BY <2>1, <2>2, GotIs
  <2>4. PICK n \in Nat : n = Len(v) /\ DOMAIN v = 1..n
    BY LenProperties
  <2>5. \A i \in 1..n : v[i] \in Shorts
    BY <2>4, ElementOfSeq
  <2>6. \A i \in 1..n : v[i] \in String /\ Len(v[i]) <= MaxVarint(3)
    BY <2>5 DEF Shorts, Short, Varint
  <2>7. v \in Seq(String)
    <3>1. v = [i \in 1..n |-> v[i]]
      BY <2>4
    <3>2. v \in [1..n -> String]
      BY <2>6, <3>1
    <3> QED
      BY <3>2, IsSeq
  <2>8. Fits(t, v)
    <3>1. Encode(t, v) = FlattenSeq([i \in DOMAIN v |-> WithLength(v[i])])
      BY <1>7 DEF Encode
    <3>2. Encode(t, v) = Items(v) /\ Items(v) \in String
      BY <3>1, ItemsWritten, ItemsAre
    <3>3. Len(Items(v)) <= MaxVarint(3)
      <4>1. Len(Items(v)) \in Nat
        BY <3>2, StringIs
      <4> QED
        BY <1>1, <2>2, <4>1, Room
    <3> QED
      BY <2>4, <2>6, <3>2, <3>3 DEF Fits
  <2>9. v \in Values(t)
    BY <1>7, <2>7 DEF Values
  <2> QED
    BY <1>0, <1>7, <2>3, <2>8, <2>9
<1>8. CASE t = AuthKey /\ Kind[t] = "hex"
  <2>1. Decode(t, s) = IF IsHex(s) THEN Got(DecodeHex(s), <<>>) ELSE Failed("hex")
    BY <1>8 DEF Decode
  <2>2. IsHex(s) /\ Decode(t, s) = Got(DecodeHex(s), <<>>)
    <3>1. Failed("hex").err # "none"
      BY <1>2
    <3> QED
      BY <2>1, <3>1
  <2>3. PICK v \in String : v = DecodeHex(s) /\ 2 * Len(v) = Len(s)
    BY <1>1, <2>2, HexReadIs
  <2>4. Decode(t, s).v = v
    BY <2>2, <2>3, GotIs
  <2>5. Fits(t, v)
    <3>1. Encode(t, v) = EncodeHex(v)
      BY <1>8 DEF Encode
    <3>2. Len(EncodeHex(v)) = Len(s)
      BY <2>3, HexReadsBack
    <3> QED
      BY <1>1, <1>8, <3>1, <3>2 DEF Fits
  <2>6. v \in Values(t)
    BY <1>8 DEF Values
  <2> QED
    BY <1>0, <1>8, <2>4, <2>5, <2>6
<1>9. CASE /\ t \in {Hostname, SNI, Username, Password, 8, 12, SubscriptionURL}
           /\ Kind[t] = "string"
  <2>1. Decode(t, s) = Got(s, <<>>) /\ Encode(t, s) = s
    BY <1>9 DEF Decode, Encode
  <2>2. Fits(t, s)
    BY <1>1, <1>9, <2>1 DEF Fits
  <2>3. s \in Values(t)
    BY <1>1, <1>9 DEF Values
  <2>4. Decode(t, s).v = s
    BY <2>1, GotIs
  <2> QED
    BY <1>0, <1>9, <2>2, <2>3, <2>4
<1>10. CASE t = Addresses /\ Kind[t] = "addresses"
  <2>1. Decode(t, s) = IF ValidAddress(s) THEN Got(s, <<>>) ELSE Failed("address")
    BY <1>10 DEF Decode
  <2>2. Failed("address").err # "none"
    BY <1>2
  <2>3. ValidAddress(s) /\ Decode(t, s) = Got(s, <<>>)
    BY <2>1, <2>2
  <2> QED
    BY <1>0, <1>10, <2>3, GotIs
<1> QED
  BY <1>3, <1>4, <1>5, <1>6, <1>7, <1>8, <1>9, <1>10, Kinds

-----------------------------------------------------------------------------
(* Fields, and what they make of a URL.                                    *)

(* Fields that can be written.                                             *)
EntrySet == {e \in [tag : Nat, data : String] : Varint(e.tag) /\ Short(e.data)}

EntryTLV == [e \in EntrySet |-> TLV(e.tag, e.data)]

(* Fields and their bytes.                                                 *)
LEMMA EntryIs ==
  /\ \A t \in Nat, s \in Shorts : Varint(t) => Entry(t, s) \in EntrySet
  /\ \A t, s : Entry(t, s).tag = t /\ Entry(t, s).data = s
  /\ \A e \in EntrySet :
       /\ e.tag \in Nat /\ Varint(e.tag) /\ e.data \in Shorts /\ e.data \in String /\ Short(e.data)
       /\ TLV(e.tag, e.data) \in String
<1>1. \A e \in EntrySet : e.tag \in Nat /\ Varint(e.tag) /\ e.data \in String /\ Short(e.data)
  BY DEF EntrySet
<1>2. ASSUME NEW e \in EntrySet PROVE TLV(e.tag, e.data) \in String
  <2>1. <<>> \in String
    BY StringIs
  <2> QED
    BY <1>1, <2>1, FieldReadsBack
<1>3. \A t, s : Entry(t, s).tag = t /\ Entry(t, s).data = s
  BY DEF Entry
<1>4. \A t \in Nat, s \in Shorts : Varint(t) => Entry(t, s) \in EntrySet
  BY DEF Entry, EntrySet, Shorts
<1> QED
  BY <1>1, <1>2, <1>3, <1>4 DEF Shorts

(* The bytes of fields are those of the first ones and those of the        *)
(* others.                                                                 *)
LEMMA BytesAre ==
  /\ Bytes(<<>>) = <<>>
  /\ \A e \in EntrySet : Bytes(<<e>>) = TLV(e.tag, e.data)
  /\ \A es \in Seq(EntrySet) : Bytes(es) \in String
  /\ \A es, fs \in Seq(EntrySet) : Bytes(es \o fs) = Bytes(es) \o Bytes(fs)
<1>1. EntryTLV \in [EntrySet -> String]
  BY EntryIs DEF EntryTLV
<1>2. Joins(String)
  BY StringIs
<1>3. \A e \in EntrySet : EntryTLV[e] = TLV(e.tag, e.data)
  BY DEF EntryTLV
<1>4. /\ All(EntryTLV, <<>>) = <<>>
      /\ \A e \in EntrySet : All(EntryTLV, <<e>>) = EntryTLV[e]
      /\ \A es \in Seq(EntrySet) : All(EntryTLV, es) \in String
      /\ \A es, fs \in Seq(EntrySet) : All(EntryTLV, es \o fs) = All(EntryTLV, es) \o All(EntryTLV, fs)
  BY <1>1, <1>2, AllIs
<1>5. ASSUME NEW es \in Seq(EntrySet) PROVE Bytes(es) = All(EntryTLV, es)
  <2>1. PICK n \in Nat : n = Len(es) /\ DOMAIN es = 1..n
    BY LenProperties
  <2>2. \A i \in 1..n : es[i] \in EntrySet
    BY <2>1, ElementOfSeq
  <2>3. [i \in 1..n |-> TLV(es[i].tag, es[i].data)] = [i \in 1..n |-> EntryTLV[es[i]]]
    BY <1>3, <2>2
  <2> QED
    BY <2>1, <2>3 DEF Bytes, All
<1>6. <<>> \in Seq(EntrySet) /\ \A e \in EntrySet : <<e>> \in Seq(EntrySet)
  OBVIOUS
<1>7. \A es, fs \in Seq(EntrySet) : es \o fs \in Seq(EntrySet)
  BY ConcatProperties
<1> QED
  BY <1>3, <1>4, <1>5, <1>6, <1>7

(* Fields that are left, one by one.                                       *)
LEMMA FirstEntry ==
  ASSUME NEW es \in Seq(EntrySet)
  PROVE  \/ es = <<>> /\ Bytes(es) = <<>>
         \/ \E e \in EntrySet, fs \in Seq(EntrySet) :
              es = <<e>> \o fs /\ Bytes(es) = TLV(e.tag, e.data) \o Bytes(fs)
<1>1. CASE es = <<>>
  BY <1>1, BytesAre
<1>2. CASE es # <<>>
  <2>1. PICK n \in Nat : n = Len(es) /\ n >= 1
    <3>1. Len(es) \in Nat /\ Len(es) # 0
      BY <1>2, LenProperties, EmptySeq
    <3> QED
      BY <3>1
  <2>2. 1 \in 1..n /\ n \in 1..n
    BY <2>1
  <2>3. PICK e \in EntrySet : e = es[1]
    BY <2>1, <2>2, ElementOfSeq
  <2>4. SubSeq(es, 1, n) = <<e>> \o SubSeq(es, 1 + 1, n)
    BY <2>1, <2>2, <2>3, SubSeqRecursiveFirst
  <2>5. PICK fs : fs = SubSeq(es, 1 + 1, n) /\ fs \in Seq(EntrySet)
    <3>1. 1 \in 0..n
      BY <2>1
    <3> QED
      BY <2>1, <3>1, InTwo
  <2>6. es = <<e>> \o fs
    BY <2>1, <2>4, <2>5, SubSeqFull
  <2>7. <<e>> \in Seq(EntrySet)
    OBVIOUS
  <2>8. Bytes(<<e>> \o fs) = Bytes(<<e>>) \o Bytes(fs) /\ Bytes(<<e>>) = TLV(e.tag, e.data)
    BY <2>5, <2>7, BytesAre
  <2> QED
    BY <2>5, <2>6, <2>8
<1> QED
  BY <1>1, <1>2

(* What reading the next field finds.                                      *)
LEMMA NextEntry ==
  ASSUME NEW e \in EntrySet, NEW r \in String
  PROVE  /\ TLV(e.tag, e.data) \o r # <<>>
         /\ ReadVarint(TLV(e.tag, e.data) \o r) = Got(e.tag, WithLength(e.data) \o r)
         /\ ReadTLVBytes(WithLength(e.data) \o r) = Got(e.data, r)
<1>1. e.tag \in Nat /\ e.data \in String /\ Varint(e.tag) /\ Short(e.data)
  BY EntryIs
<1>2. PICK t \in Nat, s \in String : t = e.tag /\ s = e.data /\ Varint(t) /\ Short(s)
  BY <1>1
<1>3. TLV(t, s) \o r # <<>> /\ ReadVarint(TLV(t, s) \o r) = Got(t, WithLength(s) \o r)
  BY <1>2, FieldReadsBack
<1>4. ReadTLVBytes(WithLength(s) \o r) = Got(s, r)
  BY <1>2, LengthReadsBack
<1> QED
  BY <1>2, <1>3, <1>4

(* What a field of a link makes of a URL, if it is to become url T.        *)
Says(T, u, e, w) ==
  \/ e.tag \notin Tags /\ w = u
  \/ e.tag = Addresses /\ ValidAddress(e.data) /\ w = [u EXCEPT ![Addresses] = Append(@, e.data)]
  \/ /\ e.tag \in Tags \ {Addresses} /\ ~ Omitted(e.tag, T[e.tag])
     /\ e.data = Encode(e.tag, T[e.tag]) /\ w = [u EXCEPT ![e.tag] = T[e.tag]]

(* What fields make of it, one after another.                              *)
Through(T, us, es, n) == \A i \in 1..n : Says(T, us[i - 1], es[i], us[i])

Run(T, u, es, w) == \E us : us[0] = u /\ us[Len(es)] = w /\ Through(T, us, es, Len(es))

(* No field changes nothing.                                               *)
LEMMA RunEmpty == \A T, u : Run(T, u, <<>>, u)
<1> TAKE T, u
<1> DEFINE us == [i \in {0} |-> u]
<1>1. us[0] = u /\ Len(<<>>) = 0
  OBVIOUS
<1>2. Through(T, us, <<>>, 0)
  BY DEF Through
<1> HIDE DEF us
<1> QED
  BY <1>1, <1>2 DEF Run

(* One field makes of a URL what it says.                                  *)
LEMMA RunOne ==
  ASSUME NEW T, NEW u, NEW e, NEW w
  PROVE  Says(T, u, e, w) => Run(T, u, <<e>>, w)
<1> DEFINE us == [i \in {0, 1} |-> IF i = 0 THEN u ELSE w]
<1>1. us[0] = u /\ us[1] = w /\ Len(<<e>>) = 1 /\ <<e>>[1] = e
  OBVIOUS
<1> HIDE DEF us
<1>2. ASSUME Says(T, u, e, w) PROVE Run(T, u, <<e>>, w)
  <2>1. Through(T, us, <<e>>, 1)
    <3>1. \A i \in 1..1 : i = 1 /\ i - 1 = 0
      OBVIOUS
    <3> QED
      BY <1>1, <1>2, <3>1 DEF Through
  <2> QED
    BY <1>1, <2>1 DEF Run
<1> QED
  BY <1>2

(* Fields that follow on other fields.                                     *)
LEMMA RunConcat ==
  ASSUME NEW T, NEW u, NEW v, NEW w, NEW a \in Seq(EntrySet), NEW b \in Seq(EntrySet),
         Run(T, u, a, v), Run(T, v, b, w)
  PROVE  Run(T, u, a \o b, w)
<1>1. PICK m \in Nat, n \in Nat : m = Len(a) /\ n = Len(b)
  BY LenProperties
<1>2. PICK f : f[0] = u /\ f[m] = v /\ Through(T, f, a, m)
  BY <1>1 DEF Run
<1>3. PICK g : g[0] = v /\ g[n] = w /\ Through(T, g, b, n)
  BY <1>1 DEF Run
<1>4. PICK ab : ab = a \o b
  OBVIOUS
<1>5. Sized(ab, m + n, EntrySet) /\ Apart(ab, a, b, m, n)
  <2>1. Sized(a, m, EntrySet) /\ Sized(b, n, EntrySet)
    BY <1>1 DEF Sized
  <2> QED
    BY <1>4, <2>1, Joined, Zenon
<1>6. Len(ab) = m + n
  BY <1>5 DEF Sized
<1>7. (\A i \in 1..m : ab[i] = a[i]) /\ \A i \in 1..n : ab[m + i] = b[i]
  BY <1>5, Zenon DEF Apart
<1> DEFINE h == [i \in 0..m + n |-> IF i <= m THEN f[i] ELSE g[i - m]]
<1>8. \A i \in 0..m : h[i] = f[i]
  OBVIOUS
<1>9. \A i \in 0..n : h[m + i] = g[i]
  <2> SUFFICES ASSUME NEW i \in 0..n PROVE h[m + i] = g[i]
    OBVIOUS
  <2>1. CASE i = 0
    BY <1>2, <1>3, <2>1
  <2>2. CASE i # 0
    <3>1. ~ (m + i <= m) /\ (m + i) - m = i /\ m + i \in 0..m + n
      BY <2>2
    <3> QED
      BY <3>1
  <2> QED
    BY <2>1, <2>2
<1> HIDE DEF h
<1>10. ASSUME NEW i \in 1..m PROVE Says(T, h[i - 1], ab[i], h[i])
  <2>1. i - 1 \in 0..m /\ i \in 0..m
    OBVIOUS
  <2>2. Says(T, f[i - 1], a[i], f[i])
    BY <1>2 DEF Through
  <2>3. h[i - 1] = f[i - 1] /\ h[i] = f[i] /\ ab[i] = a[i]
    BY <1>7, <1>8, <2>1
  <2> QED
    BY <2>2, <2>3, Zenon
<1>11. ASSUME NEW i \in 1..n PROVE Says(T, h[(m + i) - 1], ab[m + i], h[m + i])
  <2>1. i - 1 \in 0..n /\ i \in 0..n /\ (m + i) - 1 = m + (i - 1)
    OBVIOUS
  <2>2. Says(T, g[i - 1], b[i], g[i])
    BY <1>3 DEF Through
  <2>3. h[m + (i - 1)] = g[i - 1] /\ h[m + i] = g[i] /\ ab[m + i] = b[i]
    BY <1>7, <1>9, <2>1
  <2> QED
    BY <2>1, <2>2, <2>3, Zenon
<1>12. Through(T, h, ab, m + n)
  <2>1. ASSUME NEW i \in 1..m + n PROVE i \in 1..m \/ \E j \in 1..n : i = m + j
    <3>1. i \in 1..m \/ (i - m \in 1..n /\ i = m + (i - m))
      OBVIOUS
    <3> QED
      BY <3>1
  <2> QED
    BY <1>10, <1>11, <2>1, Zenon DEF Through
<1>13. h[0] = u /\ h[m + n] = w
  <2>1. h[0] = f[0]
    BY <1>8
  <2>2. h[m + n] = g[n]
    BY <1>9
  <2> QED
    BY <1>2, <1>3, <2>1, <2>2
<1> QED
  BY <1>4, <1>6, <1>12, <1>13 DEF Run

(* What the first ones of some fields make of a URL, and the others of     *)
(* that.                                                                   *)
LEMMA RunSplit ==
  ASSUME NEW T, NEW u, NEW w, NEW a \in Seq(EntrySet), NEW b \in Seq(EntrySet), Run(T, u, a \o b, w)
  PROVE  \E v : Run(T, u, a, v) /\ Run(T, v, b, w)
<1>1. PICK m \in Nat, n \in Nat : m = Len(a) /\ n = Len(b)
  BY LenProperties
<1>2. PICK ab : ab = a \o b
  OBVIOUS
<1>3. Sized(ab, m + n, EntrySet) /\ Apart(ab, a, b, m, n)
  <2>1. Sized(a, m, EntrySet) /\ Sized(b, n, EntrySet)
    BY <1>1 DEF Sized
  <2> QED
    BY <1>2, <2>1, Joined, Zenon
<1>4. Len(ab) = m + n
  BY <1>3 DEF Sized
<1>5. (\A i \in 1..m : ab[i] = a[i]) /\ \A i \in 1..n : ab[m + i] = b[i]
  BY <1>3, Zenon DEF Apart
<1>6. PICK h : h[0] = u /\ h[m + n] = w /\ Through(T, h, ab, m + n)
  BY <1>2, <1>4 DEF Run
<1>7. Run(T, u, a, h[m])
  <2>1. ASSUME NEW i \in 1..m PROVE Says(T, h[i - 1], a[i], h[i])
    <3>1. i \in 1..m + n
      OBVIOUS
    <3>2. Says(T, h[i - 1], ab[i], h[i])
      BY <1>6, <3>1 DEF Through
    <3> QED
      BY <1>5, <3>2, Zenon
  <2>2. Through(T, h, a, m)
    BY <2>1 DEF Through
  <2> QED
    BY <1>1, <1>6, <2>2 DEF Run
<1>8. Run(T, h[m], b, w)
  <2> DEFINE g == [i \in 0..n |-> h[m + i]]
  <2>1. \A i \in 0..n : g[i] = h[m + i]
    OBVIOUS
  <2> HIDE DEF g
  <2>2. g[0] = h[m] /\ g[n] = w
    BY <1>6, <2>1
  <2>3. ASSUME NEW i \in 1..n PROVE Says(T, g[i - 1], b[i], g[i])
    <3>1. m + i \in 1..m + n /\ (m + i) - 1 = m + (i - 1) /\ i - 1 \in 0..n /\ i \in 0..n
      OBVIOUS
    <3>2. Says(T, h[(m + i) - 1], ab[m + i], h[m + i])
      BY <1>6, <3>1 DEF Through
    <3>3. g[i - 1] = h[m + (i - 1)] /\ g[i] = h[m + i] /\ ab[m + i] = b[i]
      BY <1>5, <2>1, <3>1
    <3> QED
      BY <3>1, <3>2, <3>3, Zenon
  <2>4. Through(T, g, b, n)
    BY <2>3 DEF Through
  <2> QED
    BY <1>1, <2>2, <2>4 DEF Run
<1> QED
  BY <1>7, <1>8

(* The first of the fields that are left, and the others.                  *)
LEMMA RunFirst ==
  ASSUME NEW T, NEW u, NEW w, NEW e \in EntrySet, NEW fs \in Seq(EntrySet), Run(T, u, <<e>> \o fs, w)
  PROVE  \E v : Says(T, u, e, v) /\ Run(T, v, fs, w)
<1>1. <<e>> \in Seq(EntrySet) /\ Len(<<e>>) = 1 /\ <<e>>[1] = e
  OBVIOUS
<1>2. PICK v : Run(T, u, <<e>>, v) /\ Run(T, v, fs, w)
  BY <1>1, RunSplit
<1>3. Says(T, u, e, v)
  <2>1. PICK us : us[0] = u /\ us[1] = v /\ Through(T, us, <<e>>, 1)
    BY <1>1, <1>2 DEF Run
  <2>2. Says(T, us[1 - 1], <<e>>[1], us[1])
    BY <2>1 DEF Through
  <2>3. 1 - 1 = 0
    OBVIOUS
  <2> QED
    BY <1>1, <2>1, <2>2, <2>3
<1> QED
  BY <1>2, <1>3

(* Nothing is left.                                                        *)
LEMMA RunNone ==
  ASSUME NEW T, NEW u, NEW w, Run(T, u, <<>>, w)
  PROVE  u = w
BY DEF Run

-----------------------------------------------------------------------------
(* The fields of a link.                                                   *)

(* What a link may say.                                                    *)
Well(T) ==
  /\ IsURL(T) /\ RequireValid(T)
  /\ \A t \in Tags : Fits(t, T[t])

(* What reading its fields comes to: the protocol of a link that has none  *)
(* is a default.                                                           *)
Target(T) == [T EXCEPT ![Protocol] = IF @ = 1 THEN 0 ELSE @]

(* The names of the tags are theirs alone.                                 *)
LEMMA TagsDiffer ==
  /\ Version # Protocol /\ Addresses # Version /\ Addresses # Protocol
  /\ Prefix # Version /\ Prefix # Protocol /\ Prefix # Addresses
  /\ \A t \in {Hostname, SNI, Username, Password, SkipVerification, SubscriptionURL, AuthKey} :
       t # Version /\ t # Protocol /\ t # Addresses
BY DEF Version, Hostname, SNI, Username, Password, SkipVerification, Protocol, Prefix,
       SubscriptionURL, AuthKey, Addresses

(* The kinds of the tags that are treated apart.                           *)
LEMMA NamedKinds ==
  /\ Kind[Version] = "version" /\ Kind[Protocol] = "protocol" /\ Kind[Prefix] = "prefix"
  /\ Kind[Addresses] = "addresses"
  /\ \A t \in Tags : Kind[t] = "addresses" => t = Addresses
<1>1. /\ Version = 0 /\ Protocol = 9 /\ Prefix = 11 /\ Addresses = 2
  BY DEF Version, Protocol, Prefix, Addresses
<1>2. Kind[0] = "version" /\ Kind[9] = "protocol" /\ Kind[11] = "prefix" /\ Kind[2] = "addresses"
  BY DEF Kind
<1> QED
  BY <1>1, <1>2, Kinds

(* One byte fits.                                                          *)
LEMMA ByteFits ==
  ASSUME NEW t \in {Version, Protocol}, NEW v
  PROVE  Fits(t, v)
<1>1. Kind[t] \in {"version", "protocol"}
  BY NamedKinds
<1>2. Encode(t, v) = <<v>> /\ Len(<<v>>) = 1
  BY <1>1 DEF Encode
<1> QED
  BY <1>1, <1>2, Room DEF Fits

(* A URL that can be built says what may be said, and nothing but its      *)
(* version and its protocol is not as it was.                              *)
LEMMA RaisedIs ==
  ASSUME NEW u, IsURL(u), \A t \in Tags : Fits(t, u[t]), RequireValid(ApplyDefaults(u))
  PROVE  /\ Well(Raised(u)) /\ \A t \in Tags \ {Version, Protocol} : Raised(u)[t] = u[t]
         /\ u[Protocol] # 0 => Raised(u)[Protocol] = u[Protocol]
<1>1. /\ \A t \in Tags : u[t] \in Values(t)
      /\ u = [t \in Tags |-> u[t]]
  BY DEF IsURL
<1>2. Version \in Tags /\ Protocol \in Tags
  BY Kinds
<1>3. PICK a : a = ApplyDefaults(u)
  OBVIOUS
<1>4. /\ a = [t \in Tags |-> a[t]] /\ \A t \in Tags \ {Protocol} : a[t] = u[t]
      /\ a[Version] \in 0..2 /\ a[Protocol] \in 1..2
  BY <1>1, <1>2, <1>3, TagsDiffer DEF ApplyDefaults, RequireValid
<1>5. PICK l \in 1..2 : l = LowestVersion(a) /\ l = LowestVersion(u)
  <2>1. LowestVersion(a) = LowestVersion(u)
    BY <1>4, Kinds, TagsDiffer DEF LowestVersion
  <2> QED
    BY <2>1 DEF LowestVersion
<1>6. PICK v \in 0..2 : v = IF a[Version] > l THEN a[Version] ELSE l
  BY <1>4
<1>7. PICK r : r = Raised(u)
  OBVIOUS
<1>8. r = [a EXCEPT ![Version] = v]
  BY <1>3, <1>5, <1>6, <1>7 DEF Raised
<1>9. r = [t \in Tags |-> r[t]] /\ r[Version] = v /\ \A t \in Tags \ {Version} : r[t] = a[t]
  BY <1>2, <1>4, <1>8
<1>10. \A t \in Tags \ {Version, Protocol} : r[t] = u[t]
  BY <1>4, <1>9
<1>11. r[Protocol] \in 1..2
  BY <1>2, <1>4, <1>9, TagsDiffer
<1>12. RequireValid(r)
  <2>1. \A t \in {SubscriptionURL, Hostname, Username, Password, Addresses} : r[t] = a[t]
    BY <1>9, Kinds, TagsDiffer
  <2>2. RequireValid(a)
    BY <1>3
  <2> QED
    BY <1>9, <1>11, <2>1, <2>2 DEF RequireValid
<1>13. \A t \in Tags : r[t] \in Values(t)
  <2>1. \A w \in 0..2 : w \in Values(Version) /\ w \in Values(Protocol)
    BY NamedKinds DEF Values
  <2>2. r[Version] \in Values(Version) /\ r[Protocol] \in Values(Protocol)
    BY <1>9, <1>11, <2>1
  <2> QED
    BY <1>1, <1>10, <2>2
<1>14. \A t \in Tags : Fits(t, r[t])
  <2>1. Fits(Version, r[Version]) /\ Fits(Protocol, r[Protocol])
    BY ByteFits
  <2> QED
    BY <1>10, <2>1
<1>15. IsURL(r)
  BY <1>9, <1>13 DEF IsURL
<1>16. u[Protocol] # 0 => r[Protocol] = u[Protocol]
  BY <1>2, <1>3, <1>9, TagsDiffer DEF ApplyDefaults
<1> QED
  BY <1>7, <1>10, <1>12, <1>14, <1>15, <1>16 DEF Well

(* The default that Finish applies.                                        *)
LEMMA TargetIs ==
  ASSUME NEW T, Well(T)
  PROVE  /\ ApplyDefaults(Target(T)) = T
         /\ \A t \in Tags : ~ (t = Protocol /\ T[t] = 1) => Target(T)[t] = T[t]
         /\ T[Protocol] = 1 => Target(T)[Protocol] = 0
         /\ Target(T) = [t \in Tags |-> Target(T)[t]]
<1>1. T = [t \in Tags |-> T[t]] /\ Protocol \in Tags /\ T[Protocol] \in 1..2
  BY Kinds DEF Well, IsURL, RequireValid
<1>2. PICK g : g = Target(T)
  OBVIOUS
<1>3. /\ g = [t \in Tags |-> g[t]] /\ \A t \in Tags \ {Protocol} : g[t] = T[t]
      /\ g[Protocol] = IF T[Protocol] = 1 THEN 0 ELSE T[Protocol]
  BY <1>1, <1>2 DEF Target
<1>4. ApplyDefaults(g) = T
  <2>1. CASE T[Protocol] = 1
    <3>1. g[Protocol] = 0
      BY <1>3, <2>1
    <3>2. ApplyDefaults(g) = [g EXCEPT ![Protocol] = 1]
      BY <3>1 DEF ApplyDefaults
    <3>3. [g EXCEPT ![Protocol] = 1] = [t \in Tags |-> T[t]]
      BY <1>1, <1>3, <2>1
    <3> QED
      BY <1>1, <3>2, <3>3
  <2>2. CASE T[Protocol] # 1
    <3>1. g[Protocol] = T[Protocol] /\ g[Protocol] # 0
      BY <1>1, <1>3, <2>2
    <3>2. ApplyDefaults(g) = g
      BY <3>1 DEF ApplyDefaults
    <3>3. [t \in Tags |-> g[t]] = [t \in Tags |-> T[t]]
      BY <1>3, <3>1
    <3> QED
      BY <1>1, <1>3, <3>2, <3>3
  <2> QED
    BY <2>1, <2>2
<1> QED
  BY <1>2, <1>3, <1>4

(* The fields of the tags in D are read, the others are as they were.      *)
Upto(T, D) == [t \in Tags |-> IF t \in D THEN Target(T)[t] ELSE Zero[t]]

(* The fields of one tag.                                                  *)
LEMMA FieldsRun ==
  ASSUME NEW T, Well(T), NEW D, NEW t \in Tags, t = Addresses => t \notin D
  PROVE  /\ Fields(t, T[t]) \in Seq(EntrySet)
         /\ Run(T, Upto(T, D), Fields(t, T[t]), Upto(T, D \cup {t}))
<1>0. T[t] \in Values(t) /\ Fits(t, T[t])
  BY DEF Well, IsURL
<1>1. PICK u : u = Upto(T, D)
  OBVIOUS
<1>2. u = [s \in Tags |-> IF s \in D THEN Target(T)[s] ELSE Zero[s]]
  BY <1>1 DEF Upto
<1>3. CASE Omitted(t, T[t])
  <2>1. Fields(t, T[t]) = <<>>
    BY <1>3 DEF Fields
  <2>2. Target(T)[t] = Zero[t]
    <3>1. CASE t = Protocol /\ T[t] = 1
      <4>1. Zero[t] = 0
        BY <3>1, NamedKinds DEF Zero
      <4> QED
        BY <3>1, <4>1, TargetIs
    <3>2. CASE ~ (t = Protocol /\ T[t] = 1)
      <4>1. T[t] = Zero[t]
        BY <1>3, <3>2 DEF Omitted
      <4> QED
        BY <3>2, <4>1, TargetIs
    <3> QED
      BY <3>1, <3>2
  <2>3. Upto(T, D \cup {t}) = Upto(T, D)
    BY <2>2 DEF Upto
  <2> QED
    BY <2>1, <2>3, RunEmpty
<1>4. CASE ~ Omitted(t, T[t]) /\ t = Addresses
  <2>1. PICK v : v = T[Addresses]
    OBVIOUS
  <2>2. v \in Seq(String)
    BY <1>0, <1>4, <2>1, NamedKinds DEF Values
  <2>3. PICK n \in Nat : n = Len(v) /\ DOMAIN v = 1..n
    BY <2>2, LenProperties
  <2>4. \A i \in 1..n : ValidAddress(v[i])
    BY <2>1, <2>3 DEF Well, RequireValid
  <2>5. v \in Seq(Shorts)
    <3>1. \A i \in DOMAIN v : Len(v[i]) <= MaxVarint(3)
      BY <1>0, <1>4, <2>1, NamedKinds DEF Fits
    <3> QED
      BY <2>2, <3>1, ShortList
  <2>6. \A i \in 1..n : v[i] \in Shorts
    BY <2>3, <2>5, ElementOfSeq
  <2>7. PICK es : es = [i \in 1..n |-> Entry(Addresses, v[i])]
    OBVIOUS
  <2>8. Fields(t, T[t]) = es
    BY <1>4, <2>1, <2>3, <2>7 DEF Fields
  <2>9. \A i \in 1..n : es[i] = Entry(Addresses, v[i])
    BY <2>7
  <2>10. \A i \in 1..n : Entry(Addresses, v[i]) \in EntrySet
    <3>1. Addresses \in Nat /\ Varint(Addresses)
      BY Kinds, Room
    <3> QED
      BY <2>6, <3>1, EntryIs
  <2>11. es \in Seq(EntrySet) /\ Len(es) = n
    <3>1. es \in [1..n -> EntrySet]
      BY <2>7, <2>10
    <3> QED
      BY <3>1, IsSeq
  <2> DEFINE us == [i \in 0..n |-> [u EXCEPT ![Addresses] = SubSeq(v, 1, i)]]
  <2>12. \A i \in 0..n : us[i] = [u EXCEPT ![Addresses] = SubSeq(v, 1, i)]
    OBVIOUS
  <2> HIDE DEF us
  <2>13. us[0] = u
    <3>1. u[Addresses] = <<>>
      <4>1. Zero[Addresses] = <<>>
        BY NamedKinds, Kinds DEF Zero
      <4> QED
        BY <1>2, <1>4, <4>1
    <3>2. SubSeq(v, 1, 0) = <<>>
      BY SubSeqEmpty
    <3>3. us[0] = [u EXCEPT ![Addresses] = <<>>]
      <4>1. 0 \in 0..n
        OBVIOUS
      <4>2. us[0] = [u EXCEPT ![Addresses] = SubSeq(v, 1, 0)]
        BY <2>12, <4>1, Zenon
      <4> QED
        BY <3>2, <4>2, Zenon
    <3> QED
      BY <1>2, <3>1, <3>3
  <2>14. us[n] = Upto(T, D \cup {t})
    <3>1. SubSeq(v, 1, n) = v
      BY <2>2, <2>3, SubSeqFull
    <3>2. us[n] = [u EXCEPT ![Addresses] = v]
      BY <2>12, <3>1
    <3>3. Target(T)[Addresses] = v
      <4>1. Addresses # Protocol /\ Addresses \in Tags
        BY TagsDiffer, Kinds
      <4> QED
        BY <2>1, <4>1, TargetIs
    <3>4. [u EXCEPT ![Addresses] = v] = [s \in Tags |-> IF s \in D \cup {Addresses} THEN Target(T)[s] ELSE Zero[s]]
      BY <1>2, <3>3
    <3> QED
      BY <1>4, <3>2, <3>4 DEF Upto
  <2>15. ASSUME NEW i \in 1..n PROVE Says(T, us[i - 1], es[i], us[i])
    <3>1. i - 1 \in 0..n - 1 /\ i - 1 \in 0..n /\ i \in 0..n /\ (i - 1) + 1 = i
      OBVIOUS
    <3>2. SubSeq(v, 1, i) = Append(SubSeq(v, 1, i - 1), v[i])
      BY <2>2, <2>3, <3>1, OneMore
    <3>3. PICK w : w = us[i - 1] /\ w = [u EXCEPT ![Addresses] = SubSeq(v, 1, i - 1)]
      BY <2>12, <3>1
    <3>4. w[Addresses] = SubSeq(v, 1, i - 1)
      BY <1>2, <3>3, Kinds
    <3>5. [w EXCEPT ![Addresses] = Append(@, v[i])] = [u EXCEPT ![Addresses] = SubSeq(v, 1, i)]
      <4>1. [w EXCEPT ![Addresses] = Append(@, v[i])] = [w EXCEPT ![Addresses] = SubSeq(v, 1, i)]
        BY <3>2, <3>4
      <4> QED
        BY <1>2, <3>3, <4>1
    <3>6. es[i].tag = Addresses /\ es[i].data = v[i]
      BY <2>9, EntryIs
    <3>7. us[i] = [w EXCEPT ![Addresses] = Append(@, es[i].data)]
      BY <2>12, <3>1, <3>5, <3>6
    <3> QED
      BY <2>4, <3>3, <3>6, <3>7 DEF Says
  <2>16. Through(T, us, es, n)
    BY <2>15 DEF Through
  <2>17. Run(T, u, es, Upto(T, D \cup {t}))
    BY <2>11, <2>13, <2>14, <2>16 DEF Run
  <2> QED
    BY <1>1, <2>8, <2>11, <2>17
<1>5. CASE ~ Omitted(t, T[t]) /\ t # Addresses
  <2>1. PICK e : e = Entry(t, Encode(t, T[t]))
    OBVIOUS
  <2>2. Fields(t, T[t]) = <<e>>
    BY <1>5, <2>1 DEF Fields
  <2>3. Short(Encode(t, T[t]))
    BY <1>0, <1>5, DecodeBack
  <2>4. e \in EntrySet
    <3>1. Encode(t, T[t]) \in Shorts
      BY <2>3 DEF Shorts, Short
    <3>2. t \in Nat /\ Varint(t)
      BY Room
    <3> QED
      BY <2>1, <3>1, <3>2, EntryIs
  <2>5. <<e>> \in Seq(EntrySet)
    BY <2>4
  <2>6. PICK w : w = [u EXCEPT ![t] = T[t]]
    OBVIOUS
  <2>7. e.tag = t /\ e.data = Encode(t, T[t])
    BY <2>1, EntryIs
  <2>8. Says(T, u, e, w)
    BY <1>5, <2>6, <2>7 DEF Says
  <2>9. w = Upto(T, D \cup {t})
    <3>1. ~ (t = Protocol /\ T[t] = 1)
      BY <1>5 DEF Omitted
    <3>2. Target(T)[t] = T[t]
      BY <3>1, TargetIs
    <3>3. [u EXCEPT ![t] = T[t]] = [s \in Tags |-> IF s \in D \cup {t} THEN Target(T)[s] ELSE Zero[s]]
      BY <1>2, <3>2
    <3> QED
      BY <2>6, <3>3 DEF Upto
  <2>10. Run(T, u, <<e>>, w)
    BY <2>8, RunOne
  <2> QED
    BY <1>1, <2>2, <2>5, <2>9, <2>10
<1> QED
  BY <1>3, <1>4, <1>5

(* The order of the tags: all of them, the addresses after two others.     *)
LEMMA OrderIs ==
  /\ Len(Order) = 15 /\ DOMAIN Order = 1..15 /\ \A i \in 1..15 : Order[i] \in Tags
  /\ \A i \in 1..15 : Order[i] = Addresses => i = 3
  /\ Order[1] # Addresses /\ Order[2] # Addresses
  /\ \A t \in Tags : \E i \in 1..15 : Order[i] = t
<1>1. \A i \in 1..15 : i \in {1, 2, 3, 4, 5, 6, 7, 8, 9, 10, 11, 12, 13, 14, 15}
  OBVIOUS
<1>2. /\ Order[1] = 0 /\ Order[2] = 1 /\ Order[3] = 2 /\ Order[4] = 3 /\ Order[5] = 5
      /\ Order[6] = 6 /\ Order[7] = 11 /\ Order[8] = 7 /\ Order[9] = 8 /\ Order[10] = 9
      /\ Order[11] = 10 /\ Order[12] = 12 /\ Order[13] = 13 /\ Order[14] = 14 /\ Order[15] = 15
      /\ Len(Order) = 15 /\ DOMAIN Order = 1..15
  BY DEF Order
<1>3. Tags = (0..15) \ {4} /\ Addresses = 2
  BY Kinds DEF Addresses
<1>4. \A t \in (0..15) \ {4} : t \in {0, 1, 2, 3, 5, 6, 7, 8, 9, 10, 11, 12, 13, 14, 15}
  OBVIOUS
<1>5. \A i \in 1..15 : Order[i] \in Tags /\ (Order[i] = Addresses => i = 3)
  BY <1>1, <1>2, <1>3
<1>6. /\ \A i \in {1, 2, 3, 4, 5, 6, 7, 8, 9, 10, 11, 12, 13, 14, 15} : i \in 1..15
  OBVIOUS
<1>7. ASSUME NEW t \in Tags PROVE \E i \in 1..15 : Order[i] = t
  <2>1. t \in {0, 1, 2, 3, 5, 6, 7, 8, 9, 10, 11, 12, 13, 14, 15}
    BY <1>3, <1>4
  <2> QED
    BY <1>2, <1>6, <2>1
<1> QED
  BY <1>2, <1>3, <1>5, <1>7

(* The fields of a link say what it was built from.                        *)
THEOREM EntriesRun ==
  ASSUME NEW u, Well(Raised(u))
  PROVE  Entries(u) \in Seq(EntrySet) /\ Run(Raised(u), Zero, Entries(u), Target(Raised(u)))
<1>1. PICK T : T = Raised(u) /\ Well(T)
  OBVIOUS
<1>2. PICK G : G = [i \in 1..15 |-> Fields(Order[i], T[Order[i]])]
  OBVIOUS
<1>3. Entries(u) = FlattenSeq(G)
  BY <1>1, <1>2, OrderIs DEF Entries
<1>4. \A i \in 1..15 : G[i] = Fields(Order[i], T[Order[i]])
  BY <1>2
<1>5. \A i \in 1..15 : G[i] \in Seq(EntrySet)
  <2> SUFFICES ASSUME NEW i \in 1..15 PROVE G[i] \in Seq(EntrySet)
    OBVIOUS
  <2>1. Order[i] \in Tags
    BY OrderIs
  <2>2. PICK t \in Tags : t = Order[i]
    BY <2>1
  <2>3. t \notin {}
    OBVIOUS
  <2>4. Fields(t, T[t]) \in Seq(EntrySet)
    BY <1>1, <2>3, FieldsRun
  <2> QED
    BY <1>4, <2>2, <2>4
<1>6. PICK Q : Q = Seq(EntrySet) /\ Joins(Q)
  BY SeqJoins
<1>7. G \in Seq(Q) /\ Len(G) = 15
  <2>1. G \in [1..15 -> Q]
    BY <1>2, <1>4, <1>5, <1>6
  <2> QED
    BY <2>1, IsSeq
<1> DEFINE Done(k) == {Order[j] : j \in 1..k}
           R == {k \in 0..15 : Run(T, Zero, FlattenSeq(SubSeq(G, 1, k)), Upto(T, Done(k)))}
<1>8. 0 \in R
  <2>1. Done(0) = {}
    OBVIOUS
  <2>2. Upto(T, {}) = Zero
    BY DEF Upto, Zero
  <2>3. FlattenSeq(SubSeq(G, 1, 0)) = <<>>
    <3>1. SubSeq(G, 1, 0) = <<>>
      BY SubSeqEmpty
    <3> QED
      BY <3>1, FlattenEmpty, Zenon
  <2>4. Run(T, Zero, FlattenSeq(SubSeq(G, 1, 0)), Upto(T, Done(0)))
    BY <2>1, <2>2, <2>3, RunEmpty
  <2>5. 0 \in 0..15
    OBVIOUS
  <2> QED
    BY <2>4, <2>5
<1>9. ASSUME NEW k \in 0..15 - 1, k \in R PROVE k + 1 \in R
  <2>1. k + 1 \in 1..15 /\ k + 1 \in 0..15
    OBVIOUS
  <2>2. PICK t \in Tags : t = Order[k + 1]
    BY <2>1, OrderIs
  <2>3. t = Addresses => t \notin Done(k)
    <3>1. t = Addresses => k = 2
      <4>1. Order[k + 1] = Addresses => k + 1 = 3
        BY <2>1, OrderIs
      <4>2. k + 1 = 3 => k = 2
        OBVIOUS
      <4> QED
        BY <2>2, <4>1, <4>2
    <3>2. Done(2) = {Order[1], Order[2]}
      <4>1. 1..2 = {1, 2}
        OBVIOUS
      <4> QED
        BY <4>1
    <3> QED
      BY <3>1, <3>2, OrderIs
  <2>4. Done(k + 1) = Done(k) \cup {t}
    <3>1. 1..k + 1 = 1..k \cup {k + 1}
      OBVIOUS
    <3> QED
      BY <2>2, <3>1
  <2>5. PICK P : P = SubSeq(G, 1, k) /\ P \in Seq(Q)
    BY <1>7, OneMore
  <2>6. PICK x \in Q : x = G[k + 1]
    BY <1>5, <1>6, <2>1
  <2>7. SubSeq(G, 1, k + 1) = Append(P, x)
    BY <1>7, <2>5, <2>6, OneMore
  <2>8. FlattenSeq(Append(P, x)) = FlattenSeq(P) \o x
    BY <1>6, <2>5, FlattenAppend
  <2>9. FlattenSeq(P) \in Seq(EntrySet)
    BY <1>6, <2>5, FlattenType
  <2> HIDE DEF Done
  <2>10. Run(T, Zero, FlattenSeq(P), Upto(T, Done(k)))
    BY <1>9, <2>5
  <2>11. x = Fields(t, T[t])
    BY <1>4, <2>1, <2>2, <2>6
  <2>12. Run(T, Upto(T, Done(k)), x, Upto(T, Done(k) \cup {t}))
    BY <1>1, <2>3, <2>11, FieldsRun
  <2>13. x \in Seq(EntrySet)
    BY <1>6
  <2>14. Run(T, Zero, FlattenSeq(P) \o x, Upto(T, Done(k + 1)))
    BY <2>4, <2>9, <2>10, <2>12, <2>13, RunConcat
  <2> QED
    BY <2>1, <2>7, <2>8, <2>14
<1> HIDE DEF R
<1>10. 15 \in R
  <2>1. 15 \in Nat
    OBVIOUS
  <2>2. 0..15 \subseteq R
    BY <1>8, <1>9, <2>1, InductionTo
  <2> QED
    BY <2>2
<1>11. Upto(T, Done(15)) = Target(T)
  <2>1. \A t \in Tags : t \in Done(15)
    BY OrderIs
  <2>2. Target(T) = [t \in Tags |-> Target(T)[t]]
    BY <1>1, TargetIs
  <2> HIDE DEF Done
  <2>3. Upto(T, Done(15)) = [t \in Tags |-> Target(T)[t]]
    BY <2>1 DEF Upto
  <2> QED
    BY <2>2, <2>3
<1>12. SubSeq(G, 1, 15) = G
  BY <1>7, SubSeqFull
<1>13. Run(T, Zero, FlattenSeq(G), Target(T))
  BY <1>10, <1>11, <1>12 DEF R
<1>14. FlattenSeq(G) \in Seq(EntrySet)
  BY <1>6, <1>7, FlattenType
<1> QED
  BY <1>1, <1>3, <1>13, <1>14

(* What a read returns is what Parse can go on with.                       *)
LEMMA ReadTypes ==
  ASSUME NEW s \in String
  PROVE  /\ ReadVarint(s).rest \in String
         /\ ReadTLVBytes(s).err = "none" => Short(ReadTLVBytes(s).v) /\ ReadTLVBytes(s).rest \in String
<1>1. ReadVarint(s).rest \in String
  <2>1. <<>> \in String /\ \A e : Failed(e).rest = <<>>
    BY StringIs, GotIs
  <2>2. \A v, r : Got(v, r).rest = r
    BY GotIs
  <2>3. CASE \E v \in Nat, r \in String : ReadVarint(s) = Got(v, r)
    BY <2>2, <2>3
  <2>4. CASE ReadVarint(s) = Failed("EOF") \/ ReadVarint(s) = Failed("unexpected EOF")
    BY <2>1, <2>4
  <2> QED
    BY <2>3, <2>4, ReadIs
<1>2. ASSUME ReadTLVBytes(s).err = "none"
      PROVE  Short(ReadTLVBytes(s).v) /\ ReadTLVBytes(s).rest \in String
  <2>1. PICK d \in String, r \in String : ReadTLVBytes(s) = Got(d, r) /\ Short(d)
    BY <1>2, LengthReadIs
  <2> QED
    BY <2>1, GotIs
<1> QED
  BY <1>1, <1>2

(* A client random prefix that is not too long, by itself and in a URL.    *)
LEMMA PrefixFitting == \A u : PrefixFits(u) <=> Fitting(u[Prefix])
BY DEF PrefixFits, Fitting

(* A URL that Parse starts from, and what a field makes of one.            *)
LEMMA ZeroIs == IsURL(Zero) /\ Readable(Zero)
<1>1. Zero = [t \in Tags |-> Zero[t]]
  BY DEF Zero
<1>2. PICK z : z = [prefix |-> <<>>, mask |-> <<>>]
  OBVIOUS
<1>3. z \in PrefixSet /\ z.mask = <<>> /\ z.prefix = <<>> /\ Fitting(z)
  BY <1>2, StringIs, SymbolAssumption DEF PrefixSet, Fitting
<1>4. Len(PrefixString(z)) = 0
  <2>1. Len(<<>>) = 0
    OBVIOUS
  <2> QED
    <3>1. Len(PrefixString(z)) = 2 * Len(z.prefix)
      BY <1>3, PrintedIs
    <3> QED
      BY <1>3, <2>1, <3>1
<1>5. MaxVarint(3) \in Nat /\ MaxVarint(3) >= 1
  BY Room
<1>6. ASSUME NEW t \in Tags PROVE Zero[t] \in Values(t) /\ Fits(t, Zero[t])
  <2>1. CASE Kind[t] \in {"version", "protocol"}
    <3>1. Zero[t] = 0
      BY <2>1 DEF Zero
    <3>2. t \in {Version, Protocol}
      BY <2>1, Kinds
    <3>3. Fits(t, 0)
      BY <3>2, ByteFits
    <3>4. 0 \in Values(t)
      BY <2>1 DEF Values
    <3> QED
      BY <3>1, <3>3, <3>4
  <2>2. CASE Kind[t] = "bool"
    <3>1. Zero[t] = FALSE
      BY <2>2 DEF Zero
    <3>2. Encode(t, FALSE) = <<0>> /\ Len(<<0>>) = 1
      BY <2>2 DEF Encode
    <3>3. FALSE \in Values(t)
      BY <2>2 DEF Values
    <3>4. Fits(t, FALSE)
      BY <1>5, <2>2, <3>2 DEF Fits
    <3> QED
      BY <3>1, <3>3, <3>4
  <2>3. CASE Kind[t] = "prefix"
    <3>1. Zero[t] = z /\ Encode(t, z) = PrefixString(z)
      BY <1>2, <2>3 DEF Zero, Encode
    <3>2. z \in Values(t)
      BY <1>3, <2>3 DEF Values, PrefixSet
    <3>3. Fits(t, z)
      BY <1>4, <1>5, <2>3, <3>1 DEF Fits
    <3> QED
      BY <3>1, <3>2, <3>3
  <2>4. CASE Kind[t] = "strings"
    <3>1. Zero[t] = <<>> /\ Len(<<>>) = 0
      BY <2>4 DEF Zero
    <3>2. Encode(t, <<>>) = FlattenSeq([i \in DOMAIN <<>> |-> WithLength(<<>>[i])])
      BY <2>4 DEF Encode
    <3>3. [i \in DOMAIN <<>> |-> WithLength(<<>>[i])] = <<>> /\ DOMAIN <<>> = {}
      OBVIOUS
    <3>4. Encode(t, <<>>) = <<>>
      BY <3>2, <3>3, FlattenEmpty
    <3>5. <<>> \in Values(t)
      BY <2>4 DEF Values
    <3>6. Fits(t, <<>>)
      BY <1>5, <3>1, <3>3, <3>4 DEF Fits
    <3> QED
      BY <3>1, <3>5, <3>6
  <2>5. CASE Kind[t] = "addresses"
    <3>0. DOMAIN <<>> = {}
      OBVIOUS
    <3>1. Zero[t] = <<>>
      BY <2>5 DEF Zero
    <3>2. <<>> \in Values(t)
      BY <2>5 DEF Values
    <3>3. Fits(t, <<>>)
      BY <2>5, <3>0, NamedKinds DEF Fits
    <3> QED
      BY <3>1, <3>2, <3>3
  <2>6. CASE Kind[t] = "hex"
    <3>1. Zero[t] = <<>> /\ Encode(t, <<>>) = EncodeHex(<<>>) /\ Len(<<>>) = 0 /\ <<>> \in String
      BY <2>6, StringIs DEF Zero, Encode
    <3>2. Len(EncodeHex(<<>>)) = 0
      BY <3>1, HexReadsBack
    <3>3. <<>> \in Values(t)
      BY <2>6, <3>1 DEF Values
    <3>4. Fits(t, <<>>)
      BY <1>5, <2>6, <3>1, <3>2 DEF Fits
    <3> QED
      BY <3>1, <3>3, <3>4
  <2>7. CASE Kind[t] = "string"
    <3>1. Zero[t] = <<>> /\ Encode(t, <<>>) = <<>> /\ Len(<<>>) = 0 /\ <<>> \in String
      BY <2>7, StringIs DEF Zero, Encode
    <3>2. <<>> \in Values(t)
      BY <2>7, <3>1 DEF Values
    <3>3. Fits(t, <<>>)
      BY <1>5, <2>7, <3>1 DEF Fits
    <3> QED
      BY <3>1, <3>2, <3>3
  <2> QED
    BY <2>1, <2>2, <2>3, <2>4, <2>5, <2>6, <2>7, Kinds
<1>7. PrefixFits(Zero)
  <2>1. Zero[Prefix] = z
    BY <1>2, NamedKinds, Kinds DEF Zero
  <2> QED
    BY <1>3, <2>1, PrefixFitting
<1>8. Zero[Addresses] = <<>> /\ DOMAIN <<>> = {}
  <2>1. DOMAIN <<>> = {}
    OBVIOUS
  <2>2. Zero[Addresses] = <<>>
    BY NamedKinds, Kinds DEF Zero
  <2> QED
    BY <2>1, <2>2
<1> QED
  BY <1>1, <1>6, <1>7, <1>8 DEF IsURL, Readable

(* The default of the protocol can be written.                             *)
LEMMA DefaultsKeep ==
  ASSUME NEW u, IsURL(u), Readable(u)
  PROVE  IsURL(ApplyDefaults(u)) /\ Readable(ApplyDefaults(u))
<1>1. CASE u[Protocol] # 0
  BY <1>1 DEF ApplyDefaults
<1>2. CASE u[Protocol] = 0
  <2>1. PICK w : w = ApplyDefaults(u) /\ w = [u EXCEPT ![Protocol] = 1]
    BY <1>2 DEF ApplyDefaults
  <2>2. w = [t \in Tags |-> w[t]] /\ w[Protocol] = 1 /\ \A t \in Tags \ {Protocol} : w[t] = u[t]
    BY <2>1, Kinds DEF IsURL
  <2>3. 1 \in Values(Protocol) /\ Fits(Protocol, 1)
    BY NamedKinds, ByteFits DEF Values
  <2>4. IsURL(w)
    BY <2>2, <2>3 DEF IsURL
  <2>5. \A t \in Tags : Fits(t, w[t])
    BY <2>2, <2>3 DEF Readable
  <2>6. w[Addresses] = u[Addresses] /\ w[Prefix] = u[Prefix]
    BY <2>2, Kinds, TagsDiffer
  <2>7. Readable(w)
    BY <2>5, <2>6, PrefixFitting DEF Readable
  <2> QED
    BY <2>1, <2>4, <2>7
<1> QED
  BY <1>1, <1>2

(* What a field sets can be written.                                       *)
LEMMA SetKeeps ==
  ASSUME NEW u, IsURL(u), Readable(u), NEW t \in Tags, NEW d, Short(d), Decode(t, d).err = "none",
         NEW w, w = [u EXCEPT ![t] = IF t = Addresses THEN Append(@, Decode(t, d).v) ELSE Decode(t, d).v]
  PROVE  IsURL(w) /\ Readable(w)
<1>1. u = [s \in Tags |-> u[s]] /\ \A s \in Tags : u[s] \in Values(s) /\ Fits(s, u[s])
  BY DEF IsURL, Readable
<1>2. PICK x : x = w[t]
  OBVIOUS
<1>3. /\ w = [s \in Tags |-> w[s]] /\ \A s \in Tags \ {t} : w[s] = u[s]
      /\ x = IF t = Addresses THEN Append(u[t], Decode(t, d).v) ELSE Decode(t, d).v
  BY <1>1, <1>2
<1>4. CASE t # Addresses
  <2>1. x \in Values(t) /\ Fits(t, x) /\ (t = Prefix => Fitting(x))
    BY <1>3, <1>4, DecodedIs
  <2>2. IsURL(w)
    BY <1>1, <1>2, <1>3, <2>1 DEF IsURL
  <2>3. \A s \in Tags : Fits(s, w[s])
    BY <1>1, <1>2, <1>3, <2>1
  <2>4. w[Addresses] = u[Addresses]
    BY <1>3, <1>4, Kinds
  <2>5. Fitting(w[Prefix])
    <3>1. Fitting(u[Prefix])
      BY PrefixFitting DEF Readable
    <3> QED
      BY <1>2, <1>3, <2>1, <3>1, Kinds
  <2>6. Readable(w)
    BY <2>3, <2>4, <2>5, PrefixFitting DEF Readable
  <2> QED
    BY <2>2, <2>6
<1>5. CASE t = Addresses
  <2>1. d \in String /\ ValidAddress(d) /\ x = Append(u[Addresses], d)
    BY <1>3, <1>5, DecodedIs DEF Short
  <2>2. PICK v \in Seq(String) : v = u[Addresses]
    BY <1>1, NamedKinds, Kinds DEF Values
  <2>3. PICK n \in Nat : n = Len(v) /\ DOMAIN v = 1..n
    BY LenProperties
  <2>4. x \in Seq(String) /\ Len(x) = n + 1 /\ x[n + 1] = d /\ \A i \in 1..n : x[i] = v[i]
    <3>1. /\ Append(v, d) \in Seq(String) /\ Len(Append(v, d)) = Len(v) + 1
          /\ \A i \in 1..Len(v) : Append(v, d)[i] = v[i] /\ Append(v, d)[Len(v) + 1] = d
      BY <2>1, AppendProperties
    <3>2. /\ Append(v, d) \in Seq(String) /\ Len(Append(v, d)) = Len(v) + 1
          /\ Append(v, d)[Len(v) + 1] = d
      BY <2>1, AppendProperties
    <3> QED
      BY <2>1, <2>2, <2>3, <3>1, <3>2
  <2>5. DOMAIN x = 1..n + 1 /\ \A i \in 1..n + 1 : i \in 1..n \/ i = n + 1
    BY <2>4
  <2>6. \A i \in 1..n : ValidAddress(v[i])
    BY <2>2, <2>3 DEF Readable
  <2>7. \A i \in 1..n : Len(v[i]) <= MaxVarint(3)
    <3>1. Fits(Addresses, v)
      BY <1>1, <2>2, Kinds
    <3> QED
      BY <2>3, <3>1, NamedKinds DEF Fits
  <2>8. Len(d) <= MaxVarint(3)
    BY DEF Short, Varint
  <2>9. \A i \in DOMAIN x : ValidAddress(x[i]) /\ Len(x[i]) <= MaxVarint(3)
    BY <2>1, <2>4, <2>5, <2>6, <2>7, <2>8
  <2>10. Fits(Addresses, x)
    BY <2>9 DEF Fits
  <2>11. x \in Values(Addresses)
    BY <2>4, NamedKinds DEF Values
  <2>12. IsURL(w)
    BY <1>1, <1>2, <1>3, <1>5, <2>11 DEF IsURL
  <2>13. \A s \in Tags : Fits(s, w[s])
    BY <1>1, <1>2, <1>3, <1>5, <2>10
  <2>14. w[Addresses] = x /\ w[Prefix] = u[Prefix]
    BY <1>2, <1>3, <1>5, Kinds, TagsDiffer
  <2>15. Readable(w)
    BY <2>9, <2>13, <2>14, PrefixFitting DEF Readable
  <2> QED
    BY <2>12, <2>15
<1> QED
  BY <1>4, <1>5

(* A URL that was parsed can be built.                                     *)
LEMMA ParsedRaised ==
  ASSUME NEW u, IsURL(u), Readable(u), RequireValid(u)
  PROVE  Well(Raised(u)) /\ Raised(u)[Prefix] = u[Prefix]
<1>1. ApplyDefaults(u) = u
  BY DEF ApplyDefaults, RequireValid
<1>2. Well(Raised(u)) /\ \A t \in Tags \ {Version, Protocol} : Raised(u)[t] = u[t]
  BY <1>1, RaisedIs DEF Readable
<1> QED
  BY <1>2, Kinds, TagsDiffer

(* What there is to build can be built.                                    *)
LEMMA SourceRaised ==
  ASSUME NEW u \in Origins
  PROVE  IsURL(u) /\ Well(Raised(u)) /\ Raised(u)[Prefix] = u[Prefix]
<1>1. IsURL(u) /\ (\A t \in Tags : Fits(t, u[t])) /\ RequireValid(ApplyDefaults(u))
  BY SourceAssumption DEF Origins
<1>2. Well(Raised(u)) /\ \A t \in Tags \ {Version, Protocol} : Raised(u)[t] = u[t]
  BY <1>1, RaisedIs
<1> QED
  BY <1>1, <1>2, Kinds, TagsDiffer

-----------------------------------------------------------------------------
(* One field read.                                                         *)

(* The next field of what a link is to say, or its end.                    *)
LEMMA StepRun ==
  ASSUME NEW T, Well(T), NEW u, NEW es \in Seq(EntrySet), Run(T, u, es, Target(T)),
         NEW s, s = Bytes(es), NEW tag, tag = ReadVarint(s), NEW data, data = ReadTLVBytes(tag.rest),
         NEW value, value = Decode(tag.v, data.v)
  PROVE  /\ tag.err = "EOF" => u = Target(T)
         /\ tag.err # "EOF" =>
              /\ tag.err = "none" /\ data.err = "none"
              /\ \E fs \in Seq(EntrySet) :
                   /\ data.rest = Bytes(fs)
                   /\ tag.v \notin Tags => Run(T, u, fs, Target(T))
                   /\ tag.v \in Tags /\ value.err = "none" =>
                        Run(T, [u EXCEPT ![tag.v] = IF tag.v = Addresses THEN Append(@, value.v) ELSE value.v],
                            fs, Target(T))
                   /\ tag.v \in Tags /\ value.err # "none" => ~ PrefixFits(T)
<1>1. CASE es = <<>> /\ Bytes(es) = <<>>
  <2>1. u = Target(T)
    BY <1>1, RunNone
  <2>2. tag = Failed("EOF")
    BY <1>1 DEF ReadVarint
  <2>3. tag.err = "EOF"
    BY <2>2, GotIs
  <2> QED
    BY <2>1, <2>3
<1>2. ASSUME NEW e \in EntrySet, NEW fs \in Seq(EntrySet),
             es = <<e>> \o fs, Bytes(es) = TLV(e.tag, e.data) \o Bytes(fs)
      PROVE  /\ tag.err = "none" /\ data.err = "none" /\ data.rest = Bytes(fs)
             /\ tag.v \notin Tags => Run(T, u, fs, Target(T))
             /\ tag.v \in Tags /\ value.err = "none" =>
                  Run(T, [u EXCEPT ![tag.v] = IF tag.v = Addresses THEN Append(@, value.v) ELSE value.v],
                      fs, Target(T))
             /\ tag.v \in Tags /\ value.err # "none" => ~ PrefixFits(T)
  <2>1. PICK r \in String : r = Bytes(fs)
    BY BytesAre
  <2>2. /\ ReadVarint(TLV(e.tag, e.data) \o r) = Got(e.tag, WithLength(e.data) \o r)
        /\ ReadTLVBytes(WithLength(e.data) \o r) = Got(e.data, r)
    BY NextEntry
  <2>3. tag = Got(e.tag, WithLength(e.data) \o r)
    BY <1>2, <2>1, <2>2
  <2>4. tag.err = "none" /\ tag.v = e.tag /\ tag.rest = WithLength(e.data) \o r
    <3>1. PICK a, x : a = e.tag /\ x = WithLength(e.data) \o r
      OBVIOUS
    <3>2. tag = Got(a, x)
      BY <2>3, <3>1, Zenon
    <3>3. tag.err = "none" /\ tag.v = a /\ tag.rest = x
      BY <3>2, GotIs
    <3> QED
      BY <3>1, <3>3, Zenon
  <2>5. data = Got(e.data, r)
    BY <2>2, <2>4
  <2>6. data.err = "none" /\ data.v = e.data /\ data.rest = r
    BY <2>5, GotIs
  <2>7. value = Decode(e.tag, e.data)
    BY <2>4, <2>6
  <2>8. PICK v : Says(T, u, e, v) /\ Run(T, v, fs, Target(T))
    BY <1>2, RunFirst
  <2>9. e.tag \notin Tags => v = u
    BY <2>8, Kinds DEF Says
  <2>10. CASE e.tag \notin Tags
    BY <2>1, <2>4, <2>6, <2>8, <2>9, <2>10
  <2>11. CASE e.tag = Addresses
    <3>1. ValidAddress(e.data) /\ v = [u EXCEPT ![Addresses] = Append(@, e.data)]
      BY <2>8, <2>11, Kinds DEF Says
    <3>2. value = Got(e.data, <<>>)
      BY <2>7, <2>11, <3>1, NamedKinds DEF Decode
    <3>3. value.err = "none" /\ value.v = e.data
      BY <3>2, GotIs
    <3>4. [u EXCEPT ![tag.v] = IF tag.v = Addresses THEN Append(@, value.v) ELSE value.v] = v
      BY <2>4, <2>11, <3>1, <3>3
    <3> QED
      BY <2>1, <2>4, <2>6, <2>8, <2>11, <3>3, <3>4, Kinds
  <2>12. CASE e.tag \in Tags \ {Addresses}
    <3>1. PICK t \in Tags : t = e.tag /\ t # Addresses
      BY <2>12
    <3>2. ~ Omitted(t, T[t]) /\ e.data = Encode(t, T[t]) /\ v = [u EXCEPT ![t] = T[t]]
      BY <2>8, <3>1 DEF Says
    <3>3. T[t] \in Values(t) /\ Fits(t, T[t])
      BY DEF Well, IsURL
    <3>4. value = IF t = Prefix /\ ~ Fitting(T[t]) THEN Failed("prefix") ELSE Got(T[t], <<>>)
      BY <2>7, <3>1, <3>2, <3>3, DecodeBack
    <3>5. CASE t = Prefix /\ ~ Fitting(T[t])
      <4>1. value.err # "none"
        <5>1. Failed("prefix").err # "none"
          BY GotIs
        <5> QED
          BY <3>4, <3>5, <5>1
      <4>2. ~ PrefixFits(T)
        BY <3>5, PrefixFitting
      <4> QED
        BY <2>1, <2>4, <2>6, <3>1, <4>1, <4>2
    <3>6. CASE ~ (t = Prefix /\ ~ Fitting(T[t]))
      <4>1. value.err = "none" /\ value.v = T[t]
        BY <3>4, <3>6, GotIs
      <4>2. [u EXCEPT ![tag.v] = IF tag.v = Addresses THEN Append(@, value.v) ELSE value.v] = v
        BY <2>4, <3>1, <3>2, <4>1
      <4> QED
        BY <2>1, <2>4, <2>6, <2>8, <3>1, <4>1, <4>2
    <3> QED
      BY <3>5, <3>6
  <2> QED
    BY <2>10, <2>11, <2>12
<1>3. CASE \E e \in EntrySet, fs \in Seq(EntrySet) :
             es = <<e>> \o fs /\ Bytes(es) = TLV(e.tag, e.data) \o Bytes(fs)
  <2>1. PICK e \in EntrySet, fs \in Seq(EntrySet) :
          es = <<e>> \o fs /\ Bytes(es) = TLV(e.tag, e.data) \o Bytes(fs)
    BY <1>3
  <2>2. /\ tag.err = "none" /\ data.err = "none" /\ data.rest = Bytes(fs)
        /\ tag.v \notin Tags => Run(T, u, fs, Target(T))
        /\ tag.v \in Tags /\ value.err = "none" =>
             Run(T, [u EXCEPT ![tag.v] = IF tag.v = Addresses THEN Append(@, value.v) ELSE value.v],
                 fs, Target(T))
        /\ tag.v \in Tags /\ value.err # "none" => ~ PrefixFits(T)
    BY <1>2, <2>1
  <2>3. tag.err # "EOF"
    BY <2>2
  <2> QED
    BY <2>2, <2>3
<1> QED
  BY <1>1, <1>3, FirstEntry

(* Fields, and a part of one more.                                         *)
Torn(s) ==
  \E es \in Seq(EntrySet), e \in EntrySet, n \in Nat :
    n >= 1 /\ n < Len(TLV(e.tag, e.data)) /\ s = Bytes(es) \o SubSeq(TLV(e.tag, e.data), 1, n)

(* A part of a field is not the end of the input, and has no bytes that    *)
(* can be read.                                                            *)
LEMMA TornIs ==
  ASSUME NEW e \in EntrySet, NEW n \in Nat, n >= 1, n < Len(TLV(e.tag, e.data)),
         NEW c, c = SubSeq(TLV(e.tag, e.data), 1, n)
  PROVE  /\ c \in String /\ ReadVarint(c).err # "EOF"
         /\ ReadVarint(c).err = "none" => ReadTLVBytes(ReadVarint(c).rest).err # "none"
<1>1. PICK t \in Nat, d \in String : t = e.tag /\ d = e.data /\ Varint(t) /\ Short(d)
  BY EntryIs
<1>2. n < Len(TLV(t, d)) /\ c = SubSeq(TLV(t, d), 1, n)
  BY <1>1
<1> QED
  BY <1>1, <1>2, CutField

(* The next field of a link that is cut: it is cut as well, or the rest of *)
(* the link is.                                                            *)
LEMMA StepTorn ==
  ASSUME NEW s, Torn(s), NEW tag, tag = ReadVarint(s), NEW data, data = ReadTLVBytes(tag.rest)
  PROVE  /\ s \in String /\ tag.err # "EOF"
         /\ tag.err = "none" /\ data.err = "none" => Torn(data.rest)
<1>1. PICK es \in Seq(EntrySet), e \in EntrySet, n \in Nat :
        n >= 1 /\ n < Len(TLV(e.tag, e.data)) /\ s = Bytes(es) \o SubSeq(TLV(e.tag, e.data), 1, n)
  BY DEF Torn
<1>2. PICK c : c = SubSeq(TLV(e.tag, e.data), 1, n)
  OBVIOUS
<1>3. /\ c \in String /\ ReadVarint(c).err # "EOF"
      /\ ReadVarint(c).err = "none" => ReadTLVBytes(ReadVarint(c).rest).err # "none"
  BY <1>1, <1>2, TornIs
<1>4. s = Bytes(es) \o c /\ s \in String
  BY <1>1, <1>2, <1>3, BytesAre, StringIs
<1>5. CASE Bytes(es) = <<>>
  <2>1. s = c
    <3>1. <<>> \o c = c
      BY <1>3, StringIs
    <3> QED
      BY <1>4, <1>5, <3>1
  <2> QED
    BY <1>3, <1>4, <2>1
<1>6. ASSUME NEW f \in EntrySet, NEW fs \in Seq(EntrySet), Bytes(es) = TLV(f.tag, f.data) \o Bytes(fs)
      PROVE  tag.err = "none" /\ data.err = "none" /\ data.rest = Bytes(fs) \o c
  <2>1. PICK x \in String : x = TLV(f.tag, f.data)
    BY EntryIs
  <2>2. PICK b \in String : b = Bytes(fs)
    BY BytesAre
  <2>3. PICK r \in String : r = b \o c
    BY <1>3, StringIs
  <2>4. s = x \o r
    <3>1. (x \o b) \o c = x \o (b \o c)
      BY <1>3, StringAssoc
    <3> QED
      BY <1>4, <1>6, <2>1, <2>2, <2>3, <3>1
  <2>5. /\ ReadVarint(x \o r) = Got(f.tag, WithLength(f.data) \o r)
        /\ ReadTLVBytes(WithLength(f.data) \o r) = Got(f.data, r)
    BY <2>1, NextEntry
  <2>6. tag = Got(f.tag, WithLength(f.data) \o r)
    BY <2>4, <2>5
  <2>7. tag.err = "none" /\ tag.rest = WithLength(f.data) \o r
    <3>1. PICK a, y : a = f.tag /\ y = WithLength(f.data) \o r
      OBVIOUS
    <3>2. tag = Got(a, y)
      BY <2>6, <3>1, Zenon
    <3>3. tag.err = "none" /\ tag.rest = y
      BY <3>2, GotIs
    <3> QED
      BY <3>1, <3>3, Zenon
  <2>8. data = Got(f.data, r)
    BY <2>5, <2>7
  <2>9. data.err = "none" /\ data.rest = r
    BY <2>8, GotIs
  <2> QED
    BY <2>2, <2>3, <2>7, <2>9
<1>7. CASE \E f \in EntrySet, fs \in Seq(EntrySet) :
             es = <<f>> \o fs /\ Bytes(es) = TLV(f.tag, f.data) \o Bytes(fs)
  <2>1. PICK f \in EntrySet, fs \in Seq(EntrySet) : Bytes(es) = TLV(f.tag, f.data) \o Bytes(fs)
    BY <1>7
  <2>2. tag.err = "none" /\ data.err = "none" /\ data.rest = Bytes(fs) \o c
    BY <1>6, <2>1
  <2>3. Torn(data.rest)
    BY <1>1, <1>2, <2>2 DEF Torn
  <2>4. tag.err # "EOF"
    BY <2>2
  <2> QED
    BY <1>4, <2>3, <2>4
<1> QED
  BY <1>5, <1>7, FirstEntry

(* A field of a later version in a link, wherever it stands.               *)
LEMMA ExtendedRun ==
  ASSUME NEW T, NEW w, NEW es \in Seq(EntrySet), Run(T, Zero, es, w),
         NEW e \in EntrySet, e.tag \notin Tags, NEW i \in 1..Len(es) + 1
  PROVE  InsertAt(es, i, e) \in Seq(EntrySet) /\ Run(T, Zero, InsertAt(es, i, e), w)
<1>1. PICK n \in Nat : n = Len(es)
  BY LenProperties
<1>2. i - 1 \in 0..n /\ (i - 1) + 1 = i
  BY <1>1
<1>3. PICK k \in 0..n : k = i - 1 /\ k + 1 = i
  BY <1>2
<1>4. PICK a : a = SubSeq(es, 1, k) /\ a \in Seq(EntrySet)
  BY <1>1, InTwo
<1>5. PICK b : b = SubSeq(es, k + 1, n) /\ b \in Seq(EntrySet)
  BY <1>1, InTwo
<1>6. es = a \o b
  <2>1. k \in 0..Len(es)
    BY <1>1
  <2>2. es = SubSeq(es, 1, k) \o SubSeq(es, k + 1, Len(es))
    BY <2>1, InTwo
  <2> QED
    BY <1>1, <1>4, <1>5, <2>2, Zenon
<1>7. InsertAt(es, i, e) = (a \o <<e>>) \o b
  BY <1>1, <1>3, <1>4, <1>5 DEF InsertAt
<1>8. <<e>> \in Seq(EntrySet)
  OBVIOUS
<1>9. a \o <<e>> \in Seq(EntrySet)
  BY <1>4, <1>8, ConcatProperties
<1>10. (a \o <<e>>) \o b \in Seq(EntrySet)
  BY <1>5, <1>9, ConcatProperties
<1>11. PICK v : Run(T, Zero, a, v) /\ Run(T, v, b, w)
  BY <1>4, <1>5, <1>6, RunSplit
<1>12. Run(T, v, <<e>>, v)
  <2>1. Says(T, v, e, v)
    BY DEF Says
  <2> QED
    BY <2>1, RunOne
<1>13. Run(T, Zero, a \o <<e>>, v)
  BY <1>4, <1>8, <1>11, <1>12, RunConcat
<1>14. Run(T, Zero, (a \o <<e>>) \o b, w)
  <2>1. PICK c \in Seq(EntrySet) : c = a \o <<e>>
    BY <1>9, Zenon
  <2>2. Run(T, Zero, c, v)
    BY <1>13, <2>1, Zenon
  <2>3. Run(T, Zero, c \o b, w)
    BY <1>5, <1>11, <2>2, RunConcat
  <2> QED
    BY <2>1, <2>3, Zenon
<1> QED
  BY <1>7, <1>10, <1>14

(* A link that is cut within a field.                                      *)
LEMMA CutTorn ==
  ASSUME NEW es \in Seq(EntrySet), NEW i \in DOMAIN es, NEW f, f = TLV(es[i].tag, es[i].data),
         NEW n \in 1..Len(f) - 1
  PROVE  Torn(Bytes(SubSeq(es, 1, i - 1)) \o SubSeq(f, 1, n))
<1>1. PICK m \in Nat : m = Len(es) /\ DOMAIN es = 1..m
  BY LenProperties
<1>2. PICK e \in EntrySet : e = es[i]
  BY <1>1, ElementOfSeq
<1>3. i - 1 \in 0..m
  BY <1>1
<1>4. PICK a \in Seq(EntrySet) : a = SubSeq(es, 1, i - 1)
  BY <1>1, <1>3, InTwo
<1>5. PICK l \in Nat : l = Len(f)
  BY <1>2, EntryIs, StringIs
<1>6. n \in Nat /\ n >= 1 /\ n < l
  BY <1>5
<1> QED
  BY <1>2, <1>4, <1>5, <1>6 DEF Torn

-----------------------------------------------------------------------------
(* The states of a parse, and the theorems.                                *)

(* What the link that is read says.                                        *)
Said == Raised(IF mode = "again" THEN first ELSE origin)

(* Nobody parses what is not valid, and nothing that is not valid is built. *)
Accepted ==
  /\ status = "ok" => RequireValid(url)
  /\ mode = "again" => RequireValid(first)
  /\ mode \in {"whole", "extended"} => origin \in Origins

(* The fields that are left of a link make what was parsed of it into what *)
(* it says.                                                                *)
Following ==
  mode \in {"whole", "extended", "again"} =>
    /\ status = "parsing" =>
         \E es \in Seq(EntrySet) : rest = Bytes(es) /\ Run(Said, url, es, Target(Said))
    /\ status = "ok" => url = Said
    /\ status = "refused" => ~ PrefixFits(Said)

(* Of a link that was cut, a part of a field is left.                      *)
TornLink == mode = "cut" => status # "ok" /\ (status = "parsing" => Torn(rest))

Inv == TypeOK /\ Accepted /\ Following /\ TornLink

(* What a link says is valid, and has the prefix of what it was built from. *)
LEMMA SaidIs ==
  ASSUME TypeOK, Accepted, mode \in {"whole", "extended", "again"}
  PROVE  /\ Well(Said)
         /\ mode = "again" => Said = Raised(first) /\ PrefixFits(Said)
         /\ mode # "again" => Said = Raised(origin) /\ (PrefixFits(Said) <=> PrefixFits(origin))
<1>1. CASE mode = "again"
  <2>1. Said = Raised(first) /\ IsURL(first) /\ Readable(first) /\ RequireValid(first)
    BY <1>1 DEF Said, TypeOK, Accepted
  <2>2. Well(Raised(first)) /\ Raised(first)[Prefix] = first[Prefix]
    BY <2>1, ParsedRaised
  <2>3. PrefixFits(Said)
    BY <2>1, <2>2, PrefixFitting DEF Readable
  <2> QED
    BY <1>1, <2>1, <2>2, <2>3
<1>2. CASE mode # "again"
  <2>1. Said = Raised(origin) /\ origin \in Origins
    BY <1>2 DEF Said, Accepted
  <2>2. Well(Raised(origin)) /\ Raised(origin)[Prefix] = origin[Prefix]
    BY <2>1, SourceRaised
  <2>3. PrefixFits(Said) <=> PrefixFits(origin)
    BY <2>1, <2>2, PrefixFitting
  <2> QED
    BY <1>2, <2>1, <2>2, <2>3
<1> QED
  BY <1>1, <1>2

(* A link that is there to be parsed.                                      *)
LEMMA InitInv == Init => Inv
<1> SUFFICES ASSUME Init PROVE Inv
  OBVIOUS
<1>1. url = Zero /\ status = "parsing" /\ first = Zero /\ IsURL(Zero) /\ Readable(Zero)
  BY ZeroIs DEF Init
<1>2. ASSUME origin \in Origins
      PROVE  /\ IsURL(origin) /\ Entries(origin) \in Seq(EntrySet)
             /\ Run(Raised(origin), Zero, Entries(origin), Target(Raised(origin)))
  <2>1. IsURL(origin) /\ Well(Raised(origin))
    BY <1>2, SourceRaised
  <2> QED
    BY <2>1, EntriesRun
<1>3. ASSUME NEW es \in Seq(EntrySet), origin \in Origins, mode \in {"whole", "extended"}, rest = Bytes(es),
             Run(Raised(origin), Zero, es, Target(Raised(origin)))
      PROVE  Inv
  <2>1. Said = Raised(origin)
    BY <1>3 DEF Said
  <2>2. Following
    BY <1>1, <1>3, <2>1 DEF Following
  <2>3. rest \in String
    BY <1>3, BytesAre
  <2>4. TypeOK /\ Accepted /\ TornLink
    BY <1>1, <1>2, <1>3, <2>3 DEF TypeOK, Accepted, TornLink
  <2> QED
    BY <2>2, <2>4 DEF Inv
<1>4. CASE origin \in Origins /\ Input("whole", Build(origin))
  BY <1>2, <1>3, <1>4 DEF Input, Build
<1>5. ASSUME origin \in Origins, NEW x \in Unknown, NEW i \in 1..Len(Entries(origin)) + 1,
             Input("extended", Bytes(InsertAt(Entries(origin), i, Entry(x[1], x[2]))))
      PROVE  Inv
  <2>1. PICK t, s : t = x[1] /\ s = x[2]
    OBVIOUS
  <2>2. t \in 0..MaxVarint(3) /\ t \notin Tags /\ s \in String /\ Len(s) <= MaxVarint(3)
    BY <2>1, SourceAssumption
  <2>3. t \in Nat /\ Varint(t)
    BY <2>2, Room DEF Varint
  <2>4. s \in Shorts
    BY <2>2, StringIs DEF Shorts, Short, Varint
  <2>5. PICK e \in EntrySet : e = Entry(t, s) /\ e.tag \notin Tags
    BY <2>2, <2>3, <2>4, EntryIs
  <2>6. PICK es : es = InsertAt(Entries(origin), i, e)
    OBVIOUS
  <2>7. es \in Seq(EntrySet) /\ Run(Raised(origin), Zero, es, Target(Raised(origin)))
    BY <1>2, <1>5, <2>5, <2>6, ExtendedRun
  <2>8. mode = "extended" /\ rest = Bytes(es)
    BY <1>5, <2>1, <2>5, <2>6 DEF Input
  <2> QED
    BY <1>3, <1>5, <2>7, <2>8
<1>6. ASSUME origin \in Origins, NEW i \in DOMAIN Entries(origin),
             NEW f, f = TLV(Entries(origin)[i].tag, Entries(origin)[i].data), NEW n \in 1..Len(f) - 1,
             Input("cut", Bytes(SubSeq(Entries(origin), 1, i - 1)) \o SubSeq(f, 1, n))
      PROVE  Inv
  <2>1. Torn(rest)
    BY <1>2, <1>6, CutTorn DEF Input
  <2>2. rest \in String
    BY <2>1, StepTorn
  <2>3. mode = "cut"
    BY <1>6 DEF Input
  <2> QED
    BY <1>1, <1>2, <1>6, <2>1, <2>2, <2>3 DEF Inv, TypeOK, Accepted, Following, TornLink
<1>7. ASSUME origin = Zero, NEW s \in Raw, Input("raw", s)
      PROVE  Inv
  <2>1. rest \in String /\ mode = "raw"
    BY <1>7, SourceAssumption DEF Input
  <2> QED
    BY <1>1, <1>7, <2>1 DEF Inv, TypeOK, Accepted, Following, TornLink
<1> QED
  BY <1>4, <1>5, <1>6, <1>7 DEF Init

(* One field more: whatever it is, what is left is what there was to read  *)
(* after it.                                                               *)
LEMMA ParseTagInv ==
  ASSUME Inv, ParseTag
  PROVE  Inv'
<1>1. PICK tag : tag = ReadVarint(rest)
  OBVIOUS
<1>2. PICK data : data = ReadTLVBytes(tag.rest)
  OBVIOUS
<1>3. PICK value : value = Decode(tag.v, data.v)
  OBVIOUS
<1>4. /\ status = "parsing" /\ tag.err # "EOF"
      /\ mode' = mode /\ origin' = origin /\ first' = first
      /\ \/ /\ tag.err # "none" \/ data.err # "none"
            /\ status' = "refused" /\ rest' = rest /\ url' = url
         \/ /\ tag.err = "none" /\ data.err = "none" /\ tag.v \notin Tags
            /\ rest' = data.rest /\ url' = url /\ status' = status
         \/ /\ tag.err = "none" /\ data.err = "none" /\ tag.v \in Tags /\ value.err = "none"
            /\ url' = [url EXCEPT ![tag.v] = IF tag.v = Addresses THEN Append(@, value.v) ELSE value.v]
            /\ rest' = data.rest /\ status' = status
         \/ /\ tag.err = "none" /\ data.err = "none" /\ tag.v \in Tags /\ value.err # "none"
            /\ status' = "refused" /\ rest' = rest /\ url' = url
  BY <1>1, <1>2, <1>3 DEF ParseTag, Set, AfterUnknown
<1>5. Said' = Said
  BY <1>4 DEF Said
<1>6. rest \in String /\ IsURL(url) /\ Readable(url)
  BY DEF Inv, TypeOK
<1>7. tag.rest \in String /\ (data.err = "none" => Short(data.v) /\ data.rest \in String)
  BY <1>1, <1>2, <1>6, ReadTypes
<1>8. rest' \in String
  BY <1>4, <1>6, <1>7
<1>9. IsURL(url') /\ Readable(url')
  <2>1. CASE url' = url
    BY <1>6, <2>1
  <2>2. CASE /\ data.err = "none" /\ tag.v \in Tags /\ value.err = "none"
             /\ url' = [url EXCEPT ![tag.v] = IF tag.v = Addresses THEN Append(@, value.v) ELSE value.v]
    <3>1. PICK t, d, w :
            /\ t \in Tags /\ t = tag.v /\ d = data.v /\ w = url'
            /\ w = [url EXCEPT ![t] = IF t = Addresses THEN Append(@, Decode(t, d).v) ELSE Decode(t, d).v]
      BY <1>3, <2>2
    <3>2. Short(d) /\ Decode(t, d).err = "none"
      BY <1>3, <1>7, <2>2, <3>1
    <3>3. w = [url EXCEPT ![t] = IF t = Addresses THEN Append(@, Decode(t, d).v) ELSE Decode(t, d).v]
      BY <3>1
    <3>4. IsURL(w) /\ Readable(w)
      <4>1. PICK x \in Tags : x = t
        BY <3>1
      <4>2. /\ Decode(x, d).err = "none"
            /\ w = [url EXCEPT ![x] = IF x = Addresses THEN Append(@, Decode(x, d).v) ELSE Decode(x, d).v]
        BY <3>2, <3>3, <4>1
      <4> QED
        BY <1>6, <3>2, <4>2, SetKeeps, Zenon
    <3> QED
      BY <3>1, <3>4
  <2> QED
    BY <1>4, <2>1, <2>2
<1>10. TypeOK'
  BY <1>4, <1>8, <1>9 DEF Inv, TypeOK
<1>11. Accepted'
  BY <1>4 DEF Inv, Accepted
<1>12. Following'
  <2>1. SUFFICES ASSUME mode \in {"whole", "extended", "again"}
                 PROVE  /\ status' = "parsing" =>
                             \E fs \in Seq(EntrySet) : rest' = Bytes(fs) /\ Run(Said, url', fs, Target(Said))
                        /\ status' # "ok"
                        /\ status' = "refused" => ~ PrefixFits(Said)
    BY <1>4, <1>5 DEF Following
  <2>2. PICK es \in Seq(EntrySet) : rest = Bytes(es) /\ Run(Said, url, es, Target(Said))
    BY <1>4, <2>1 DEF Inv, Following
  <2>3. Well(Said)
    BY <2>1, SaidIs DEF Inv
  <2>4. /\ tag.err = "none" /\ data.err = "none"
        /\ \E fs \in Seq(EntrySet) :
             /\ data.rest = Bytes(fs)
             /\ tag.v \notin Tags => Run(Said, url, fs, Target(Said))
             /\ tag.v \in Tags /\ value.err = "none" =>
                  Run(Said, [url EXCEPT ![tag.v] = IF tag.v = Addresses THEN Append(@, value.v) ELSE value.v],
                      fs, Target(Said))
             /\ tag.v \in Tags /\ value.err # "none" => ~ PrefixFits(Said)
    BY <1>1, <1>2, <1>3, <1>4, <2>2, <2>3, StepRun
  <2> QED
    BY <1>4, <2>4
<1>13. TornLink'
  <2>1. SUFFICES ASSUME mode = "cut" PROVE status' # "ok" /\ (status' = "parsing" => Torn(rest'))
    BY <1>4 DEF TornLink
  <2>2. Torn(rest)
    BY <1>4, <2>1 DEF Inv, TornLink
  <2>3. tag.err = "none" /\ data.err = "none" => Torn(data.rest)
    BY <1>1, <1>2, <2>2, StepTorn
  <2> QED
    BY <1>4, <2>3
<1> QED
  BY <1>10, <1>11, <1>12, <1>13 DEF Inv

(* The end of a link: nothing is left of what it says.                     *)
LEMMA FinishInv ==
  ASSUME Inv, Finish
  PROVE  Inv'
<1>1. /\ status = "parsing" /\ ReadVarint(rest).err = "EOF" /\ url' = ApplyDefaults(url)
      /\ status' = IF RequireValid(ApplyDefaults(url)) THEN "ok" ELSE "refused"
      /\ mode' = mode /\ origin' = origin /\ rest' = rest /\ first' = first
  BY DEF Finish
<1>2. Said' = Said
  BY <1>1 DEF Said
<1>3. IsURL(url') /\ Readable(url')
  BY <1>1, DefaultsKeep DEF Inv, TypeOK
<1>4. TypeOK'
  BY <1>1, <1>3 DEF Inv, TypeOK
<1>5. Accepted'
  BY <1>1 DEF Inv, Accepted
<1>6. Following'
  <2>1. SUFFICES ASSUME mode \in {"whole", "extended", "again"}
                 PROVE  status' = "ok" /\ url' = Said
    BY <1>1, <1>2 DEF Following
  <2>2. PICK es \in Seq(EntrySet) : rest = Bytes(es) /\ Run(Said, url, es, Target(Said))
    BY <1>1, <2>1 DEF Inv, Following
  <2>3. Well(Said)
    BY <2>1, SaidIs DEF Inv
  <2>4. url = Target(Said)
    BY <1>1, <2>2, <2>3, StepRun
  <2>5. url' = Said
    BY <1>1, <2>3, <2>4, TargetIs
  <2>6. RequireValid(Said)
    BY <2>3 DEF Well
  <2> QED
    BY <1>1, <2>5, <2>6
<1>7. mode # "cut"
  <2>1. mode = "cut" => Torn(rest)
    BY <1>1 DEF Inv, TornLink
  <2> QED
    BY <1>1, <2>1, StepTorn
<1>8. TornLink'
  BY <1>1, <1>7 DEF TornLink
<1> QED
  BY <1>4, <1>5, <1>6, <1>8 DEF Inv

(* What was parsed is built again.                                         *)
LEMMA RebuildInv ==
  ASSUME Inv, Rebuild
  PROVE  Inv'
<1>1. /\ status = "ok" /\ mode' = "again" /\ status' = "parsing"
      /\ first' = url /\ url' = Zero /\ rest' = Build(url) /\ origin' = origin
  BY DEF Rebuild
<1>2. IsURL(url) /\ Readable(url) /\ RequireValid(url)
  BY <1>1 DEF Inv, TypeOK, Accepted
<1>3. Well(Raised(url))
  BY <1>2, ParsedRaised
<1>4. Entries(url) \in Seq(EntrySet) /\ Run(Raised(url), Zero, Entries(url), Target(Raised(url)))
  BY <1>3, EntriesRun
<1>5. rest' = Bytes(Entries(url)) /\ rest' \in String
  BY <1>1, <1>4, BytesAre DEF Build
<1>6. Said' = Raised(url)
  BY <1>1 DEF Said
<1>7. Following'
  BY <1>1, <1>4, <1>5, <1>6 DEF Following
<1>8. TypeOK' /\ Accepted' /\ TornLink'
  BY <1>1, <1>2, <1>5, ZeroIs DEF Inv, TypeOK, Accepted, TornLink
<1> QED
  BY <1>7, <1>8 DEF Inv

(* Every state is like that.                                               *)
THEOREM LinksFollowed == Spec => []Inv
<1>1. Inv /\ [Next]_vars => Inv'
  <2> SUFFICES ASSUME Inv, [Next]_vars PROVE Inv'
    OBVIOUS
  <2>1. CASE ParseTag
    BY <2>1, ParseTagInv
  <2>2. CASE Finish
    BY <2>2, FinishInv
  <2>3. CASE Rebuild
    BY <2>3, RebuildInv
  <2>4. CASE UNCHANGED vars
    BY <2>4 DEF vars, Inv, TypeOK, Accepted, Following, TornLink, Said
  <2> QED
    BY <2>1, <2>2, <2>3, <2>4 DEF Next
<1> QED
  BY InitInv, <1>1, PTL DEF Spec

(* The state of a parse is one: a buffer of bytes, and a URL that can be   *)
(* written again.                                                          *)
THEOREM TypeCorrect == Spec => []TypeOK
<1>1. Inv => TypeOK
  BY DEF Inv
<1> QED
  BY <1>1, LinksFollowed, PTL

(* Whatever the base, the URLs and the fields of later versions are, Parse *)
(* reads what Build wrote, and refuses nothing but a prefix too long.      *)
THEOREM LinksRoundTrip == Spec => []RoundTrip
<1>1. Inv => RoundTrip
  <2> SUFFICES ASSUME Inv, mode \in {"whole", "extended"}
               PROVE  /\ status = "refused" => ~ PrefixFits(origin)
                      /\ status = "ok" => PrefixFits(origin) /\ url = Raised(origin)
    BY DEF RoundTrip
  <2>1. Said = Raised(origin) /\ (PrefixFits(Said) <=> PrefixFits(origin))
    BY SaidIs DEF Inv
  <2>2. PrefixFits(url)
    BY DEF Inv, TypeOK, Readable
  <2> QED
    BY <2>1, <2>2 DEF Inv, Following
<1> QED
  BY <1>1, LinksFollowed, PTL

(* A link that is cut within a field is refused, wherever it is cut.       *)
THEOREM CutsAreRefused == Spec => []CutIsRefused
<1>1. Inv => CutIsRefused
  BY DEF Inv, TornLink, CutIsRefused
<1> QED
  BY <1>1, LinksFollowed, PTL

(* What Parse accepts, of any bytes, Build writes and Parse reads again.   *)
THEOREM RebuiltIsSame == Spec => []SecondIsFirst
<1>1. Inv => SecondIsFirst
  <2> SUFFICES ASSUME Inv, mode = "again"
               PROVE  status # "refused" /\ (status = "ok" => url = Raised(first))
    BY DEF SecondIsFirst
  <2>1. Said = Raised(first) /\ PrefixFits(Said)
    BY SaidIs DEF Inv
  <2> QED
    BY <2>1 DEF Inv, Following
<1> QED
  BY <1>1, LinksFollowed, PTL

(* What the link of a configuration says.                                  *)
LEMMA ConfigURLIs ==
  ASSUME NEW c, NEW u, u = ConfigToURL(c)
  PROVE  /\ u[Hostname] = c.server /\ u[Addresses] = <<Append(c.server, c.port)>>
         /\ u[Username] = c.username /\ u[Password] = c.password /\ u[SNI] = c.serverName
         /\ u[SkipVerification] = c.insecure /\ u[Protocol] = IF c.quic THEN 2 ELSE 1
<1>1. DOMAIN Zero = Tags
  BY DEF Zero
<1>2. {Hostname, Addresses, Username, Password, SNI, SkipVerification, Protocol} \subseteq DOMAIN Zero
  BY <1>1, Kinds
<1>3. PICK z : z = Zero
  OBVIOUS
<1>4. {Hostname, Addresses, Username, Password, SNI, SkipVerification, Protocol} \subseteq DOMAIN z
  BY <1>2, <1>3
<1>5. u = [z EXCEPT ![Hostname] = c.server, ![Addresses] = <<Append(c.server, c.port)>>,
                    ![Username] = c.username, ![Password] = c.password, ![SNI] = c.serverName,
                    ![SkipVerification] = c.insecure, ![Protocol] = IF c.quic THEN 2 ELSE 1]
  BY <1>3 DEF ConfigToURL
<1> QED
  BY <1>4, <1>5 DEF Hostname, Addresses, Username, Password, SNI, SkipVerification, Protocol

(* The port of a link is that of its first address.                        *)
LEMMA PortIs ==
  ASSUME NEW s \in String, NEW p \in Symbols, NEW as, as = <<Append(s, p)>>
  PROVE  as # <<>> /\ Last(as[1]) = p
<1>1. as # <<>> /\ as[1] = Append(s, p)
  OBVIOUS
<1>2. /\ Append(s, p) \in Seq(Symbols) /\ Len(Append(s, p)) = Len(s) + 1
      /\ Append(s, p)[Len(s) + 1] = p
  BY AppendProperties DEF String
<1> QED
  BY <1>1, <1>2 DEF Last

(* A client's configuration is what its link is turned into again, and a   *)
(* server of that link is the one the client asks for.                     *)
THEOREM ConfigsSurvive == Spec => []ConfigSurvives
<1>1. Inv => ConfigSurvives
  <2> SUFFICES ASSUME Inv, mode = "whole", status = "ok", NEW c \in Configs, origin = ConfigToURL(c)
               PROVE  /\ URLToConfig(url) = c
                      /\ LET server == URLToServerConfig(url) IN
                         /\ server.serverName = (IF c.serverName = <<>> THEN c.server ELSE c.serverName)
                         /\ server.listenPort = c.port /\ server.listenQUIC = c.quic
    BY DEF ConfigSurvives
  <2>1. url = Raised(origin) /\ origin \in Origins
    BY SaidIs DEF Inv, Following, Accepted
  <2>2. IsURL(origin) /\ (\A t \in Tags : Fits(t, origin[t])) /\ RequireValid(ApplyDefaults(origin))
    BY <2>1, SourceAssumption DEF Origins
  <2>3. /\ origin[Hostname] = c.server /\ origin[Addresses] = <<Append(c.server, c.port)>>
        /\ origin[Username] = c.username /\ origin[Password] = c.password /\ origin[SNI] = c.serverName
        /\ origin[SkipVerification] = c.insecure /\ origin[Protocol] = IF c.quic THEN 2 ELSE 1
    BY ConfigURLIs
  <2>4. /\ \A t \in Tags \ {Version, Protocol} : url[t] = origin[t]
        /\ url[Protocol] = origin[Protocol]
    <3>1. origin[Protocol] # 0
      BY <2>3
    <3> QED
      BY <2>1, <2>2, <3>1, RaisedIs
  <2>5. {Hostname, Addresses, Username, Password, SNI, SkipVerification} \subseteq Tags \ {Version, Protocol}
    BY Kinds, TagsDiffer
  <2>6. /\ url[Hostname] = c.server /\ url[Addresses] = <<Append(c.server, c.port)>>
        /\ url[Username] = c.username /\ url[Password] = c.password /\ url[SNI] = c.serverName
        /\ url[SkipVerification] = c.insecure /\ url[Protocol] = IF c.quic THEN 2 ELSE 1
    BY <2>3, <2>4, <2>5
  <2>7. c \in [server : String, port : Symbols, username : String, password : String,
               serverName : String, insecure : BOOLEAN, quic : BOOLEAN]
    BY SourceAssumption
  <2>8. PICK as : as = url[Addresses] /\ as # <<>> /\ Last(as[1]) = c.port
    <3>1. PICK s \in String, p \in Symbols : s = c.server /\ p = c.port
      BY <2>7
    <3>2. PICK as : as = url[Addresses]
      OBVIOUS
    <3>3. as = <<Append(s, p)>>
      BY <2>6, <3>1, <3>2
    <3>4. as # <<>> /\ Last(as[1]) = p
      BY <3>3, PortIs, Zenon
    <3> QED
      BY <3>1, <3>2, <3>4
  <2>9. (url[Protocol] = 2) = c.quic
    BY <2>6, <2>7
  <2>10. URLToConfig(url) =
           [server |-> c.server, port |-> c.port, username |-> c.username, password |-> c.password,
            serverName |-> c.serverName, insecure |-> c.insecure, quic |-> c.quic]
    BY <2>6, <2>8, <2>9 DEF URLToConfig
  <2>11. URLToConfig(url) = c
    BY <2>7, <2>10
  <2>12. URLToServerConfig(url) =
           [serverName |-> ServerName(url), listenQUIC |-> c.quic, listenPort |-> c.port]
    BY <2>8, <2>9 DEF URLToServerConfig
  <2>13. ServerName(url) = IF c.serverName = <<>> THEN c.server ELSE c.serverName
    BY <2>6 DEF ServerName
  <2> QED
    BY <2>11, <2>12, <2>13
<1> QED
  BY <1>1, LinksFollowed, PTL
=============================================================================
