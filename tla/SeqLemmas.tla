----------------------------- MODULE SeqLemmas -----------------------------
(***************************************************************************)
(* Facts about sequences: what removing one element, the first one or a set *)
(* of them leaves behind; and an induction that the provers can use, with   *)
(* what follows for sums.                                                   *)
(***************************************************************************)
EXTENDS SeqOps, SequencesExt, SequenceTheorems, WellFoundedInduction, TLAPS

(* Removing one element of the FIFO keeps the others, in order. *)
LEMMA RemoveAtProperties ==
  ASSUME NEW S, NEW s \in Seq(S), NEW i \in 1..Len(s)
  PROVE  /\ RemoveAt(s, i) \in Seq(S)
         /\ Len(RemoveAt(s, i)) = Len(s) - 1
         /\ \A j \in 1..(Len(s) - 1) : RemoveAt(s, i)[j] = IF j < i THEN s[j] ELSE s[j + 1]
<1> DEFINE left == SubSeq(s, 1, i - 1)
           right == SubSeq(s, i + 1, Len(s))
<1>1. left \in Seq(S) /\ Len(left) = i - 1 /\ \A j \in 1..(i - 1) : left[j] = s[j]
  OBVIOUS
<1>2. right \in Seq(S) /\ Len(right) = Len(s) - i /\ \A j \in 1..(Len(s) - i) : right[j] = s[j + i]
  OBVIOUS
<1>3. RemoveAt(s, i) = left \o right
  BY DEF RemoveAt
<1> HIDE DEF left, right
<1>4. left \o right \in Seq(S) /\ Len(left \o right) = Len(left) + Len(right)
  BY <1>1, <1>2, ConcatProperties
<1>4a. Len(left) + Len(right) = Len(s) - 1
  BY <1>1, <1>2
<1>5. ASSUME NEW j \in 1..(Len(s) - 1), j < i PROVE (left \o right)[j] = s[j]
  BY <1>1, <1>2, <1>5
<1>6. ASSUME NEW j \in 1..(Len(s) - 1), ~(j < i) PROVE (left \o right)[j] = s[j + 1]
  <2>1. j \in (Len(left) + 1)..(Len(left) + Len(right))
    BY <1>1, <1>2, <1>6
  <2>2. (left \o right)[j] = right[j - Len(left)]
    BY <1>1, <1>2, <2>1
  <2>3. j - Len(left) \in 1..(Len(s) - i) /\ (j - Len(left)) + i = j + 1
    BY <1>1, <1>2, <1>6
  <2> QED
    BY <1>2, <2>2, <2>3
<1> QED
  BY <1>3, <1>4, <1>4a, <1>5, <1>6

(* What is left of a FIFO without duplicates are old elements, still without *)
(* duplicates.                                                              *)
LEMMA RemoveAtElements ==
  ASSUME NEW S, NEW s \in Seq(S), NEW i \in 1..Len(s), NEW t, t = RemoveAt(s, i)
  PROVE  /\ \A j \in DOMAIN t : \E k \in DOMAIN s : t[j] = s[k]
         /\ (\A j, k \in DOMAIN s : s[j] = s[k] => j = k) =>
               \A j, k \in DOMAIN t : t[j] = t[k] => j = k
<1>1. DOMAIN s = 1..Len(s) /\ DOMAIN t = 1..(Len(s) - 1)
  BY RemoveAtProperties
<1>2. \A j \in 1..(Len(s) - 1) : t[j] = IF j < i THEN s[j] ELSE s[j + 1]
  BY RemoveAtProperties
<1> QED
  BY <1>1, <1>2

(* Every element but the removed one is still there, and without duplicates *)
(* the removed one is not.                                                  *)
LEMMA RemoveAtKeeps ==
  ASSUME NEW S, NEW s \in Seq(S), NEW i \in 1..Len(s), NEW t, t = RemoveAt(s, i)
  PROVE  /\ \A k \in DOMAIN s : k # i => \E j \in DOMAIN t : t[j] = s[k]
         /\ (\A j, k \in DOMAIN s : s[j] = s[k] => j = k) =>
               \A j \in DOMAIN t : t[j] # s[i]
<1>1. DOMAIN s = 1..Len(s) /\ DOMAIN t = 1..(Len(s) - 1) /\ Len(s) \in Nat
  BY RemoveAtProperties
<1>2. \A j \in 1..(Len(s) - 1) : t[j] = IF j < i THEN s[j] ELSE s[j + 1]
  BY RemoveAtProperties
<1>3. ASSUME NEW k \in 1..Len(s), k # i PROVE \E j \in 1..(Len(s) - 1) : t[j] = s[k]
  <2>1. CASE k < i
    BY <1>1, <1>2, <2>1
  <2>2. CASE i < k
    <3>1. k - 1 \in 1..(Len(s) - 1) /\ ~(k - 1 < i) /\ (k - 1) + 1 = k
      BY <1>1, <2>2
    <3> QED
      BY <1>2, <3>1
  <2> QED
    BY <1>1, <1>3, <2>1, <2>2
<1>4. ASSUME \A j, k \in DOMAIN s : s[j] = s[k] => j = k, NEW j \in 1..(Len(s) - 1)
      PROVE  t[j] # s[i]
  <2>1. CASE j < i
    BY <1>1, <1>2, <1>4, <2>1
  <2>2. CASE ~(j < i)
    <3>1. j + 1 \in 1..Len(s) /\ j + 1 # i
      BY <1>1, <2>2
    <3> QED
      BY <1>1, <1>2, <1>4, <2>2, <3>1
  <2> QED
    BY <2>1, <2>2
<1> QED
  BY <1>1, <1>3, <1>4

(* Taking the first element shifts the others by one. *)
LEMMA TailElements ==
  ASSUME NEW S, NEW s \in Seq(S), s # <<>>
  PROVE  /\ Tail(s) \in Seq(S) /\ Len(Tail(s)) = Len(s) - 1 /\ Head(s) \in S
         /\ 1 \in DOMAIN s /\ Head(s) = s[1]
         /\ \A j \in DOMAIN Tail(s) : j + 1 \in DOMAIN s /\ Tail(s)[j] = s[j + 1]
         /\ \A k \in DOMAIN s : k # 1 => k - 1 \in DOMAIN Tail(s) /\ Tail(s)[k - 1] = s[k]
<1>1. /\ Tail(s) \in Seq(S) /\ Len(Tail(s)) = Len(s) - 1 /\ Head(s) \in S /\ Head(s) = s[1]
      /\ \A j \in 1..Len(Tail(s)) : Tail(s)[j] = s[j + 1]
  BY HeadTailProperties
<1>2. Len(s) \in Nat /\ Len(s) # 0 /\ DOMAIN s = 1..Len(s) /\ DOMAIN Tail(s) = 1..(Len(s) - 1)
  BY <1>1, EmptySeq
<1>3. ASSUME NEW k \in DOMAIN s, k # 1
      PROVE  k - 1 \in DOMAIN Tail(s) /\ Tail(s)[k - 1] = s[k]
  <2>1. k - 1 \in 1..(Len(s) - 1) /\ (k - 1) + 1 = k
    BY <1>2, <1>3
  <2> QED
    BY <1>1, <1>2, <2>1
<1> QED
  BY <1>1, <1>2, <1>3

-----------------------------------------------------------------------------

(* Induction over a range of numbers, for a set instead of a predicate: a   *)
(* first-order statement that the provers can instantiate.                  *)
LEMMA SetInduction ==
  ASSUME NEW P, P \subseteq Nat, 0 \in P, \A n \in P : n + 1 \in P
  PROVE  P = Nat
<1> DEFINE R == OpToRel(<, Nat)
           T == Nat \ P
<1>1. IsWellFoundedOn(R, Nat)
  BY NatLessThanWellFounded, Zenon
<1>2. \A x, y \in Nat : x < y => <<x, y>> \in R
  BY DEF OpToRel
<1> HIDE DEF R
<1>3. SUFFICES ASSUME T # {} PROVE FALSE
  OBVIOUS
<1>4. \E x \in T : \A y \in T : ~(<<y, x>> \in R)
  <2>1. T \subseteq Nat
    OBVIOUS
  <2> HIDE DEF T
  <2> QED
    BY <1>1, <1>3, <2>1, WFMin
<1>5. PICK x \in T : \A y \in T : ~(<<y, x>> \in R)
  BY <1>4
<1>6. x \in Nat /\ x # 0
  OBVIOUS
<1>7. x - 1 \in Nat /\ x - 1 < x /\ (x - 1) + 1 = x
  BY <1>6
<1>8. x - 1 \in P
  BY <1>2, <1>5, <1>6, <1>7
<1> QED
  BY <1>5, <1>7, <1>8

(* The recursive equations of a sum have a solution.                        *)
LEMMA SumExists ==
  ASSUME NEW n \in Nat, NEW w \in [1..n -> Nat]
  PROVE  \E f \in [0..n -> Nat] : f[0] = 0 /\ \A k \in 1..n : f[k] = f[k - 1] + w[k]
<1> DEFINE Sol(m, f) == f[0] = 0 /\ \A k \in 1..m : f[k] = f[k - 1] + w[k]
           Q(m) == m <= n => \E f \in [0..m -> Nat] : Sol(m, f)
           P == {m \in Nat : Q(m)}
<1> HIDE DEF Q
<1>0. P \subseteq Nat /\ \A m \in Nat : m \in P <=> Q(m)
  OBVIOUS
<1> HIDE DEF P
<1>1. 0 \in P
  <2>1. [k \in 0..0 |-> 0] \in [0..0 -> Nat] /\ Sol(0, [k \in 0..0 |-> 0])
    OBVIOUS
  <2>2. Q(0)
    BY <2>1 DEF Q
  <2> QED
    BY <1>0, <2>2
<1>2. ASSUME NEW m \in P PROVE m + 1 \in P
  <2> USE DEF Q
  <2>1. SUFFICES ASSUME m + 1 <= n PROVE \E f \in [0..(m + 1) -> Nat] : Sol(m + 1, f)
    <3>1. m + 1 \in Nat
      BY <1>0
    <3> QED
      BY <1>0, <3>1, Zenon
  <2>0. m \in Nat /\ m <= n
    BY <1>0, <2>1
  <2>2. PICK g \in [0..m -> Nat] : Sol(m, g)
    BY <1>0, <2>0
  <2> DEFINE f == [k \in 0..(m + 1) |-> IF k = m + 1 THEN g[m] + w[m + 1] ELSE g[k]]
  <2>3. g[m] + w[m + 1] \in Nat
    BY <2>0, <2>1
  <2>4. f \in [0..(m + 1) -> Nat] /\ f[0] = 0
    BY <2>0, <2>2, <2>3
  <2>5. ASSUME NEW k \in 1..(m + 1) PROVE f[k] = f[k - 1] + w[k]
    <3>1. CASE k = m + 1
      BY <2>0, <3>1
    <3>2. CASE k # m + 1
      <4>1. k \in 1..m /\ f[k] = g[k] /\ f[k - 1] = g[k - 1]
        BY <2>0, <3>2
      <4> HIDE DEF f
      <4> QED
        BY <2>2, <4>1
    <3> QED
      BY <2>0, <3>1, <3>2
  <2>6. Sol(m + 1, f)
    BY <2>0, <2>4, <2>5
  <2> QED
    BY <2>0, <2>4, <2>6
<1>3. P = Nat
  BY <1>0, <1>1, <1>2, SetInduction
<1>4. Q(n) /\ n <= n
  BY <1>0, <1>3
<1> QED
  BY <1>4, Zenon DEF Q

(* What solves the equations of a sum is a number everywhere.               *)
LEMMA SumSolves ==
  ASSUME NEW n \in Nat, NEW w \in [1..n -> Nat],
         NEW f, f[0] = 0, \A k \in 1..n : f[k] = f[k - 1] + w[k]
  PROVE  \A k \in 0..n : f[k] \in Nat
<1> DEFINE P == {k \in Nat : k <= n => f[k] \in Nat}
<1>3. P \subseteq Nat /\ 0 \in P
  OBVIOUS
<1>4. ASSUME NEW k \in P PROVE k + 1 \in P
  <2>1. SUFFICES ASSUME k + 1 <= n PROVE f[k + 1] \in Nat
    BY <1>4
  <2>2. f[k] \in Nat /\ k + 1 \in 1..n /\ (k + 1) - 1 = k /\ w[k + 1] \in Nat
    BY <1>4, <2>1
  <2> QED
    BY <2>2
<1>5. P = Nat
  <2> HIDE DEF P
  <2> QED
    BY <1>3, <1>4, SetInduction
<1> QED
  BY <1>5

(* f folds s from b with g: f[k] is what g makes of f[k - 1] and the k-th   *)
(* element.                                                                 *)
FoldOf(s, b, g, f) == f[0] = b /\ \A k \in 1..Len(s) : f[k] = g[<<f[k - 1], s[k]>>]

(* The recursive equations of a fold have a solution.                       *)
LEMMA FoldExists ==
  ASSUME NEW X, NEW K, NEW s \in Seq(K), NEW b \in X,
         NEW g, \A x \in X, y \in K : g[<<x, y>>] \in X
  PROVE  \E f \in [0..Len(s) -> X] : FoldOf(s, b, g, f)
<1> DEFINE Sol(m, f) == f[0] = b /\ \A k \in 1..m : f[k] = g[<<f[k - 1], s[k]>>]
           Q(m) == m <= Len(s) => \E f \in [0..m -> X] : Sol(m, f)
           P == {m \in Nat : Q(m)}
<1> HIDE DEF Q
<1>0. P \subseteq Nat /\ (\A m \in Nat : m \in P <=> Q(m)) /\ Len(s) \in Nat
  OBVIOUS
<1> HIDE DEF P
<1>1. 0 \in P
  <2>1. [k \in 0..0 |-> b] \in [0..0 -> X] /\ Sol(0, [k \in 0..0 |-> b])
    OBVIOUS
  <2>2. Q(0)
    BY <2>1 DEF Q
  <2> QED
    BY <1>0, <2>2
<1>2. ASSUME NEW m \in P PROVE m + 1 \in P
  <2> USE DEF Q
  <2>1. SUFFICES ASSUME m + 1 <= Len(s) PROVE \E f \in [0..(m + 1) -> X] : Sol(m + 1, f)
    <3>1. m + 1 \in Nat
      BY <1>0
    <3> QED
      BY <1>0, <3>1, Zenon
  <2>2. m \in Nat /\ m <= Len(s)
    BY <1>0, <2>1
  <2>3. PICK h \in [0..m -> X] : Sol(m, h)
    BY <1>0, <2>2
  <2> DEFINE last == g[<<h[m], s[m + 1]>>]
             f == [k \in 0..(m + 1) |-> IF k = m + 1 THEN last ELSE h[k]]
  <2>4. last \in X
    <3>1. h[m] \in X /\ s[m + 1] \in K
      BY <2>1, <2>2
    <3> QED
      BY <3>1
  <2>5. f \in [0..(m + 1) -> X] /\ f[0] = b
    <3> HIDE DEF last
    <3> QED
      BY <2>2, <2>3, <2>4
  <2>6. ASSUME NEW k \in 1..(m + 1) PROVE f[k] = g[<<f[k - 1], s[k]>>]
    <3>1. CASE k = m + 1
      <4>1. f[k] = last /\ f[k - 1] = h[m]
        <5> HIDE DEF last
        <5> QED
          BY <2>2, <3>1
      <4> HIDE DEF f
      <4> QED
        BY <3>1, <4>1
    <3>2. CASE k # m + 1
      <4>1. k \in 1..m /\ f[k] = h[k] /\ f[k - 1] = h[k - 1]
        <5> HIDE DEF last
        <5> QED
          BY <2>2, <3>2
      <4> HIDE DEF f
      <4> QED
        BY <2>3, <4>1
    <3> QED
      BY <3>1, <3>2
  <2>7. Sol(m + 1, f)
    <3> HIDE DEF f
    <3> QED
      BY <2>2, <2>5, <2>6
  <2> QED
    <3> HIDE DEF f
    <3> QED
      BY <2>5, <2>7
<1>3. P = Nat
  BY <1>0, <1>1, <1>2, SetInduction
<1>4. Q(Len(s)) /\ Len(s) <= Len(s)
  BY <1>0, <1>3
<1> QED
  BY <1>4, Zenon DEF Q, FoldOf

(* A number-valued function has a least value on a set that is not empty. *)
LEMMA LeastExists ==
  ASSUME NEW S, S # {}, NEW f, \A s \in S : f[s] \in Nat
  PROVE  \E p \in S : \A q \in S : f[p] <= f[q]
<1> DEFINE R == OpToRel(<, Nat)
           T == {f[s] : s \in S}
<1>1. IsWellFoundedOn(R, Nat)
  BY NatLessThanWellFounded, Zenon
<1>2. \A x, y \in Nat : x < y => <<x, y>> \in R
  BY DEF OpToRel
<1>3. T \subseteq Nat /\ T # {}
  OBVIOUS
<1> HIDE DEF R
<1>4. \E x \in T : \A y \in T : ~(<<y, x>> \in R)
  <2> HIDE DEF T
  <2> QED
    BY <1>1, <1>3, WFMin
<1>5. PICK p \in S : \A y \in T : ~(<<y, f[p]>> \in R)
  BY <1>4
<1>6. \A q \in S : ~(f[q] < f[p])
  BY <1>2, <1>5
<1> QED
  BY <1>6

(* A set of numbers with a bound has a largest one. *)
LEMMA LargestExists ==
  ASSUME NEW n \in Nat, NEW S, S \subseteq 0..n, S # {}
  PROVE  \E m \in S : \A k \in S : k <= m
<1> DEFINE f == [k \in 0..n |-> n - k]
<1>1. \A k \in S : f[k] \in Nat /\ f[k] = n - k /\ k \in Nat
  OBVIOUS
<1> HIDE DEF f
<1>2. PICK m \in S : \A k \in S : f[m] <= f[k]
  BY <1>1, LeastExists
<1>3. \A k \in S : k <= m
  BY <1>1, <1>2
<1> QED
  BY <1>3

-----------------------------------------------------------------------------
(* No element occurs twice.                                                 *)
Distinct(s) == \A i, j \in DOMAIN s : s[i] = s[j] => i = j

(* f[k] is what is left of the first k entries of s without those in S.     *)
Selection(s, S, f) ==
  /\ f[0] = <<>>
  /\ \A k \in 1..Len(s) : f[k] = IF s[k] \in S THEN f[k - 1] ELSE Append(f[k - 1], s[k])

(* The function that Without folds with exists, for every sequence.         *)
LEMMA SelectExists ==
  ASSUME NEW K, NEW s \in Seq(K), NEW S
  PROVE  \E f \in [0..Len(s) -> Seq(K)] : Selection(s, S, f)
<1> DEFINE Sol(m, f) == /\ f[0] = <<>>
                        /\ \A k \in 1..m :
                             f[k] = IF s[k] \in S THEN f[k - 1] ELSE Append(f[k - 1], s[k])
           Q(m) == m <= Len(s) => \E f \in [0..m -> Seq(K)] : Sol(m, f)
           P == {m \in Nat : Q(m)}
<1> HIDE DEF Q
<1>0. P \subseteq Nat /\ (\A m \in Nat : m \in P <=> Q(m)) /\ Len(s) \in Nat
  OBVIOUS
<1> HIDE DEF P
<1>1. 0 \in P
  <2>1. [k \in 0..0 |-> <<>>] \in [0..0 -> Seq(K)] /\ Sol(0, [k \in 0..0 |-> <<>>])
    OBVIOUS
  <2>2. Q(0)
    BY <2>1 DEF Q
  <2> QED
    BY <1>0, <2>2
<1>2. ASSUME NEW m \in P PROVE m + 1 \in P
  <2> USE DEF Q
  <2>1. SUFFICES ASSUME m + 1 <= Len(s) PROVE \E f \in [0..(m + 1) -> Seq(K)] : Sol(m + 1, f)
    <3>1. m + 1 \in Nat
      BY <1>0
    <3> QED
      BY <1>0, <3>1, Zenon
  <2>2. m \in Nat /\ m <= Len(s)
    BY <1>0, <2>1
  <2>3. PICK g \in [0..m -> Seq(K)] : Sol(m, g)
    BY <1>0, <2>2
  <2> DEFINE last == IF s[m + 1] \in S THEN g[m] ELSE Append(g[m], s[m + 1])
             f == [k \in 0..(m + 1) |-> IF k = m + 1 THEN last ELSE g[k]]
  <2>4. last \in Seq(K)
    <3>1. g[m] \in Seq(K) /\ s[m + 1] \in K
      BY <2>1, <2>2
    <3> QED
      BY <3>1
  <2>5. f \in [0..(m + 1) -> Seq(K)] /\ f[0] = <<>>
    <3> HIDE DEF last
    <3> QED
      BY <2>2, <2>3, <2>4
  <2>6. ASSUME NEW k \in 1..(m + 1)
        PROVE  f[k] = IF s[k] \in S THEN f[k - 1] ELSE Append(f[k - 1], s[k])
    <3>1. CASE k = m + 1
      <4>1. f[k] = last /\ f[k - 1] = g[m]
        <5> HIDE DEF last
        <5> QED
          BY <2>2, <3>1
      <4> HIDE DEF f
      <4> QED
        BY <3>1, <4>1
    <3>2. CASE k # m + 1
      <4>1. k \in 1..m /\ f[k] = g[k] /\ f[k - 1] = g[k - 1]
        <5> HIDE DEF last
        <5> QED
          BY <2>2, <3>2
      <4> HIDE DEF f
      <4> QED
        BY <2>3, <4>1
    <3> QED
      BY <3>1, <3>2
  <2>7. Sol(m + 1, f)
    <3> HIDE DEF f
    <3> QED
      BY <2>2, <2>5, <2>6
  <2> QED
    <3> HIDE DEF f
    <3> QED
      BY <2>5, <2>7
<1>3. P = Nat
  BY <1>0, <1>1, <1>2, SetInduction
<1>4. Q(Len(s)) /\ Len(s) <= Len(s)
  BY <1>0, <1>3
<1> QED
  BY <1>4, Zenon DEF Q, Selection

(* Append adds one element, and a new one keeps the sequence distinct.      *)
LEMMA AppendContents ==
  ASSUME NEW K, NEW s \in Seq(K), NEW x \in K
  PROVE  /\ Append(s, x) \in Seq(K) /\ RangeOf(Append(s, x)) = RangeOf(s) \cup {x}
         /\ Distinct(s) /\ x \notin RangeOf(s) => Distinct(Append(s, x))
<1> DEFINE t == Append(s, x)
<1>1. /\ t \in Seq(K) /\ Len(t) = Len(s) + 1 /\ t[Len(s) + 1] = x
      /\ \A i \in 1..Len(s) : t[i] = s[i]
  OBVIOUS
<1> HIDE DEF t
<1>2. Len(s) \in Nat /\ DOMAIN s = 1..Len(s) /\ DOMAIN t = 1..(Len(s) + 1)
  BY <1>1
<1>3. \A i \in DOMAIN t : i = Len(s) + 1 \/ i \in DOMAIN s
  BY <1>2
<1>4. \A i \in DOMAIN s : i \in DOMAIN t /\ i # Len(s) + 1
  BY <1>2
<1>5. Len(s) + 1 \in DOMAIN t
  BY <1>2
<1>6. RangeOf(t) = RangeOf(s) \cup {x}
  <2>1. ASSUME NEW i \in DOMAIN t PROVE t[i] \in RangeOf(s) \cup {x}
    BY <1>1, <1>2, <1>3 DEF RangeOf
  <2>2. ASSUME NEW i \in DOMAIN s PROVE s[i] \in RangeOf(t)
    BY <1>1, <1>2, <1>4 DEF RangeOf
  <2>3. x \in RangeOf(t)
    BY <1>1, <1>5 DEF RangeOf
  <2> QED
    BY <2>1, <2>2, <2>3 DEF RangeOf
<1>7. ASSUME Distinct(s), x \notin RangeOf(s) PROVE Distinct(t)
  BY <1>1, <1>2, <1>3, <1>7 DEF Distinct, RangeOf
<1> QED
  BY <1>1, <1>6, <1>7 DEF t

(* Without removes exactly the elements of the set.                         *)
LEMMA WithoutProperties ==
  ASSUME NEW K, NEW s \in Seq(K), Distinct(s), NEW S
  PROVE  /\ Without(s, S) \in Seq(K)
         /\ RangeOf(Without(s, S)) = RangeOf(s) \ S
         /\ Distinct(Without(s, S))
<1> DEFINE f == CHOOSE g : g = [k \in 0..Len(s) |->
                  IF k = 0 THEN <<>> ELSE IF s[k] \in S THEN g[k - 1] ELSE Append(g[k - 1], s[k])]
<1>1. Without(s, S) = f[Len(s)]
  BY Zenon DEF Without
<1>2. PICK g \in [0..Len(s) -> Seq(K)] : Selection(s, S, g)
  BY SelectExists, Zenon
<1>3. g = [k \in 0..Len(s) |->
             IF k = 0 THEN <<>> ELSE IF s[k] \in S THEN g[k - 1] ELSE Append(g[k - 1], s[k])]
  <2>1. Len(s) \in Nat /\ \A k \in 0..Len(s) : k = 0 \/ k \in 1..Len(s)
    OBVIOUS
  <2>2. \A k \in 0..Len(s) : g[k] =
             IF k = 0 THEN <<>> ELSE IF s[k] \in S THEN g[k - 1] ELSE Append(g[k - 1], s[k])
    BY <1>2, <2>1, Zenon DEF Selection
  <2>3. g = [k \in 0..Len(s) |-> g[k]]
    OBVIOUS
  <2> QED
    BY <2>2, <2>3, Zenon
<1>4. f = [k \in 0..Len(s) |->
             IF k = 0 THEN <<>> ELSE IF s[k] \in S THEN f[k - 1] ELSE Append(f[k - 1], s[k])]
  BY <1>3, Zenon
<1> HIDE DEF f
<1>5. \A k \in 0..Len(s) : f[k] =
        IF k = 0 THEN <<>> ELSE IF s[k] \in S THEN f[k - 1] ELSE Append(f[k - 1], s[k])
  BY <1>4, Zenon
<1> DEFINE seen(k) == {s[i] : i \in 1..k}
           good(k) == f[k] \in Seq(K) /\ RangeOf(f[k]) = seen(k) \ S /\ Distinct(f[k])
           P == {k \in Nat : k <= Len(s) => good(k)}
<1>6. P \subseteq Nat /\ 0 \in P
  <2>1. f[0] = <<>> /\ Len(s) \in Nat
    BY <1>5
  <2>2. good(0)
    <3>1. RangeOf(<<>>) = {} /\ seen(0) = {} /\ Distinct(<<>>) /\ <<>> \in Seq(K)
      BY DEF RangeOf, Distinct
    <3> QED
      BY <2>1, <3>1
  <2> HIDE DEF good
  <2> QED
    BY <2>2
<1>7. ASSUME NEW k \in P PROVE k + 1 \in P
  <2> HIDE DEF good
  <2>1. SUFFICES ASSUME k + 1 <= Len(s) PROVE good(k + 1)
    OBVIOUS
  <2>2. k \in Nat /\ good(k) /\ Len(s) \in Nat
    BY <2>1
  <2>3. k + 1 \in 1..Len(s) /\ k + 1 \in 0..Len(s) /\ k + 1 # 0 /\ (k + 1) - 1 = k
    BY <2>1, <2>2
  <2> HIDE DEF P
  <2>4. f[k + 1] = IF s[k + 1] \in S THEN f[k] ELSE Append(f[k], s[k + 1])
    BY <1>5, <2>3
  <2>5. seen(k + 1) = seen(k) \cup {s[k + 1]}
    <3>1. 1..(k + 1) = (1..k) \cup {k + 1}
      BY <2>2
    <3> QED
      BY <3>1
  <2>6. s[k + 1] \in K
    BY <2>3
  <2>7. s[k + 1] \notin seen(k)
    <3>1. \A i \in 1..k : i \in DOMAIN s /\ i # k + 1
      BY <2>2, <2>3
    <3>2. k + 1 \in DOMAIN s
      BY <2>3
    <3> QED
      BY <3>1, <3>2 DEF Distinct
  <2>8. f[k] \in Seq(K) /\ RangeOf(f[k]) = seen(k) \ S /\ Distinct(f[k])
    BY <2>2 DEF good
  <2> HIDE DEF seen
  <2>9. CASE s[k + 1] \in S
    <3>1. f[k + 1] = f[k]
      BY <2>4, <2>9
    <3>2. seen(k + 1) \ S = seen(k) \ S
      BY <2>5, <2>9
    <3> QED
      BY <2>8, <3>1, <3>2 DEF good
  <2>10. CASE s[k + 1] \notin S
    <3>1. f[k + 1] = Append(f[k], s[k + 1])
      BY <2>4, <2>10
    <3>2. s[k + 1] \notin RangeOf(f[k])
      BY <2>7, <2>8
    <3>0. /\ Append(f[k], s[k + 1]) \in Seq(K)
          /\ RangeOf(Append(f[k], s[k + 1])) = RangeOf(f[k]) \cup {s[k + 1]}
          /\ Distinct(Append(f[k], s[k + 1]))
      BY <2>6, <2>8, <3>2, AppendContents
    <3>3. /\ f[k + 1] \in Seq(K) /\ RangeOf(f[k + 1]) = RangeOf(f[k]) \cup {s[k + 1]}
          /\ Distinct(f[k + 1])
      BY <3>0, <3>1, Zenon
    <3>4. seen(k + 1) \ S = (seen(k) \ S) \cup {s[k + 1]}
      BY <2>5, <2>10
    <3> QED
      BY <2>8, <3>3, <3>4 DEF good
  <2> QED
    BY <2>9, <2>10
<1>8. P = Nat
  <2> HIDE DEF P
  <2> QED
    BY <1>6, <1>7, SetInduction
<1>9. good(Len(s))
  <2>1. Len(s) \in Nat /\ Len(s) <= Len(s)
    OBVIOUS
  <2>2. Len(s) \in P
    BY <1>8, <2>1, Zenon
  <2> HIDE DEF good
  <2> QED
    BY <2>1, <2>2
<1>10. seen(Len(s)) = RangeOf(s)
  BY DEF RangeOf
<1> QED
  BY <1>1, <1>9, <1>10
=============================================================================
