----------------------------- MODULE CacheProofs -----------------------------
(***************************************************************************)
(* Proofs about the caches on disk: the router's static files              *)
(* (StaticCache) and the hub's bundles (HubCache), and what both promise   *)
(* to the holder of a path (DiskCaches).                                   *)
(*                                                                         *)
(* First the index they share, LruIndex, for every sequence; then for each *)
(* cache its invariant, one lemma for each part and one step for each      *)
(* action, and the theorems.                                               *)
(***************************************************************************)
EXTENDS DiskCaches, SeqLemmas, FiniteSetTheorems

(* BytesAfter is the sum it stands for: nothing after the last entry, and   *)
(* one entry more for each step towards the front. The recursive function   *)
(* is solved by SumExists, so this holds for every index.                   *)
LEMMA BytesAfterStep ==
  ASSUME NEW K, NEW size \in [K -> Nat], NEW s \in Seq(K)
  PROVE  /\ BytesAfter(size, s, Len(s)) = 0
         /\ \A n \in 0..Len(s) : BytesAfter(size, s, n) \in Nat
         /\ \A n \in 0..(Len(s) - 1) :
              BytesAfter(size, s, n) = BytesAfter(size, s, n + 1) + size[s[n + 1]]
<1> DEFINE w == [k \in 1..Len(s) |-> size[s[Len(s) - k + 1]]]
           tail == CHOOSE f : f = [k \in 0..Len(s) |->
                     IF k = 0 THEN 0 ELSE f[k - 1] + size[s[Len(s) - k + 1]]]
<1>1. \A n : BytesAfter(size, s, n) = tail[Len(s) - n]
  BY Zenon DEF BytesAfter
<1>2. /\ Len(s) \in Nat /\ w \in [1..Len(s) -> Nat]
      /\ \A k \in 1..Len(s) : w[k] = size[s[Len(s) - k + 1]]
  OBVIOUS
<1> HIDE DEF w
<1>3. PICK g \in [0..Len(s) -> Nat] : g[0] = 0 /\ \A k \in 1..Len(s) : g[k] = g[k - 1] + w[k]
  BY <1>2, SumExists
<1>4. g = [k \in 0..Len(s) |-> IF k = 0 THEN 0 ELSE g[k - 1] + size[s[Len(s) - k + 1]]]
  <2>1. \A k \in 0..Len(s) : g[k] = IF k = 0 THEN 0 ELSE g[k - 1] + size[s[Len(s) - k + 1]]
    BY <1>2, <1>3
  <2> QED
    BY <2>1
<1>5. tail = [k \in 0..Len(s) |-> IF k = 0 THEN 0 ELSE tail[k - 1] + size[s[Len(s) - k + 1]]]
  BY <1>4, Zenon
<1> HIDE DEF tail
<1>6. \A k \in 0..Len(s) : tail[k] = IF k = 0 THEN 0 ELSE tail[k - 1] + size[s[Len(s) - k + 1]]
  BY <1>5, Zenon
<1>7. tail[0] = 0 /\ \A k \in 1..Len(s) : tail[k] = tail[k - 1] + w[k]
  BY <1>2, <1>6
<1>8. \A k \in 0..Len(s) : tail[k] \in Nat
  BY <1>2, <1>7, SumSolves
<1>9. ASSUME NEW n \in 0..(Len(s) - 1)
      PROVE  tail[Len(s) - n] = tail[Len(s) - (n + 1)] + size[s[n + 1]]
  <2>1. /\ Len(s) - n \in 1..Len(s) /\ (Len(s) - n) - 1 = Len(s) - (n + 1)
        /\ Len(s) - (Len(s) - n) + 1 = n + 1
    BY <1>2
  <2> QED
    BY <1>2, <1>7, <2>1
<1>10. ASSUME NEW n \in 0..Len(s) PROVE tail[Len(s) - n] \in Nat
  BY <1>2, <1>8
<1>11. tail[Len(s) - Len(s)] = 0
  BY <1>2, <1>7
<1> QED
  BY <1>1, <1>9, <1>10, <1>11

(* The entries of s after the first a, up to c, are those of t after the    *)
(* first b, up to d.                                                        *)
SameSegment(s, a, c, t, b, d) ==
  /\ a \in Nat /\ b \in Nat /\ c \in Nat /\ d \in Nat /\ a <= c /\ c - a = d - b
  /\ c <= Len(s) /\ d <= Len(t)
  /\ \A k \in 1..(c - a) : s[a + k] = t[b + k]

(* A segment weighs the same in whatever index it stands.                   *)
LEMMA SegmentBytes ==
  ASSUME NEW K, NEW size \in [K -> Nat], NEW s \in Seq(K), NEW t \in Seq(K),
         NEW a, NEW b, NEW c, NEW d, SameSegment(s, a, c, t, b, d)
  PROVE  BytesAfter(size, s, a) - BytesAfter(size, s, c)
           = BytesAfter(size, t, b) - BytesAfter(size, t, d)
<1> DEFINE n == c - a
<1>0. /\ a \in Nat /\ b \in Nat /\ n \in Nat /\ a + n = c /\ b + n = d
      /\ a + n <= Len(s) /\ b + n <= Len(t) /\ \A k \in 1..n : s[a + k] = t[b + k]
  BY DEF SameSegment
<1> HIDE DEF n
<1> DEFINE S(k) == BytesAfter(size, s, k)
           T(k) == BytesAfter(size, t, k)
           P == {m \in Nat : m <= n => S(a) - S(a + m) = T(b) - T(b + m)}
<1>1. /\ \A k \in 0..Len(s) : S(k) \in Nat
      /\ \A k \in 0..(Len(s) - 1) : S(k) = S(k + 1) + size[s[k + 1]]
  BY BytesAfterStep
<1>2. /\ \A k \in 0..Len(t) : T(k) \in Nat
      /\ \A k \in 0..(Len(t) - 1) : T(k) = T(k + 1) + size[t[k + 1]]
  BY BytesAfterStep
<1>3. Len(s) \in Nat /\ Len(t) \in Nat /\ \A k \in 1..Len(s) : size[s[k]] \in Nat
  OBVIOUS
<1> HIDE DEF S, T
<1>4. P \subseteq Nat /\ 0 \in P
  <2>1. a + 0 = a /\ b + 0 = b /\ a \in 0..Len(s) /\ b \in 0..Len(t)
    BY <1>0, <1>3
  <2> QED
    BY <1>1, <1>2, <2>1
<1>5. ASSUME NEW m \in P PROVE m + 1 \in P
  <2>1. SUFFICES ASSUME m + 1 <= n PROVE S(a) - S(a + (m + 1)) = T(b) - T(b + (m + 1))
    OBVIOUS
  <2>2. m \in Nat /\ S(a) - S(a + m) = T(b) - T(b + m)
    BY <1>0, <2>1
  <2>3. /\ a + m \in 0..(Len(s) - 1) /\ (a + m) + 1 = a + (m + 1)
        /\ b + m \in 0..(Len(t) - 1) /\ (b + m) + 1 = b + (m + 1)
        /\ m + 1 \in 1..n
    BY <1>0, <1>3, <2>1, <2>2
  <2>4. s[a + (m + 1)] = t[b + (m + 1)]
    BY <1>0, <2>3
  <2>5. S(a + m) = S(a + (m + 1)) + size[s[a + (m + 1)]]
    BY <1>1, <2>3
  <2>6. T(b + m) = T(b + (m + 1)) + size[s[a + (m + 1)]]
    BY <1>2, <2>3, <2>4
  <2>7. /\ S(a) \in Nat /\ S(a + m) \in Nat /\ S(a + (m + 1)) \in Nat
        /\ T(b) \in Nat /\ T(b + m) \in Nat /\ T(b + (m + 1)) \in Nat
        /\ size[s[a + (m + 1)]] \in Nat
    <3>1. /\ a \in 0..Len(s) /\ a + m \in 0..Len(s) /\ a + (m + 1) \in 0..Len(s)
          /\ b \in 0..Len(t) /\ b + m \in 0..Len(t) /\ b + (m + 1) \in 0..Len(t)
          /\ a + (m + 1) \in 1..Len(s)
      <4> HIDE DEF P
      <4>1. a \in 0..Len(s) /\ b \in 0..Len(t)
        BY <1>0, <1>3
      <4>2. a + m \in 0..Len(s) /\ b + m \in 0..Len(t)
        BY <1>3, <2>3
      <4>3. a + (m + 1) \in 1..Len(s) /\ b + (m + 1) \in 1..Len(t)
        BY <1>3, <2>3, SMTT(30)
      <4> QED
        BY <1>3, <4>1, <4>2, <4>3
    <3> QED
      BY <1>1, <1>2, <1>3, <3>1
  <2> HIDE DEF P
  <2> DEFINE x == S(a + (m + 1))
             y == T(b + (m + 1))
             z == size[s[a + (m + 1)]]
  <2>8. S(a) - (x + z) = T(b) - (y + z)
    BY <2>2, <2>5, <2>6
  <2>9. S(a) \in Nat /\ T(b) \in Nat /\ x \in Nat /\ y \in Nat /\ z \in Nat
    BY <2>7
  <2> HIDE DEF x, y, z
  <2>10. S(a) - x = T(b) - y
    BY <2>8, <2>9
  <2> QED
    BY <2>10 DEF x, y
<1>6. P = Nat
  <2> HIDE DEF P
  <2> QED
    BY <1>4, <1>5, SetInduction
<1>7. n \in P
  BY <1>0, <1>6
<1>8. S(a) - S(a + n) = T(b) - T(b + n)
  BY <1>0, <1>7
<1>9. S(a) - S(c) = T(b) - T(d)
  BY <1>0, <1>8
<1> QED
  BY <1>9 DEF S, T

(* t is s with x in front; t is s without its i-th entry.                   *)
Pushed(s, x, t) == Len(t) = Len(s) + 1 /\ t[1] = x /\ \A i \in 1..Len(s) : t[i + 1] = s[i]
Removed(s, i, t) ==
  /\ Len(t) = Len(s) - 1
  /\ \A j \in 1..(Len(s) - 1) : t[j] = IF j < i THEN s[j] ELSE s[j + 1]

(* An entry pushed in front adds its own size.                              *)
LEMMA PushFrontBytes ==
  ASSUME NEW K, NEW size \in [K -> Nat], NEW s \in Seq(K), NEW x \in K, NEW t \in Seq(K),
         Pushed(s, x, t)
  PROVE  BytesAfter(size, t, 0) = BytesAfter(size, s, 0) + size[x]
<1> DEFINE S(k) == BytesAfter(size, s, k)
           T(k) == BytesAfter(size, t, k)
<1>1. Len(s) \in Nat /\ size[x] \in Nat
  OBVIOUS
<1>2. T(1) - T(Len(t)) = S(0) - S(Len(s))
  <2>1. SameSegment(t, 1, Len(t), s, 0, Len(s))
    BY <1>1 DEF SameSegment, Pushed
  <2> QED
    BY <2>1, SegmentBytes
<1>3. /\ S(Len(s)) = 0 /\ \A n \in 0..Len(s) : S(n) \in Nat
  BY BytesAfterStep
<1>4. /\ T(Len(t)) = 0 /\ (\A n \in 0..Len(t) : T(n) \in Nat)
      /\ \A n \in 0..(Len(t) - 1) : T(n) = T(n + 1) + size[t[n + 1]]
  BY BytesAfterStep
<1>5. 1 \in 0..Len(t) /\ 0 \in 0..(Len(t) - 1) /\ 0 \in 0..Len(s) /\ 0 + 1 = 1 /\ t[1] = x
  BY <1>1 DEF Pushed
<1> HIDE DEF S, T
<1>6. T(0) = T(1) + size[x]
  BY <1>4, <1>5
<1>7. S(0) \in Nat /\ T(1) \in Nat
  BY <1>3, <1>4, <1>5
<1>8. T(1) - 0 = S(0) - 0
  BY <1>2, <1>3, <1>4
<1>9. T(0) = S(0) + size[x]
  BY <1>1, <1>6, <1>7, <1>8
<1> QED
  BY <1>9 DEF S, T

(* An entry taken out takes its own size away.                              *)
LEMMA RemoveAtBytes ==
  ASSUME NEW K, NEW size \in [K -> Nat], NEW s \in Seq(K), NEW i \in 1..Len(s), NEW t \in Seq(K),
         Removed(s, i, t)
  PROVE  BytesAfter(size, t, 0) + size[s[i]] = BytesAfter(size, s, 0)
<1> DEFINE S(k) == BytesAfter(size, s, k)
           T(k) == BytesAfter(size, t, k)
<1>1. /\ Len(s) \in Nat /\ i \in Nat /\ i - 1 \in Nat /\ Len(s) - i \in Nat
      /\ size[s[i]] \in Nat
  OBVIOUS
<1>2. T(0) - T(i - 1) = S(0) - S(i - 1)
  <2>1. ASSUME NEW k \in 1..((i - 1) - 0) PROVE t[0 + k] = s[0 + k]
    <3>1. k \in 1..(Len(s) - 1) /\ k < i /\ 0 + k = k
      BY <1>1
    <3> QED
      BY <3>1 DEF Removed
  <2>2. SameSegment(t, 0, i - 1, s, 0, i - 1)
    BY <1>1, <2>1 DEF SameSegment, Removed
  <2> QED
    BY <2>2, SegmentBytes
<1>3. T(i - 1) - T(Len(t)) = S(i) - S(Len(s))
  <2>1. ASSUME NEW k \in 1..(Len(t) - (i - 1)) PROVE t[(i - 1) + k] = s[i + k]
    <3>1. (i - 1) + k \in 1..(Len(s) - 1) /\ ~((i - 1) + k < i) /\ ((i - 1) + k) + 1 = i + k
      BY <1>1 DEF Removed
    <3> QED
      BY <3>1 DEF Removed
  <2>2. SameSegment(t, i - 1, Len(t), s, i, Len(s))
    BY <1>1, <2>1 DEF SameSegment, Removed
  <2> DEFINE e == i - 1
             lt == Len(t)
             ls == Len(s)
  <2>3. SameSegment(t, e, lt, s, i, ls)
    BY <2>2
  <2> HIDE DEF e, lt, ls
  <2>4. BytesAfter(size, t, e) - BytesAfter(size, t, lt)
          = BytesAfter(size, s, i) - BytesAfter(size, s, ls)
    BY <2>3, SegmentBytes
  <2> QED
    BY <2>4 DEF e, lt, ls
<1>4. S(i - 1) = S(i) + size[s[i]]
  <2>1. i - 1 \in 0..(Len(s) - 1) /\ (i - 1) + 1 = i
    BY <1>1
  <2>2. \A n \in 0..(Len(s) - 1) : S(n) = S(n + 1) + size[s[n + 1]]
    BY BytesAfterStep
  <2> HIDE DEF S
  <2> QED
    BY <2>1, <2>2
<1>5. /\ T(Len(t)) = 0 /\ S(Len(s)) = 0 /\ T(0) \in Nat /\ S(0) \in Nat
      /\ T(i - 1) \in Nat /\ S(i - 1) \in Nat /\ S(i) \in Nat
  <2>1. /\ 0 \in 0..Len(t) /\ i - 1 \in 0..Len(t)
        /\ 0 \in 0..Len(s) /\ i - 1 \in 0..Len(s) /\ i \in 0..Len(s)
    BY <1>1 DEF Removed
  <2>2. S(Len(s)) = 0 /\ \A n \in 0..Len(s) : S(n) \in Nat
    BY BytesAfterStep
  <2>3. T(Len(t)) = 0 /\ \A n \in 0..Len(t) : T(n) \in Nat
    BY BytesAfterStep
  <2> HIDE DEF S, T
  <2> QED
    BY <2>1, <2>2, <2>3
<1> DEFINE t0 == T(0)
           t1 == T(i - 1)
           s0 == S(0)
           s1 == S(i - 1)
           s2 == S(i)
           z == size[s[i]]
<1>6. t0 - t1 = s0 - s1 /\ t1 - 0 = s2 - 0 /\ s1 = s2 + z
  BY <1>2, <1>3, <1>4, <1>5
<1>7. t0 \in Nat /\ t1 \in Nat /\ s0 \in Nat /\ s1 \in Nat /\ s2 \in Nat /\ z \in Nat
  BY <1>1, <1>5
<1> HIDE DEF t0, t1, s0, s1, s2, z
<1>8. t0 + z = s0
  BY <1>6, <1>7
<1> QED
  BY <1>8 DEF t0, s0, z

(* ToFront adds its entry to the index if it is not there, and moves        *)
(* nothing else out: what is there keeps its bytes, what is new adds its    *)
(* size.                                                                    *)
LEMMA ToFrontProperties ==
  ASSUME NEW K, NEW size \in [K -> Nat], NEW s \in Seq(K), NEW x \in K, Distinct(s)
  PROVE  /\ ToFront(s, x) \in Seq(K) /\ ToFront(s, x) # <<>> /\ ToFront(s, x)[1] = x
         /\ RangeOf(ToFront(s, x)) = RangeOf(s) \cup {x} /\ Distinct(ToFront(s, x))
         /\ x \in RangeOf(s) => /\ Len(ToFront(s, x)) = Len(s)
                                /\ BytesAfter(size, ToFront(s, x), 0) = BytesAfter(size, s, 0)
         /\ x \notin RangeOf(s) =>
              BytesAfter(size, ToFront(s, x), 0) = BytesAfter(size, s, 0) + size[x]
<1> DEFINE t == ToFront(s, x)
           Goal == /\ t \in Seq(K) /\ t # <<>> /\ t[1] = x
                   /\ RangeOf(t) = RangeOf(s) \cup {x} /\ Distinct(t)
                   /\ x \in RangeOf(s) => /\ Len(t) = Len(s)
                                          /\ BytesAfter(size, t, 0) = BytesAfter(size, s, 0)
                   /\ x \notin RangeOf(s) => BytesAfter(size, t, 0) = BytesAfter(size, s, 0) + size[x]
<1> SUFFICES Goal
  OBVIOUS
<1> HIDE DEF t
<1>1. CASE x \in RangeOf(s)
  <2> DEFINE i == CHOOSE i \in DOMAIN s : s[i] = x
             u == RemoveAt(s, i)
  <2>1. i \in 1..Len(s) /\ s[i] = x
    BY <1>1 DEF RangeOf
  <2>2. t = <<x>> \o u
    BY <1>1 DEF ToFront, t
  <2> HIDE DEF i
  <2>3. u \in Seq(K)
    BY <2>1, RemoveAtProperties
  <2>4. /\ \A j \in DOMAIN u : \E k \in DOMAIN s : u[j] = s[k]
        /\ \A j, k \in DOMAIN u : u[j] = u[k] => j = k
    <3> HIDE DEF u
    <3> QED
      BY <2>1, RemoveAtElements DEF Distinct, u
  <2>5. /\ \A k \in DOMAIN s : k # i => \E j \in DOMAIN u : u[j] = s[k]
        /\ \A j \in DOMAIN u : u[j] # x
    BY <2>1, RemoveAtKeeps DEF Distinct
  <2>6. BytesAfter(size, u, 0) + size[x] = BytesAfter(size, s, 0)
    <3>1. Removed(s, i, u)
      BY <2>1, RemoveAtProperties DEF Removed
    <3> HIDE DEF u
    <3> QED
      BY <2>1, <2>3, <3>1, RemoveAtBytes
  <2> HIDE DEF u
  <2>7. /\ t \in Seq(K) /\ Len(t) = Len(u) + 1 /\ t[1] = x
        /\ \A j \in 1..Len(u) : t[j + 1] = u[j]
        /\ BytesAfter(size, t, 0) = BytesAfter(size, u, 0) + size[x]
    <3>1. /\ t \in Seq(K) /\ Len(t) = Len(u) + 1 /\ t[1] = x
          /\ \A j \in 1..Len(u) : t[j + 1] = u[j]
      BY <2>2, <2>3
    <3>2. Pushed(u, x, t)
      BY <3>1 DEF Pushed
    <3>3. BytesAfter(size, t, 0) = BytesAfter(size, u, 0) + size[x]
      BY <2>3, <3>1, <3>2, PushFrontBytes
    <3> QED
      BY <3>1, <3>3
  <2>8. DOMAIN t = 1..(Len(u) + 1) /\ Len(u) \in Nat /\ DOMAIN u = 1..Len(u) /\ t # <<>>
    BY <2>3, <2>7
  <2>9. ASSUME NEW j \in DOMAIN t, j # 1 PROVE j - 1 \in DOMAIN u /\ t[j] = u[j - 1]
    <3>1. j - 1 \in 1..Len(u) /\ (j - 1) + 1 = j
      BY <2>8, <2>9
    <3> QED
      BY <2>7, <2>8, <3>1
  <2>10. Distinct(t)
    <3> SUFFICES ASSUME NEW j \in DOMAIN t, NEW k \in DOMAIN t, t[j] = t[k] PROVE j = k
      BY DEF Distinct
    <3>1. CASE j = 1 \/ k = 1
      BY <2>5, <2>7, <2>9, <3>1
    <3>2. CASE j # 1 /\ k # 1
      <4>1. j - 1 = k - 1
        BY <2>4, <2>9, <3>2
      <4> QED
        BY <2>8, <4>1
    <3> QED
      BY <3>1, <3>2
  <2>11. RangeOf(t) \subseteq RangeOf(s)
    <3> SUFFICES ASSUME NEW j \in DOMAIN t PROVE t[j] \in RangeOf(s)
      BY DEF RangeOf
    <3>1. CASE j = 1
      BY <1>1, <2>7, <3>1
    <3>2. CASE j # 1
      <4>1. PICK k \in DOMAIN s : u[j - 1] = s[k]
        BY <2>4, <2>9, <3>2
      <4> QED
        BY <2>9, <3>2, <4>1 DEF RangeOf
    <3> QED
      BY <3>1, <3>2
  <2>12. RangeOf(s) \subseteq RangeOf(t)
    <3> SUFFICES ASSUME NEW k \in DOMAIN s PROVE \E j \in DOMAIN t : t[j] = s[k]
      BY DEF RangeOf
    <3>1. CASE k = i
      <4>1. 1 \in DOMAIN t /\ t[1] = s[k]
        BY <2>1, <2>7, <2>8, <3>1
      <4> QED
        BY <4>1
    <3>2. CASE k # i
      <4>1. PICK j \in DOMAIN u : u[j] = s[k]
        BY <2>5, <3>2
      <4>2. j + 1 \in DOMAIN t /\ t[j + 1] = s[k]
        BY <2>7, <2>8, <4>1
      <4> QED
        BY <4>2
    <3> QED
      BY <3>1, <3>2
  <2> QED
    <3>1. Len(t) = Len(s) /\ BytesAfter(size, t, 0) = BytesAfter(size, s, 0)
      <4>1. Len(u) = Len(s) - 1
        BY <2>1, RemoveAtProperties DEF u
      <4> QED
        BY <2>6, <2>7, <4>1
    <3>2. RangeOf(t) = RangeOf(s) \cup {x}
      BY <1>1, <2>11, <2>12
    <3> QED
      BY <1>1, <2>7, <2>8, <2>10, <3>1, <3>2
<1>2. CASE x \notin RangeOf(s)
  <2>1. t = <<x>> \o s
    BY <1>2 DEF ToFront, t
  <2>2. /\ t \in Seq(K) /\ Len(t) = Len(s) + 1 /\ t[1] = x
        /\ \A j \in 1..Len(s) : t[j + 1] = s[j]
        /\ BytesAfter(size, t, 0) = BytesAfter(size, s, 0) + size[x]
    <3>1. /\ t \in Seq(K) /\ Len(t) = Len(s) + 1 /\ t[1] = x
          /\ \A j \in 1..Len(s) : t[j + 1] = s[j]
      BY <2>1
    <3>2. Pushed(s, x, t)
      BY <3>1 DEF Pushed
    <3>3. BytesAfter(size, t, 0) = BytesAfter(size, s, 0) + size[x]
      BY <3>1, <3>2, PushFrontBytes
    <3> QED
      BY <3>1, <3>3
  <2>3. DOMAIN t = 1..(Len(s) + 1) /\ Len(s) \in Nat /\ DOMAIN s = 1..Len(s) /\ t # <<>>
    BY <2>2
  <2>4. ASSUME NEW j \in DOMAIN t, j # 1 PROVE j - 1 \in DOMAIN s /\ t[j] = s[j - 1]
    <3>1. j - 1 \in 1..Len(s) /\ (j - 1) + 1 = j
      BY <2>3, <2>4
    <3> QED
      BY <2>2, <2>3, <3>1
  <2>5. Distinct(t)
    <3> SUFFICES ASSUME NEW j \in DOMAIN t, NEW k \in DOMAIN t, t[j] = t[k] PROVE j = k
      BY DEF Distinct
    <3>1. CASE j = 1 \/ k = 1
      BY <1>2, <2>2, <2>4, <3>1 DEF RangeOf
    <3>2. CASE j # 1 /\ k # 1
      <4>1. j - 1 = k - 1
        BY <2>4, <3>2 DEF Distinct
      <4> QED
        BY <2>3, <4>1
    <3> QED
      BY <3>1, <3>2
  <2>6. RangeOf(t) \subseteq RangeOf(s) \cup {x}
    <3> SUFFICES ASSUME NEW j \in DOMAIN t PROVE t[j] \in RangeOf(s) \cup {x}
      BY DEF RangeOf
    <3>1. CASE j = 1
      BY <2>2, <3>1
    <3>2. CASE j # 1
      BY <2>4, <3>2 DEF RangeOf
    <3> QED
      BY <3>1, <3>2
  <2>7. RangeOf(s) \subseteq RangeOf(t)
    <3> SUFFICES ASSUME NEW k \in DOMAIN s PROVE \E j \in DOMAIN t : t[j] = s[k]
      BY DEF RangeOf
    <3>1. k + 1 \in DOMAIN t /\ t[k + 1] = s[k]
      BY <2>2, <2>3
    <3> QED
      BY <3>1
  <2>8. x \in RangeOf(t)
    BY <2>2, <2>3 DEF RangeOf
  <2> QED
    BY <1>2, <2>2, <2>3, <2>5, <2>6, <2>7, <2>8
<1> QED
  BY <1>1, <1>2

(* p is the first n entries of s.                                           *)
Prefix(s, n, p) == Len(p) = n /\ \A i \in 1..n : p[i] = s[i]

(* What eviction leaves weighs the whole less what it cuts off.             *)
LEMMA PrefixBytes ==
  ASSUME NEW K, NEW size \in [K -> Nat], NEW s \in Seq(K), NEW n \in 0..Len(s), NEW p \in Seq(K),
         Prefix(s, n, p)
  PROVE  BytesAfter(size, p, 0) = BytesAfter(size, s, 0) - BytesAfter(size, s, n)
<1> DEFINE S(k) == BytesAfter(size, s, k)
           T(k) == BytesAfter(size, p, k)
           lp == Len(p)
<1>1. Len(s) \in Nat /\ n \in Nat /\ lp = n
  BY DEF Prefix
<1>2. SameSegment(p, 0, lp, s, 0, n)
  BY <1>1 DEF SameSegment, Prefix
<1>3. /\ T(lp) = 0 /\ \A k \in 0..lp : T(k) \in Nat
  BY BytesAfterStep
<1>4. \A k \in 0..Len(s) : S(k) \in Nat
  BY BytesAfterStep
<1> HIDE DEF lp
<1>5. T(0) - T(lp) = S(0) - S(n)
  BY <1>2, SegmentBytes
<1>6. 0 \in 0..lp /\ 0 \in 0..Len(s)
  BY <1>1
<1> HIDE DEF S, T
<1>7. T(0) \in Nat /\ S(0) \in Nat /\ S(n) \in Nat
  BY <1>3, <1>4, <1>6
<1>8. T(0) - 0 = S(0) - S(n)
  BY <1>3, <1>5
<1>9. T(0) = S(0) - S(n)
  BY <1>7, <1>8
<1> QED
  BY <1>9 DEF S, T

(* Kept stops inside the index: at the budget, at the front or at a         *)
(* protected entry, and it cuts no protected entry off.                     *)
LEMMA KeptProperties ==
  ASSUME NEW K, NEW size \in [K -> Nat], NEW l \in Seq(K), NEW bytes, NEW max,
         NEW protect, NEW n, n = Kept(size, max, l, bytes, protect),
         bytes \in Int, max \in Int
  PROVE  /\ n \in 0..Len(l)
         /\ bytes - BytesAfter(size, l, n) <= max \/ n = 0 \/ l[n] \in protect
         /\ \A m \in (n + 1)..Len(l) : l[m] \notin protect
<1> DEFINE stop(m) == bytes - BytesAfter(size, l, m) <= max \/ m = 0 \/ l[m] \in protect
           S == {m \in 0..Len(l) : stop(m)}
           goes(m) == bytes - BytesAfter(size, l, m) > max /\ l[m] \notin protect
<1>1. Len(l) \in Nat /\ \A m \in 0..Len(l) : BytesAfter(size, l, m) \in Nat
  BY BytesAfterStep
<1>2. \A m \in 1..Len(l) : ~stop(m) => goes(m)
  BY <1>1
<1>3. n = CHOOSE m \in 0..Len(l) : stop(m) /\ \A k \in (m + 1)..Len(l) : goes(k)
  BY Zenon DEF Kept
<1>4. 0 \in 0..Len(l) /\ stop(0)
  BY <1>1
<1> HIDE DEF stop, goes
<1>5. S \subseteq 0..Len(l) /\ S # {}
  BY <1>4
<1>6. PICK m \in S : \A k \in S : k <= m
  <2> HIDE DEF S
  <2> QED
    BY <1>1, <1>5, LargestExists
<1>7. m \in 0..Len(l) /\ stop(m)
  OBVIOUS
<1>8. ASSUME NEW k \in (m + 1)..Len(l) PROVE goes(k)
  <2>1. k \in 0..Len(l) /\ k \in 1..Len(l) /\ ~(k <= m)
    BY <1>1, <1>7
  <2>2. ~stop(k)
    BY <1>6, <2>1
  <2> QED
    BY <1>2, <2>1, <2>2
<1>9. n \in 0..Len(l) /\ stop(n) /\ \A k \in (n + 1)..Len(l) : goes(k)
  BY <1>3, <1>7, <1>8, Zenon
<1> QED
  BY <1>9 DEF stop, goes

(* What evictLocked leaves of the index l, takes out of it, and counts.     *)
Evicted(size, max, l, protect, in, out, left) ==
  LET n == Kept(size, max, l, BytesAfter(size, l, 0), protect)
  IN /\ in = SubSeq(l, 1, n)
     /\ out = RangeOf(SubSeq(l, n + 1, Len(l)))
     /\ left = BytesAfter(size, l, 0) - BytesAfter(size, l, n)

(* What evictLocked leaves is a prefix of the index with exact bytes,       *)
(* within the budget unless its last entry is protected, and no protected   *)
(* entry is gone.                                                           *)
LEMMA EvictIndex ==
  ASSUME NEW K, NEW size \in [K -> Nat], NEW max \in Nat, NEW l \in Seq(K), Distinct(l),
         NEW protect, NEW in, NEW out, NEW left, Evicted(size, max, l, protect, in, out, left)
  PROVE  /\ in \in Seq(K) /\ Distinct(in) /\ RangeOf(in) \subseteq RangeOf(l)
         /\ out = RangeOf(l) \ RangeOf(in)
         /\ left = BytesAfter(size, in, 0) /\ left \in Nat
         /\ left <= max \/ (Len(in) > 0 /\ in[Len(in)] \in protect)
         /\ RangeOf(l) \cap protect \subseteq RangeOf(in)
         /\ Len(in) \in 0..Len(l) /\ \A i \in 1..Len(in) : in[i] = l[i]
<1> DEFINE bytes == BytesAfter(size, l, 0)
           n == Kept(size, max, l, bytes, protect)
           rest == SubSeq(l, n + 1, Len(l))
<1>1. in = SubSeq(l, 1, n) /\ left = bytes - BytesAfter(size, l, n) /\ out = RangeOf(rest)
  BY DEF Evicted
<1>2. max \in Int /\ 0 <= max
  OBVIOUS
<1>3. Len(l) \in Nat /\ \A m \in 0..Len(l) : BytesAfter(size, l, m) \in Nat
  BY BytesAfterStep
<1>4. bytes \in Int /\ bytes \in Nat
  BY <1>3
<1> HIDE DEF bytes
<1>5. /\ n \in 0..Len(l)
      /\ bytes - BytesAfter(size, l, n) <= max \/ n = 0 \/ l[n] \in protect
      /\ \A m \in (n + 1)..Len(l) : l[m] \notin protect
  <2> HIDE DEF n
  <2> QED
    BY <1>2, <1>4, KeptProperties, SMTT(30) DEF n
<1> HIDE DEF n
<1>6. in \in Seq(K) /\ Len(in) = n /\ \A i \in 1..n : in[i] = l[i]
  BY <1>1, <1>3, <1>5
<1>7. /\ rest \in Seq(K) /\ Len(rest) = Len(l) - n
      /\ \A i \in 1..(Len(l) - n) : rest[i] = l[i + n]
  <2>1. Len(l) \in Nat /\ n \in Nat /\ n <= Len(l)
    BY <1>3, <1>5
  <2> QED
    BY <2>1
<1> HIDE DEF rest
<1>8. DOMAIN in = 1..n /\ DOMAIN l = 1..Len(l) /\ DOMAIN rest = 1..(Len(l) - n) /\ n \in Nat
  BY <1>3, <1>5, <1>6, <1>7
<1>9. \A i \in 1..n : i \in 1..Len(l)
  BY <1>3, <1>5
<1>10. Distinct(in) /\ RangeOf(in) \subseteq RangeOf(l)
  BY <1>6, <1>8, <1>9 DEF Distinct, RangeOf
<1>11. RangeOf(rest) = RangeOf(l) \ RangeOf(in)
  <2>1. ASSUME NEW i \in 1..(Len(l) - n) PROVE rest[i] \in RangeOf(l) /\ rest[i] \notin RangeOf(in)
    <3>1. i + n \in 1..Len(l) /\ \A j \in 1..n : j # i + n
      BY <1>3, <1>8
    <3>2. rest[i] = l[i + n]
      BY <1>7
    <3>3. l[i + n] \in RangeOf(l)
      BY <1>8, <3>1 DEF RangeOf
    <3>4. ASSUME NEW j \in 1..n PROVE in[j] # l[i + n]
      BY <1>6, <1>8, <1>9, <3>1 DEF Distinct
    <3> QED
      BY <1>8, <3>2, <3>3, <3>4 DEF RangeOf
  <2>2. ASSUME NEW i \in 1..Len(l), l[i] \notin RangeOf(in) PROVE l[i] \in RangeOf(rest)
    <3>1. i \notin 1..n
      BY <1>6, <1>8, <2>2 DEF RangeOf
    <3>2. i - n \in 1..(Len(l) - n) /\ (i - n) + n = i
      BY <1>3, <1>8, <3>1
    <3> QED
      BY <1>7, <1>8, <3>2 DEF RangeOf
  <2> QED
    BY <1>8, <2>1, <2>2 DEF RangeOf
<1>13. BytesAfter(size, in, 0) = bytes - BytesAfter(size, l, n)
  <2>1. Prefix(l, n, in)
    BY <1>6 DEF Prefix
  <2> QED
    BY <1>5, <1>6, <2>1, PrefixBytes DEF bytes
<1>14. left = BytesAfter(size, in, 0) /\ left \in Nat
  <2>1. BytesAfter(size, in, 0) \in Nat
    <3>1. 0 \in 0..Len(in)
      BY <1>6, <1>8
    <3> QED
      BY <1>6, <3>1, BytesAfterStep
  <2> QED
    BY <1>1, <1>13, <2>1
<1>15. left <= max \/ (Len(in) > 0 /\ in[Len(in)] \in protect)
  <2>1. CASE n = 0
    <3>1. left = bytes - bytes
      BY <1>1, <2>1 DEF bytes
    <3> QED
      BY <1>2, <1>4, <3>1
  <2>2. CASE n # 0
    <3>1. n \in 1..n /\ n > 0
      BY <1>8, <2>2
    <3> QED
      BY <1>1, <1>5, <1>6, <2>2, <3>1
  <2> QED
    BY <2>1, <2>2
<1>16. RangeOf(l) \cap protect \subseteq RangeOf(in)
  <2> SUFFICES ASSUME NEW i \in 1..Len(l), l[i] \in protect PROVE l[i] \in RangeOf(in)
    BY <1>8 DEF RangeOf
  <2>1. i \in 1..n
    BY <1>3, <1>5, <1>8
  <2> QED
    BY <1>6, <1>8, <2>1 DEF RangeOf
<1> QED
  BY <1>1, <1>5, <1>6, <1>10, <1>11, <1>14, <1>15, <1>16

-----------------------------------------------------------------------------

(* Single flight: a hash has at most one leader; the map of flights holds   *)
(* the state of the leader's flight and no flight without a leader; whoever *)
(* waits, waits for one that runs.                                          *)
FlightsLed ==
  /\ \A g, x \in Openers : Leading(g) /\ Leading(x) /\ op[g].h = op[x].h => g = x
  /\ \A g \in Openers :
       /\ op[g].at \in {"recheck", "copy", "add", "ok", "err", "wait"} => flight[op[g].h] = "run"
       /\ OpAt(g, "unmapOk") => flight[op[g].h] = "ok"
       /\ OpAt(g, "unmapErr") => flight[op[g].h] = "err"
  /\ \A h \in Hashes : flight[h] # "none" => \E g \in Openers : Leading(g) /\ op[g].h = h

(* The leader that writes a file has checked the index and is the only one  *)
(* who may add it: its hash stays outside until it does, while the file is  *)
(* already on the disk.                                                     *)
NewIsOutside ==
  \A g \in Openers :
    /\ op[g].at \in {"copy", "add"} => op[g].h \notin RangeOf(ll)
    /\ OpAt(g, "add") => op[g].h \in RangeOf(disk)

(* Whoever has been given a path was given it by an index with an entry,    *)
(* and eviction leaves one: an empty index was never asked.                 *)
FoundIsInside ==
  ll = <<>> => /\ \A g \in Openers : op[g].at \notin {"open", "ok", "unmapOk", "reopen"}
               /\ \A h \in Hashes : flight[h] # "ok"

(* A leader that copies has its temporary file.                             *)
TempsCounted == Cardinality({g \in Openers : OpAt(g, "copy")}) <= temps

(* The index is right about the disk: every entry is a file, every file is  *)
(* an entry or is about to be added by its leader; the bytes are exact and  *)
(* within the budget but for a single file.                                 *)
IndexInv ==
  /\ Distinct(ll) /\ Distinct(disk)
  /\ RangeOf(ll) \subseteq RangeOf(disk)
  /\ \A h \in RangeOf(disk) : h \in RangeOf(ll) \/ \E g \in Openers : OpAt(g, "add") /\ op[g].h = h
  /\ curBytes = BytesAfter(Size, ll, 0)
  /\ curBytes <= MaxBytes \/ Len(ll) = 1

(* The inductive invariant of the static file cache.                        *)
CacheInv ==
  /\ CacheTypeOK
  /\ FlightsLed /\ NewIsOutside /\ FoundIsInside /\ TempsCounted /\ IndexInv

(* EvictIndex for the state of the cache: the files removed are exactly the *)
(* ones that left the index.                                                *)
LEMMA EvictResult ==
  ASSUME NEW l \in Seq(Hashes), Distinct(l), NEW files \in Seq(Hashes), Distinct(files),
         NEW protect, NEW bytes, bytes = BytesAfter(Size, l, 0),
         EvictLocked(l, bytes, files, protect)
  PROVE  /\ ll' \in Seq(Hashes) /\ Distinct(ll') /\ RangeOf(ll') \subseteq RangeOf(l)
         /\ disk' \in Seq(Hashes) /\ Distinct(disk')
         /\ RangeOf(disk') = RangeOf(files) \ (RangeOf(l) \ RangeOf(ll'))
         /\ curBytes' = BytesAfter(Size, ll', 0) /\ curBytes' \in Nat
         /\ curBytes' <= MaxBytes \/ (Len(ll') > 0 /\ ll'[Len(ll')] \in protect)
         /\ RangeOf(l) \cap protect \subseteq RangeOf(ll')
         /\ Len(ll') \in 0..Len(l) /\ \A i \in 1..Len(ll') : ll'[i] = l[i]
<1> DEFINE n == Kept(Size, MaxBytes, l, bytes, protect)
           out == RangeOf(SubSeq(l, n + 1, Len(l)))
<1>1. disk' = Without(files, out)
  BY DEF EvictLocked
<1>2. Evicted(Size, MaxBytes, l, protect, ll', out, curBytes')
  BY DEF EvictLocked, Evicted
<1>3. Size \in [Hashes -> Nat] /\ MaxBytes \in Nat
  BY CacheAssumption DEF CacheAssumption
<1> HIDE DEF n, out
<1>4. /\ ll' \in Seq(Hashes) /\ Distinct(ll') /\ RangeOf(ll') \subseteq RangeOf(l)
      /\ out = RangeOf(l) \ RangeOf(ll')
      /\ curBytes' = BytesAfter(Size, ll', 0) /\ curBytes' \in Nat
      /\ curBytes' <= MaxBytes \/ (Len(ll') > 0 /\ ll'[Len(ll')] \in protect)
      /\ RangeOf(l) \cap protect \subseteq RangeOf(ll')
      /\ Len(ll') \in 0..Len(l) /\ \A i \in 1..Len(ll') : ll'[i] = l[i]
  BY <1>2, <1>3, EvictIndex
<1>5. /\ disk' \in Seq(Hashes) /\ Distinct(disk') /\ RangeOf(disk') = RangeOf(files) \ out
  BY <1>1, WithoutProperties
<1> QED
  BY <1>4, <1>5

(* ToFrontProperties for the index of the cache.                            *)
LEMMA ToFrontIndex ==
  ASSUME NEW l \in Seq(Hashes), Distinct(l), NEW h \in Hashes
  PROVE  /\ ToFront(l, h) \in Seq(Hashes) /\ Distinct(ToFront(l, h))
         /\ ToFront(l, h) # <<>> /\ ToFront(l, h)[1] = h
         /\ RangeOf(ToFront(l, h)) = RangeOf(l) \cup {h}
         /\ h \in RangeOf(l) => /\ Len(ToFront(l, h)) = Len(l)
                                /\ BytesAfter(Size, ToFront(l, h), 0) = BytesAfter(Size, l, 0)
         /\ h \notin RangeOf(l) =>
              BytesAfter(Size, ToFront(l, h), 0) = BytesAfter(Size, l, 0) + Size[h]
<1>0. Size \in [Hashes -> Nat]
  BY CacheAssumption DEF CacheAssumption
<1>1. ToFront(l, h) \in Seq(Hashes) /\ Distinct(ToFront(l, h))
  BY <1>0, ToFrontProperties
<1>2. ToFront(l, h) # <<>> /\ ToFront(l, h)[1] = h
  BY <1>0, ToFrontProperties
<1>3. RangeOf(ToFront(l, h)) = RangeOf(l) \cup {h}
  BY <1>0, ToFrontProperties
<1>4. h \in RangeOf(l) => /\ Len(ToFront(l, h)) = Len(l)
                          /\ BytesAfter(Size, ToFront(l, h), 0) = BytesAfter(Size, l, 0)
  BY <1>0, ToFrontProperties
<1>5. h \notin RangeOf(l) => BytesAfter(Size, ToFront(l, h), 0) = BytesAfter(Size, l, 0) + Size[h]
  BY <1>0, ToFrontProperties
<1> QED
  BY <1>1, <1>2, <1>3, <1>4, <1>5, Zenon

(* A scan in the opposite order finds the same files.                       *)
LEMMA ScanContents ==
  ASSUME NEW K, NEW s \in Seq(K), Distinct(s)
  PROVE  LET r == [i \in DOMAIN s |-> s[Len(s) - i + 1]]
         IN r \in Seq(K) /\ Distinct(r) /\ RangeOf(r) = RangeOf(s)
<1> DEFINE r == [i \in DOMAIN s |-> s[Len(s) - i + 1]]
<1>1. Len(s) \in Nat /\ DOMAIN s = 1..Len(s)
  OBVIOUS
<1>2. \A i \in 1..Len(s) : Len(s) - i + 1 \in 1..Len(s) /\ Len(s) - (Len(s) - i + 1) + 1 = i
  BY <1>1
<1>3. \A i \in 1..Len(s) : s[i] \in K
  OBVIOUS
<1>4. r \in Seq(K) /\ DOMAIN r = 1..Len(s)
  BY <1>1, <1>2, <1>3
<1>5. \A i \in 1..Len(s) : r[i] = s[Len(s) - i + 1]
  BY <1>1
<1> HIDE DEF r
<1>6. ASSUME NEW i \in 1..Len(s), NEW j \in 1..Len(s), r[i] = r[j] PROVE i = j
  <2>1. Len(s) - i + 1 = Len(s) - j + 1
    BY <1>1, <1>2, <1>5, <1>6 DEF Distinct
  <2> QED
    BY <1>1, <2>1
<1>7. ASSUME NEW i \in 1..Len(s) PROVE s[i] \in RangeOf(r) /\ r[i] \in RangeOf(s)
  <2>1. r[Len(s) - i + 1] = s[i]
    BY <1>2, <1>5
  <2> QED
    BY <1>1, <1>2, <1>4, <1>5, <2>1 DEF RangeOf
<1>8. RangeOf(r) = RangeOf(s)
  BY <1>1, <1>4, <1>7 DEF RangeOf
<1>9. Distinct(r)
  BY <1>4, <1>6 DEF Distinct
<1> QED
  BY <1>4, <1>8, <1>9 DEF r

(* Every step keeps the index typed and distinct, its bytes exact and its   *)
(* budget, restart included.                                                *)
LEMMA IndexMoves ==
  ASSUME CacheInv, [CacheNext]_cacheVars
  PROVE  /\ ll' \in Seq(Hashes) /\ disk' \in Seq(Hashes) /\ curBytes' \in Int
         /\ Distinct(ll') /\ Distinct(disk')
         /\ curBytes' = BytesAfter(Size, ll', 0)
         /\ curBytes' <= MaxBytes \/ Len(ll') = 1
<1> DEFINE Goal == /\ ll' \in Seq(Hashes) /\ disk' \in Seq(Hashes) /\ curBytes' \in Int
                   /\ Distinct(ll') /\ Distinct(disk')
                   /\ curBytes' = BytesAfter(Size, ll', 0)
                   /\ curBytes' <= MaxBytes \/ Len(ll') = 1
<1>0. Size \in [Hashes -> Nat] /\ MaxBytes \in Nat
  BY CacheAssumption DEF CacheAssumption
<1>1. /\ ll \in Seq(Hashes) /\ disk \in Seq(Hashes) /\ curBytes \in Int
      /\ Distinct(ll) /\ Distinct(disk)
      /\ curBytes = BytesAfter(Size, ll, 0)
      /\ curBytes <= MaxBytes \/ Len(ll) = 1
      /\ \A g \in Openers : op[g].h \in Hashes
  BY DEF CacheInv, CacheTypeOK, IndexInv
<1>2. ASSUME UNCHANGED <<ll, disk, curBytes>> PROVE Goal
  BY <1>1, <1>2
<1>t. ASSUME NEW h \in Hashes
      PROVE  /\ ToFront(ll, h) \in Seq(Hashes) /\ Distinct(ToFront(ll, h))
             /\ ToFront(ll, h) # <<>> /\ ToFront(ll, h)[1] = h
             /\ RangeOf(ToFront(ll, h)) = RangeOf(ll) \cup {h}
             /\ h \in RangeOf(ll) => /\ Len(ToFront(ll, h)) = Len(ll)
                                     /\ BytesAfter(Size, ToFront(ll, h), 0) = BytesAfter(Size, ll, 0)
             /\ h \notin RangeOf(ll) =>
                  BytesAfter(Size, ToFront(ll, h), 0) = BytesAfter(Size, ll, 0) + Size[h]
  BY <1>1, ToFrontIndex, Zenon
<1>3. ASSUME NEW h \in Hashes, h \in RangeOf(ll), ll' = ToFront(ll, h), UNCHANGED <<disk, curBytes>>
      PROVE  Goal
  <2>1. /\ ToFront(ll, h) \in Seq(Hashes) /\ Distinct(ToFront(ll, h))
        /\ RangeOf(ToFront(ll, h)) = RangeOf(ll) \cup {h}
        /\ BytesAfter(Size, ToFront(ll, h), 0) = BytesAfter(Size, ll, 0)
        /\ Len(ToFront(ll, h)) = Len(ll)
    BY <1>t, <1>3
  <2> QED
    BY <1>1, <1>3, <2>1
<1>4. ASSUME NEW g \in Openers, CopyRename(g) PROVE Goal
  <2>1. ll' = ll /\ curBytes' = curBytes
    BY <1>4 DEF CopyRename
  <2>2. disk' \in Seq(Hashes) /\ Distinct(disk')
    <3>1. CASE disk' = disk
      BY <1>1, <3>1
    <3>2. CASE disk' = Append(Without(disk, {op[g].h}), op[g].h)
      <4> DEFINE rest == Without(disk, {op[g].h})
      <4>1. rest \in Seq(Hashes) /\ Distinct(rest) /\ RangeOf(rest) = RangeOf(disk) \ {op[g].h}
        BY <1>1, WithoutProperties
      <4> HIDE DEF rest
      <4>2. op[g].h \in Hashes /\ op[g].h \notin RangeOf(rest)
        BY <1>1, <4>1
      <4>3. Append(rest, op[g].h) \in Seq(Hashes) /\ Distinct(Append(rest, op[g].h))
        BY <4>1, <4>2, AppendContents
      <4> QED
        BY <3>2, <4>3 DEF rest
    <3> QED
      BY <1>4, <3>1, <3>2 DEF CopyRename
  <2> QED
    BY <1>1, <2>1, <2>2
<1>5. ASSUME NEW g \in Openers, AddEvict(g) PROVE Goal
  <2> DEFINE h == op[g].h
             l == ToFront(ll, h)
             bytes == IF h \in RangeOf(ll) THEN curBytes ELSE curBytes + Size[h]
  <2>1. h \in Hashes
    BY <1>1
  <2>2. EvictLocked(l, bytes, disk, {h})
    BY <1>5 DEF AddEvict
  <2> HIDE DEF h
  <2>3. /\ l \in Seq(Hashes) /\ Distinct(l) /\ l # <<>> /\ l[1] = h
        /\ bytes = BytesAfter(Size, l, 0)
    BY <1>t, <1>1, <2>1
  <2> HIDE DEF l, bytes
  <2>4. /\ ll' \in Seq(Hashes) /\ Distinct(ll')
        /\ disk' \in Seq(Hashes) /\ Distinct(disk')
        /\ curBytes' = BytesAfter(Size, ll', 0) /\ curBytes' \in Nat
        /\ curBytes' <= MaxBytes \/ (Len(ll') > 0 /\ ll'[Len(ll')] \in {h})
        /\ \A i \in 1..Len(ll') : ll'[i] = l[i]
    BY <1>1, <2>2, <2>3, EvictResult
  <2>5. ASSUME ~(curBytes' <= MaxBytes) PROVE Len(ll') = 1
    <3>1. Len(ll') \in Nat /\ Len(ll') > 0 /\ ll'[Len(ll')] = h /\ DOMAIN ll' = 1..Len(ll')
      BY <2>4, <2>5
    <3>2. 1 \in 1..Len(ll') /\ Len(ll') \in 1..Len(ll')
      BY <3>1
    <3>3. ll'[1] = h
      BY <2>3, <2>4, <3>2
    <3> QED
      BY <2>4, <3>1, <3>2, <3>3 DEF Distinct
  <2> QED
    BY <2>4, <2>5
<1>6. ASSUME Restart PROVE Goal
  <2> DEFINE scan == [i \in DOMAIN disk |-> disk[Len(disk) - i + 1]]
             bytes == BytesAfter(Size, scan, 0)
  <2>1. EvictLocked(scan, bytes, disk, {})
    BY <1>6 DEF Restart
  <2>2. scan \in Seq(Hashes) /\ Distinct(scan)
    BY <1>1, ScanContents
  <2> HIDE DEF scan, bytes
  <2>3. /\ ll' \in Seq(Hashes) /\ Distinct(ll')
        /\ disk' \in Seq(Hashes) /\ Distinct(disk')
        /\ curBytes' = BytesAfter(Size, ll', 0) /\ curBytes' \in Nat
        /\ curBytes' <= MaxBytes
    BY <1>1, <2>1, <2>2, EvictResult DEF bytes
  <2> QED
    BY <2>3
<1>7. ASSUME NEW g \in Openers, NEW h \in Hashes, Get(g, h) PROVE Goal
  BY <1>2, <1>3, <1>7 DEF Get
<1>8. ASSUME NEW g \in Openers, PutCheck(g) PROVE Goal
  BY <1>1, <1>2, <1>3, <1>8 DEF PutCheck
<1>9. ASSUME NEW g \in Openers, Recheck(g) PROVE Goal
  BY <1>1, <1>2, <1>3, <1>9 DEF Recheck
<1>11. CASE UNCHANGED cacheVars
  BY <1>2, <1>11 DEF cacheVars
<1>10. ASSUME NEW g \in Openers, OpenHit(g) \/ FetchStatic(g) \/ Join(g) \/ Land(g) \/ Unmap(g)
                                  \/ OpenPut(g) \/ Done(g)
       PROVE  Goal
  BY <1>2, <1>10 DEF OpenHit, FetchStatic, Join, Land, Unmap, OpenPut, Done
<1>12. CASE CacheNext
  <2>1. CASE \E g \in Openers : \E h \in Hashes : Get(g, h)
    BY <1>7, <2>1
  <2>2. CASE \E g \in Openers : OpenStep(g) \/ Done(g)
    BY <1>4, <1>5, <1>8, <1>9, <1>10, <2>2 DEF OpenStep
  <2> QED
    BY <1>6, <1>12, <2>1, <2>2 DEF CacheNext
<1>13. Goal
  BY <1>11, <1>12
<1> QED
  BY <1>13

(* A hit only reorders the index.                                           *)
LEMMA HitKeeps ==
  ASSUME CacheInv, NEW h \in Hashes, h \in RangeOf(ll)
  PROVE  RangeOf(ToFront(ll, h)) = RangeOf(ll) /\ ToFront(ll, h) # <<>>
<1>1. ll \in Seq(Hashes) /\ Distinct(ll)
  BY DEF CacheInv, CacheTypeOK, IndexInv
<1>2. RangeOf(ToFront(ll, h)) = RangeOf(ll) \cup {h} /\ ToFront(ll, h) # <<>>
  BY <1>1, ToFrontIndex, Zenon
<1> QED
  BY <1>2

(* A copy renames its file into place, or leaves the disk as it was.        *)
LEMMA CopySets ==
  ASSUME CacheInv, NEW g \in Openers, CopyRename(g)
  PROVE  /\ ll' = ll
         /\ RangeOf(disk) \subseteq RangeOf(disk')
         /\ \/ RangeOf(disk') = RangeOf(disk) \cup {op[g].h} /\ OpTo(g, "add")
            \/ disk' = disk /\ OpTo(g, "err")
<1>1. disk \in Seq(Hashes) /\ Distinct(disk) /\ op[g].h \in Hashes
  BY DEF CacheInv, CacheTypeOK, IndexInv
<1> DEFINE rest == Without(disk, {op[g].h})
<1>2. rest \in Seq(Hashes) /\ RangeOf(rest) = RangeOf(disk) \ {op[g].h}
  BY <1>1, WithoutProperties
<1>3. (disk' = Append(rest, op[g].h) /\ OpTo(g, "add")) \/ (disk' = disk /\ OpTo(g, "err"))
  BY DEF CopyRename
<1> HIDE DEF rest
<1>4. RangeOf(Append(rest, op[g].h)) = RangeOf(rest) \cup {op[g].h}
  BY <1>1, <1>2, AppendContents
<1>5. RangeOf(rest) \cup {op[g].h} = RangeOf(disk) \cup {op[g].h}
  BY <1>2
<1>6. ll' = ll
  BY DEF CopyRename
<1>7. CASE disk' = Append(rest, op[g].h) /\ OpTo(g, "add")
  <2>1. RangeOf(disk') = RangeOf(disk) \cup {op[g].h}
    BY <1>4, <1>5, <1>7, Zenon
  <2> QED
    BY <1>6, <1>7, <2>1
<1>8. CASE disk' = disk /\ OpTo(g, "err")
  BY <1>6, <1>8
<1> QED
  BY <1>3, <1>7, <1>8

(* Adding a file keeps that file: what leaves the index leaves the disk.    *)
LEMMA AddSets ==
  ASSUME CacheInv, NEW g \in Openers, AddEvict(g)
  PROVE  /\ RangeOf(ll') \subseteq RangeOf(ll) \cup {op[g].h}
         /\ op[g].h \in RangeOf(ll') /\ ll' # <<>>
         /\ RangeOf(disk') = RangeOf(disk) \ ((RangeOf(ll) \cup {op[g].h}) \ RangeOf(ll'))
<1> DEFINE h == op[g].h
           l == ToFront(ll, h)
           bytes == IF h \in RangeOf(ll) THEN curBytes ELSE curBytes + Size[h]
<1>1. /\ ll \in Seq(Hashes) /\ disk \in Seq(Hashes) /\ Distinct(ll) /\ Distinct(disk)
      /\ curBytes = BytesAfter(Size, ll, 0) /\ h \in Hashes
  BY DEF CacheInv, CacheTypeOK, IndexInv
<1>2. EvictLocked(l, bytes, disk, {h})
  BY DEF AddEvict
<1> HIDE DEF h
<1>t. /\ l \in Seq(Hashes) /\ Distinct(l)
      /\ RangeOf(l) = RangeOf(ll) \cup {h}
      /\ h \in RangeOf(ll) => BytesAfter(Size, l, 0) = BytesAfter(Size, ll, 0)
      /\ h \notin RangeOf(ll) => BytesAfter(Size, l, 0) = BytesAfter(Size, ll, 0) + Size[h]
  BY <1>1, ToFrontIndex, Zenon
<1>3. bytes = BytesAfter(Size, l, 0)
  BY <1>1, <1>t
<1> HIDE DEF l, bytes
<1>4. /\ ll' \in Seq(Hashes) /\ RangeOf(ll') \subseteq RangeOf(l)
      /\ RangeOf(disk') = RangeOf(disk) \ (RangeOf(l) \ RangeOf(ll'))
      /\ RangeOf(l) \cap {h} \subseteq RangeOf(ll')
  BY <1>1, <1>2, <1>3, <1>t, EvictResult
<1>5. h \in RangeOf(ll')
  BY <1>4, <1>t
<1>6. ll' # <<>>
  BY <1>4, <1>5 DEF RangeOf
<1> QED
  BY <1>4, <1>5, <1>6, <1>t DEF h

(* After a restart the index is what the scan has found.                    *)
LEMMA RestartSets ==
  ASSUME CacheInv, Restart
  PROVE  RangeOf(ll') = RangeOf(disk')
<1> DEFINE scan == [i \in DOMAIN disk |-> disk[Len(disk) - i + 1]]
           bytes == BytesAfter(Size, scan, 0)
<1>1. disk \in Seq(Hashes) /\ Distinct(disk)
  BY DEF CacheInv, CacheTypeOK, IndexInv
<1>2. EvictLocked(scan, bytes, disk, {})
  BY DEF Restart
<1>3. scan \in Seq(Hashes) /\ Distinct(scan) /\ RangeOf(scan) = RangeOf(disk)
  BY <1>1, ScanContents
<1> HIDE DEF scan, bytes
<1>4. /\ RangeOf(ll') \subseteq RangeOf(scan)
      /\ RangeOf(disk') = RangeOf(disk) \ (RangeOf(scan) \ RangeOf(ll'))
  BY <1>1, <1>2, <1>3, EvictResult DEF bytes
<1> QED
  BY <1>3, <1>4

(* Every step keeps the index and the disk in agreement.                    *)
LEMMA SetsMove ==
  ASSUME CacheInv, [CacheNext]_cacheVars
  PROVE  NewIsOutside' /\ IndexInv'
<1> DEFINE Contained == /\ RangeOf(ll') \subseteq RangeOf(disk')
                        /\ \A h \in RangeOf(disk') : h \in RangeOf(ll')
                             \/ \E x \in Openers : op'[x].at = "add" /\ op'[x].h = h
           Goal == NewIsOutside' /\ Contained
<1>1. /\ op \in [Openers -> [h : Hashes,
           at : {"idle", "open", "fetch", "put", "join", "wait", "recheck", "copy", "add",
             "ok", "err", "unmapOk", "unmapErr", "reopen", "served", "failed"}]]
      /\ RangeOf(ll) \subseteq RangeOf(disk)
      /\ \A h \in RangeOf(disk) : h \in RangeOf(ll) \/ \E x \in Openers : op[x].at = "add" /\ op[x].h = h
      /\ \A g, x \in Openers : Leading(g) /\ Leading(x) /\ op[g].h = op[x].h => g = x
      /\ NewIsOutside
  BY DEF CacheInv, CacheTypeOK, IndexInv, FlightsLed, OpAt
<1>2. ASSUME NEW g \in Openers, NEW r, op[g].at # "add", r.at \notin {"copy", "add"},
             RangeOf(ll') = RangeOf(ll), disk' = disk, op' = [op EXCEPT ![g] = r]
      PROVE  Goal
  BY <1>1, <1>2 DEF NewIsOutside, OpAt
<1>3. ASSUME NEW g \in Openers, NEW w, op[g].at # "add", w \notin {"copy", "add"},
             RangeOf(ll') = RangeOf(ll), disk' = disk, OpTo(g, w)
      PROVE  Goal
  BY <1>1, <1>3 DEF NewIsOutside, OpAt, OpTo
<1>4. ASSUME NEW g \in Openers, NEW h \in Hashes, Get(g, h) PROVE Goal
  <2>1. RangeOf(ll') = RangeOf(ll) /\ disk' = disk
    BY <1>4, HitKeeps DEF Get
  <2>2. op[g].at = "idle" /\ \E r \in [h : Hashes, at : {"open", "fetch"}] : op' = [op EXCEPT ![g] = r]
    BY <1>4 DEF Get, OpAt
  <2> QED
    BY <1>2, <2>1, <2>2
<1>5. ASSUME NEW g \in Openers, PutCheck(g) PROVE Goal
  <2>1. RangeOf(ll') = RangeOf(ll) /\ disk' = disk
    BY <1>1, <1>5, HitKeeps DEF PutCheck
  <2> QED
    BY <1>3, <1>5, <2>1 DEF PutCheck, OpAt
<1>6. ASSUME NEW g \in Openers, Recheck(g) PROVE Goal
  <2>1. RangeOf(ll') = RangeOf(ll) /\ disk' = disk
    BY <1>1, <1>6, HitKeeps DEF Recheck
  <2>2. CASE OpTo(g, "copy") /\ op[g].h \notin RangeOf(ll)
    BY <1>1, <1>6, <2>1, <2>2 DEF Recheck, NewIsOutside, OpAt, OpTo
  <2> QED
    BY <1>3, <1>6, <2>1, <2>2 DEF Recheck, OpAt
<1>7. ASSUME NEW g \in Openers, CopyRename(g) PROVE Goal
  <2>0. OpAt(g, "copy")
    BY <1>7 DEF CopyRename
  <2>1. CASE disk' = disk /\ OpTo(g, "err")
    BY <1>3, <1>7, <2>0, <2>1, CopySets DEF OpAt
  <2>2. CASE RangeOf(disk') = RangeOf(disk) \cup {op[g].h} /\ OpTo(g, "add")
    <3>1. ll' = ll
      BY <1>7, CopySets
    <3> QED
      BY <1>1, <2>0, <2>2, <3>1 DEF NewIsOutside, OpAt, OpTo
  <2> QED
    BY <1>7, <2>1, <2>2, CopySets
<1>8. ASSUME NEW g \in Openers, AddEvict(g) PROVE Goal
  <2>0. OpAt(g, "add") /\ OpTo(g, "ok")
    BY <1>8 DEF AddEvict
  <2>1. /\ RangeOf(ll') \subseteq RangeOf(ll) \cup {op[g].h} /\ op[g].h \in RangeOf(ll')
        /\ RangeOf(disk') = RangeOf(disk) \ ((RangeOf(ll) \cup {op[g].h}) \ RangeOf(ll'))
    BY <1>8, AddSets
  <2>2. op[g].h \in RangeOf(disk)
    BY <1>1, <2>0 DEF NewIsOutside
  <2>3. \A x \in Openers : x # g => op'[x] = op[x]
    BY <1>1, <2>0 DEF OpTo
  <2>4. op'[g].at = "ok"
    BY <1>1, <2>0 DEF OpTo
  <2>5. \A x \in Openers : x # g /\ op[x].at \in {"copy", "add"} => op[x].h # op[g].h
    BY <1>1, <2>0 DEF Leading, OpAt
  <2>6. NewIsOutside'
    BY <1>1, <2>1, <2>3, <2>4, <2>5 DEF NewIsOutside, OpAt
  <2>7. RangeOf(ll') \subseteq RangeOf(disk')
    BY <1>1, <2>1, <2>2
  <2>8. ASSUME NEW h \in RangeOf(disk') 
        PROVE  h \in RangeOf(ll') \/ \E x \in Openers : op'[x].at = "add" /\ op'[x].h = h
    <3>1. h \in RangeOf(disk) /\ (h \in RangeOf(ll) \cup {op[g].h} => h \in RangeOf(ll'))
      BY <2>1
    <3>2. CASE \E x \in Openers : x # g /\ OpAt(x, "add") /\ op[x].h = h
      BY <2>3, <3>2 DEF OpAt
    <3> QED
      BY <1>1, <3>1, <3>2 DEF OpAt
  <2> QED
    BY <2>6, <2>7, <2>8
<1>9. ASSUME Restart PROVE Goal
  <2>1. RangeOf(ll') = RangeOf(disk')
    BY <1>9, RestartSets
  <2>2. \A g \in Openers : op'[g].at = "idle"
    BY <1>9 DEF Restart, IdleOp
  <2> QED
    BY <2>1, <2>2 DEF NewIsOutside, OpAt
<1>10. ASSUME NEW g \in Openers, Land(g) PROVE Goal
  <2>0. op[g].at \in {"ok", "err"} /\ ll' = ll /\ disk' = disk
    BY <1>10 DEF Land
  <2>1. \A x \in Openers : op'[x] = op[x] \/ op'[x].at \in {"unmapOk", "unmapErr", "reopen", "failed"}
    BY <1>1, <1>10 DEF Land
  <2>2. \A x \in Openers : op[x].at = "add" => op'[x] = op[x]
    BY <1>1, <1>10 DEF Land, OpAt
  <2> QED
    BY <1>1, <2>0, <2>1, <2>2 DEF NewIsOutside, OpAt
<1>11. ASSUME NEW g \in Openers, Done(g) PROVE Goal
  <2>1. IdleOp \in [h : Hashes, at : {"idle"}]
    BY CacheAssumption DEF CacheAssumption, IdleOp
  <2> QED
    BY <1>2, <1>11, <2>1 DEF Done
<1>12. ASSUME NEW g \in Openers, OpenHit(g) \/ FetchStatic(g) \/ Join(g) \/ Unmap(g) \/ OpenPut(g)
       PROVE  Goal
  <2>1. /\ op[g].at # "add" /\ ll' = ll /\ disk' = disk
        /\ \E w \in {"served", "fetch", "put", "failed", "recheck", "wait", "reopen"} : OpTo(g, w)
    BY <1>12 DEF OpenHit, FetchStatic, Join, Unmap, OpenPut, OpAt
  <2> QED
    BY <1>3, <2>1
<1>13. ASSUME UNCHANGED cacheVars PROVE Goal
  <2>1. op' = op /\ ll' = ll /\ disk' = disk
    BY <1>13 DEF cacheVars
  <2>2. NewIsOutside'
    BY <1>1, <2>1 DEF NewIsOutside, OpAt
  <2>3. Contained
    BY <1>1, <2>1
  <2> QED
    BY <2>2, <2>3
<1>14. Goal
  <2>1. CASE \E g \in Openers : \E h \in Hashes : Get(g, h)
    BY <1>4, <2>1
  <2>2. CASE \E g \in Openers : OpenStep(g) \/ Done(g)
    BY <1>5, <1>6, <1>7, <1>8, <1>10, <1>11, <1>12, <2>2 DEF OpenStep
  <2> QED
    BY <1>9, <1>13, <2>1, <2>2 DEF CacheNext
<1>15. /\ Distinct(ll') /\ Distinct(disk') /\ curBytes' = BytesAfter(Size, ll', 0)
       /\ curBytes' <= MaxBytes \/ Len(ll') = 1
  BY IndexMoves
<1>16. NewIsOutside' /\ Contained
  BY <1>14
<1>17. IndexInv'
  BY <1>15, <1>16, Zenon DEF IndexInv, Distinct, OpAt
<1> QED
  BY <1>16, <1>17

(* Every step keeps FoundIsInside: the index never empties under an opener  *)
(* that holds a path.                                                       *)
LEMMA FoundMoves ==
  ASSUME CacheInv, [CacheNext]_cacheVars
  PROVE  FoundIsInside'
<1>1. /\ op \in [Openers -> [h : Hashes,
           at : {"idle", "open", "fetch", "put", "join", "wait", "recheck", "copy", "add",
             "ok", "err", "unmapOk", "unmapErr", "reopen", "served", "failed"}]]
      /\ flight \in [Hashes -> {"none", "run", "ok", "err"}]
      /\ FoundIsInside
  BY DEF CacheInv, CacheTypeOK
<1>2. ASSUME NEW g \in Openers, NEW h \in Hashes, Get(g, h) PROVE FoundIsInside'
  <2>1. CASE h \in RangeOf(ll)
    BY <1>2, <2>1, HitKeeps DEF Get, FoundIsInside
  <2>2. CASE h \notin RangeOf(ll)
    BY <1>1, <1>2, <2>2 DEF Get, FoundIsInside
  <2> QED
    BY <2>1, <2>2
<1>3. ASSUME NEW g \in Openers, PutCheck(g) PROVE FoundIsInside'
  <2>1. CASE op[g].h \in RangeOf(ll)
    BY <1>1, <1>3, <2>1, HitKeeps DEF PutCheck, FoundIsInside
  <2>2. CASE op[g].h \notin RangeOf(ll)
    BY <1>1, <1>3, <2>2 DEF PutCheck, FoundIsInside, OpTo
  <2> QED
    BY <2>1, <2>2
<1>4. ASSUME NEW g \in Openers, Recheck(g) PROVE FoundIsInside'
  <2>1. CASE op[g].h \in RangeOf(ll)
    BY <1>1, <1>4, <2>1, HitKeeps DEF Recheck, FoundIsInside
  <2>2. CASE op[g].h \notin RangeOf(ll)
    BY <1>1, <1>4, <2>2 DEF Recheck, FoundIsInside, OpTo
  <2> QED
    BY <2>1, <2>2
<1>5. ASSUME NEW g \in Openers, CopyRename(g) PROVE FoundIsInside'
  BY <1>1, <1>5 DEF CopyRename, FoundIsInside, OpTo
<1>6. ASSUME NEW g \in Openers, AddEvict(g) PROVE FoundIsInside'
  BY <1>6, AddSets DEF FoundIsInside
<1>7. ASSUME Restart PROVE FoundIsInside'
  BY <1>7 DEF Restart, FoundIsInside, IdleOp
<1>8. ASSUME NEW g \in Openers, Land(g) PROVE FoundIsInside'
  <2>1. /\ ll' = ll
        /\ \A x \in Openers : \/ op'[x] = op[x]
                              \/ op'[x].at \in {"unmapErr", "failed"}
                              \/ OpAt(g, "ok")
        /\ flight' = [flight EXCEPT ![op[g].h] = IF OpAt(g, "ok") THEN "ok" ELSE "err"]
    BY <1>1, <1>8 DEF Land
  <2> QED
    BY <1>1, <2>1 DEF FoundIsInside, OpAt
<1>9. ASSUME NEW g \in Openers, Done(g) PROVE FoundIsInside'
  BY <1>1, <1>9 DEF Done, FoundIsInside, IdleOp
<1>10. ASSUME NEW g \in Openers, OpenHit(g) \/ FetchStatic(g) \/ Unmap(g) \/ OpenPut(g)
       PROVE  FoundIsInside'
  BY <1>1, <1>10 DEF OpenHit, FetchStatic, Unmap, OpenPut, FoundIsInside, OpTo, OpAt
<1>11. ASSUME NEW g \in Openers, Join(g) PROVE FoundIsInside'
  BY <1>1, <1>11 DEF Join, FoundIsInside, OpTo
<1>12. CASE UNCHANGED cacheVars
  BY <1>1, <1>12 DEF cacheVars, FoundIsInside
<1>13. CASE \E g \in Openers : \E h \in Hashes : Get(g, h)
  BY <1>2, <1>13
<1>14. CASE \E g \in Openers : OpenStep(g) \/ Done(g)
  BY <1>3, <1>4, <1>5, <1>6, <1>8, <1>9, <1>10, <1>11, <1>14 DEF OpenStep
<1> QED
  BY <1>7, <1>12, <1>13, <1>14 DEF CacheNext

(* Every step keeps the flights led: the leader alone ends its flight, and  *)
(* it does so for all who wait.                                             *)
LEMMA FlightMoves ==
  ASSUME CacheInv, [CacheNext]_cacheVars
  PROVE  FlightsLed'
<1>1. /\ op \in [Openers -> [h : Hashes,
           at : {"idle", "open", "fetch", "put", "join", "wait", "recheck", "copy", "add",
             "ok", "err", "unmapOk", "unmapErr", "reopen", "served", "failed"}]]
      /\ flight \in [Hashes -> {"none", "run", "ok", "err"}]
      /\ FlightsLed
  BY DEF CacheInv, CacheTypeOK
<1> DEFINE Quiet == {"idle", "open", "fetch", "put", "join", "reopen", "served", "failed"}
           Under == {"recheck", "copy", "add", "ok", "err"}
<1>2. ASSUME NEW g \in Openers, op[g].at \in Quiet, op'[g].at \in Quiet,
             \A x \in Openers : x # g => op'[x] = op[x], flight' = flight
      PROVE  FlightsLed'
  <2>1. \A x \in Openers : op'[x] # op[x] => ~Leading(x) /\ ~Leading(x)' /\ ~OpAt(x, "wait")'
    BY <1>2 DEF Leading, OpAt
  <2> QED
    BY <1>1, <1>2, <2>1 DEF FlightsLed, Leading, OpAt
<1>3. ASSUME NEW g \in Openers, op[g].at \in Under, op'[g].at \in Under, op'[g].h = op[g].h,
             \A x \in Openers : x # g => op'[x] = op[x], flight' = flight
      PROVE  FlightsLed'
  <2>1. \A x \in Openers : /\ op'[x].h = op[x].h /\ (Leading(x)' <=> Leading(x))
                           /\ op'[x].at = op[x].at \/ (op[x].at \in Under /\ op'[x].at \in Under)
    BY <1>3 DEF Leading
  <2> QED
    BY <1>1, <1>3, <2>1 DEF FlightsLed, Leading, OpAt
<1>4. ASSUME NEW g \in Openers, NEW h \in Hashes, Get(g, h) PROVE FlightsLed'
  <2>1. op[g].at \in Quiet /\ op'[g].at \in Quiet /\ flight' = flight
        /\ \A x \in Openers : x # g => op'[x] = op[x]
    BY <1>1, <1>4 DEF Get, OpAt
  <2> QED
    BY <1>2, <2>1
<1>5. ASSUME NEW g \in Openers, OpenHit(g) \/ FetchStatic(g) \/ PutCheck(g) \/ OpenPut(g) \/ Done(g)
      PROVE  FlightsLed'
  <2>1. op[g].at \in Quiet /\ op'[g].at \in Quiet /\ flight' = flight
        /\ \A x \in Openers : x # g => op'[x] = op[x]
    BY <1>1, <1>5 DEF OpenHit, FetchStatic, PutCheck, OpenPut, Done, OpAt, OpTo, IdleOp
  <2> QED
    BY <1>2, <2>1
<1>6. ASSUME NEW g \in Openers, Recheck(g) \/ CopyRename(g) \/ AddEvict(g) PROVE FlightsLed'
  <2>1. op[g].at \in Under /\ op'[g].at \in Under /\ op'[g].h = op[g].h /\ flight' = flight
        /\ \A x \in Openers : x # g => op'[x] = op[x]
    BY <1>1, <1>6 DEF Recheck, CopyRename, AddEvict, OpAt, OpTo
  <2> QED
    BY <1>3, <2>1
<1>7. ASSUME NEW g \in Openers, Join(g) PROVE FlightsLed'
  <2> DEFINE h == op[g].h
  <2>0. OpAt(g, "join") /\ h \in Hashes
    BY <1>1, <1>7 DEF Join
  <2>1. CASE flight[h] = "none" /\ OpTo(g, "recheck") /\ flight' = [flight EXCEPT ![h] = "run"]
    <3>1. \A x \in Openers : Leading(x) \/ OpAt(x, "wait") => op[x].h # h
      BY <1>1, <2>1 DEF FlightsLed, Leading, OpAt
    <3>2. /\ \A x \in Openers : x # g => op'[x] = op[x]
          /\ op'[g].at = "recheck" /\ op'[g].h = h
          /\ flight'[h] = "run" /\ \A y \in Hashes : y # h => flight'[y] = flight[y]
      BY <1>1, <2>0, <2>1 DEF OpTo
    <3> HIDE DEF h
    <3>3. \A x \in Openers : Leading(x)' => x = g \/ (Leading(x) /\ op[x].h # h /\ op'[x] = op[x])
      BY <3>1, <3>2 DEF Leading
    <3>4. \A a, b \in Openers : Leading(a)' /\ Leading(b)' /\ op'[a].h = op'[b].h => a = b
      BY <1>1, <3>2, <3>3 DEF FlightsLed
    <3>5. \A x \in Openers :
             /\ op'[x].at \in {"recheck", "copy", "add", "ok", "err", "wait"} => flight'[op'[x].h] = "run"
             /\ op'[x].at = "unmapOk" => flight'[op'[x].h] = "ok"
             /\ op'[x].at = "unmapErr" => flight'[op'[x].h] = "err"
      <4> SUFFICES ASSUME NEW x \in Openers, x # g
                   PROVE /\ op'[x].at \in {"recheck", "copy", "add", "ok", "err", "wait"} => flight'[op'[x].h] = "run"
                         /\ op'[x].at = "unmapOk" => flight'[op'[x].h] = "ok"
                         /\ op'[x].at = "unmapErr" => flight'[op'[x].h] = "err"
        BY <3>2
      <4>1. op'[x] = op[x] /\ op[x].h \in Hashes
        BY <1>1, <3>2
      <4>2. op[x].h # h => flight'[op[x].h] = flight[op[x].h]
        BY <3>2, <4>1
      <4> QED
        BY <1>1, <3>1, <4>1, <4>2 DEF FlightsLed, Leading, OpAt
    <3>6. ASSUME NEW y \in Hashes, flight'[y] # "none"
          PROVE  \E x \in Openers : Leading(x)' /\ op'[x].h = y
      <4>1. CASE y = h
        BY <3>2, <4>1 DEF Leading
      <4>2. CASE y # h
        <5>1. PICK x \in Openers : Leading(x) /\ op[x].h = y
          BY <1>1, <3>2, <3>6, <4>2 DEF FlightsLed
        <5>2. x # g
          BY <2>0, <5>1 DEF Leading, OpAt
        <5> QED
          BY <3>2, <5>1, <5>2 DEF Leading
      <4> QED
        BY <4>1, <4>2
    <3> QED
      BY <3>4, <3>5, <3>6 DEF FlightsLed, OpAt
  <2>2. CASE flight[h] = "run" /\ OpTo(g, "wait") /\ UNCHANGED flight
    <3>1. /\ \A x \in Openers : x # g => op'[x] = op[x]
          /\ op'[g].at = "wait" /\ op'[g].h = h
      BY <1>1, <2>0, <2>2 DEF OpTo
    <3>2. \A x \in Openers : op'[x].h = op[x].h /\ (Leading(x)' <=> Leading(x))
      BY <2>0, <3>1 DEF Leading, OpAt
    <3> HIDE DEF h
    <3> QED
      BY <1>1, <2>2, <3>1, <3>2 DEF FlightsLed, OpAt
  <2>3. CASE (OpTo(g, "reopen") \/ OpTo(g, "failed")) /\ UNCHANGED flight
    <3>1. op[g].at \in Quiet /\ op'[g].at \in Quiet /\ flight' = flight
          /\ \A x \in Openers : x # g => op'[x] = op[x]
      BY <1>1, <2>0, <2>3 DEF OpAt, OpTo
    <3> QED
      BY <1>2, <3>1
  <2> QED
    BY <1>7, <2>1, <2>2, <2>3 DEF Join
<1>8. ASSUME NEW g \in Openers, Land(g) PROVE FlightsLed'
  <2> DEFINE h == op[g].h
             res == IF OpAt(g, "ok") THEN "ok" ELSE "err"
  <2>1. /\ op[g].at \in {"ok", "err"} /\ h \in Hashes
        /\ flight'[h] = res /\ \A y \in Hashes : y # h => flight'[y] = flight[y]
    BY <1>1, <1>8 DEF Land
  <2>2. \A x \in Openers : op'[x].h = op[x].h
    BY <1>1, <1>8 DEF Land
  <2>3. op'[g].at = IF res = "ok" THEN "unmapOk" ELSE "unmapErr"
    BY <1>1, <1>8 DEF Land
  <2>4. \A x \in Openers : x # g /\ op[x].at = "wait" /\ op[x].h = h => op'[x].at \in {"reopen", "failed"}
    BY <1>1, <1>8 DEF Land, OpAt
  <2>5. \A x \in Openers : x # g /\ ~(op[x].at = "wait" /\ op[x].h = h) => op'[x] = op[x]
    BY <1>1, <1>8 DEF Land, OpAt
  <2>6. res \in {"ok", "err"}
    OBVIOUS
  <2> HIDE DEF h, res
  <2>7. \A x \in Openers : Leading(x)' <=> Leading(x)
    BY <2>1, <2>3, <2>4, <2>5 DEF Leading
  <2>8. \A x \in Openers : Leading(x) /\ x # g => op[x].h # h
    BY <1>1, <2>1 DEF FlightsLed, Leading, h
  <2>9. \A a, b \in Openers : Leading(a)' /\ Leading(b)' /\ op'[a].h = op'[b].h => a = b
    BY <1>1, <2>2, <2>7 DEF FlightsLed
  <2>10. ASSUME NEW x \in Openers
         PROVE /\ op'[x].at \in {"recheck", "copy", "add", "ok", "err", "wait"} => flight'[op'[x].h] = "run"
               /\ op'[x].at = "unmapOk" => flight'[op'[x].h] = "ok"
               /\ op'[x].at = "unmapErr" => flight'[op'[x].h] = "err"
    <3>1. CASE x = g
      BY <2>1, <2>2, <2>3, <2>6, <3>1 DEF h
    <3>2. CASE x # g /\ op[x].h = h
      <4>1. op'[x].at \in {"reopen", "failed"} \/ (op'[x] = op[x] /\ op[x].at # "wait")
        BY <2>4, <2>5, <3>2
      <4>2. ~Leading(x)
        BY <2>8, <3>2
      <4> QED
        BY <4>1, <4>2 DEF Leading
    <3>3. CASE x # g /\ op[x].h # h
      <4>1. op'[x] = op[x] /\ flight'[op[x].h] = flight[op[x].h]
        BY <1>1, <2>1, <2>5, <3>3
      <4> QED
        BY <1>1, <4>1 DEF FlightsLed, OpAt
    <3> QED
      BY <3>1, <3>2, <3>3
  <2>11. ASSUME NEW y \in Hashes, flight'[y] # "none"
         PROVE  \E x \in Openers : Leading(x)' /\ op'[x].h = y
    <3>1. CASE y = h
      BY <2>1, <2>2, <2>7, <3>1 DEF Leading, h
    <3>2. CASE y # h
      BY <1>1, <2>1, <2>2, <2>7, <2>11, <3>2 DEF FlightsLed
    <3> QED
      BY <3>1, <3>2
  <2> QED
    BY <2>9, <2>10, <2>11 DEF FlightsLed, OpAt
<1>9. ASSUME NEW g \in Openers, Unmap(g) PROVE FlightsLed'
  <2> DEFINE h == op[g].h
  <2>1. /\ op[g].at \in {"unmapOk", "unmapErr"} /\ h \in Hashes
        /\ flight'[h] = "none" /\ \A y \in Hashes : y # h => flight'[y] = flight[y]
        /\ op'[g].at \in {"reopen", "failed"}
        /\ \A x \in Openers : x # g => op'[x] = op[x]
    BY <1>1, <1>9 DEF Unmap, OpTo
  <2>2. \A x \in Openers : (Leading(x) /\ x # g) \/ OpAt(x, "wait") => op[x].h # h
    BY <1>1, <2>1 DEF FlightsLed, Leading, OpAt
  <2> HIDE DEF h
  <2>3. \A x \in Openers : Leading(x)' <=> Leading(x) /\ x # g
    BY <2>1 DEF Leading
  <2>4. \A a, b \in Openers : Leading(a)' /\ Leading(b)' /\ op'[a].h = op'[b].h => a = b
    BY <1>1, <2>1, <2>3 DEF FlightsLed
  <2>5. ASSUME NEW x \in Openers
        PROVE /\ op'[x].at \in {"recheck", "copy", "add", "ok", "err", "wait"} => flight'[op'[x].h] = "run"
              /\ op'[x].at = "unmapOk" => flight'[op'[x].h] = "ok"
              /\ op'[x].at = "unmapErr" => flight'[op'[x].h] = "err"
    <3>1. CASE x = g
      BY <2>1, <3>1
    <3>2. CASE x # g /\ (Leading(x) \/ OpAt(x, "wait"))
      <4>1. op'[x] = op[x] /\ flight'[op[x].h] = flight[op[x].h]
        BY <1>1, <2>1, <2>2, <3>2
      <4> QED
        BY <1>1, <4>1 DEF FlightsLed, OpAt
    <3>3. CASE x # g /\ ~(Leading(x) \/ OpAt(x, "wait"))
      BY <2>1, <3>3 DEF Leading, OpAt
    <3> QED
      BY <3>1, <3>2, <3>3
  <2>6. ASSUME NEW y \in Hashes, flight'[y] # "none"
        PROVE  \E x \in Openers : Leading(x)' /\ op'[x].h = y
    <3>1. y # h
      BY <2>1, <2>6
    <3>2. PICK x \in Openers : Leading(x) /\ op[x].h = y
      BY <1>1, <2>1, <2>6, <3>1 DEF FlightsLed
    <3>3. x # g
      BY <3>1, <3>2 DEF h
    <3> QED
      BY <2>1, <2>3, <3>2, <3>3
  <2> QED
    BY <2>4, <2>5, <2>6 DEF FlightsLed, OpAt
<1>10. ASSUME Restart PROVE FlightsLed'
  BY <1>10 DEF Restart, FlightsLed, Leading, OpAt, IdleOp
<1>11. CASE UNCHANGED cacheVars
  BY <1>1, <1>11 DEF cacheVars, FlightsLed, Leading, OpAt
<1>13. CASE \E g \in Openers : \E h \in Hashes : Get(g, h)
  BY <1>4, <1>13
<1>14. CASE \E g \in Openers : OpenStep(g) \/ Done(g)
  BY <1>5, <1>6, <1>7, <1>8, <1>9, <1>14 DEF OpenStep
<1> QED
  BY <1>10, <1>11, <1>13, <1>14 DEF CacheNext

(* Every step keeps the count of temporary files: a crash leaves them, a    *)
(* scan removes them with their leaders.                                    *)
LEMMA TempsMove ==
  ASSUME CacheInv, [CacheNext]_cacheVars
  PROVE  temps' \in Nat /\ TempsCounted'
<1> DEFINE Copying == {g \in Openers : OpAt(g, "copy")}
           Goal == temps' \in Nat /\ TempsCounted'
<1>1. /\ op \in [Openers -> [h : Hashes,
           at : {"idle", "open", "fetch", "put", "join", "wait", "recheck", "copy", "add",
             "ok", "err", "unmapOk", "unmapErr", "reopen", "served", "failed"}]]
      /\ temps \in Nat /\ Cardinality(Copying) <= temps
  BY DEF CacheInv, CacheTypeOK, TempsCounted
<1>2. IsFiniteSet(Copying) /\ Copying \subseteq Openers
  BY OpenersFinite, FS_Subset DEF OpenersFinite
<1>3. Cardinality(Copying) \in Nat
  BY <1>2, FS_CardinalityType
<1>4. ASSUME temps' = temps, \A x \in Openers : op'[x].at = "copy" => op[x].at = "copy"
      PROVE  Goal
  <2>1. Copying' \subseteq Copying
    BY <1>4 DEF OpAt
  <2>2. Cardinality(Copying') <= Cardinality(Copying) /\ Cardinality(Copying') \in Nat
    <3> HIDE DEF Copying
    <3> QED
      BY <1>2, <2>1, FS_Subset, FS_CardinalityType
  <2> QED
    BY <1>1, <1>3, <1>4, <2>2 DEF TempsCounted
<1>5. ASSUME NEW g \in Openers, Recheck(g) PROVE Goal
  <2>1. CASE temps' = temps
    BY <1>1, <1>4, <1>5, <2>1 DEF Recheck, OpTo
  <2>2. CASE OpTo(g, "copy") /\ temps' = temps + 1
    <3>1. Copying' = Copying \cup {g} /\ g \notin Copying
      BY <1>1, <1>5, <2>2 DEF Recheck, OpAt, OpTo
    <3>2. Cardinality(Copying') = Cardinality(Copying) + 1
      <4> HIDE DEF Copying
      <4> QED
        BY <1>2, <3>1, FS_AddElement
    <3> QED
      BY <1>1, <1>3, <2>2, <3>2 DEF TempsCounted
  <2> QED
    BY <1>5, <2>1, <2>2 DEF Recheck
<1>6. ASSUME NEW g \in Openers, CopyRename(g) PROVE Goal
  <2>1. temps' = temps - 1 /\ OpAt(g, "copy")
    BY <1>6 DEF CopyRename
  <2>2. Copying' = Copying \ {g} /\ g \in Copying
    BY <1>1, <1>6 DEF CopyRename, OpAt, OpTo
  <2>3. Cardinality(Copying') = Cardinality(Copying) - 1
    <3> HIDE DEF Copying
    <3> QED
      BY <1>2, <2>2, FS_RemoveElement
  <2>4. Cardinality(Copying') \in Nat
    <3> HIDE DEF Copying
    <3>1. IsFiniteSet(Copying')
      BY <1>2, <2>2, FS_RemoveElement
    <3> QED
      BY <3>1, FS_CardinalityType
  <2> QED
    BY <1>1, <1>3, <2>1, <2>3, <2>4 DEF TempsCounted
<1>7. ASSUME NEW g \in Openers, NEW h \in Hashes, Get(g, h) PROVE Goal
  BY <1>1, <1>4, <1>7 DEF Get
<1>8. ASSUME NEW g \in Openers, OpenHit(g) \/ FetchStatic(g) \/ PutCheck(g) \/ OpenPut(g) \/ Done(g)
      PROVE  Goal
  BY <1>1, <1>4, <1>8 DEF OpenHit, FetchStatic, PutCheck, OpenPut, Done, OpTo, IdleOp
<1>9. ASSUME NEW g \in Openers, Join(g) \/ AddEvict(g) \/ Unmap(g) PROVE Goal
  BY <1>1, <1>4, <1>9 DEF Join, AddEvict, Unmap, OpTo
<1>10. ASSUME NEW g \in Openers, Land(g) PROVE Goal
  <2>1. temps' = temps
    BY <1>10 DEF Land
  <2>2. \A x \in Openers : op'[x] = op[x] \/ op'[x].at \in {"unmapOk", "unmapErr", "reopen", "failed"}
    BY <1>1, <1>10 DEF Land
  <2> QED
    BY <1>4, <2>1, <2>2
<1>11. ASSUME Restart PROVE Goal
  BY <1>4, <1>11 DEF Restart, IdleOp
<1>12. ASSUME UNCHANGED cacheVars PROVE Goal
  BY <1>4, <1>12 DEF cacheVars
<1>13. CASE \E g \in Openers : \E h \in Hashes : Get(g, h)
  BY <1>7, <1>13
<1>14. CASE \E g \in Openers : OpenStep(g) \/ Done(g)
  BY <1>5, <1>6, <1>8, <1>9, <1>10, <1>14 DEF OpenStep
<1> QED
  BY <1>11, <1>12, <1>13, <1>14 DEF CacheNext

(* Every step keeps the types of the cache's state.                         *)
LEMMA OpenersTyped ==
  ASSUME CacheInv, [CacheNext]_cacheVars
  PROVE  CacheTypeOK'
<1> DEFINE At == {"idle", "open", "fetch", "put", "join", "wait", "recheck", "copy", "add",
                  "ok", "err", "unmapOk", "unmapErr", "reopen", "served", "failed"}
           OpType == op' \in [Openers -> [h : Hashes, at : At]]
           Goal == OpType /\ flight' \in [Hashes -> {"none", "run", "ok", "err"}]
<1>1. /\ op \in [Openers -> [h : Hashes, at : At]]
      /\ flight \in [Hashes -> {"none", "run", "ok", "err"}]
  BY DEF CacheInv, CacheTypeOK
<1>2. IdleOp \in [h : Hashes, at : At]
  BY CacheAssumption DEF CacheAssumption, IdleOp
<1>3. ASSUME NEW g \in Openers, NEW w \in At, OpTo(g, w) PROVE OpType
  BY <1>1, <1>3 DEF OpTo
<1>4. ASSUME NEW g \in Openers, NEW h \in Hashes, Get(g, h) PROVE Goal
  BY <1>1, <1>4 DEF Get
<1>5. ASSUME NEW g \in Openers, Done(g) PROVE Goal
  BY <1>1, <1>2, <1>5 DEF Done
<1>6. ASSUME NEW g \in Openers, OpenHit(g) \/ FetchStatic(g) \/ PutCheck(g) \/ OpenPut(g)
             \/ Recheck(g) \/ CopyRename(g) \/ AddEvict(g)
      PROVE  Goal
  <2>1. flight' = flight
    BY <1>6 DEF OpenHit, FetchStatic, PutCheck, OpenPut, Recheck, CopyRename, AddEvict
  <2>2. \E w \in At : OpTo(g, w)
    BY <1>6 DEF OpenHit, FetchStatic, PutCheck, OpenPut, Recheck, CopyRename, AddEvict
  <2> QED
    BY <1>1, <1>3, <2>1, <2>2
<1>7. ASSUME NEW g \in Openers, Join(g) \/ Unmap(g) PROVE Goal
  <2>1. flight' \in [Hashes -> {"none", "run", "ok", "err"}]
    BY <1>1, <1>7 DEF Join, Unmap
  <2>2. \E w \in At : OpTo(g, w)
    BY <1>7 DEF Join, Unmap
  <2> QED
    BY <1>3, <2>1, <2>2
<1>8. ASSUME NEW g \in Openers, Land(g) PROVE Goal
  BY <1>1, <1>8 DEF Land
<1>9. ASSUME Restart PROVE Goal
  BY <1>2, <1>9 DEF Restart
<1>10. ASSUME UNCHANGED cacheVars PROVE Goal
  BY <1>1, <1>10 DEF cacheVars
<1>11. Goal
  <2>1. CASE \E g \in Openers : \E h \in Hashes : Get(g, h)
    BY <1>4, <2>1
  <2>2. CASE \E g \in Openers : OpenStep(g) \/ Done(g)
    BY <1>5, <1>6, <1>7, <1>8, <2>2 DEF OpenStep
  <2> QED
    BY <1>9, <1>10, <2>1, <2>2 DEF CacheNext
<1>12. ll' \in Seq(Hashes) /\ disk' \in Seq(Hashes) /\ curBytes' \in Int /\ temps' \in Nat
  BY IndexMoves, TempsMove
<1> QED
  BY <1>11, <1>12 DEF CacheTypeOK

(* The cache's invariant holds in every reachable state, for any hashes,   *)
(* sizes and budget, any number of handlers, and any failure of storage,   *)
(* of the disk or of the process.                                          *)
THEOREM CacheInvariant == CacheSpec => []CacheInv
<1>1. CacheInit => CacheInv
  <2> SUFFICES ASSUME CacheInit PROVE CacheInv
    OBVIOUS
  <2>0. /\ disk = <<>> /\ ll = <<>> /\ temps = 0 /\ curBytes = 0
        /\ flight = [h \in Hashes |-> "none"] /\ op = [g \in Openers |-> IdleOp]
    BY DEF CacheInit
  <2>1. IdleOp \in [h : Hashes, at : {"idle"}]
    BY CacheAssumption DEF CacheAssumption, IdleOp
  <2>2. \A g \in Openers : op[g].at = "idle" /\ op[g].h \in Hashes
    BY <2>0, <2>1
  <2>3. CacheTypeOK
    BY <2>0, <2>1 DEF CacheTypeOK
  <2>4. FlightsLed /\ NewIsOutside /\ FoundIsInside
    BY <2>0, <2>2 DEF FlightsLed, NewIsOutside, FoundIsInside, Leading, OpAt
  <2>5. TempsCounted
    <3>1. {g \in Openers : OpAt(g, "copy")} = {}
      BY <2>2 DEF OpAt
    <3>2. Cardinality({g \in Openers : OpAt(g, "copy")}) = 0
      BY <3>1, FS_EmptySet, Zenon
    <3> QED
      BY <2>0, <3>2 DEF TempsCounted
  <2>6. BytesAfter(Size, <<>>, 0) = 0
    <3>1. Size \in [Hashes -> Nat] /\ <<>> \in Seq(Hashes) /\ Len(<<>>) = 0
      BY CacheAssumption DEF CacheAssumption
    <3>2. BytesAfter(Size, <<>>, Len(<<>>)) = 0
      BY <3>1, BytesAfterStep
    <3> QED
      BY <3>1, <3>2
  <2>7. IndexInv
    BY <2>0, <2>6, CacheAssumption DEF IndexInv, Distinct, RangeOf, CacheAssumption
  <2> QED
    BY <2>3, <2>4, <2>5, <2>7 DEF CacheInv
<1>2. CacheInv /\ [CacheNext]_cacheVars => CacheInv'
  BY OpenersTyped, FlightMoves, SetsMove, FoundMoves, TempsMove DEF CacheInv
<1> QED
  BY <1>1, <1>2, PTL DEF CacheSpec

(* CacheSound: the index never promises a file that is not on the disk, a  *)
(* hash has one leader and whoever waits has one that runs, and the bytes  *)
(* counted are those of the index, within the budget but for one file.     *)
THEOREM CacheSoundHolds == CacheSpec => []CacheSound
<1>1. CacheInv => CacheSound
  <2> SUFFICES ASSUME CacheInv PROVE CacheSound
    OBVIOUS
  <2>1. IndexedOnDisk /\ BudgetHeld
    BY DEF CacheInv, IndexInv, IndexedOnDisk, BudgetHeld, Distinct
  <2>2. ASSUME NEW g \in Openers, OpAt(g, "wait")
        PROVE  \E x \in Openers : Leading(x) /\ op[x].h = op[g].h /\ flight[op[g].h] = "run"
    <3>1. flight[op[g].h] = "run" /\ op[g].h \in Hashes
      BY <2>2 DEF CacheInv, CacheTypeOK, FlightsLed, OpAt
    <3> QED
      BY <3>1 DEF CacheInv, FlightsLed
  <2>3. OneLeader
    BY <2>2 DEF CacheInv, FlightsLed, OneLeader
  <2> QED
    BY <2>1, <2>3 DEF CacheSound
<1> QED
  BY <1>1, CacheInvariant, PTL

(* PutPathLive: an opener to whom Put gave a path finds the file gone only *)
(* when the index holds other files by then and not that one.              *)
THEOREM PutPathLiveHolds == CacheSpec => PutPathLive
<1> DEFINE Step == \A g \in Openers : OpAt(g, "reopen") /\ op'[g].at = "failed" =>
                     Len(ll) > 0 /\ op[g].h \notin RangeOf(ll)
<1>1. CacheInv /\ [CacheNext]_cacheVars => [Step]_cacheVars
  <2> SUFFICES ASSUME CacheInv, CacheNext, NEW g \in Openers, OpAt(g, "reopen"), op'[g].at = "failed"
               PROVE  Len(ll) > 0 /\ op[g].h \notin RangeOf(ll)
    OBVIOUS
  <2>1. /\ op \in [Openers -> [h : Hashes,
           at : {"idle", "open", "fetch", "put", "join", "wait", "recheck", "copy", "add",
             "ok", "err", "unmapOk", "unmapErr", "reopen", "served", "failed"}]]
        /\ ll \in Seq(Hashes) /\ RangeOf(ll) \subseteq RangeOf(disk) /\ ll # <<>>
    BY DEF CacheInv, CacheTypeOK, IndexInv, FoundIsInside, OpAt
  <2>2. Len(ll) > 0
    BY <2>1
  <2>3. ASSUME NEW x \in Openers, x # g \/ ~OpenPut(g),
               (\E h \in Hashes : Get(x, h)) \/ OpenStep(x) \/ Done(x)
        PROVE  FALSE
    <3>1. op'[g] # op[g]
      BY DEF OpAt
    <3>2. CASE Land(x)
      <4>1. g # x /\ ~OpAt(g, "wait")
        BY <3>2 DEF Land, OpAt
      <4>2. op'[g] = op[g]
        BY <3>2, <4>1 DEF Land
      <4> QED
        BY <3>1, <4>2
    <3>3. CASE x # g /\ ~Land(x)
      BY <2>1, <2>3, <3>1, <3>3 DEF Get, OpenStep, OpenHit, FetchStatic, PutCheck, Join, Recheck,
         CopyRename, AddEvict, Unmap, OpenPut, Done, OpTo
    <3>4. CASE x = g /\ ~Land(x) /\ ~OpenPut(g)
      BY <2>3, <3>4 DEF Get, OpenStep, OpenHit, FetchStatic, PutCheck, Join, Recheck,
         CopyRename, AddEvict, Unmap, Done, OpAt
    <3> QED
      BY <2>3, <3>2, <3>3, <3>4
  <2>4. ~Restart
    BY DEF Restart, IdleOp
  <2>5. OpenPut(g)
    BY <2>3, <2>4 DEF CacheNext
  <2>6. op[g].h \notin RangeOf(disk)
    BY <2>1, <2>5 DEF OpenPut, OpTo
  <2> QED
    BY <2>1, <2>2, <2>6
<1> QED
  BY <1>1, CacheInvariant, PTL DEF CacheSpec, PutPathLive
-----------------------------------------------------------------------------

(* The loader of a key: it has the key in the map of loads until its result *)
(* is out.                                                                  *)
Loading(c) == hubCall[c].at \in {"load", "loaded", "missing", "broken"}

(* Single flight at the hub: a key has one loader at a time, callers wait   *)
(* only for a key that is being loaded, and every such key has its loader.  *)
LoadsLed ==
  /\ \A c, x \in Callers : Loading(c) /\ Loading(x) /\ CallKey(c) = CallKey(x) => c = x
  /\ \A c \in Callers : Loading(c) \/ CallAt(c, "wait") => CallKey(c) \in inflight
  /\ \A k \in inflight : \E c \in Callers : Loading(c) /\ CallKey(c) = k

(* The object b is among those stored, and has the deployment and file of   *)
(* the cache key k.  Its tenant and page may be any: no key names them.     *)
HoldsFor(objects, b, k) == b \in objects /\ b.dep = k.dep /\ b.file = k.file

(* A file holds a stored object of its key, an index entry is a file that   *)
(* is not being loaded, and a finished load has its file on the disk.       *)
FilesOwn ==
  /\ \A k \in CacheKeys : hubDisk[k] = HubNone \/ HoldsFor(stored, hubDisk[k], k)
  /\ \A k \in RangeOf(hubLru) : hubDisk[k] # HubNone /\ k \notin inflight
  /\ \A c \in Callers : CallAt(c, "loaded") => hubDisk[CallKey(c)] # HubNone

(* An answer with a body carries an object of the deployment and file the   *)
(* caller asked for.                                                        *)
RepliesOwn ==
  \A c \in Callers :
    /\ hubCall[c].status # 0 => CallAt(c, "replied")
    /\ hubCall[c].status = 200 => HoldsFor(stored, hubCall[c].body, CallKey(c))

(* The bytes counted are those of the index, and within the budget.         *)
HubIndexInv ==
  /\ Distinct(hubLru)
  /\ hubBytes = BytesAfter(FileSize, hubLru, 0) /\ hubBytes <= HubMaxBytes

(* The inductive invariant of the hub's bundle cache.                       *)
HubInv == HubTypeOK /\ LoadsLed /\ FilesOwn /\ RepliesOwn /\ HubIndexInv

(* The keys of the requests, and what an object stored for one holds.       *)
LEMMA KeysOwned ==
  ASSUME HubTypeOK
  PROVE  /\ \A d \in Downloads : CacheKey(d) \in CacheKeys /\ StorageKey(d) \in HubObjects
         /\ \A c \in Callers : /\ hubCall[c].d \in Downloads /\ CallKey(c) \in CacheKeys
                              /\ \A objects : StorageKey(hubCall[c].d) \in objects
                                     => HoldsFor(objects, StorageKey(hubCall[c].d), CallKey(c))
<1>1. \A d \in Downloads : CacheKey(d) \in CacheKeys /\ StorageKey(d) \in HubObjects
  BY DEF CacheKeys, HubObjects
<1>2. \A d, objects : StorageKey(d) \in objects => HoldsFor(objects, StorageKey(d), CacheKey(d))
  BY DEF StorageKey, CacheKey, HoldsFor
<1>3. \A c \in Callers : hubCall[c].d \in Downloads /\ CallKey(c) \in CacheKeys
  BY <1>1 DEF HubTypeOK, CallKey
<1> QED
  BY <1>1, <1>2, <1>3 DEF CallKey

(* No step takes an object out of storage.                                  *)
LEMMA StoredGrows ==
  ASSUME [HubNext]_hubVars
  PROVE  /\ stored \subseteq stored'
         /\ \A b, k : HoldsFor(stored, b, k) => HoldsFor(stored', b, k)
<1>1. CASE \E c \in Callers : CallStep(c)
  BY <1>1 DEF CallStep, GetOrLoad, FetchObject, LoadDone, OpenCached, ServeDirect, HoldsFor
<1>2. CASE \E c \in Callers : (\E d \in Fetches[c] : Download(c, d)) \/ HangUp(c) \/ NextCall(c)
  BY <1>2 DEF Download, HangUp, NextCall, HoldsFor
<1>3. CASE HubRestart \/ (\E k \in HubObjects : Upload(k)) \/ UNCHANGED hubVars
  BY <1>3 DEF HubRestart, Upload, hubVars, HoldsFor
<1> QED
  BY <1>1, <1>2, <1>3 DEF HubNext

(* A hit only reorders the index.                                           *)
LEMMA HubHitKeeps ==
  ASSUME HubInv, NEW k \in CacheKeys, k \in RangeOf(hubLru)
  PROVE  /\ ToFront(hubLru, k) \in Seq(CacheKeys) /\ Distinct(ToFront(hubLru, k))
         /\ RangeOf(ToFront(hubLru, k)) = RangeOf(hubLru)
         /\ BytesAfter(FileSize, ToFront(hubLru, k), 0) = BytesAfter(FileSize, hubLru, 0)
<1>1. hubLru \in Seq(CacheKeys) /\ Distinct(hubLru) /\ FileSize \in [CacheKeys -> Nat]
  BY HubAssumption DEF HubInv, HubTypeOK, HubIndexInv, HubAssumption
<1>2. ToFront(hubLru, k) \in Seq(CacheKeys) /\ Distinct(ToFront(hubLru, k))
  BY <1>1, ToFrontProperties
<1>3. RangeOf(ToFront(hubLru, k)) = RangeOf(hubLru) \cup {k}
  BY <1>1, ToFrontProperties
<1>4. BytesAfter(FileSize, ToFront(hubLru, k), 0) = BytesAfter(FileSize, hubLru, 0)
  BY <1>1, ToFrontProperties
<1> QED
  BY <1>2, <1>3, <1>4

(* insertLocked keeps the index distinct, exact and within the budget, and  *)
(* removes exactly the files that leave the index, the new one perhaps      *)
(* among them.                                                              *)
LEMMA InsertSets ==
  ASSUME HubInv, NEW k \in CacheKeys, k \notin RangeOf(hubLru), InsertLocked(k)
  PROVE  /\ hubLru' \in Seq(CacheKeys) /\ Distinct(hubLru')
         /\ RangeOf(hubLru') \subseteq RangeOf(hubLru) \cup {k}
         /\ hubBytes' = BytesAfter(FileSize, hubLru', 0)
         /\ hubBytes' \in Nat /\ hubBytes' <= HubMaxBytes
         /\ hubDisk' \in [CacheKeys -> HubObjects \cup {HubNone}]
         /\ \A x \in CacheKeys :
              hubDisk'[x] = IF x \in (RangeOf(hubLru) \cup {k}) \ RangeOf(hubLru') THEN HubNone ELSE hubDisk[x]
<1> DEFINE l == ToFront(hubLru, k)
           n == HubKept(l, BytesAfter(FileSize, l, 0))
           out == RangeOf(SubSeq(l, n + 1, Len(l)))
           protect == {}
<1>1. /\ hubLru \in Seq(CacheKeys) /\ Distinct(hubLru)
      /\ FileSize \in [CacheKeys -> Nat] /\ HubMaxBytes \in Nat
      /\ hubBytes = BytesAfter(FileSize, hubLru, 0)
      /\ hubDisk \in [CacheKeys -> HubObjects \cup {HubNone}]
  BY HubAssumption DEF HubInv, HubTypeOK, HubIndexInv, HubAssumption
<1>2. l \in Seq(CacheKeys) /\ Distinct(l)
  BY <1>1, ToFrontProperties
<1>3. RangeOf(l) = RangeOf(hubLru) \cup {k}
  BY <1>1, ToFrontProperties
<1>4. BytesAfter(FileSize, l, 0) = hubBytes + FileSize[k]
  BY <1>1, ToFrontProperties
<1>5. l = <<k>> \o hubLru
  BY DEF ToFront
<1>6. /\ hubLru' = SubSeq(l, 1, n)
      /\ hubBytes' = BytesAfter(FileSize, l, 0) - BytesAfter(FileSize, l, n)
      /\ hubDisk' = [x \in CacheKeys |-> IF x \in out THEN HubNone ELSE hubDisk[x]]
  <2> HIDE DEF l
  <2> QED
    BY <1>4, <1>5, Zenon DEF InsertLocked
<1>7. Evicted(FileSize, HubMaxBytes, l, protect, hubLru', out, hubBytes')
  BY <1>6 DEF Evicted, HubKept
<1> HIDE DEF l, n, out, protect
<1>8. /\ hubLru' \in Seq(CacheKeys) /\ Distinct(hubLru') /\ RangeOf(hubLru') \subseteq RangeOf(l)
      /\ out = RangeOf(l) \ RangeOf(hubLru')
      /\ hubBytes' = BytesAfter(FileSize, hubLru', 0) /\ hubBytes' \in Nat
      /\ hubBytes' <= HubMaxBytes \/ (Len(hubLru') > 0 /\ hubLru'[Len(hubLru')] \in protect)
  BY <1>1, <1>2, <1>7, EvictIndex
<1>14. hubBytes' <= HubMaxBytes
  BY <1>8 DEF protect
<1>9. hubDisk' \in [CacheKeys -> HubObjects \cup {HubNone}]
  BY <1>1, <1>6
<1>10. out = (RangeOf(hubLru) \cup {k}) \ RangeOf(hubLru')
  BY <1>3, <1>8
<1>11. \A x \in CacheKeys : hubDisk'[x] = IF x \in out THEN HubNone ELSE hubDisk[x]
  BY <1>6
<1>12. \A x \in CacheKeys :
         hubDisk'[x] = IF x \in (RangeOf(hubLru) \cup {k}) \ RangeOf(hubLru') THEN HubNone ELSE hubDisk[x]
  BY <1>10, <1>11, Zenon
<1>13. RangeOf(hubLru') \subseteq RangeOf(hubLru) \cup {k}
  BY <1>3, <1>8
<1> QED
  BY <1>8, <1>9, <1>12, <1>13, <1>14

(* Every step keeps the index of the hub.                                   *)
LEMMA HubIndexMoves ==
  ASSUME HubInv, [HubNext]_hubVars
  PROVE  HubIndexInv' /\ hubLru' \in Seq(CacheKeys) /\ hubBytes' \in Int
<1> DEFINE Goal == /\ Distinct(hubLru') /\ hubBytes' = BytesAfter(FileSize, hubLru', 0)
                   /\ hubBytes' <= HubMaxBytes
                   /\ hubLru' \in Seq(CacheKeys) /\ hubBytes' \in Int
<1>1. /\ Distinct(hubLru) /\ hubBytes = BytesAfter(FileSize, hubLru, 0)
      /\ hubBytes <= HubMaxBytes
      /\ hubLru \in Seq(CacheKeys) /\ hubBytes \in Int
      /\ \A c \in Callers : CallKey(c) \in CacheKeys
  BY KeysOwned DEF HubInv, HubTypeOK, HubIndexInv
<1>2. ASSUME UNCHANGED <<hubLru, hubBytes>> PROVE Goal
  BY <1>1, <1>2
<1>3. ASSUME NEW c \in Callers, GetOrLoad(c) PROVE Goal
  <2>1. CASE hubLru' = ToFront(hubLru, CallKey(c)) /\ CallKey(c) \in RangeOf(hubLru)
    <3>1. hubBytes' = hubBytes
      BY <1>3 DEF GetOrLoad
    <3> QED
      BY <1>1, <2>1, <3>1, HubHitKeeps
  <2>2. CASE hubLru' = hubLru
    BY <1>2, <1>3, <2>2 DEF GetOrLoad
  <2> QED
    BY <1>3, <2>1, <2>2 DEF GetOrLoad
<1>4. ASSUME NEW c \in Callers, LoadDone(c) PROVE Goal
  <2>1. CASE CallAt(c, "loaded") /\ CallKey(c) \notin RangeOf(hubLru)
    <3>1. InsertLocked(CallKey(c))
      BY <1>4, <2>1 DEF LoadDone
    <3> QED
      BY <1>1, <2>1, <3>1, InsertSets
  <2>2. CASE ~CallAt(c, "loaded") \/ CallKey(c) \in RangeOf(hubLru)
    BY <1>2, <1>4, <2>2 DEF LoadDone, InsertLocked
  <2> QED
    BY <2>1, <2>2
<1>5. ASSUME HubRestart PROVE Goal
  <2>1. hubLru' = <<>> /\ hubBytes' = 0
    BY <1>5 DEF HubRestart
  <2>2. FileSize \in [CacheKeys -> Nat] /\ <<>> \in Seq(CacheKeys) /\ Len(<<>>) = 0 /\ 0 <= HubMaxBytes
    BY HubAssumption DEF HubAssumption
  <2>3. BytesAfter(FileSize, <<>>, Len(<<>>)) = 0
    BY <2>2, BytesAfterStep
  <2>4. Distinct(<<>>)
    BY DEF Distinct
  <2> QED
    BY <2>1, <2>2, <2>3, <2>4
<1>6. ASSUME NEW c \in Callers,
             (\E d \in Fetches[c] : Download(c, d)) \/ FetchObject(c) \/ OpenCached(c)
               \/ ServeDirect(c) \/ HangUp(c) \/ NextCall(c)
      PROVE  Goal
  BY <1>2, <1>6 DEF Download, FetchObject, OpenCached, ServeDirect, HangUp, NextCall
<1>7. ASSUME (\E k \in HubObjects : Upload(k)) \/ UNCHANGED hubVars PROVE Goal
  BY <1>2, <1>7 DEF Upload, hubVars
<1>8. Goal
  BY <1>3, <1>4, <1>5, <1>6, <1>7 DEF HubNext, CallStep
<1> QED
  BY <1>8 DEF HubIndexInv, Distinct

(* The callers a load answers, and what each of them may become.            *)
Told(x, c) == x = c \/ (CallAt(x, "wait") /\ CallKey(x) = CallKey(c))
LoadResults(r) ==
  {[r EXCEPT !.at = "open"],
   [r EXCEPT !.at = "replied", !.status = 404], [r EXCEPT !.at = "replied", !.status = 500]}

(* A load changes the callers it answers and no others.                     *)
LEMMA AfterLoadCases ==
  ASSUME NEW x, NEW c, hubCall[c].at \in {"loaded", "missing", "broken"}
  PROVE  /\ ~Told(x, c) => AfterLoad(x, c) = hubCall[x]
         /\ Told(x, c) => AfterLoad(x, c) \in LoadResults(hubCall[x])
<1> DEFINE Opens == [hubCall[x] EXCEPT !.at = "open"]
           Missing == [hubCall[x] EXCEPT !.at = "replied", !.status = 404]
           Broken == [hubCall[x] EXCEPT !.at = "replied", !.status = 500]
<1>1. AfterLoad(x, c) =
        IF x = c \/ (CallAt(x, "wait") /\ CallKey(x) = CallKey(c))
          THEN CASE CallAt(c, "loaded") -> Opens
                 [] CallAt(c, "missing") -> Missing
                 [] CallAt(c, "broken") -> Broken
          ELSE hubCall[x]
  BY DEF AfterLoad
<1> HIDE DEF Opens, Missing, Broken
<1>2. \/ CallAt(c, "loaded") /\ ~CallAt(c, "missing") /\ ~CallAt(c, "broken")
      \/ CallAt(c, "missing") /\ ~CallAt(c, "loaded") /\ ~CallAt(c, "broken")
      \/ CallAt(c, "broken") /\ ~CallAt(c, "loaded") /\ ~CallAt(c, "missing")
  BY DEF CallAt
<1>3. /\ ~Told(x, c) => AfterLoad(x, c) = hubCall[x]
      /\ Told(x, c) => AfterLoad(x, c) \in {Opens, Missing, Broken}
  BY <1>1, <1>2 DEF Told
<1> QED
  BY <1>3 DEF Opens, Missing, Broken, LoadResults

(* Every step keeps the types of the hub's state.                           *)
LEMMA HubTyped ==
  ASSUME HubInv, [HubNext]_hubVars
  PROVE  HubTypeOK'
<1> DEFINE At == {"idle", "lookup", "wait", "load", "loaded", "missing", "broken", "open",
                  "direct", "replied"}
           Status == {0, 200, 304, 400, 401, 403, 404, 500}
           CallType == [d : Downloads, ctx : {"live", "cancelled"}, body : HubObjects \cup {HubNone},
                        status : Status, at : At]
           CallsOK == hubCall' \in [Callers -> CallType]
           DiskOK == hubDisk' \in [CacheKeys -> HubObjects \cup {HubNone}]
           Rest == stored' \subseteq HubObjects /\ hubOn' \in BOOLEAN /\ inflight' \subseteq CacheKeys
           Goal == CallsOK /\ DiskOK /\ Rest
<1>1. /\ hubCall \in [Callers -> CallType]
      /\ hubDisk \in [CacheKeys -> HubObjects \cup {HubNone}]
      /\ stored \subseteq HubObjects /\ hubOn \in BOOLEAN /\ inflight \subseteq CacheKeys
      /\ \A c \in Callers : CallKey(c) \in CacheKeys /\ StorageKey(hubCall[c].d) \in HubObjects
  BY KeysOwned DEF HubInv, HubTypeOK
<1>2. ASSUME NEW d \in Downloads, NEW a \in At, NEW st \in Status
      PROVE  NewCall(d, a, st) \in CallType
  BY DEF NewCall
<1>3. IdleCall \in CallType
  <2>1. (CHOOSE d \in Downloads : TRUE) \in Downloads
    BY HubAssumption DEF HubAssumption
  <2> HIDE DEF At, Status
  <2>2. "idle" \in At /\ 0 \in Status
    BY DEF At, Status
  <2> QED
    BY <2>1, <2>2 DEF IdleCall, NewCall
<1>4. ASSUME NEW c \in Callers, NEW w \in At, Move(c, w) PROVE CallsOK
  BY <1>1, <1>4 DEF Move
<1>5. ASSUME NEW c \in Callers, NEW st \in Status, NEW b \in HubObjects \cup {HubNone}, Reply(c, st, b)
      PROVE  CallsOK
  <2> HIDE DEF At, Status
  <2>1. "replied" \in At
    BY DEF At
  <2>2. [hubCall[c] EXCEPT !.at = "replied", !.status = st, !.body = b] \in CallType
    BY <1>1, <2>1
  <2>3. hubCall' = [hubCall EXCEPT ![c] = [hubCall[c] EXCEPT !.at = "replied", !.status = st, !.body = b]]
    BY <1>1, <1>5 DEF Reply
  <2> HIDE DEF CallType
  <2> QED
    BY <1>1, <2>2, <2>3
<1>6. ASSUME NEW c \in Callers, NEW d \in Fetches[c], Download(c, d) PROVE Goal
  <2>1. d \in Downloads
    BY HubAssumption DEF HubAssumption
  <2>2. \E a \in At, st \in Status : hubCall' = [hubCall EXCEPT ![c] = NewCall(d, a, st)]
    BY <1>6 DEF Download
  <2>3. CallsOK
    <3>1. PICK r \in CallType : hubCall' = [hubCall EXCEPT ![c] = r]
      <4> HIDE DEF At, Status, CallType
      <4> QED
        BY <1>2, <2>1, <2>2, Zenon
    <3> HIDE DEF CallType
    <3> QED
      BY <1>1, <3>1
  <2> QED
    BY <1>1, <1>6, <2>3 DEF Download
<1>7. ASSUME NEW c \in Callers, GetOrLoad(c) PROVE Goal
  <2>1. \E w \in At : Move(c, w)
    BY <1>7 DEF GetOrLoad
  <2>2. CallsOK
    BY <1>4, <2>1
  <2> QED
    BY <1>1, <1>7, <2>2 DEF GetOrLoad
<1>8. ASSUME NEW c \in Callers, FetchObject(c) PROVE Goal
  <2>1. \E w \in At : Move(c, w)
    BY <1>8 DEF FetchObject
  <2>2. CallsOK
    BY <1>4, <2>1
  <2>3. DiskOK
    BY <1>1, <1>8 DEF FetchObject
  <2> QED
    BY <1>1, <1>8, <2>2, <2>3 DEF FetchObject
<1>9. ASSUME NEW c \in Callers, LoadDone(c) PROVE Goal
  <2>1. CallsOK
    <3>1. ASSUME NEW x \in Callers PROVE AfterLoad(x, c) \in CallType
      <4> HIDE DEF At, Status
      <4>0. "open" \in At /\ "replied" \in At /\ 404 \in Status /\ 500 \in Status
        BY DEF At, Status
      <4>1. hubCall[x] \in CallType /\ hubCall[c].at \in {"loaded", "missing", "broken"}
        BY <1>1, <1>9 DEF LoadDone
      <4> DEFINE Opens == [hubCall[x] EXCEPT !.at = "open"]
                 Missing == [hubCall[x] EXCEPT !.at = "replied", !.status = 404]
                 Broken == [hubCall[x] EXCEPT !.at = "replied", !.status = 500]
      <4>2. LoadResults(hubCall[x]) = {Opens, Missing, Broken}
        BY Zenon DEF LoadResults
      <4>4. Opens \in CallType
        BY <4>0, <4>1
      <4>7. ASSUME NEW st \in Status
            PROVE  [hubCall[x] EXCEPT !.at = "replied", !.status = st] \in CallType
        BY <4>0, <4>1
      <4> HIDE DEF CallType
      <4>5. Missing \in CallType /\ Broken \in CallType
        BY <4>0, <4>7, Zenon
      <4> HIDE DEF Opens, Missing, Broken
      <4>3. LoadResults(hubCall[x]) \subseteq CallType
        BY <4>2, <4>4, <4>5
      <4> QED
        BY <4>1, <4>3, AfterLoadCases
    <3>2. hubCall' = [x \in Callers |-> AfterLoad(x, c)]
      BY <1>9 DEF LoadDone
    <3> HIDE DEF CallType
    <3> QED
      BY <3>1, <3>2
  <2>2. DiskOK
    <3>1. CASE CallAt(c, "loaded") /\ CallKey(c) \notin RangeOf(hubLru)
      BY <1>1, <1>9, <3>1, InsertSets DEF LoadDone
    <3>2. CASE ~(CallAt(c, "loaded") /\ CallKey(c) \notin RangeOf(hubLru))
      BY <1>1, <1>9, <3>2 DEF LoadDone, InsertLocked
    <3> QED
      BY <3>1, <3>2
  <2> QED
    BY <1>1, <1>9, <2>1, <2>2 DEF LoadDone
<1>10. ASSUME NEW c \in Callers, OpenCached(c) PROVE Goal
  <2>1. CASE Move(c, "direct")
    BY <1>1, <1>4, <1>10, <2>1 DEF OpenCached
  <2>2. CASE Reply(c, 200, hubDisk[CallKey(c)])
    <3>1. hubDisk[CallKey(c)] \in HubObjects \cup {HubNone}
      BY <1>1
    <3>2. CallsOK
      BY <1>5, <2>2, <3>1
    <3> QED
      BY <1>1, <1>10, <3>2 DEF OpenCached
  <2> QED
    BY <1>10, <2>1, <2>2 DEF OpenCached
<1>11. ASSUME NEW c \in Callers, ServeDirect(c) PROVE Goal
  <2>1. CallsOK
    BY <1>1, <1>5, <1>11 DEF ServeDirect
  <2> QED
    BY <1>1, <1>11, <2>1 DEF ServeDirect
<1>12. ASSUME NEW c \in Callers, HangUp(c) PROVE Goal
  BY <1>1, <1>12 DEF HangUp
<1>13. ASSUME NEW c \in Callers, NextCall(c) PROVE Goal
  <2> HIDE DEF CallType
  <2> QED
    BY <1>1, <1>3, <1>13 DEF NextCall
<1>14. ASSUME NEW k \in HubObjects, Upload(k) PROVE Goal
  BY <1>1, <1>14 DEF Upload
<1>15. ASSUME HubRestart PROVE Goal
  <2> HIDE DEF CallType
  <2> QED
    BY <1>1, <1>3, <1>15 DEF HubRestart
<1>16. ASSUME UNCHANGED hubVars PROVE Goal
  BY <1>1, <1>16 DEF hubVars
<1>17. Goal
  <2>1. CASE \E c \in Callers : CallStep(c)
    BY <1>7, <1>8, <1>9, <1>10, <1>11, <2>1 DEF CallStep
  <2>2. CASE \E c \in Callers : (\E d \in Fetches[c] : Download(c, d)) \/ HangUp(c) \/ NextCall(c)
    BY <1>6, <1>12, <1>13, <2>2
  <2> QED
    BY <1>14, <1>15, <1>16, <2>1, <2>2 DEF HubNext
<1>18. hubLru' \in Seq(CacheKeys) /\ hubBytes' \in Int
  BY HubIndexMoves
<1> QED
  BY <1>17, <1>18 DEF HubTypeOK

(* Every step keeps the answers right.                                      *)
LEMMA RepliesMove ==
  ASSUME HubInv, [HubNext]_hubVars
  PROVE  RepliesOwn'
<1>1. /\ hubCall \in [Callers -> [d : Downloads, ctx : {"live", "cancelled"}, body : HubObjects \cup {HubNone},
           status : {0, 200, 304, 400, 401, 403, 404, 500},
           at : {"idle", "lookup", "wait", "load", "loaded", "missing", "broken", "open",
                 "direct", "replied"}]]
      /\ RepliesOwn /\ FilesOwn
      /\ \A c \in Callers : CallKey(c) \in CacheKeys
  BY KeysOwned DEF HubInv, HubTypeOK
<1>h. \A b, k : HoldsFor(stored, b, k) => HoldsFor(stored', b, k)
  BY StoredGrows
<1>2. ASSUME NEW c \in Callers, \A x \in Callers : x # c => hubCall'[x] = hubCall[x],
             /\ hubCall'[c].status # 0 => hubCall'[c].at = "replied"
             /\ hubCall'[c].status = 200 => HoldsFor(stored', hubCall'[c].body, CallKey(c)')
      PROVE  RepliesOwn'
  <2>1. ASSUME NEW x \in Callers
        PROVE  /\ hubCall'[x].status # 0 => hubCall'[x].at = "replied"
               /\ hubCall'[x].status = 200 => HoldsFor(stored', hubCall'[x].body, CallKey(x)')
    <3>1. CASE x = c
      BY <1>2, <3>1
    <3>2. CASE x # c
      <4>1. hubCall'[x] = hubCall[x]
        BY <1>2, <3>2
      <4> QED
        BY <1>1, <1>h, <4>1 DEF RepliesOwn, CallAt, CallKey
    <3> QED
      BY <3>1, <3>2
  <2> QED
    BY <2>1 DEF RepliesOwn, CallAt
<1>3. ASSUME NEW c \in Callers, NEW w, Move(c, w), hubCall[c].at # "replied" PROVE RepliesOwn'
  <2>1. /\ \A x \in Callers : x # c => hubCall'[x] = hubCall[x]
        /\ hubCall'[c].status = hubCall[c].status
    BY <1>1, <1>3 DEF Move
  <2>2. hubCall[c].status = 0
    BY <1>1, <1>3 DEF RepliesOwn, CallAt
  <2> QED
    BY <1>2, <2>1, <2>2
<1>4. ASSUME NEW c \in Callers, NEW st, NEW b, Reply(c, st, b), st = 200 => HoldsFor(stored', b, CallKey(c))
      PROVE  RepliesOwn'
  <2>1. /\ \A x \in Callers : x # c => hubCall'[x] = hubCall[x]
        /\ hubCall'[c].status = st /\ hubCall'[c].body = b /\ hubCall'[c].at = "replied"
        /\ CallKey(c)' = CallKey(c)
    BY <1>1, <1>4 DEF Reply, CallKey
  <2> QED
    BY <1>2, <1>4, <2>1
<1>5. ASSUME NEW c \in Callers, NEW d \in Fetches[c], Download(c, d) PROVE RepliesOwn'
  <2>1. \E st \in {0, 304, 400, 401, 403}, a \in {"replied", "lookup", "direct"} :
          /\ st # 0 => a = "replied"
          /\ hubCall' = [hubCall EXCEPT ![c] = NewCall(d, a, st)]
    BY <1>5 DEF Download
  <2>2. /\ \A x \in Callers : x # c => hubCall'[x] = hubCall[x]
        /\ hubCall'[c].status # 0 => hubCall'[c].at = "replied"
        /\ hubCall'[c].status # 200
    BY <1>1, <2>1 DEF NewCall
  <2> QED
    BY <1>2, <2>2
<1>6. ASSUME NEW c \in Callers, GetOrLoad(c) \/ FetchObject(c) PROVE RepliesOwn'
  <2>1. hubCall[c].at # "replied" /\ \E w : Move(c, w)
    BY <1>6 DEF GetOrLoad, FetchObject, CallAt
  <2> QED
    BY <1>3, <2>1
<1>7. ASSUME NEW c \in Callers, LoadDone(c) PROVE RepliesOwn'
  <2>1. hubCall' = [x \in Callers |-> AfterLoad(x, c)] /\ hubCall[c].at \in {"loaded", "missing", "broken"}
    BY <1>7 DEF LoadDone
  <2>2. ASSUME NEW x \in Callers
        PROVE  /\ hubCall'[x].status # 0 => hubCall'[x].at = "replied"
               /\ hubCall'[x].status = 200 => HoldsFor(stored', hubCall'[x].body, CallKey(x)')
    <3>0. hubCall'[x] = AfterLoad(x, c)
      BY <2>1
    <3>1. CASE Told(x, c)
      <4>1. hubCall[x].status = 0
        BY <1>1, <2>1, <3>1 DEF RepliesOwn, CallAt, Told
      <4>2. hubCall'[x] \in LoadResults(hubCall[x])
        BY <2>1, <3>0, <3>1, AfterLoadCases
      <4>3. CASE hubCall'[x] = [hubCall[x] EXCEPT !.at = "open"]
        BY <1>1, <4>1, <4>3
      <4>4. CASE hubCall'[x] = [hubCall[x] EXCEPT !.at = "replied", !.status = 404]
        BY <1>1, <4>4
      <4>5. CASE hubCall'[x] = [hubCall[x] EXCEPT !.at = "replied", !.status = 500]
        BY <1>1, <4>5
      <4> QED
        BY <4>2, <4>3, <4>4, <4>5, Zenon DEF LoadResults
    <3>2. CASE ~Told(x, c)
      <4>1. hubCall'[x] = hubCall[x]
        BY <2>1, <3>0, <3>2, AfterLoadCases
      <4> QED
        BY <1>1, <1>h, <4>1 DEF RepliesOwn, CallAt, CallKey
    <3> QED
      BY <3>1, <3>2
  <2> QED
    BY <2>2 DEF RepliesOwn, CallAt
<1>8. ASSUME NEW c \in Callers, OpenCached(c) PROVE RepliesOwn'
  <2>1. CASE Move(c, "direct")
    BY <1>3, <1>8, <2>1 DEF OpenCached, CallAt
  <2>2. CASE Reply(c, 200, hubDisk[CallKey(c)]) /\ hubDisk[CallKey(c)] # HubNone
    <3>1. HoldsFor(stored', hubDisk[CallKey(c)], CallKey(c))
      BY <1>1, <1>h, <2>2 DEF FilesOwn
    <3> QED
      BY <1>4, <2>2, <3>1
  <2> QED
    BY <1>8, <2>1, <2>2 DEF OpenCached
<1>9. ASSUME NEW c \in Callers, ServeDirect(c) PROVE RepliesOwn'
  <2>1. \/ Reply(c, 200, StorageKey(hubCall[c].d)) /\ StorageKey(hubCall[c].d) \in stored
        \/ Reply(c, 404, HubNone) \/ Reply(c, 500, HubNone)
    BY <1>9 DEF ServeDirect
  <2>2. StorageKey(hubCall[c].d) \in stored => HoldsFor(stored', StorageKey(hubCall[c].d), CallKey(c))
    BY <1>h, KeysOwned DEF HubInv
  <2> QED
    BY <1>4, <2>1, <2>2
<1>10. ASSUME NEW c \in Callers, HangUp(c) PROVE RepliesOwn'
  <2>1. /\ \A x \in Callers : x # c => hubCall'[x] = hubCall[x]
        /\ hubCall'[c].status = hubCall[c].status /\ hubCall[c].at # "replied"
    BY <1>1, <1>10 DEF HangUp
  <2>2. hubCall[c].status = 0
    BY <1>1, <2>1 DEF RepliesOwn, CallAt
  <2> QED
    BY <1>2, <2>1, <2>2
<1>11. ASSUME NEW c \in Callers, NextCall(c) PROVE RepliesOwn'
  <2>1. /\ \A x \in Callers : x # c => hubCall'[x] = hubCall[x]
        /\ hubCall'[c].status = 0
    BY <1>1, <1>11 DEF NextCall, IdleCall, NewCall
  <2> QED
    BY <1>2, <2>1
<1>12. ASSUME HubRestart PROVE RepliesOwn'
  <2>1. \A c \in Callers : hubCall'[c].status = 0
    BY <1>12 DEF HubRestart, IdleCall, NewCall
  <2> QED
    BY <2>1 DEF RepliesOwn
<1>13. ASSUME (\E k \in HubObjects : Upload(k)) \/ UNCHANGED hubVars PROVE RepliesOwn'
  <2>1. hubCall' = hubCall
    BY <1>13 DEF Upload, hubVars
  <2> QED
    BY <1>1, <1>h, <2>1 DEF RepliesOwn, CallAt, CallKey
<1> QED
  <2>1. CASE \E c \in Callers : CallStep(c)
    BY <1>6, <1>7, <1>8, <1>9, <2>1 DEF CallStep
  <2>2. CASE \E c \in Callers : (\E d \in Fetches[c] : Download(c, d)) \/ HangUp(c) \/ NextCall(c)
    BY <1>5, <1>10, <1>11, <2>2
  <2> QED
    BY <1>12, <1>13, <2>1, <2>2 DEF HubNext

(* The steps by what they may do to the loads: a caller that neither loads  *)
(* nor waits moves alone, or the step is one of the five that start or end  *)
(* a load.                                                                  *)
LEMMA HubCallsMove ==
  ASSUME HubInv, [HubNext]_hubVars
  PROVE  \/ \E c \in Callers :
              /\ ~Loading(c) /\ ~CallAt(c, "wait")
              /\ hubCall'[c].at \in {"idle", "lookup", "open", "direct", "replied"}
              /\ \A x \in Callers : x # c => hubCall'[x] = hubCall[x]
              /\ UNCHANGED <<inflight, hubDisk>> /\ RangeOf(hubLru') = RangeOf(hubLru)
         \/ \E c \in Callers : GetOrLoad(c) /\ CallKey(c) \notin RangeOf(hubLru)
         \/ \E c \in Callers : FetchObject(c) \/ LoadDone(c) \/ HangUp(c)
         \/ HubRestart
         \/ UNCHANGED <<hubCall, inflight, hubDisk, hubLru>>
<1>1. /\ hubCall \in [Callers -> [d : Downloads, ctx : {"live", "cancelled"}, body : HubObjects \cup {HubNone},
           status : {0, 200, 304, 400, 401, 403, 404, 500},
           at : {"idle", "lookup", "wait", "load", "loaded", "missing", "broken", "open",
                 "direct", "replied"}]]
      /\ \A c \in Callers : CallKey(c) \in CacheKeys
  BY KeysOwned DEF HubInv, HubTypeOK
<1> DEFINE Quiet(c) == /\ ~Loading(c) /\ ~CallAt(c, "wait")
                       /\ hubCall'[c].at \in {"idle", "lookup", "open", "direct", "replied"}
                       /\ \A x \in Callers : x # c => hubCall'[x] = hubCall[x]
                       /\ UNCHANGED <<inflight, hubDisk>> /\ RangeOf(hubLru') = RangeOf(hubLru)
<1>2. ASSUME NEW c \in Callers, NEW d \in Fetches[c], Download(c, d) PROVE Quiet(c)
  <2>1. \E st \in {0, 304, 400, 401, 403}, a \in {"replied", "lookup", "direct"} :
          hubCall' = [hubCall EXCEPT ![c] = NewCall(d, a, st)]
    BY <1>2 DEF Download
  <2>2. /\ hubCall'[c].at \in {"idle", "lookup", "open", "direct", "replied"}
        /\ \A x \in Callers : x # c => hubCall'[x] = hubCall[x]
    BY <1>1, <2>1 DEF NewCall
  <2> QED
    BY <1>2, <2>2 DEF Download, Loading, CallAt
<1>3. ASSUME NEW c \in Callers, GetOrLoad(c), CallKey(c) \in RangeOf(hubLru) PROVE Quiet(c)
  <2>1. Move(c, "open") /\ hubLru' = ToFront(hubLru, CallKey(c)) /\ UNCHANGED <<inflight, hubDisk>>
        /\ CallAt(c, "lookup")
    BY <1>3 DEF GetOrLoad
  <2>2. RangeOf(hubLru') = RangeOf(hubLru)
    BY <1>1, <1>3, <2>1, HubHitKeeps
  <2> QED
    BY <1>1, <2>1, <2>2 DEF Move, Loading, CallAt
<1>4. ASSUME NEW c \in Callers, OpenCached(c) PROVE Quiet(c)
  BY <1>1, <1>4 DEF OpenCached, Move, Reply, Loading, CallAt
<1>5. ASSUME NEW c \in Callers, ServeDirect(c) PROVE Quiet(c)
  <2>1. \E st, b : Reply(c, st, b)
    BY <1>5 DEF ServeDirect
  <2> QED
    BY <1>1, <1>5, <2>1 DEF ServeDirect, Reply, Loading, CallAt
<1>6. ASSUME NEW c \in Callers, NextCall(c) PROVE Quiet(c)
  BY <1>1, <1>6 DEF NextCall, IdleCall, NewCall, Loading, CallAt
<1>7. ASSUME (\E k \in HubObjects : Upload(k)) \/ UNCHANGED hubVars
      PROVE  UNCHANGED <<hubCall, inflight, hubDisk, hubLru>>
  BY <1>7 DEF Upload, hubVars
<1> HIDE DEF Quiet
<1>8. CASE \E c \in Callers : CallStep(c)
  BY <1>3, <1>4, <1>5, <1>8 DEF CallStep, Quiet
<1>9. CASE \E c \in Callers : (\E d \in Fetches[c] : Download(c, d)) \/ HangUp(c) \/ NextCall(c)
  BY <1>2, <1>6, <1>9 DEF Quiet
<1> QED
  BY <1>7, <1>8, <1>9 DEF HubNext

(* Every step keeps the loads led and the files their own.                  *)
LEMMA LoadsAndFilesMove ==
  ASSUME HubInv, [HubNext]_hubVars
  PROVE  LoadsLed' /\ FilesOwn'
<1>1. /\ hubCall \in [Callers -> [d : Downloads, ctx : {"live", "cancelled"}, body : HubObjects \cup {HubNone},
           status : {0, 200, 304, 400, 401, 403, 404, 500},
           at : {"idle", "lookup", "wait", "load", "loaded", "missing", "broken", "open",
                 "direct", "replied"}]]
      /\ hubDisk \in [CacheKeys -> HubObjects \cup {HubNone}]
      /\ LoadsLed /\ FilesOwn
      /\ HubNone \notin HubObjects
  BY HubAssumption DEF HubInv, HubTypeOK, HubAssumption
<1>k. \A c \in Callers : CallKey(c) \in CacheKeys /\ StorageKey(hubCall[c].d) \in HubObjects
  BY KeysOwned DEF HubInv
<1>h. \A b, k : HoldsFor(stored, b, k) => HoldsFor(stored', b, k)
  BY StoredGrows
<1>2. CASE UNCHANGED <<hubCall, inflight, hubDisk, hubLru>>
  <2>1. hubCall' = hubCall /\ inflight' = inflight /\ hubDisk' = hubDisk /\ hubLru' = hubLru
    BY <1>2
  <2>2. LoadsLed'
    BY <1>1, <2>1 DEF LoadsLed, Loading, CallAt, CallKey
  <2>3. FilesOwn'
    BY <1>1, <1>h, <2>1 DEF FilesOwn, CallAt, CallKey
  <2> QED
    BY <2>2, <2>3
<1>3. ASSUME NEW c \in Callers,
             /\ ~Loading(c) /\ ~CallAt(c, "wait")
             /\ hubCall'[c].at \in {"idle", "lookup", "open", "direct", "replied"}
             /\ \A x \in Callers : x # c => hubCall'[x] = hubCall[x]
             /\ UNCHANGED <<inflight, hubDisk>> /\ RangeOf(hubLru') = RangeOf(hubLru)
      PROVE  LoadsLed' /\ FilesOwn'
  <2>1. \A x \in Callers : /\ Loading(x)' <=> Loading(x)
                           /\ CallAt(x, "wait")' <=> CallAt(x, "wait")
                           /\ CallAt(x, "loaded")' => CallAt(x, "loaded")
                           /\ Loading(x) \/ CallAt(x, "wait") => CallKey(x)' = CallKey(x)
    BY <1>3 DEF Loading, CallAt, CallKey
  <2>2. \A x \in Callers : CallAt(x, "loaded") => Loading(x)
    BY DEF Loading, CallAt
  <2>3. LoadsLed'
    BY <1>1, <1>3, <2>1 DEF LoadsLed
  <2>4. FilesOwn'
    BY <1>1, <1>h, <1>3, <2>1, <2>2 DEF FilesOwn
  <2> QED
    BY <2>3, <2>4
<1>4. ASSUME NEW c \in Callers, HangUp(c) PROVE LoadsLed' /\ FilesOwn'
  <2>1. \A x \in Callers : hubCall'[x].at = hubCall[x].at /\ hubCall'[x].d = hubCall[x].d
    BY <1>1, <1>4 DEF HangUp
  <2>2. inflight' = inflight /\ hubDisk' = hubDisk /\ hubLru' = hubLru
    BY <1>4 DEF HangUp
  <2>3. \A x \in Callers : /\ Loading(x)' <=> Loading(x)
                           /\ CallAt(x, "wait")' <=> CallAt(x, "wait")
                           /\ CallAt(x, "loaded")' <=> CallAt(x, "loaded")
                           /\ CallKey(x)' = CallKey(x)
    BY <2>1 DEF Loading, CallAt, CallKey
  <2>4. LoadsLed'
    BY <1>1, <2>2, <2>3 DEF LoadsLed
  <2>5. FilesOwn'
    BY <1>1, <1>h, <2>2, <2>3 DEF FilesOwn
  <2> QED
    BY <2>4, <2>5
<1>5. ASSUME NEW c \in Callers, GetOrLoad(c), CallKey(c) \notin RangeOf(hubLru) PROVE LoadsLed' /\ FilesOwn'
  <2>0. CallAt(c, "lookup") /\ hubLru' = hubLru /\ hubDisk' = hubDisk
    BY <1>5 DEF GetOrLoad
  <2>1. CASE CallKey(c) \in inflight /\ Move(c, "wait") /\ UNCHANGED inflight
    <3>1. \A x \in Callers : /\ hubCall'[x].d = hubCall[x].d
                             /\ x # c => hubCall'[x].at = hubCall[x].at
      BY <1>1, <2>1 DEF Move
    <3>2. hubCall'[c].at = "wait"
      BY <1>1, <2>1 DEF Move
    <3>3. \A x \in Callers : /\ Loading(x)' <=> Loading(x)
                             /\ CallAt(x, "wait")' => CallAt(x, "wait") \/ x = c
                             /\ CallAt(x, "loaded")' => CallAt(x, "loaded")
                             /\ CallKey(x)' = CallKey(x)
      BY <2>0, <3>1, <3>2 DEF Loading, CallAt, CallKey
    <3>4. LoadsLed'
      BY <1>1, <2>1, <3>3 DEF LoadsLed
    <3>5. FilesOwn'
      BY <1>1, <1>h, <2>0, <2>1, <3>3 DEF FilesOwn
    <3> QED
      BY <3>4, <3>5
  <2>2. CASE CallKey(c) \notin inflight /\ inflight' = inflight \cup {CallKey(c)} /\ Move(c, "load")
    <3>1. \A x \in Callers : /\ hubCall'[x].d = hubCall[x].d
                             /\ x # c => hubCall'[x].at = hubCall[x].at
      BY <1>1, <2>2 DEF Move
    <3>2. hubCall'[c].at = "load"
      BY <1>1, <2>2 DEF Move
    <3>3. \A x \in Callers : /\ Loading(x)' <=> Loading(x) \/ x = c
                             /\ CallAt(x, "wait")' => CallAt(x, "wait")
                             /\ CallAt(x, "loaded")' => CallAt(x, "loaded")
                             /\ CallKey(x)' = CallKey(x)
      BY <2>0, <3>1, <3>2 DEF Loading, CallAt, CallKey
    <3>4. LoadsLed'
      <4>1. \A x \in Callers : Loading(x) => CallKey(x) # CallKey(c)
        BY <1>1, <2>2 DEF LoadsLed
      <4>2. \A x, y \in Callers : Loading(x)' /\ Loading(y)' /\ CallKey(x)' = CallKey(y)' => x = y
        BY <1>1, <3>3, <4>1 DEF LoadsLed
      <4>3. \A x \in Callers : Loading(x)' \/ CallAt(x, "wait")' => CallKey(x)' \in inflight'
        BY <1>1, <2>2, <3>3 DEF LoadsLed
      <4>4. \A k \in inflight' : \E x \in Callers : Loading(x)' /\ CallKey(x)' = k
        BY <1>1, <2>2, <3>3 DEF LoadsLed
      <4> QED
        BY <4>2, <4>3, <4>4 DEF LoadsLed
    <3>5. FilesOwn'
      BY <1>1, <1>h, <1>5, <2>0, <2>2, <3>3 DEF FilesOwn
    <3> QED
      BY <3>4, <3>5
  <2> QED
    BY <1>5, <2>1, <2>2 DEF GetOrLoad
<1>6. ASSUME NEW c \in Callers, FetchObject(c) PROVE LoadsLed' /\ FilesOwn'
  <2>0. CallAt(c, "load") /\ hubLru' = hubLru /\ inflight' = inflight
    BY <1>6 DEF FetchObject
  <2>1. PICK w \in {"loaded", "missing", "broken"} : Move(c, w)
    BY <1>6 DEF FetchObject
  <2>2. \A x \in Callers : /\ hubCall'[x].d = hubCall[x].d
                           /\ x # c => hubCall'[x].at = hubCall[x].at
    BY <1>1, <2>1 DEF Move
  <2>3. hubCall'[c].at = w
    BY <1>1, <2>1 DEF Move
  <2>4. \A x \in Callers : /\ Loading(x)' <=> Loading(x)
                           /\ CallAt(x, "wait")' => CallAt(x, "wait")
                           /\ CallAt(x, "loaded")' => CallAt(x, "loaded") \/ x = c
                           /\ CallKey(x)' = CallKey(x)
    BY <2>0, <2>1, <2>2, <2>3 DEF Loading, CallAt, CallKey
  <2>5. LoadsLed'
    BY <1>1, <2>0, <2>4 DEF LoadsLed
  <2>6. CASE hubDisk' = hubDisk /\ ~CallAt(c, "loaded")'
    <3>1. FilesOwn'
      BY <1>1, <1>h, <2>0, <2>4, <2>6 DEF FilesOwn
    <3> QED
      BY <2>5, <3>1
  <2>7. CASE /\ hubDisk' = [hubDisk EXCEPT ![CallKey(c)] = StorageKey(hubCall[c].d)]
             /\ StorageKey(hubCall[c].d) \in stored
    <3>1. /\ \A k \in CacheKeys : hubDisk'[k] = hubDisk[k] \/ (k = CallKey(c) /\ hubDisk'[k] = StorageKey(hubCall[c].d))
          /\ hubDisk'[CallKey(c)] = StorageKey(hubCall[c].d)
      BY <1>1, <1>k, <2>7
    <3>2. StorageKey(hubCall[c].d) # HubNone
      BY <1>1, <1>k
    <3>3. \A k \in CacheKeys : hubDisk'[k] = HubNone \/ HoldsFor(stored', hubDisk'[k], k)
      <4>1. HoldsFor(stored', StorageKey(hubCall[c].d), CallKey(c))
        BY <1>h, <2>7, KeysOwned DEF HubInv
      <4> QED
        BY <1>1, <1>h, <3>1, <4>1 DEF FilesOwn
    <3>4. \A k \in CacheKeys : hubDisk[k] # HubNone => hubDisk'[k] # HubNone
      BY <3>1, <3>2
    <3>5. \A k \in RangeOf(hubLru) : k \in CacheKeys
      BY DEF HubInv, HubTypeOK, RangeOf
    <3>6. FilesOwn'
      BY <1>1, <1>k, <2>0, <2>4, <3>1, <3>2, <3>3, <3>4, <3>5 DEF FilesOwn
    <3> QED
      BY <2>5, <3>6
  <2>8. \/ hubDisk' = hubDisk /\ (Move(c, "missing") \/ Move(c, "broken"))
        \/ /\ hubDisk' = [hubDisk EXCEPT ![CallKey(c)] = StorageKey(hubCall[c].d)]
           /\ StorageKey(hubCall[c].d) \in stored
    BY <1>6 DEF FetchObject
  <2>9. Move(c, "missing") \/ Move(c, "broken") => ~CallAt(c, "loaded")'
    BY <1>1 DEF Move, CallAt
  <2> QED
    BY <2>6, <2>7, <2>8, <2>9
<1>7. ASSUME NEW c \in Callers, LoadDone(c) PROVE LoadsLed' /\ FilesOwn'
  <2> DEFINE key == CallKey(c)
  <2>0. /\ hubCall[c].at \in {"loaded", "missing", "broken"}
        /\ inflight' = inflight \ {key}
        /\ hubCall' = [x \in Callers |-> AfterLoad(x, c)]
    BY <1>7 DEF LoadDone
  <2>1. \A x \in Callers : ~Told(x, c) => hubCall'[x] = hubCall[x]
    BY <2>0, AfterLoadCases
  <2>2. ASSUME NEW x \in Callers, Told(x, c)
        PROVE  hubCall'[x].at \in {"open", "replied"} /\ hubCall'[x].d = hubCall[x].d
    <3>1. hubCall'[x] \in LoadResults(hubCall[x])
      BY <2>0, <2>2, AfterLoadCases
    <3>2. CASE hubCall'[x] = [hubCall[x] EXCEPT !.at = "open"]
      BY <1>1, <3>2
    <3>3. CASE hubCall'[x] = [hubCall[x] EXCEPT !.at = "replied", !.status = 404]
      BY <1>1, <3>3
    <3>4. CASE hubCall'[x] = [hubCall[x] EXCEPT !.at = "replied", !.status = 500]
      BY <1>1, <3>4
    <3> QED
      BY <3>1, <3>2, <3>3, <3>4, Zenon DEF LoadResults
  <2>3. Told(c, c) /\ Loading(c) /\ key \in CacheKeys /\ key \in inflight
    BY <1>1, <1>k, <2>0 DEF Told, Loading, LoadsLed
  <2>4. \A x \in Callers : Told(x, c) => CallKey(x) = key
    BY DEF Told
  <2>5. \A x \in Callers : Loading(x)' \/ CallAt(x, "wait")' => ~Told(x, c)
    BY <2>2 DEF Loading, CallAt
  <2>6. \A x \in Callers : CallKey(x)' = CallKey(x)
    BY <2>1, <2>2 DEF CallKey
  <2>7. \A x \in Callers : ~Told(x, c) => /\ Loading(x)' <=> Loading(x)
                                          /\ CallAt(x, "wait")' <=> CallAt(x, "wait")
                                          /\ CallAt(x, "loaded")' <=> CallAt(x, "loaded")
    BY <2>1 DEF Loading, CallAt
  <2>8. \A x \in Callers : Loading(x) \/ CallAt(x, "wait") => (Told(x, c) <=> CallKey(x) = key)
    <3>1. \A x \in Callers : Loading(x) /\ CallKey(x) = key => x = c
      BY <1>1, <2>3 DEF LoadsLed
    <3> QED
      BY <2>4, <3>1 DEF Told
  <2>9. \A x \in Callers : Loading(x) /\ CallKey(x) # key => Loading(x)'
    BY <2>7, <2>8
  <2> HIDE DEF key
  <2>10. LoadsLed'
    <3>1. \A x, y \in Callers : Loading(x)' /\ Loading(y)' /\ CallKey(x)' = CallKey(y)' => x = y
      BY <1>1, <2>5, <2>6, <2>7 DEF LoadsLed
    <3>2. \A x \in Callers : Loading(x)' \/ CallAt(x, "wait")' => CallKey(x)' \in inflight'
      BY <1>1, <2>0, <2>5, <2>6, <2>7, <2>8 DEF LoadsLed
    <3>3. \A k \in inflight' : \E x \in Callers : Loading(x)' /\ CallKey(x)' = k
      BY <1>1, <2>0, <2>6, <2>9 DEF LoadsLed
    <3> QED
      BY <3>1, <3>2, <3>3 DEF LoadsLed
  <2>11. \A x \in Callers : CallAt(x, "loaded")' =>
           CallAt(x, "loaded") /\ CallKey(x)' # key /\ CallKey(x) \in inflight /\ CallKey(x)' = CallKey(x)
    <3>1. \A x \in Callers : CallAt(x, "loaded")' => Loading(x)'
      BY DEF CallAt, Loading
    <3>2. \A x \in Callers : CallAt(x, "loaded") => Loading(x)
      BY DEF CallAt, Loading
    <3> QED
      BY <1>1, <2>5, <2>6, <2>7, <2>8, <3>1, <3>2 DEF LoadsLed
  <2>12. CASE UNCHANGED <<hubLru, hubDisk>>
    <3>1. FilesOwn'
      BY <1>1, <1>h, <2>0, <2>11, <2>12 DEF FilesOwn
    <3> QED
      BY <2>10, <3>1
  <2>13. CASE CallAt(c, "loaded") /\ key \notin RangeOf(hubLru)
    <3>1. InsertLocked(key)
      BY <1>7, <2>13 DEF LoadDone, key
    <3>2. /\ RangeOf(hubLru') \subseteq RangeOf(hubLru) \cup {key}
          /\ \A x \in CacheKeys : hubDisk'[x] =
               IF x \in (RangeOf(hubLru) \cup {key}) \ RangeOf(hubLru') THEN HubNone ELSE hubDisk[x]
      BY <2>3, <2>13, <3>1, InsertSets
    <3>3. \A k \in RangeOf(hubLru) : k \in CacheKeys
      BY DEF HubInv, HubTypeOK, RangeOf
    <3>4. hubDisk[key] # HubNone
      BY <1>1, <2>13 DEF FilesOwn, key
    <3>5. \A k \in CacheKeys : hubDisk'[k] = HubNone \/ HoldsFor(stored', hubDisk'[k], k)
      BY <1>1, <1>h, <3>2 DEF FilesOwn
    <3>6. \A k \in RangeOf(hubLru') : hubDisk'[k] # HubNone /\ k \notin inflight'
      BY <1>1, <2>0, <2>3, <3>2, <3>3, <3>4 DEF FilesOwn
    <3>7. ASSUME NEW x \in Callers, CallAt(x, "loaded")' PROVE hubDisk'[CallKey(x)'] # HubNone
      <4>1. /\ CallAt(x, "loaded") /\ CallKey(x) # key /\ CallKey(x)' = CallKey(x)
            /\ CallKey(x) \notin RangeOf(hubLru) /\ CallKey(x) \in CacheKeys
        BY <1>1, <1>k, <2>11, <3>7 DEF FilesOwn
      <4>2. hubDisk[CallKey(x)] # HubNone
        BY <1>1, <4>1 DEF FilesOwn
      <4>3. hubDisk'[CallKey(x)] = hubDisk[CallKey(x)]
        BY <3>2, <4>1
      <4> QED
        BY <4>1, <4>2, <4>3
    <3>8. FilesOwn'
      BY <3>5, <3>6, <3>7 DEF FilesOwn
    <3> QED
      BY <2>10, <3>8
  <2> QED
    BY <1>7, <2>12, <2>13 DEF LoadDone, InsertLocked, key
<1>8. ASSUME HubRestart PROVE LoadsLed' /\ FilesOwn'
  <2>1. \A x \in Callers : hubCall'[x].at = "idle"
    BY <1>8 DEF HubRestart, IdleCall, NewCall
  <2>2. hubLru' = <<>> /\ inflight' = {} /\ hubDisk' = hubDisk
    BY <1>8 DEF HubRestart
  <2>3. \A x \in Callers : ~Loading(x)' /\ ~CallAt(x, "wait")' /\ ~CallAt(x, "loaded")'
    BY <2>1 DEF Loading, CallAt
  <2>4. RangeOf(<<>>) = {}
    BY DEF RangeOf
  <2>5. LoadsLed'
    BY <2>2, <2>3 DEF LoadsLed
  <2>6. FilesOwn'
    BY <1>1, <1>h, <2>2, <2>3, <2>4 DEF FilesOwn
  <2> QED
    BY <2>5, <2>6
<1> QED
  BY <1>2, <1>3, <1>4, <1>5, <1>6, <1>7, <1>8, HubCallsMove

(* The hub cache's invariant holds in every reachable state: for any       *)
(* downloads, under any tenants and pages, unique ids or not, any sizes    *)
(* and budget, any number of callers, with clients that hang up, failing   *)
(* storage, uploads and restarts over whatever files are left on the disk. *)
THEOREM HubInvariant == HubSpec => []HubInv
<1>1. HubInit => HubInv
  <2> SUFFICES ASSUME HubInit PROVE HubInv
    OBVIOUS
  <2>0. /\ stored = {} /\ hubOn \in BOOLEAN /\ hubDisk = [k \in CacheKeys |-> HubNone]
        /\ hubLru = <<>> /\ hubBytes = 0 /\ inflight = {} /\ hubCall = [c \in Callers |-> IdleCall]
    BY DEF HubInit
  <2>1. IdleCall \in [d : Downloads, ctx : {"live"}, body : {HubNone}, status : {0}, at : {"idle"}]
    <3>1. (CHOOSE d \in Downloads : TRUE) \in Downloads
      BY HubAssumption DEF HubAssumption
    <3> QED
      BY <3>1 DEF IdleCall, NewCall
  <2>2. \A c \in Callers : hubCall[c].at = "idle" /\ hubCall[c].status = 0
    BY <2>0, <2>1
  <2>3. hubCall \in [Callers -> [d : Downloads, ctx : {"live", "cancelled"}, body : HubObjects \cup {HubNone},
           status : {0, 200, 304, 400, 401, 403, 404, 500},
           at : {"idle", "lookup", "wait", "load", "loaded", "missing", "broken", "open",
                 "direct", "replied"}]]
    BY <2>0, <2>1
  <2>4. HubTypeOK
    BY <2>0, <2>3 DEF HubTypeOK
  <2>5. LoadsLed /\ RepliesOwn
    BY <2>0, <2>2 DEF LoadsLed, RepliesOwn, Loading, CallAt
  <2>6. RangeOf(<<>>) = {} /\ Distinct(<<>>)
    BY DEF RangeOf, Distinct
  <2>7. FilesOwn
    <3>1. \A k \in CacheKeys : hubDisk[k] = HubNone
      BY <2>0
    <3> QED
      BY <2>0, <2>2, <2>6, <3>1 DEF FilesOwn, CallAt
  <2>8. HubIndexInv
    <3>1. FileSize \in [CacheKeys -> Nat] /\ <<>> \in Seq(CacheKeys) /\ Len(<<>>) = 0 /\ 0 <= HubMaxBytes
      BY HubAssumption DEF HubAssumption
    <3>2. BytesAfter(FileSize, <<>>, Len(<<>>)) = 0
      BY <3>1, BytesAfterStep
    <3> QED
      BY <2>0, <2>6, <3>1, <3>2 DEF HubIndexInv
  <2> QED
    BY <2>4, <2>5, <2>7, <2>8 DEF HubInv
<1>2. HubInv /\ [HubNext]_hubVars => HubInv'
  BY HubTyped, LoadsAndFilesMove, RepliesMove, HubIndexMoves DEF HubInv
<1> QED
  BY <1>1, <1>2, PTL DEF HubSpec

(* HubSound: a download is answered with a stored object of the deployment *)
(* and file it asked for, and with that of its own page when storage has   *)
(* one and ids are unique there; a key has one load at a time and no       *)
(* waiter is left without one; and the index is right about the disk,      *)
(* exact about its bytes and within its budget (serveCached, getOrLoad,    *)
(* insertLocked).  Nothing is assumed of the tenants and pages clients     *)
(* name; of a request whose path names no stored object only the           *)
(* deployment and the file are claimed.                                    *)
THEOREM HubSoundHolds == HubSpec => []HubSound
<1>1. HubInv => HubSound
  <2> SUFFICES ASSUME HubInv PROVE HubSound
    OBVIOUS
  <2>1. DeploymentIsRequested
    BY DEF HubInv, RepliesOwn, HoldsFor, CallKey, CacheKey, DeploymentIsRequested
  <2>5. StoredBundleServed
    <3> SUFFICES ASSUME IdsUnique, NEW c \in Callers, hubCall[c].status = 200,
                        StorageKey(hubCall[c].d) \in stored
                 PROVE  hubCall[c].body = StorageKey(hubCall[c].d)
      BY DEF StoredBundleServed
    <3> DEFINE d == hubCall[c].d
               b == hubCall[c].body
    <3>1. b \in stored /\ b.dep = d.dep /\ b.file = d.file
      BY <2>1 DEF DeploymentIsRequested
    <3>2. b.tenant = d.tenant /\ b.page = d.page
      BY <3>1 DEF IdsUnique, StorageKey
    <3>3. PICK e \in Downloads : b = StorageKey(e)
      BY <3>1 DEF HubInv, HubTypeOK, HubObjects
    <3> QED
      BY <3>1, <3>2, <3>3 DEF StorageKey
  <2>2. ASSUME NEW k \in inflight
        PROVE  Cardinality({c \in Callers : hubCall[c].at \in {"load", "loaded", "missing", "broken"}
                                            /\ CallKey(c) = k}) = 1
    <3> DEFINE loaders == {c \in Callers : hubCall[c].at \in {"load", "loaded", "missing", "broken"}
                                            /\ CallKey(c) = k}
    <3>1. \E c \in Callers : loaders = {c}
      <4>1. PICK c \in Callers : Loading(c) /\ CallKey(c) = k
        BY DEF HubInv, LoadsLed
      <4>2. \A x \in Callers : Loading(x) /\ CallKey(x) = k => x = c
        BY <4>1 DEF HubInv, LoadsLed
      <4> QED
        BY <4>1, <4>2 DEF Loading
    <3> HIDE DEF loaders
    <3>2. Cardinality(loaders) = 1
      BY <3>1, FS_Singleton, Zenon
    <3> QED
      BY <3>2 DEF loaders
  <2>3. LoadsCollapse
    BY <2>2 DEF HubInv, LoadsLed, LoadsCollapse
  <2>4. HubIndexSound
    BY DEF HubInv, FilesOwn, HubIndexInv, HubIndexSound, Distinct
  <2> QED
    BY <2>1, <2>3, <2>4, <2>5 DEF HubSound
<1> QED
  BY <1>1, HubInvariant, PTL

(* EvictionNeverRefuses: a caller past its load is refused only for what   *)
(* storage or its own context did, never for an eviction.                  *)
THEOREM EvictionNeverRefusesHolds == HubSpec => EvictionNeverRefuses
<1> DEFINE Step == \A c \in Callers :
                     /\ CallAt(c, "open") \/ CallAt(c, "direct")
                     /\ HubLive(c) /\ "storage" \notin HubEnv
                     /\ StorageKey(hubCall[c].d) \in stored
                     /\ hubCall'[c].status # hubCall[c].status
                     => hubCall'[c].status = 200
<1>1. HubInv /\ [HubNext]_hubVars => [Step]_hubVars
  <2> SUFFICES ASSUME HubInv, HubNext, NEW c \in Callers,
                      CallAt(c, "open") \/ CallAt(c, "direct"), HubLive(c), "storage" \notin HubEnv,
                      StorageKey(hubCall[c].d) \in stored, hubCall'[c].status # hubCall[c].status
               PROVE  hubCall'[c].status = 200
    OBVIOUS
  <2>1. /\ hubCall \in [Callers -> [d : Downloads, ctx : {"live", "cancelled"}, body : HubObjects \cup {HubNone},
           status : {0, 200, 304, 400, 401, 403, 404, 500},
           at : {"idle", "lookup", "wait", "load", "loaded", "missing", "broken", "open",
                 "direct", "replied"}]]
        /\ hubCall[c].status = 0
    BY DEF HubInv, HubTypeOK, RepliesOwn, CallAt
  <2>2. ASSUME NEW x \in Callers, OpenCached(x) PROVE hubCall'[c].status = 200
    BY <2>1, <2>2 DEF OpenCached, Move, Reply
  <2>3. ASSUME NEW x \in Callers, ServeDirect(x) PROVE hubCall'[c].status = 200
    <3>1. x = c
      BY <2>1, <2>3 DEF ServeDirect, Reply
    <3>2. Reply(c, 200, StorageKey(hubCall[c].d))
      BY <2>3, <3>1 DEF ServeDirect, HubLive
    <3> QED
      BY <2>1, <3>2 DEF Reply
  <2>4. ASSUME NEW x \in Callers, LoadDone(x) PROVE FALSE
    <3>1. hubCall'[c] = AfterLoad(c, x) /\ hubCall[x].at \in {"loaded", "missing", "broken"}
      BY <2>4 DEF LoadDone
    <3>2. ~Told(c, x)
      BY <3>1 DEF Told, CallAt
    <3> QED
      BY <3>1, <3>2, AfterLoadCases
  <2>5. ASSUME NEW x \in Callers,
               (\E d \in Fetches[x] : Download(x, d)) \/ GetOrLoad(x) \/ FetchObject(x) \/ HangUp(x) \/ NextCall(x)
        PROVE  FALSE
    <3>1. CASE \E d \in Fetches[x] : Download(x, d)
      BY <2>1, <3>1 DEF Download, CallAt
    <3>2. CASE GetOrLoad(x) \/ FetchObject(x)
      BY <2>1, <3>2 DEF GetOrLoad, FetchObject, Move
    <3>3. CASE HangUp(x) \/ NextCall(x)
      BY <2>1, <3>3 DEF HangUp, NextCall, IdleCall, NewCall
    <3> QED
      BY <2>5, <3>1, <3>2, <3>3
  <2>6. ~HubRestart
    BY <2>1 DEF HubRestart, IdleCall, NewCall
  <2>7. ASSUME NEW k \in HubObjects, Upload(k) PROVE FALSE
    BY <2>7 DEF Upload
  <2> QED
    BY <2>2, <2>3, <2>4, <2>5, <2>6, <2>7 DEF HubNext, CallStep
<1> QED
  BY <1>1, HubInvariant, PTL DEF HubSpec, EvictionNeverRefuses

(* HandedOutIsThere, for the two caches together.                          *)
THEOREM HandedOutIsThereHolds == CacheSpec /\ HubSpec => HandedOutIsThere
BY PutPathLiveHolds, EvictionNeverRefusesHolds DEF HandedOutIsThere
=============================================================================
