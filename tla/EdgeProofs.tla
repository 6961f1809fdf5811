----------------------------- MODULE EdgeProofs -----------------------------
(***************************************************************************)
(* Proofs about the router: the limiter of the warning for unknown hosts   *)
(* (HostWarnings), the access records of static responses (AccessLog),     *)
(* which requests leave one (Router), and what a site answers (Site).      *)
(***************************************************************************)
EXTENDS HostWarnings, AccessLog, Router, Site, SeqLemmas, TLAPS, FiniteSetTheorems

(* Two times are an interval apart.                                        *)
Apart(a, b) == a - b >= Interval \/ b - a >= Interval

(* A time is claimed by the CompareAndSwap that wrote it to hostLast: no   *)
(* claim is later than hostLast, two claims are an interval apart, whether *)
(* their warnings are out or still to come, and a handler that goes for    *)
(* the swap has read a time an interval past what it expects there.        *)
ClaimsSpaced ==
  /\ \A n \in 1..Len(warned) : warned[n] <= hostLast
  /\ \A g \in Strays : StrayAt(g, "swap") => stray[g].now <= hostLast
  /\ \A m, n \in 1..Len(warned) : m # n => Apart(warned[m], warned[n])
  /\ \A g \in Strays : StrayAt(g, "swap") => \A n \in 1..Len(warned) : Apart(stray[g].now, warned[n])
  /\ \A g, x \in Strays :
       StrayAt(g, "swap") /\ StrayAt(x, "swap") /\ g # x => Apart(stray[g].now, stray[x].now)
  /\ \A g \in Strays : StrayAt(g, "cas") => stray[g].now - stray[g].last >= Interval

WarningInv == WarningTypeOK /\ ClaimsSpaced /\ SuppressedConserved

(* Every step of the limiter keeps the types of its state.                 *)
LEMMA WarningTyped ==
  ASSUME WarningInv, [WarningNext]_warningVars
  PROVE  WarningTypeOK'
<1>1. /\ clock \in Nat /\ hostLast \in Nat /\ suppressed \in Nat /\ reported \in Nat
      /\ stray \in [Strays -> [at : {"new", "now", "cas", "drop", "swap", "silent", "logged"},
                               now : Nat, last : Nat]]
      /\ warned \in Seq(Nat)
  BY DEF WarningInv, WarningTypeOK
<1>2. CASE Tick
  BY <1>1, <1>2 DEF Tick, WarningTypeOK
<1>3. ASSUME NEW g \in Strays, ReadNow(g) PROVE WarningTypeOK'
  BY <1>1, <1>3 DEF ReadNow, WarningTypeOK
<1>4. ASSUME NEW g \in Strays, LoadLast(g) PROVE WarningTypeOK'
  BY <1>1, <1>4 DEF LoadLast, WarningTypeOK
<1>10. ASSUME NEW g \in Strays, NEW where \in {"drop", "swap", "silent", "logged"}, StrayTo(g, where)
      PROVE  stray' \in [Strays -> [at : {"new", "now", "cas", "drop", "swap", "silent", "logged"},
                                    now : Nat, last : Nat]]
  BY <1>1, <1>10 DEF StrayTo
<1>11. \A g \in Strays : stray[g].now \in Nat
  BY <1>1
<1>5. ASSUME NEW g \in Strays, SwapLast(g) PROVE WarningTypeOK'
  <2>1. StrayTo(g, "drop") \/ StrayTo(g, "swap")
    BY <1>5 DEF SwapLast
  <2>2. hostLast' \in Nat /\ UNCHANGED <<clock, suppressed, warned, reported>>
    BY <1>1, <1>5, <1>11 DEF SwapLast
  <2> QED
    BY <1>1, <1>10, <2>1, <2>2 DEF WarningTypeOK
<1>6. ASSUME NEW g \in Strays, Suppress(g) PROVE WarningTypeOK'
  <2>1. StrayTo(g, "silent")
    BY <1>6 DEF Suppress
  <2>2. suppressed' \in Nat /\ UNCHANGED <<clock, hostLast, warned, reported>>
    BY <1>1, <1>6 DEF Suppress
  <2> QED
    BY <1>1, <1>10, <2>1, <2>2 DEF WarningTypeOK
<1>7. ASSUME NEW g \in Strays, Warn(g) PROVE WarningTypeOK'
  <2>1. StrayTo(g, "logged")
    BY <1>7 DEF Warn
  <2>2. /\ suppressed' \in Nat /\ reported' \in Nat /\ UNCHANGED <<clock, hostLast>>
        /\ warned' \in Seq(Nat)
    BY <1>1, <1>7, <1>11 DEF Warn
  <2> QED
    BY <1>1, <1>10, <2>1, <2>2 DEF WarningTypeOK
<1>8. CASE UNCHANGED warningVars
  BY <1>1, <1>8 DEF warningVars, WarningTypeOK
<1> QED
  BY <1>2, <1>3, <1>4, <1>5, <1>6, <1>7, <1>8 DEF WarningNext

(* Every step keeps the claimed times apart: a swap that succeeds claims a *)
(* time an interval past every claim before it.                            *)
LEMMA ClaimsMove ==
  ASSUME WarningInv, [WarningNext]_warningVars
  PROVE  ClaimsSpaced'
<1>1. /\ clock \in Nat /\ hostLast \in Nat
      /\ stray \in [Strays -> [at : {"new", "now", "cas", "drop", "swap", "silent", "logged"},
                               now : Nat, last : Nat]]
      /\ warned \in Seq(Nat) /\ Interval \in Nat
      /\ \A n \in 1..Len(warned) : warned[n] \in Nat
      /\ ClaimsSpaced
  BY WarningAssumption DEF WarningInv, WarningTypeOK, WarningAssumption
<1>2. ASSUME NEW g \in Strays, ~StrayAt(g, "swap"), ~StrayAt(g, "swap")',
             \A x \in Strays : x # g => stray'[x] = stray[x], UNCHANGED <<warned, hostLast>>,
             StrayAt(g, "cas")' => stray'[g].now - stray'[g].last >= Interval
      PROVE  ClaimsSpaced'
  <2>1. \A x \in Strays : StrayAt(x, "swap")' => StrayAt(x, "swap") /\ stray'[x] = stray[x]
    BY <1>2 DEF StrayAt
  <2>2. \A x \in Strays : x # g => (StrayAt(x, "cas")' <=> StrayAt(x, "cas")) /\ stray'[x] = stray[x]
    BY <1>2 DEF StrayAt
  <2> QED
    BY <1>1, <1>2, <2>1, <2>2 DEF ClaimsSpaced, Apart
<1>3. ASSUME UNCHANGED <<stray, warned, hostLast>> PROVE ClaimsSpaced'
  BY <1>1, <1>3 DEF ClaimsSpaced, StrayAt, Apart
<1>4. ASSUME NEW g \in Strays, ReadNow(g) PROVE ClaimsSpaced'
  BY <1>1, <1>2, <1>4 DEF ReadNow, StrayAt
<1>5. ASSUME NEW g \in Strays, LoadLast(g) PROVE ClaimsSpaced'
  <2>1. /\ ~StrayAt(g, "swap") /\ ~StrayAt(g, "swap")' /\ UNCHANGED <<warned, hostLast>>
        /\ \A x \in Strays : x # g => stray'[x] = stray[x]
    BY <1>1, <1>5 DEF LoadLast, StrayAt
  <2>2. StrayAt(g, "cas")' => stray'[g].now - stray'[g].last >= Interval
    BY <1>1, <1>5 DEF LoadLast, StrayAt
  <2> QED
    BY <1>2, <2>1, <2>2
<1>6. ASSUME NEW g \in Strays, SwapLast(g) PROVE ClaimsSpaced'
  <2>0. StrayAt(g, "cas") /\ UNCHANGED warned
    BY <1>6 DEF SwapLast
  <2>1. CASE UNCHANGED hostLast /\ StrayTo(g, "drop")
    BY <1>1, <1>2, <2>0, <2>1 DEF StrayTo, StrayAt
  <2>2. CASE hostLast = stray[g].last /\ hostLast' = stray[g].now /\ StrayTo(g, "swap")
    <3>1. stray[g].now - hostLast >= Interval /\ stray[g].now \in Nat
      BY <1>1, <2>0, <2>2 DEF ClaimsSpaced
    <3>2. /\ \A x \in Strays : x # g => stray'[x] = stray[x]
          /\ stray'[g].now = stray[g].now /\ stray'[g].at = "swap"
      BY <1>1, <2>2 DEF StrayTo
    <3>3. \A x \in Strays : stray[x].now \in Nat
      BY <1>1
    <3>4. \A n \in 1..Len(warned) : warned[n] <= hostLast' /\ Apart(stray[g].now, warned[n])
      BY <1>1, <2>2, <3>1, SMTT(30) DEF ClaimsSpaced, Apart
    <3>5. \A x \in Strays : x # g /\ StrayAt(x, "swap") =>
            /\ stray[x].now <= hostLast'
            /\ Apart(stray[g].now, stray[x].now) /\ Apart(stray[x].now, stray[g].now)
      BY <1>1, <2>2, <3>1, <3>3 DEF ClaimsSpaced, Apart
    <3>6. \A x \in Strays : StrayAt(x, "swap")' => x = g \/ StrayAt(x, "swap")
      BY <3>2 DEF StrayAt
    <3>7. /\ \A n \in 1..Len(warned') : warned'[n] <= hostLast'
          /\ \A x \in Strays : StrayAt(x, "swap")' => stray'[x].now <= hostLast'
      BY <1>1, <2>0, <2>2, <3>2, <3>4, <3>5, <3>6
    <3>8. \A m, n \in 1..Len(warned') : m # n => Apart(warned'[m], warned'[n])
      BY <1>1, <2>0 DEF ClaimsSpaced
    <3>9. \A x \in Strays : StrayAt(x, "swap")' => \A n \in 1..Len(warned') : Apart(stray'[x].now, warned'[n])
      BY <1>1, <2>0, <3>2, <3>4, <3>6 DEF ClaimsSpaced
    <3>10. \A y, x \in Strays :
             StrayAt(y, "swap")' /\ StrayAt(x, "swap")' /\ y # x => Apart(stray'[y].now, stray'[x].now)
      BY <1>1, <3>2, <3>5, <3>6 DEF ClaimsSpaced
    <3>11. \A x \in Strays : StrayAt(x, "cas")' => stray'[x].now - stray'[x].last >= Interval
      BY <1>1, <3>2 DEF ClaimsSpaced, StrayAt
    <3> QED
      BY <3>7, <3>8, <3>9, <3>10, <3>11 DEF ClaimsSpaced, Apart
  <2> QED
    BY <1>6, <2>1, <2>2 DEF SwapLast
<1>7. ASSUME NEW g \in Strays, Suppress(g) PROVE ClaimsSpaced'
  BY <1>1, <1>2, <1>7 DEF Suppress, StrayTo, StrayAt
<1>8. ASSUME NEW g \in Strays, Warn(g) PROVE ClaimsSpaced'
  <2> DEFINE now == stray[g].now
             len == Len(warned)
  <2>0. /\ StrayAt(g, "swap") /\ hostLast' = hostLast /\ now \in Nat /\ len \in Nat
    BY <1>1, <1>8 DEF Warn
  <2>1. Len(warned') = len + 1 /\ warned'[len + 1] = now /\ \A n \in 1..len : warned'[n] = warned[n]
    BY <1>1, <1>8 DEF Warn
  <2>2. /\ \A x \in Strays : x # g => stray'[x] = stray[x]
        /\ stray'[g].at = "logged"
    BY <1>1, <1>8 DEF Warn, StrayTo
  <2>3. now <= hostLast /\ \A n \in 1..len : Apart(now, warned[n]) /\ warned[n] <= hostLast
    BY <1>1, <2>0 DEF ClaimsSpaced
  <2>4. \A x \in Strays : x # g /\ StrayAt(x, "swap") => Apart(stray[x].now, now)
    BY <1>1, <2>0 DEF ClaimsSpaced
  <2>5. \A x \in Strays : StrayAt(x, "swap")' => x # g /\ StrayAt(x, "swap") /\ stray'[x] = stray[x]
    BY <2>2 DEF StrayAt
  <2>6. \A x \in Strays : StrayAt(x, "cas")' => x # g /\ StrayAt(x, "cas") /\ stray'[x] = stray[x]
    BY <2>2 DEF StrayAt
  <2>7. \A n \in 1..len : Apart(warned[n], now)
    BY <2>3 DEF Apart
  <2>8. \A n \in 1..(len + 1) : n = len + 1 \/ n \in 1..len
    BY <2>0
  <2> HIDE DEF now, len
  <2>9. \A n \in 1..Len(warned') : warned'[n] <= hostLast'
    BY <2>0, <2>1, <2>3, <2>8
  <2>10. \A m, n \in 1..Len(warned') : m # n => Apart(warned'[m], warned'[n])
    <3>1. \A m, n \in 1..len : m # n => Apart(warned[m], warned[n])
      BY <1>1 DEF ClaimsSpaced, len
    <3> QED
      BY <2>1, <2>3, <2>7, <2>8, <3>1
  <2>11. \A x \in Strays : StrayAt(x, "swap")' => stray'[x].now <= hostLast'
    BY <1>1, <2>0, <2>5 DEF ClaimsSpaced
  <2>12. \A x \in Strays : StrayAt(x, "swap")' => \A n \in 1..Len(warned') : Apart(stray'[x].now, warned'[n])
    <3>1. \A x \in Strays : StrayAt(x, "swap") => \A n \in 1..len : Apart(stray[x].now, warned[n])
      BY <1>1 DEF ClaimsSpaced, len
    <3> QED
      BY <2>1, <2>4, <2>5, <2>8, <3>1
  <2>13. \A y, x \in Strays :
           StrayAt(y, "swap")' /\ StrayAt(x, "swap")' /\ y # x => Apart(stray'[y].now, stray'[x].now)
    BY <1>1, <2>5 DEF ClaimsSpaced
  <2>14. \A x \in Strays : StrayAt(x, "cas")' => stray'[x].now - stray'[x].last >= Interval
    BY <1>1, <2>6 DEF ClaimsSpaced
  <2> QED
    BY <2>9, <2>10, <2>11, <2>12, <2>13, <2>14 DEF ClaimsSpaced, Apart
<1>9. CASE Tick \/ UNCHANGED warningVars
  BY <1>3, <1>9 DEF Tick, warningVars
<1> QED
  BY <1>4, <1>5, <1>6, <1>7, <1>8, <1>9 DEF WarningNext

(* Every step keeps the count: only Suppress makes a request silent, and   *)
(* only Warn takes from the counter.                                       *)
LEMMA SilentCounted ==
  ASSUME WarningInv, [WarningNext]_warningVars
  PROVE  SuppressedConserved'
<1> DEFINE Silent == {g \in Strays : StrayAt(g, "silent")}
<1>1. /\ suppressed \in Nat /\ reported \in Nat
      /\ stray \in [Strays -> [at : {"new", "now", "cas", "drop", "swap", "silent", "logged"},
                               now : Nat, last : Nat]]
      /\ reported + suppressed = Cardinality(Silent)
  BY DEF WarningInv, WarningTypeOK, SuppressedConserved
<1>2. IsFiniteSet(Silent)
  BY WarningAssumption, FS_Subset DEF WarningAssumption
<1>3. ASSUME \A g \in Strays : StrayAt(g, "silent")' <=> StrayAt(g, "silent"),
             reported' + suppressed' = reported + suppressed
      PROVE  SuppressedConserved'
  <2>1. Silent' = Silent
    BY <1>3
  <2>2. reported' + suppressed' = Cardinality(Silent')
    <3> HIDE DEF Silent
    <3> QED
      BY <1>1, <1>3, <2>1
  <2> QED
    BY <2>2 DEF SuppressedConserved
<1>4. ASSUME NEW g \in Strays, Suppress(g) PROVE SuppressedConserved'
  <2>1. Silent' = Silent \cup {g} /\ g \notin Silent
    BY <1>1, <1>4 DEF Suppress, StrayAt, StrayTo
  <2>2. reported' = reported /\ suppressed' = suppressed + 1
    BY <1>4 DEF Suppress
  <2>3. Cardinality(Silent') = Cardinality(Silent) + 1
    <3> HIDE DEF Silent
    <3> QED
      BY <1>2, <2>1, FS_AddElement
  <2>4. reported' + suppressed' = Cardinality(Silent')
    <3> HIDE DEF Silent
    <3> QED
      BY <1>1, <2>2, <2>3
  <2> QED
    BY <2>4 DEF SuppressedConserved
<1>5. ASSUME NEW g \in Strays, ReadNow(g) \/ LoadLast(g) \/ SwapLast(g) PROVE SuppressedConserved'
  BY <1>1, <1>3, <1>5 DEF ReadNow, LoadLast, SwapLast, StrayAt, StrayTo
<1>6. ASSUME NEW g \in Strays, Warn(g) PROVE SuppressedConserved'
  BY <1>1, <1>3, <1>6 DEF Warn, StrayAt, StrayTo
<1>7. CASE Tick \/ UNCHANGED warningVars
  BY <1>3, <1>7 DEF Tick, warningVars, StrayAt
<1> QED
  BY <1>4, <1>5, <1>6, <1>7 DEF WarningNext

(* The limiter's invariant holds in every reachable state, for any number  *)
(* of handlers, any interval and any interleaving of their atomics.        *)
THEOREM WarningInvariant == WarningSpec => []WarningInv
<1>1. WarningInit => WarningInv
  <2> SUFFICES ASSUME WarningInit PROVE WarningInv
    OBVIOUS
  <2>1. Interval \in Nat
    BY WarningAssumption DEF WarningAssumption
  <2>2. WarningTypeOK
    BY <2>1 DEF WarningInit, WarningTypeOK
  <2>3. \A g \in Strays : stray[g].at = "new"
    BY DEF WarningInit
  <2>4. warned = <<>> /\ Len(warned) = 0
    BY DEF WarningInit
  <2>5. ClaimsSpaced
    BY <2>3, <2>4 DEF ClaimsSpaced, StrayAt
  <2>6. SuppressedConserved
    <3>1. {g \in Strays : StrayAt(g, "silent")} = {}
      BY <2>3 DEF StrayAt
    <3>2. Cardinality({g \in Strays : StrayAt(g, "silent")}) = 0
      BY <3>1, FS_EmptySet, Zenon
    <3>3. reported = 0 /\ suppressed = 0
      BY DEF WarningInit
    <3> QED
      BY <3>2, <3>3 DEF SuppressedConserved
  <2> QED
    BY <2>2, <2>5, <2>6 DEF WarningInv
<1>2. WarningInv /\ [WarningNext]_warningVars => WarningInv'
  BY WarningTyped, ClaimsMove, SilentCounted DEF WarningInv
<1> QED
  BY <1>1, <1>2, PTL DEF WarningSpec

(* WarningsSound: two warnings are an interval apart, and every suppressed *)
(* request is told of exactly once (logUnknownHost).                       *)
THEOREM WarningsSoundHolds == WarningSpec => []WarningsSound
<1>1. WarningInv => WarningsSound
  <2> SUFFICES ASSUME WarningInv PROVE WarningsSound
    OBVIOUS
  <2>1. Interval \in Nat /\ \A n \in 1..Len(warned) : warned[n] \in Nat
    BY WarningAssumption DEF WarningInv, WarningTypeOK, WarningAssumption
  <2>2. \A m, n \in 1..Len(warned) : m # n => Apart(warned[m], warned[n])
    BY DEF WarningInv, ClaimsSpaced
  <2>3. WarningsSpaced
    BY <2>1, <2>2 DEF Apart, WarningsSpaced
  <2> QED
    BY <2>3 DEF WarningInv, WarningsSound
<1> QED
  BY <1>1, WarningInvariant, PTL

-----------------------------------------------------------------------------
(* Concatenation is associative.                                           *)
Associates(s, t, u) == (s \o t) \o u = s \o (t \o u)
LEMMA ConcatAssociates ==
  ASSUME NEW K, NEW s \in Seq(K), NEW t \in Seq(K), NEW u \in Seq(K)
  PROVE  Associates(s, t, u)
BY ConcatAssociative DEF Associates

(* f[k] is the first k batches put together.                               *)
Joined(batches, f) ==
  f[0] = <<>> /\ \A k \in 1..Len(batches) : f[k] = f[k - 1] \o batches[k]

(* The function that Flat folds with exists, for every sequence.           *)
LEMMA JoinExists ==
  ASSUME NEW K, NEW B \in Seq(Seq(K))
  PROVE  \E f \in [0..Len(B) -> Seq(K)] : Joined(B, f)
<1> DEFINE Sol(m, f) == f[0] = <<>> /\ \A k \in 1..m : f[k] = f[k - 1] \o B[k]
           Q(m) == m <= Len(B) => \E f \in [0..m -> Seq(K)] : Sol(m, f)
           P == {m \in Nat : Q(m)}
<1> HIDE DEF Q
<1>0. P \subseteq Nat /\ (\A m \in Nat : m \in P <=> Q(m)) /\ Len(B) \in Nat
  OBVIOUS
<1> HIDE DEF P
<1>1. 0 \in P
  <2>1. [k \in 0..0 |-> <<>>] \in [0..0 -> Seq(K)] /\ Sol(0, [k \in 0..0 |-> <<>>])
    OBVIOUS
  <2>2. Q(0)
    BY <2>1 DEF Q
  <2> QED
    BY <1>0, <2>2
<1>2. ASSUME NEW m \in P PROVE m + 1 \in P
  <2> USE DEF Q
  <2>1. SUFFICES ASSUME m + 1 <= Len(B) PROVE \E f \in [0..(m + 1) -> Seq(K)] : Sol(m + 1, f)
    <3>1. m + 1 \in Nat
      BY <1>0
    <3> QED
      BY <1>0, <3>1, Zenon
  <2>2. m \in Nat /\ m <= Len(B)
    BY <1>0, <2>1
  <2>3. PICK g \in [0..m -> Seq(K)] : Sol(m, g)
    BY <1>0, <2>2
  <2> DEFINE last == g[m] \o B[m + 1]
             f == [k \in 0..(m + 1) |-> IF k = m + 1 THEN last ELSE g[k]]
  <2>4. last \in Seq(K)
    <3>1. g[m] \in Seq(K) /\ B[m + 1] \in Seq(K)
      BY <2>1, <2>2
    <3> QED
      BY <3>1, ConcatProperties
  <2>5. f \in [0..(m + 1) -> Seq(K)] /\ f[0] = <<>>
    <3> HIDE DEF last
    <3> QED
      BY <2>2, <2>3, <2>4
  <2>6. ASSUME NEW k \in 1..(m + 1) PROVE f[k] = f[k - 1] \o B[k]
    <3>1. CASE k = m + 1
      <4>1. f[k] = last /\ f[k - 1] = g[m]
        <5> HIDE DEF last
        <5> QED
          BY <2>2, <3>1
      <4> HIDE DEF f
      <4> QED
        BY <3>1, <4>1
    <3>2. CASE k # m + 1
      <4>1. k \in 1..m /\ f[k] = g[k] /\ f[k - 1] = g[k - 1]
        <5> HIDE DEF last
        <5> QED
          BY <2>2, <3>2
      <4> HIDE DEF f
      <4> QED
        BY <2>3, <4>1
    <3> QED
      BY <3>1, <3>2
  <2>7. Sol(m + 1, f)
    <3> HIDE DEF f
    <3> QED
      BY <2>2, <2>5, <2>6
  <2> QED
    <3> HIDE DEF f
    <3> QED
      BY <2>5, <2>7
<1>3. P = Nat
  BY <1>0, <1>1, <1>2, SetInduction
<1>4. Q(Len(B)) /\ Len(B) <= Len(B)
  BY <1>0, <1>3
<1> QED
  BY <1>4, Zenon DEF Q, Joined

(* There is one way to put batches together.                               *)
LEMMA JoinUnique ==
  ASSUME NEW B, Len(B) \in Nat, NEW f, NEW g, Joined(B, f), Joined(B, g)
  PROVE  f[Len(B)] = g[Len(B)]
<1> DEFINE P == {k \in Nat : k <= Len(B) => f[k] = g[k]}
<1>1. P \subseteq Nat /\ 0 \in P
  BY DEF Joined
<1>2. ASSUME NEW k \in P PROVE k + 1 \in P
  <2>1. SUFFICES ASSUME k + 1 <= Len(B) PROVE f[k + 1] = g[k + 1]
    OBVIOUS
  <2>2. k \in Nat /\ f[k] = g[k] /\ k + 1 \in 1..Len(B) /\ (k + 1) - 1 = k
    BY <2>1
  <2>3. f[k + 1] = f[k] \o B[k + 1] /\ g[k + 1] = g[k] \o B[k + 1]
    BY <2>2 DEF Joined
  <2> QED
    BY <2>2, <2>3
<1>3. P = Nat
  <2> HIDE DEF P
  <2> QED
    BY <1>1, <1>2, SetInduction
<1> QED
  BY <1>3

(* Flat puts all batches together.                                         *)
LEMMA FlatJoins ==
  ASSUME NEW K, NEW B \in Seq(Seq(K))
  PROVE  /\ Flat(B) \in Seq(K)
         /\ \A g : Joined(B, g) => Flat(B) = g[Len(B)]
<1> DEFINE f == CHOOSE g : g = [k \in 0..Len(B) |-> IF k = 0 THEN <<>> ELSE g[k - 1] \o B[k]]
<1>1. Flat(B) = f[Len(B)]
  BY Zenon DEF Flat
<1>2. PICK g \in [0..Len(B) -> Seq(K)] : Joined(B, g)
  BY JoinExists, Zenon
<1>3. g = [k \in 0..Len(B) |-> IF k = 0 THEN <<>> ELSE g[k - 1] \o B[k]]
  <2>1. Len(B) \in Nat /\ \A k \in 0..Len(B) : k = 0 \/ k \in 1..Len(B)
    OBVIOUS
  <2>2. \A k \in 0..Len(B) : g[k] = IF k = 0 THEN <<>> ELSE g[k - 1] \o B[k]
    BY <1>2, <2>1, Zenon DEF Joined
  <2>3. g = [k \in 0..Len(B) |-> g[k]]
    OBVIOUS
  <2> QED
    BY <2>2, <2>3, Zenon
<1>4. f = [k \in 0..Len(B) |-> IF k = 0 THEN <<>> ELSE f[k - 1] \o B[k]]
  BY <1>3, Zenon
<1> HIDE DEF f
<1>5. Joined(B, f)
  <2>1. Len(B) \in Nat /\ 0 \in 0..Len(B) /\ \A k \in 1..Len(B) : k \in 0..Len(B) /\ k # 0
    OBVIOUS
  <2>2. \A k \in 0..Len(B) : f[k] = IF k = 0 THEN <<>> ELSE f[k - 1] \o B[k]
    BY <1>4, Zenon
  <2> QED
    BY <2>1, <2>2, Zenon DEF Joined
<1>6. Len(B) \in Nat /\ Len(B) \in 0..Len(B)
  OBVIOUS
<1>7. ASSUME NEW h, Joined(B, h) PROVE Flat(B) = h[Len(B)]
  <2>1. f[Len(B)] = h[Len(B)]
    BY <1>5, <1>6, <1>7, JoinUnique
  <2> QED
    BY <1>1, <2>1
<1>8. Flat(B) \in Seq(K)
  <2>1. Flat(B) = g[Len(B)]
    BY <1>2, <1>7
  <2> QED
    BY <1>2, <1>6, <2>1
<1> QED
  BY <1>7, <1>8

(* No batches, no events; a batch sent last comes last; the batch the hub  *)
(* reads first comes first.                                                *)
LEMMA FlatEnds ==
  ASSUME NEW K, NEW B \in Seq(Seq(K))
  PROVE  /\ Flat(<<>>) = <<>>
         /\ \A b \in Seq(K) : Flat(Append(B, b)) = Flat(B) \o b
         /\ B # <<>> => Flat(B) = Head(B) \o Flat(Tail(B))
<1>1. Flat(<<>>) = <<>>
  <2> DEFINE none == <<>>
             f == [k \in 0..0 |-> <<>>]
  <2>1. none \in Seq(Seq(K)) /\ Len(none) = 0
    OBVIOUS
  <2>2. f[0] = <<>>
    OBVIOUS
  <2>3. Joined(none, f)
    <3> HIDE DEF none, f
    <3> QED
      BY <2>1, <2>2 DEF Joined
  <2> HIDE DEF none
  <2>4. Flat(none) = f[0]
    BY <2>1, <2>3, FlatJoins
  <2> QED
    BY <2>2, <2>4 DEF none
<1>2. ASSUME NEW b \in Seq(K) PROVE Flat(Append(B, b)) = Flat(B) \o b
  <2> DEFINE C == Append(B, b)
  <2>1. /\ C \in Seq(Seq(K)) /\ Len(B) \in Nat /\ Len(C) = Len(B) + 1 /\ C[Len(B) + 1] = b
        /\ \A k \in 1..Len(B) : C[k] = B[k] /\ k \in 1..(Len(B) + 1)
    OBVIOUS
  <2> HIDE DEF C
  <2>2. PICK f : Joined(C, f)
    BY <2>1, JoinExists, Zenon
  <2>3. Joined(B, f)
    BY <2>1, <2>2 DEF Joined
  <2>4. Flat(C) = f[Len(C)] /\ Flat(B) = f[Len(B)]
    BY <2>1, <2>2, <2>3, FlatJoins, Zenon
  <2>5. f[Len(B) + 1] = f[Len(B)] \o b
    <3>1. Len(B) + 1 \in 1..Len(C) /\ (Len(B) + 1) - 1 = Len(B)
      BY <2>1
    <3> QED
      BY <2>1, <2>2, <3>1 DEF Joined
  <2> QED
    BY <2>1, <2>4, <2>5 DEF C
<1>3. ASSUME B # <<>> PROVE Flat(B) = Head(B) \o Flat(Tail(B))
  <2> DEFINE T == Tail(B)
             first == B[1]
  <2>1. /\ first \in Seq(K) /\ Head(B) = first /\ T \in Seq(Seq(K)) /\ Len(B) \in Nat \ {0}
        /\ Len(T) = Len(B) - 1 /\ \A k \in 1..(Len(B) - 1) : T[k] = B[k + 1]
    BY <1>3
  <2> HIDE DEF T, first
  <2>2. PICK g \in [0..Len(T) -> Seq(K)] : Joined(T, g)
    BY <2>1, JoinExists, Zenon
  <2> DEFINE h == [k \in 0..Len(B) |-> IF k = 0 THEN <<>> ELSE first \o g[k - 1]]
  <2>3. h[0] = <<>> /\ \A k \in 1..Len(B) : h[k] = first \o g[k - 1]
    BY <2>1
  <2>4. \A k \in 0..Len(T) : g[k] \in Seq(K)
    BY <2>2
  <2>5. ASSUME NEW k \in 1..Len(B) PROVE h[k] = h[k - 1] \o B[k]
    <3>1. CASE k = 1
      <4>0. B[1] = first
        BY DEF first
      <4>1. g[0] = <<>> /\ first \o <<>> = first /\ <<>> \o first = first
        BY <2>1, <2>2, ConcatEmptySeq DEF Joined
      <4> QED
        BY <2>1, <2>3, <3>1, <4>0, <4>1
    <3>2. CASE k # 1
      <4> DEFINE j == k - 1
      <4>1. j \in 1..Len(T) /\ j \in 1..Len(B) /\ j - 1 \in 0..Len(T) /\ j + 1 = k
        BY <2>1, <3>2
      <4> HIDE DEF j
      <4>5. T[j] = B[k]
        BY <2>1, <4>1
      <4>6. g[j] = g[j - 1] \o T[j]
        BY <2>2, <4>1 DEF Joined
      <4>7. T[j] \in Seq(K)
        BY <2>1, <4>1, ElementOfSeq
      <4>8. g[j - 1] \in Seq(K) /\ first \in Seq(K)
        BY <2>1, <2>4, <4>1
      <4>2. T[j] = B[k] /\ g[j] = g[j - 1] \o T[j] /\ T[j] \in Seq(K)
        BY <4>5, <4>6, <4>7
      <4>3. h[k] = first \o g[j] /\ h[j] = first \o g[j - 1]
        BY <2>3, <4>1 DEF j
      <4>4. Associates(first, g[j - 1], T[j])
        BY <4>7, <4>8, ConcatAssociates
      <4> HIDE DEF h
      <4> QED
        BY <4>2, <4>3, <4>4 DEF j, Associates
    <3> QED
      BY <3>1, <3>2
  <2> HIDE DEF h
  <2>6. Joined(B, h)
    BY <2>3, <2>5 DEF Joined
  <2>7. Flat(B) = h[Len(B)] /\ Flat(T) = g[Len(T)]
    BY <2>1, <2>2, <2>6, FlatJoins, Zenon
  <2>8. h[Len(B)] = first \o g[Len(T)]
    BY <2>1, <2>3, SMTT(30)
  <2> QED
    BY <2>1, <2>7, <2>8 DEF T
<1> QED
  BY <1>1, <1>2, <1>3

(* Numbers in their order; all of A before all of B.                       *)
Rising(s) == \A i, j \in DOMAIN s : i < j => s[i] < s[j]
Below(A, B) == \A a \in A : \A b \in B : a < b

(* What a concatenation holds, and when it is in order.                    *)
LEMMA ConcatRises ==
  ASSUME NEW s \in Seq(Nat), NEW t \in Seq(Nat)
  PROVE  /\ s \o t \in Seq(Nat)
         /\ Elements(s \o t) = Elements(s) \cup Elements(t)
         /\ Rising(s \o t) <=> Rising(s) /\ Rising(t) /\ Below(Elements(s), Elements(t))
<1> DEFINE c == s \o t
           m == Len(s)
           n == Len(t)
<1>1. /\ c \in Seq(Nat) /\ m \in Nat /\ n \in Nat
      /\ DOMAIN s = 1..m /\ DOMAIN t = 1..n /\ DOMAIN c = 1..(m + n)
      /\ \A i \in 1..m : c[i] = s[i] /\ s[i] \in Nat
      /\ \A i \in 1..n : c[m + i] = t[i] /\ t[i] \in Nat
  OBVIOUS
<1>2. \A i \in 1..(m + n) : i \in 1..m \/ \E k \in 1..n : i = m + k
  <2> SUFFICES ASSUME NEW i \in 1..(m + n), i \notin 1..m PROVE i - m \in 1..n /\ i = m + (i - m)
    BY <1>1
  <2> QED
    BY <1>1
<1> HIDE DEF c, m, n
<1>3. Elements(c) = Elements(s) \cup Elements(t)
  <2>1. ASSUME NEW i \in 1..(m + n) PROVE c[i] \in Elements(s) \cup Elements(t)
    BY <1>1, <1>2 DEF Elements
  <2>2. ASSUME NEW i \in 1..m PROVE s[i] \in Elements(c)
    <3>1. i \in 1..(m + n)
      BY <1>1
    <3> QED
      BY <1>1, <3>1 DEF Elements
  <2>3. ASSUME NEW i \in 1..n PROVE t[i] \in Elements(c)
    <3>1. m + i \in 1..(m + n)
      BY <1>1
    <3> QED
      BY <1>1, <3>1 DEF Elements
  <2> QED
    BY <1>1, <2>1, <2>2, <2>3, ZenonT(30) DEF Elements
<1>4. ASSUME Rising(c) PROVE Rising(s) /\ Rising(t) /\ Below(Elements(s), Elements(t))
  <2>1. ASSUME NEW i \in 1..m, NEW j \in 1..m, i < j PROVE s[i] < s[j]
    <3>1. i \in 1..(m + n) /\ j \in 1..(m + n)
      BY <1>1
    <3> QED
      BY <1>1, <1>4, <2>1, <3>1 DEF Rising
  <2>2. ASSUME NEW i \in 1..n, NEW j \in 1..n, i < j PROVE t[i] < t[j]
    <3>1. m + i \in 1..(m + n) /\ m + j \in 1..(m + n) /\ m + i < m + j
      BY <1>1, <2>2
    <3>2. c[m + i] < c[m + j]
      BY <1>1, <1>4, <3>1 DEF Rising
    <3> QED
      BY <1>1, <3>2
  <2>3. ASSUME NEW i \in 1..m, NEW j \in 1..n PROVE s[i] < t[j]
    <3>1. i \in 1..(m + n) /\ m + j \in 1..(m + n) /\ i < m + j
      BY <1>1
    <3>2. c[i] < c[m + j]
      BY <1>1, <1>4, <3>1 DEF Rising
    <3> QED
      BY <1>1, <3>2
  <2> QED
    BY <1>1, <2>1, <2>2, <2>3 DEF Rising, Below, Elements
<1>5. ASSUME Rising(s), Rising(t), Below(Elements(s), Elements(t)) PROVE Rising(c)
  <2> SUFFICES ASSUME NEW i \in 1..(m + n), NEW j \in 1..(m + n), i < j PROVE c[i] < c[j]
    BY <1>1 DEF Rising
  <2>1. CASE j \in 1..m
    <3>1. i \in 1..m
      BY <1>1, <2>1
    <3> QED
      BY <1>1, <1>5, <2>1, <3>1 DEF Rising
  <2>2. CASE j \notin 1..m
    <3>1. PICK k \in 1..n : j = m + k
      BY <1>2, <2>2
    <3>2. CASE i \in 1..m
      <4>1. s[i] \in Elements(s) /\ t[k] \in Elements(t)
        BY <1>1, <3>2 DEF Elements
      <4>2. s[i] < t[k]
        BY <1>5, <4>1 DEF Below
      <4> QED
        BY <1>1, <3>1, <3>2, <4>2
    <3>3. CASE i \notin 1..m
      <4>1. PICK l \in 1..n : i = m + l
        BY <1>2, <3>3
      <4>2. l < k
        BY <1>1, <3>1, <4>1
      <4>3. t[l] < t[k]
        BY <1>1, <1>5, <4>2 DEF Rising
      <4> QED
        BY <1>1, <3>1, <4>1, <4>3
    <3> QED
      BY <3>2, <3>3
  <2> QED
    BY <2>1, <2>2
<1> QED
  BY <1>1, <1>3, <1>4, <1>5 DEF c

(* One event more, at the end.                                             *)
LEMMA AppendRises ==
  ASSUME NEW s \in Seq(Nat), NEW x \in Nat
  PROVE  /\ Append(s, x) \in Seq(Nat)
         /\ Elements(Append(s, x)) = Elements(s) \cup {x}
         /\ Rising(s) /\ Below(Elements(s), {x}) => Rising(Append(s, x))
<1> DEFINE one == <<x>>
<1>1. one \in Seq(Nat) /\ Append(s, x) = s \o one
  OBVIOUS
<1>2. Elements(one) = {x} /\ Rising(one)
  BY DEF Elements, Rising
<1> HIDE DEF one
<1>3. /\ s \o one \in Seq(Nat)
      /\ Elements(s \o one) = Elements(s) \cup Elements(one)
      /\ Rising(s \o one) <=> Rising(s) /\ Rising(one) /\ Below(Elements(s), Elements(one))
  BY <1>1, ConcatRises
<1> QED
  BY <1>1, <1>2, <1>3

(* A batch of which the sink takes the first n events.                     *)
LEMMA SplitRises ==
  ASSUME NEW s \in Seq(Nat), NEW n \in 0..Len(s)
  PROVE  LET front == SubSeq(s, 1, n)
             rest == SubSeq(s, n + 1, Len(s))
         IN /\ front \in Seq(Nat) /\ rest \in Seq(Nat)
            /\ Elements(s) = Elements(front) \cup Elements(rest)
            /\ Rising(s) => /\ Rising(front) /\ Rising(rest)
                            /\ Below(Elements(front), Elements(rest))
<1> DEFINE front == SubSeq(s, 1, n)
           rest == SubSeq(s, n + 1, Len(s))
<1>1. front \in Seq(Nat) /\ rest \in Seq(Nat)
  OBVIOUS
<1>2. front \o rest = s
  <2>1. SubSeq(s, 1, Len(s)) = s
    BY SubSeqFull
  <2>2. 1 \in 1..(Len(s) + 1) /\ n \in (1 - 1)..Len(s) /\ Len(s) \in n..Len(s)
    OBVIOUS
  <2>3. front \o rest = SubSeq(s, 1, Len(s))
    BY <2>2, ConcatAdjacentSubSeq
  <2> QED
    BY <2>1, <2>3
<1> HIDE DEF front, rest
<1>3. /\ Elements(front \o rest) = Elements(front) \cup Elements(rest)
      /\ Rising(front \o rest) <=> Rising(front) /\ Rising(rest) /\ Below(Elements(front), Elements(rest))
  BY <1>1, ConcatRises
<1>4. /\ Elements(s) = Elements(front) \cup Elements(rest)
      /\ Rising(s) => Rising(front) /\ Rising(rest) /\ Below(Elements(front), Elements(rest))
  BY <1>2, <1>3
<1> QED
  BY <1>1, <1>4 DEF front, rest

(* The oldest event of a buffer, and the others.                           *)
LEMMA TailRises ==
  ASSUME NEW s \in Seq(Nat), s # <<>>
  PROVE  /\ Tail(s) \in Seq(Nat) /\ Head(s) \in Nat
         /\ Elements(s) = {Head(s)} \cup Elements(Tail(s))
         /\ Rising(s) => Rising(Tail(s)) /\ Below({Head(s)}, Elements(Tail(s)))
<1> DEFINE one == <<Head(s)>>
           rest == Tail(s)
<1>1. one \in Seq(Nat) /\ rest \in Seq(Nat) /\ Head(s) \in Nat /\ s = one \o rest
  OBVIOUS
<1>2. Elements(one) = {Head(s)}
  BY DEF Elements
<1> HIDE DEF one, rest
<1>3. /\ Elements(one \o rest) = Elements(one) \cup Elements(rest)
      /\ Rising(one \o rest) <=> Rising(one) /\ Rising(rest) /\ Below(Elements(one), Elements(rest))
  BY <1>1, ConcatRises
<1> QED
  BY <1>1, <1>2, <1>3 DEF rest

-----------------------------------------------------------------------------
(* Where the first n events are: R recorded, F sent, B in the flusher's    *)
(* hands, U in the buffer, D dropped from it, G lost with a stream.  The   *)
(* places follow each other in the order of the events, and share none.    *)
Placed(R, F, B, U, D, G, n) ==
  /\ R \subseteq Nat /\ F \subseteq Nat /\ B \subseteq Nat /\ U \subseteq Nat /\ n \in Nat
  /\ Below(R, F) /\ Below(R, B) /\ Below(R, U) /\ Below(F, B) /\ Below(F, U) /\ Below(B, U)
  /\ 1..n = R \cup F \cup B \cup U \cup D \cup G
  /\ (R \cup F \cup B \cup U) \cap (D \cup G) = {} /\ D \cap G = {}
  /\ Below(D, U)

(* A new event comes last: into the pod log, into the buffer, or into a    *)
(* full buffer in exchange for its oldest one.                             *)
LEMMA NewEventPlaced ==
  ASSUME NEW R, NEW F, NEW B, NEW U, NEW D, NEW G, NEW n, Placed(R, F, B, U, D, G, n)
  PROVE  /\ Below(R \cup F \cup B \cup U, {n + 1}) /\ n + 1 \in Nat
         /\ F = {} /\ B = {} /\ U = {} => Placed(R \cup {n + 1}, F, B, U, D, G, n + 1)
         /\ Placed(R, F, B, U \cup {n + 1}, D, G, n + 1)
         /\ \A h, T : U = {h} \cup T /\ Below({h}, T) =>
              Placed(R, F, B, T \cup {n + 1}, D \cup {h}, G, n + 1)
<1>1. /\ n \in Nat /\ n + 1 \in Nat /\ 1..(n + 1) = (1..n) \cup {n + 1}
      /\ \A x \in 1..n : x \in Nat /\ x < n + 1
      /\ R \cup F \cup B \cup U \cup D \cup G = 1..n
  BY DEF Placed
<1>2. \A x \in R \cup F \cup B \cup U \cup D \cup G : x \in Nat /\ x < n + 1 /\ x # n + 1
  BY <1>1
<1>3. Below(R \cup F \cup B \cup U, {n + 1})
  BY <1>2 DEF Below
<1>4. ASSUME F = {}, B = {}, U = {} PROVE Placed(R \cup {n + 1}, F, B, U, D, G, n + 1)
  BY <1>1, <1>2, <1>4 DEF Placed, Below
<1>5. Placed(R, F, B, U \cup {n + 1}, D, G, n + 1)
  BY <1>1, <1>2 DEF Placed, Below
<1>6. ASSUME NEW h, NEW T, U = {h} \cup T, Below({h}, T)
      PROVE  Placed(R, F, B, T \cup {n + 1}, D \cup {h}, G, n + 1)
  <2>1. h \in U /\ h \in Nat /\ \A x \in T : x \in U /\ x \in Nat /\ h < x /\ h # x
    BY <1>2, <1>6 DEF Below
  <2>2. \A x \in R \cup F \cup B : x \in Nat /\ x < h /\ x # h
    BY <1>2, <2>1 DEF Placed, Below
  <2>3. h \notin D \cup G /\ h < n + 1 /\ h # n + 1
    BY <1>2, <2>1 DEF Placed
  <2>4. 1..(n + 1) = R \cup F \cup B \cup (T \cup {n + 1}) \cup (D \cup {h}) \cup G
    BY <1>1, <1>6
  <2>5. /\ (R \cup F \cup B \cup (T \cup {n + 1})) \cap ((D \cup {h}) \cup G) = {}
        /\ (D \cup {h}) \cap G = {}
    BY <1>2, <2>1, <2>2, <2>3 DEF Placed
  <2>6. /\ Below(R, T \cup {n + 1}) /\ Below(F, T \cup {n + 1}) /\ Below(B, T \cup {n + 1})
        /\ Below(D \cup {h}, T \cup {n + 1})
    BY <1>2, <2>1, <2>3 DEF Placed, Below
  <2>7. T \cup {n + 1} \subseteq Nat
    BY <1>1, <2>1
  <2> QED
    BY <1>1, <2>4, <2>5, <2>6, <2>7 DEF Placed
<1> QED
  BY <1>1, <1>3, <1>4, <1>5, <1>6

(* The goroutine takes the buffer, ships what it took or loses it, and a   *)
(* stream that breaks takes along what the hub has not read.               *)
LEMMA ShippingPlaced ==
  ASSUME NEW R, NEW F, NEW B, NEW U, NEW D, NEW G, NEW n, Placed(R, F, B, U, D, G, n)
  PROVE  /\ B = {} => Placed(R, F, U, {}, D, G, n)
         /\ Placed(R, F \cup B, {}, U, D, G, n)
         /\ Placed(R, F, {}, U, D, G \cup B, n)
         /\ Placed(R, {}, B, U, D, G \cup F, n)
<1>1. \A x \in R \cup F \cup B \cup U : x \in Nat
  BY DEF Placed
<1>2. B = {} => Placed(R, F, U, {}, D, G, n)
  BY DEF Placed, Below
<1>3. Placed(R, F \cup B, {}, U, D, G, n)
  BY DEF Placed, Below
<1>4. /\ \A x \in B : x \notin R /\ x \notin F /\ x \notin U /\ x \notin D
      /\ \A x \in F : x \notin R /\ x \notin B /\ x \notin U /\ x \notin D
  BY <1>1 DEF Placed, Below
<1>5. Placed(R, F, {}, U, D, G \cup B, n)
  BY <1>4 DEF Placed, Below
<1>6. Placed(R, {}, B, U, D, G \cup F, n)
  BY <1>4 DEF Placed, Below
<1> QED
  BY <1>2, <1>3, <1>5, <1>6

(* Equality under a name, which the prover does not rewrite with.          *)
SameSet(x, y) == x = y

(* The hub reads a batch P \cup Q and writes P of it.                      *)
LEMMA IngestPlaced ==
  ASSUME NEW R, NEW F, NEW B, NEW U, NEW D, NEW G, NEW n, Placed(R, F, B, U, D, G, n),
         NEW P, NEW Q, NEW S, SameSet(F, (P \cup Q) \cup S), Below(P, Q), Below(P \cup Q, S)
  PROVE  Placed(R \cup P, S, B, U, D, G \cup Q, n) /\ Below(R, P)
<1>0. F = (P \cup Q) \cup S
  BY DEF SameSet
<1>1. /\ \A x \in R \cup F \cup B \cup U : x \in Nat
      /\ \A x \in P \cup Q \cup S : x \in F
  BY <1>0 DEF Placed
<1>2. \A x \in Q : x \notin R /\ x \notin P /\ x \notin S /\ x \notin B /\ x \notin U /\ x \notin D
  BY <1>1 DEF Placed, Below
<1>3. /\ 1..n = (R \cup P) \cup S \cup B \cup U \cup D \cup (G \cup Q)
      /\ ((R \cup P) \cup S \cup B \cup U) \cap (D \cup (G \cup Q)) = {} /\ D \cap (G \cup Q) = {}
  BY <1>0, <1>1, <1>2 DEF Placed
<1>4. /\ Below(R \cup P, S) /\ Below(R \cup P, B) /\ Below(R \cup P, U)
      /\ Below(S, B) /\ Below(S, U) /\ Below(R, P)
  BY <1>1 DEF Placed, Below
<1>5. R \cup P \subseteq Nat /\ S \subseteq Nat
  BY <1>1
<1> QED
  BY <1>3, <1>4, <1>5 DEF Placed

Held(events) == Rising(events) /\ events \in Seq(Nat)

(* The events are placed, and in order in every place; the goroutine holds *)
(* a batch only while it ships one, and in pod-log mode nothing is under   *)
(* way.                                                                    *)
AccessInv ==
  /\ flusher \in [at : {"select", "ship", "last", "finish", "stopped"}, batch : Seq(Nat)]
  /\ sent \in Seq(Seq(Nat))
  /\ Held(records) /\ Held(Flat(sent)) /\ Held(flusher.batch) /\ Held(buf)
  /\ Placed(Elements(records), Elements(Flat(sent)), Elements(flusher.batch), Elements(buf),
            discarded, gone, answered)
  /\ flusher.at \notin {"ship", "last"} => flusher.batch = <<>>
  /\ ~viaHub => buf = <<>> /\ flusher.batch = <<>> /\ sent = <<>> /\ flusher.at = "select"

(* Nothing holds nothing.                                                  *)
LEMMA NothingHeld ==
  Held(<<>>) /\ Elements(<<>>) = {} /\ Flat(<<>>) = <<>>
<1>1. <<>> \in Seq(Seq(Nat))
  OBVIOUS
<1>2. Flat(<<>>) = <<>>
  BY <1>1, FlatEnds
<1> QED
  BY <1>2 DEF Held, Elements, Rising

(* logStatic keeps the invariant: an event joins the end of the pod log or *)
(* of the buffer, and a full buffer gives its oldest event up.             *)
LEMMA LogStaticAccounts ==
  ASSUME AccessInv, LogStatic
  PROVE  AccessInv'
<1> DEFINE R == Elements(records)
           F == Elements(Flat(sent))
           B == Elements(flusher.batch)
           U == Elements(buf)
           new == answered + 1
<1>1. /\ UNCHANGED <<viaHub, flusher, sent, gone>> /\ answered' = new
      /\ Held(records) /\ Held(buf)
  BY DEF LogStatic, AccessInv
<1>2. /\ Placed(R, F, B, U, discarded, gone, answered)
      /\ Below(R \cup F \cup B \cup U, {new}) /\ new \in Nat
      /\ F = {} /\ B = {} /\ U = {} => Placed(R \cup {new}, F, B, U, discarded, gone, new)
      /\ Placed(R, F, B, U \cup {new}, discarded, gone, new)
      /\ \A h, T : U = {h} \cup T /\ Below({h}, T) =>
           Placed(R, F, B, T \cup {new}, discarded \cup {h}, gone, new)
  <2>1. Placed(R, F, B, U, discarded, gone, answered)
    BY DEF AccessInv
  <2> HIDE DEF R, F, B, U
  <2> QED
    BY <2>1, NewEventPlaced
<1>3. F' = F /\ B' = B /\ Flat(sent') = Flat(sent) /\ flusher' = flusher /\ sent' = sent
  BY <1>1
<1>4. CASE ~viaHub /\ records' = Append(records, answered') /\ UNCHANGED <<buf, discarded, wake>>
  <2>1. buf = <<>> /\ flusher.batch = <<>> /\ sent = <<>>
    BY <1>4 DEF AccessInv
  <2>2. F = {} /\ B = {} /\ U = {}
    BY <2>1, NothingHeld
  <2>3. Below(R, {new})
    BY <1>2 DEF Below
  <2>4. /\ Append(records, new) \in Seq(Nat) /\ Elements(Append(records, new)) = R \cup {new}
        /\ Rising(Append(records, new))
    BY <1>1, <1>2, <2>3, AppendRises DEF Held
  <2>5. Held(records') /\ R' = R \cup {new} /\ U' = U /\ buf' = buf
    BY <1>1, <1>4, <2>4 DEF Held
  <2>6. Placed(R', F', B', U', discarded', gone', answered')
    <3>1. discarded' = discarded /\ gone' = gone
      BY <1>1, <1>4
    <3> HIDE DEF R, F, B, U, new
    <3> QED
      BY <1>1, <1>2, <1>3, <2>2, <2>5, <3>1
  <2> QED
    BY <1>1, <1>3, <2>5, <2>6 DEF AccessInv
<1>5. CASE /\ viaHub
           /\ buf' = Append(buf, answered') /\ UNCHANGED <<discarded, records>>
  <2>3. Below(U, {new})
    BY <1>2 DEF Below
  <2>4. /\ Append(buf, new) \in Seq(Nat) /\ Elements(Append(buf, new)) = U \cup {new}
        /\ Rising(Append(buf, new))
    BY <1>1, <1>2, <2>3, AppendRises DEF Held
  <2>5. Held(buf') /\ U' = U \cup {new} /\ R' = R /\ records' = records
    BY <1>1, <1>5, <2>4 DEF Held
  <2>6. Placed(R', F', B', U', discarded', gone', answered')
    <3>1. discarded' = discarded /\ gone' = gone
      BY <1>1, <1>5
    <3> HIDE DEF R, F, B, U, new
    <3> QED
      BY <1>1, <1>2, <1>3, <2>5, <3>1
  <2> QED
    BY <1>1, <1>3, <1>5, <2>5, <2>6 DEF AccessInv
<1>6. CASE /\ viaHub /\ buf # <<>>
           /\ buf' = Append(Tail(buf), answered')
           /\ discarded' = discarded \cup {Head(buf)} /\ UNCHANGED records
  <2> DEFINE T == Elements(Tail(buf))
             h == Head(buf)
  <2>1. /\ Tail(buf) \in Seq(Nat) /\ U = {h} \cup T /\ Rising(Tail(buf)) /\ Below({h}, T)
    BY <1>1, <1>6, TailRises DEF Held
  <2>3. Below(T, {new})
    BY <1>2, <2>1 DEF Below
  <2>4. /\ Append(Tail(buf), new) \in Seq(Nat) /\ Elements(Append(Tail(buf), new)) = T \cup {new}
        /\ Rising(Append(Tail(buf), new))
    BY <1>2, <2>1, <2>3, AppendRises
  <2>5. Held(buf') /\ U' = T \cup {new} /\ R' = R /\ records' = records
    BY <1>1, <1>6, <2>4 DEF Held
  <2>6. Placed(R', F', B', U', discarded', gone', answered')
    <3>1. discarded' = discarded \cup {h} /\ gone' = gone
      BY <1>1, <1>6
    <3> HIDE DEF R, F, B, U, T, h, new
    <3>2. Placed(R, F, B, T \cup {new}, discarded \cup {h}, gone, new)
      BY <1>2, <2>1
    <3> QED
      BY <1>1, <1>3, <2>5, <3>1, <3>2
  <2> QED
    BY <1>1, <1>3, <1>6, <2>5, <2>6 DEF AccessInv
<1> QED
  <2>1. Len(buf) >= AccessBuffer => buf # <<>>
    BY <1>1, AccessAssumption DEF Held, AccessAssumption
  <2> QED
    BY <1>4, <1>5, <1>6, <2>1 DEF LogStatic

(* The goroutine, its streams and the hub keep the invariant.              *)
LEMMA ShippingAccounts ==
  ASSUME AccessInv, Flushing \/ IngestAccess \/ ConnectionBreaks
  PROVE  AccessInv'
<1> DEFINE R == Elements(records)
           F == Elements(Flat(sent))
           B == Elements(flusher.batch)
           U == Elements(buf)
<1>1. /\ Placed(R, F, B, U, discarded, gone, answered)
      /\ Held(records) /\ Held(Flat(sent)) /\ Held(flusher.batch) /\ Held(buf)
      /\ sent \in Seq(Seq(Nat))
      /\ flusher \in [at : {"select", "ship", "last", "finish", "stopped"}, batch : Seq(Nat)]
  BY DEF AccessInv
<1>2. /\ B = {} => Placed(R, F, U, {}, discarded, gone, answered)
      /\ Placed(R, F \cup B, {}, U, discarded, gone, answered)
      /\ Placed(R, F, {}, U, discarded, gone \cup B, answered)
      /\ Placed(R, {}, B, U, discarded, gone \cup F, answered)
  <2> HIDE DEF R, F, B, U
  <2> QED
    BY <1>1, ShippingPlaced
<1>3. ASSUME NEW why \in {"tick", "wake", "stop"}, Take(why) PROVE AccessInv'
  <2>1. /\ viaHub /\ flusher.batch = <<>> /\ buf' = <<>>
        /\ UNCHANGED <<viaHub, answered, discarded, sent, records, gone>>
    BY <1>3 DEF Take, AccessInv
  <2>2. /\ flusher'.batch = buf
        /\ flusher' \in [at : {"select", "ship", "last", "finish", "stopped"}, batch : Seq(Nat)]
        /\ flusher'.at \notin {"ship", "last"} => buf = <<>>
    BY <1>1, <1>3 DEF Take, Held
  <2>3. B = {} /\ U' = {} /\ Held(buf') /\ B' = U /\ Held(flusher'.batch)
    BY <1>1, <2>1, <2>2, NothingHeld
  <2>4. R' = R /\ F' = F /\ Held(records') /\ Held(Flat(sent')) /\ sent' \in Seq(Seq(Nat))
    BY <1>1, <2>1
  <2>5. Placed(R', F', B', U', discarded', gone', answered')
    <3> HIDE DEF R, F, B, U
    <3> QED
      BY <1>2, <2>1, <2>3, <2>4
  <2> QED
    BY <2>1, <2>2, <2>3, <2>4, <2>5 DEF AccessInv
<1>4. ASSUME ShipBatch PROVE AccessInv'
  <2>1. /\ flusher.at \in {"ship", "last"} /\ flusher'.batch = <<>>
        /\ flusher' \in [at : {"select", "ship", "last", "finish", "stopped"}, batch : Seq(Nat)]
        /\ UNCHANGED <<viaHub, answered, buf, discarded, records>>
    BY <1>4 DEF ShipBatch, Shipped
  <2>2. B' = {} /\ Held(flusher'.batch)
    BY <2>1, NothingHeld
  <2>3. R' = R /\ U' = U /\ Held(records') /\ Held(buf')
    BY <1>1, <2>1
  <2>4. CASE sent' = Append(sent, flusher.batch) /\ UNCHANGED gone
    <3>1. sent' \in Seq(Seq(Nat)) /\ Flat(sent') = Flat(sent) \o flusher.batch
      BY <1>1, <2>4, FlatEnds
    <3>2. Below(F, B)
      BY <1>1 DEF Placed
    <3>3. Held(Flat(sent')) /\ F' = F \cup B
      BY <1>1, <3>1, <3>2, ConcatRises DEF Held
    <3>4. Placed(R', F', B', U', discarded', gone', answered')
      <4> HIDE DEF R, F, B, U
      <4> QED
        BY <1>2, <2>1, <2>2, <2>3, <2>4, <3>3
    <3>5. viaHub' /\ viaHub
      BY <2>1 DEF AccessInv
    <3> QED
      BY <2>1, <2>2, <2>3, <3>1, <3>3, <3>4, <3>5 DEF AccessInv
  <2>5. CASE gone' = gone \cup B /\ UNCHANGED sent
    <3>1. F' = F /\ Held(Flat(sent')) /\ sent' \in Seq(Seq(Nat))
      BY <1>1, <2>5
    <3>2. Placed(R', F', B', U', discarded', gone', answered')
      <4> HIDE DEF R, F, B, U
      <4> QED
        BY <1>2, <2>1, <2>2, <2>3, <2>5, <3>1
    <3> QED
      BY <2>1, <2>2, <2>3, <2>5, <3>1, <3>2 DEF AccessInv
  <2> QED
    BY <1>4, <2>4, <2>5 DEF ShipBatch
<1>5. ASSUME sent' = <<>>, gone' = gone \cup F, flusher'.batch = flusher.batch,
             flusher' \in [at : {"select", "ship", "last", "finish", "stopped"}, batch : Seq(Nat)],
             flusher'.at \notin {"ship", "last"} => flusher.batch = <<>>,
             viaHub \/ flusher'.at = "select",
             UNCHANGED <<viaHub, answered, buf, discarded, records>>
      PROVE  AccessInv'
  <2>1. F' = {} /\ Held(Flat(sent')) /\ sent' \in Seq(Seq(Nat))
    BY <1>5, NothingHeld
  <2>2. R' = R /\ B' = B /\ U' = U /\ Held(records') /\ Held(flusher'.batch) /\ Held(buf')
    BY <1>1, <1>5
  <2>3. Placed(R', F', B', U', discarded', gone', answered')
    <3> HIDE DEF R, F, B, U
    <3> QED
      BY <1>2, <1>5, <2>1, <2>2
  <2> QED
    BY <1>5, <2>1, <2>2, <2>3 DEF AccessInv
<1>6. ASSUME ResetStream PROVE AccessInv'
  <2>1. /\ flusher.at = "finish" /\ flusher' = [flusher EXCEPT !.at = "stopped"]
        /\ sent' = <<>> /\ gone' = gone \cup F
        /\ UNCHANGED <<viaHub, answered, buf, discarded, records>>
    BY <1>6 DEF ResetStream
  <2>2. flusher.batch = <<>> /\ viaHub
    BY <2>1 DEF AccessInv
  <2>3. /\ flusher'.batch = flusher.batch
        /\ flusher' \in [at : {"select", "ship", "last", "finish", "stopped"}, batch : Seq(Nat)]
    BY <1>1, <2>1
  <2> HIDE DEF F
  <2> QED
    BY <1>5, <2>1, <2>2, <2>3
<1>7. ASSUME ConnectionBreaks PROVE AccessInv'
  <2>1. /\ flusher' = flusher /\ sent' = <<>> /\ gone' = gone \cup F
        /\ UNCHANGED <<viaHub, answered, buf, discarded, records>>
    BY <1>7 DEF ConnectionBreaks
  <2>2. /\ flusher.at \notin {"ship", "last"} => flusher.batch = <<>>
        /\ viaHub \/ flusher.at = "select"
    BY DEF AccessInv
  <2> HIDE DEF F
  <2> QED
    BY <1>1, <1>5, <2>1, <2>2
<1>8. ASSUME IngestAccess PROVE AccessInv'
  <2> DEFINE batch == Head(sent)
             others == Flat(Tail(sent))
  <2>1. /\ sent # <<>> /\ sent' = Tail(sent)
        /\ UNCHANGED <<viaHub, answered, buf, discarded, flusher>>
    BY <1>8 DEF IngestAccess
  <2>2. PICK n \in 0..Len(batch) :
          /\ records' = records \o SubSeq(batch, 1, n)
          /\ gone' = gone \cup Elements(SubSeq(batch, n + 1, Len(batch)))
    BY <1>8 DEF IngestAccess, Written
  <2> DEFINE front == SubSeq(batch, 1, n)
             rest == SubSeq(batch, n + 1, Len(batch))
             P == Elements(front)
             Q == Elements(rest)
             S == Elements(others)
  <2>3. /\ batch \in Seq(Nat) /\ Tail(sent) \in Seq(Seq(Nat)) /\ others \in Seq(Nat)
        /\ Flat(sent) = batch \o others
    <3>1. batch \in Seq(Nat) /\ Tail(sent) \in Seq(Seq(Nat))
      BY <1>1, <2>1
    <3>2. Flat(Tail(sent)) \in Seq(Nat)
      BY <3>1, FlatJoins
    <3>3. Flat(sent) = Head(sent) \o Flat(Tail(sent))
      BY <1>1, <2>1, FlatEnds
    <3> QED
      BY <3>1, <3>2, <3>3
  <2>4. /\ F = Elements(batch) \cup S
        /\ Rising(batch) /\ Rising(others) /\ Below(Elements(batch), S)
    <3> HIDE DEF batch, others
    <3> QED
      BY <1>1, <2>3, ConcatRises DEF Held
  <2>5. /\ front \in Seq(Nat) /\ rest \in Seq(Nat) /\ Elements(batch) = P \cup Q
        /\ Rising(front) /\ Below(P, Q)
    <3> HIDE DEF batch
    <3> QED
      BY <2>3, <2>4, SplitRises
  <2>6. /\ Placed(R \cup P, S, B, U, discarded, gone \cup Q, answered) /\ Below(R, P)
    <3> HIDE DEF R, F, B, U, P, Q, S
    <3>1. SameSet(F, (P \cup Q) \cup S) /\ Below(P \cup Q, S) /\ Below(P, Q)
      BY <2>4, <2>5 DEF SameSet
    <3>2. Placed(R, F, B, U, discarded, gone, answered)
      BY <1>1
    <3> QED
      BY <3>1, <3>2, IngestPlaced, Zenon
  <2>7. Held(records') /\ R' = R \cup P
    <3>1. records' = records \o front
      BY <2>2
    <3> HIDE DEF front
    <3> QED
      BY <1>1, <2>5, <2>6, <3>1, ConcatRises DEF Held
  <2>8. Held(Flat(sent')) /\ F' = S /\ sent' \in Seq(Seq(Nat))
    BY <2>1, <2>3, <2>4 DEF Held
  <2>9. B' = B /\ U' = U /\ Held(flusher'.batch) /\ Held(buf')
    BY <1>1, <2>1
  <2>10. Placed(R', F', B', U', discarded', gone', answered')
    <3>1. gone' = gone \cup Q
      BY <2>2
    <3> HIDE DEF R, F, B, U, P, Q, S
    <3> QED
      BY <2>1, <2>6, <2>7, <2>8, <2>9, <3>1
  <2>11. viaHub
    BY <2>1 DEF AccessInv
  <2> QED
    BY <1>1, <2>1, <2>7, <2>8, <2>9, <2>10, <2>11 DEF AccessInv
<1> QED
  BY <1>3, <1>4, <1>6, <1>7, <1>8 DEF Flushing

(* The invariant holds of every behaviour.                                 *)
THEOREM AccessInvariant == AccessSpec => []AccessInv
<1>1. AccessInit => AccessInv
  <2> SUFFICES ASSUME AccessInit PROVE AccessInv
    OBVIOUS
  <2>1. /\ buf = <<>> /\ sent = <<>> /\ records = <<>> /\ flusher.batch = <<>>
        /\ flusher \in [at : {"select", "ship", "last", "finish", "stopped"}, batch : Seq(Nat)]
        /\ flusher.at = "select" /\ sent \in Seq(Seq(Nat))
        /\ answered = 0 /\ discarded = {} /\ gone = {}
    BY DEF AccessInit
  <2>2. Placed({}, {}, {}, {}, {}, {}, 0)
    BY DEF Placed, Below
  <2> QED
    BY <2>1, <2>2, NothingHeld DEF AccessInv
<1>2. AccessInv /\ [AccessNext]_accessVars => AccessInv'
  <2> SUFFICES ASSUME AccessInv, [AccessNext]_accessVars PROVE AccessInv'
    OBVIOUS
  <2>1. CASE CloseLogger
    BY <2>1 DEF CloseLogger, AccessInv
  <2>2. CASE UNCHANGED accessVars
    BY <2>2 DEF accessVars, AccessInv
  <2> QED
    BY <2>1, <2>2, LogStaticAccounts, ShippingAccounts DEF AccessNext
<1> QED
  BY <1>1, <1>2, PTL DEF AccessSpec

(* Every access record is in exactly one place, in the order of the        *)
(* responses, and a full buffer drops its oldest (pkg/router/log.go).      *)
THEOREM AccessAccountedHolds == AccessSpec => []AccessAccounted
<1>1. AccessInv => AccessAccounted
  <2> SUFFICES ASSUME AccessInv PROVE AccessAccounted
    OBVIOUS
  <2> DEFINE flat == Flat(sent)
             batch == flusher.batch
             two == records \o flat
             three == two \o batch
             way == three \o buf
             R == Elements(records)
             F == Elements(flat)
             B == Elements(batch)
             U == Elements(buf)
  <2>1. /\ Placed(R, F, B, U, discarded, gone, answered)
        /\ Held(records) /\ Held(flat) /\ Held(batch) /\ Held(buf)
    BY DEF AccessInv
  <2>2. Below(R, F) /\ Below(R \cup F, B) /\ Below(R \cup F \cup B, U)
    BY <2>1 DEF Placed, Below
  <2>3. two \in Seq(Nat) /\ Rising(two) /\ Elements(two) = R \cup F
    <3> HIDE DEF flat
    <3> QED
      BY <2>1, <2>2, ConcatRises DEF Held
  <2>4. three \in Seq(Nat) /\ Rising(three) /\ Elements(three) = R \cup F \cup B
    <3> HIDE DEF batch, two
    <3> QED
      BY <2>1, <2>2, <2>3, ConcatRises, ZenonT(30) DEF Held
  <2>5. way \in Seq(Nat) /\ Rising(way) /\ Elements(way) = R \cup F \cup B \cup U
    <3> HIDE DEF three
    <3> QED
      BY <2>1, <2>2, <2>4, ConcatRises, ZenonT(30) DEF Held
  <2>6. \A i \in 1..(Len(way) - 1) : way[i] < way[i + 1]
    <3> HIDE DEF way
    <3> QED
      BY <2>5 DEF Rising
  <2>7. /\ 1..answered = Elements(way) \cup discarded \cup gone
        /\ Elements(way) \cap (discarded \cup gone) = {} /\ discarded \cap gone = {}
        /\ \A d \in discarded : \A u \in U : d < u
    <3> HIDE DEF way, R, F, B, U
    <3> QED
      BY <2>1, <2>5 DEF Placed, Below
  <2>8. \A d \in discarded : \A i \in DOMAIN buf : d < buf[i]
    BY <2>7 DEF Elements
  <2> QED
    BY <2>6, <2>7, <2>8 DEF AccessAccounted
<1> QED
  BY <1>1, AccessInvariant, PTL

-----------------------------------------------------------------------------
(* The statuses a site can answer with.                                    *)
AnswerStatus == ValidRedirectStatus \cup {404}

(* A path without an asset is the nearest error page, the index or a 404.  *)
LEMMA MissStatus ==
  ASSUME NEW files, NEW dir
  PROVE  Miss(files, dir).status \in AnswerStatus
BY DEF Miss, Serve, NotFound, AnswerStatus, ValidRedirectStatus

(* What the files alone answer.                                            *)
LEMMA ResolveStatus ==
  ASSUME NEW files, NEW path
  PROVE  Resolve(files, path).status \in AnswerStatus
<1>1. \A p : ResolveDir(files, p).status \in AnswerStatus
  BY MissStatus DEF ResolveDir, Serve, RedirectTo, AnswerStatus, ValidRedirectStatus
<1>2. \A p : ResolveFile(files, p).status \in AnswerStatus
  BY MissStatus DEF ResolveFile, Serve, RedirectTo, AnswerStatus, ValidRedirectStatus
<1> QED
  BY <1>1, <1>2, MissStatus DEF Resolve, ResolveClean

(* The first rule that takes a path is one of them, or there is none.      *)
LEMMA RuleFound ==
  ASSUME NEW rs, NEW path, Len(rs) \in Nat
  PROVE  RuleFor(rs, path) \in 0..Len(rs)
<1> DEFINE Takes(rule) == Compiles(rule.source) /\ ~rule.host /\ Matches(rule.source, path)
           taken == {i \in 1..Len(rs) : Takes(rs[i])}
           f == [i \in taken |-> i]
<1>1. RuleFor(rs, path) = IF taken # {} THEN Min(taken) ELSE 0
  BY DEF RuleFor, SelectInSeq
<1>2. taken \subseteq 1..Len(rs)
  OBVIOUS
<1> HIDE DEF taken
<1>3. ASSUME taken # {} PROVE Min(taken) \in taken
  <2>1. \A i \in taken : f[i] = i /\ i \in Nat
    BY <1>2
  <2>2. PICK least \in taken : \A i \in taken : f[least] <= f[i]
    <3> HIDE DEF f
    <3> QED
      BY <1>3, <2>1, LeastExists
  <2>3. \A i \in taken : least <= i
    BY <2>1, <2>2
  <2> QED
    BY <2>3 DEF Min
<1>4. CASE taken = {}
  BY <1>1, <1>4
<1>5. CASE taken # {}
  <2>1. RuleFor(rs, path) \in 1..Len(rs)
    BY <1>1, <1>2, <1>3, <1>5, Zenon
  <2> QED
    BY <2>1
<1> QED
  BY <1>4, <1>5

(* What the rules and the files answer, for rules that parsed.             *)
LEMMA ServedStatus ==
  ASSUME NEW files, NEW srules, NEW path, Len(srules.redirects) \in Nat,
         \A i \in 1..Len(srules.redirects) : srules.redirects[i].status \in ValidRedirectStatus
  PROVE  ServeStatic(files, srules, path).status \in AnswerStatus
<1> DEFINE rule == EvalRedirects(srules.redirects, path)
<1>1. rule.ok => rule.status \in ValidRedirectStatus
  BY RuleFound DEF EvalRedirects, FirstApplied, Applied
<1> HIDE DEF rule
<1>2. UnderRule(rule, files, path).status \in AnswerStatus
  BY <1>1, ResolveStatus DEF UnderRule, AnswerStatus
<1> QED
  BY <1>2 DEF ServeStatic, rule

-----------------------------------------------------------------------------
(* A request that was sent to the worker or to the static pipeline is      *)
(* where that branch leads, no record is written before the answer, and an *)
(* open file is sent with a status of the site's own.                      *)
Fields == {"at", "ask", "page", "status", "hash", "route", "logged"}
Resolved == {"store", "manifest", "object", "static", "body", "opening"}
Logged(q) ==
  /\ DOMAIN q = Fields /\ q.ask \in Asks
  /\ q.at \in {"idle", "resolve", "rpc", "acquire", "recv", "proxy", "release", "answered"}
               \cup Resolved
  /\ q.at \in Resolved => q.page \in Infos
  /\ q.at # "answered" => q.logged = 0
  /\ q.at \in {"idle", "resolve", "rpc", "store", "manifest", "object"} => q.route = "none"
  /\ q.at \in {"static", "body", "opening"} => q.route = "static"
  /\ q.at \in {"body", "opening"} => q.status # 502
  /\ q.at \in {"acquire", "recv", "proxy", "release"} => q.route = "dynamic"
  /\ q.at = "answered" => q.logged = IF q.route = "static" /\ q.status # 502 THEN 1 ELSE 0

RequestsLogged == DOMAIN req = Openers /\ \A r \in Openers : Logged(req[r])
LogInv ==
  /\ RequestsLogged
  /\ table \in [RHosts -> Infos \cup {NoPage}]
  /\ resolved \in [RHosts -> Infos \cup {NoPage}]

(* One handler's step changes its own request.                             *)
LEMMA OneRequest ==
  ASSUME LogInv, NEW r \in Openers, NEW q, Logged(q), Set(r, q)
  PROVE  RequestsLogged'
<1>1. DOMAIN req' = Openers /\ \A x \in Openers : req'[x] = IF x = r THEN q ELSE req[x]
  BY DEF Set, LogInv, RequestsLogged
<1> QED
  BY <1>1 DEF LogInv, RequestsLogged

(* What the handlers' ways to go on make of a request.                     *)
LEMMA Moved ==
  ASSUME LogInv, NEW r \in Openers
  PROVE  /\ Logged(req[r])
         /\ \A at : LET q == [req[r] EXCEPT !.at = at] IN
              /\ DOMAIN q = Fields /\ q.at = at /\ q.ask = req[r].ask /\ q.page = req[r].page
              /\ q.logged = req[r].logged /\ q.route = req[r].route /\ q.status = req[r].status
         /\ \A status, log : LET q == [req[r] EXCEPT !.at = "answered", !.status = status, !.logged = @ + log] IN
              /\ DOMAIN q = Fields /\ q.at = "answered" /\ q.ask = req[r].ask
              /\ q.logged = req[r].logged + log /\ q.route = req[r].route /\ q.status = status
BY DEF LogInv, RequestsLogged, Logged, Fields

(* The decision about a request that has its page is that of the pipeline. *)
LEMMA DecisionFound ==
  ASSUME LogInv, NEW r \in Openers, req[r].at \in Resolved
  PROVE  /\ Decision(r).answer.status \in AnswerStatus
         /\ Decision(r).toWorker = ToWorker(Manifest(r).worker, Manifest(r).routes, req[r].ask.path)
<1> DEFINE d == Dep(r)
           a == req[r].ask
<1>1. d \in DOMAIN Manifests /\ a \in Asks
  BY RouterAssumption DEF LogInv, RequestsLogged, Logged, Dep
<1>2. Decision(r) = [toWorker |-> ToWorker(Manifests[d].worker, Manifests[d].routes, a.path),
                     answer |-> ServeStatic(Manifests[d].static, Manifests[d], a.path)]
  BY <1>1 DEF Decision, Decisions
<1>3. ServeStatic(Manifests[d].static, Manifests[d], a.path).status \in AnswerStatus
  <2> HIDE DEF d, a
  <2> QED
    BY <1>1, RouterAssumption, ServedStatus
<1> QED
  BY <1>2, <1>3 DEF Manifest

(* A handler that goes on without an answer.                               *)
LEMMA ToLogged ==
  ASSUME LogInv, NEW r \in Openers, NEW at, To(r, at),
         \/ req[r].at = "resolve" /\ at = "rpc"
         \/ req[r].at = "store" /\ at = "manifest"
         \/ req[r].at = "manifest" /\ at = "object"
         \/ req[r].at = "body" /\ at = "opening"
         \/ req[r].at = "acquire" /\ at = "recv"
         \/ req[r].at = "recv" /\ at = "proxy"
         \/ req[r].at = "release" /\ at = "answered"
  PROVE  RequestsLogged'
<1> DEFINE q == [req[r] EXCEPT !.at = at]
<1>1. /\ DOMAIN q = Fields /\ q.at = at /\ q.ask = req[r].ask /\ q.page = req[r].page
      /\ q.logged = req[r].logged /\ q.route = req[r].route /\ q.status = req[r].status
      /\ Logged(req[r])
  BY Moved
<1>2. Set(r, q)
  BY DEF To
<1> HIDE DEF q
<1>3. Logged(q)
  BY <1>1 DEF Logged, Resolved
<1> QED
  BY <1>2, <1>3, OneRequest

(* A handler that answers: only the static pipeline records, and only what *)
(* is not a 502.                                                           *)
LEMMA RespondLogged ==
  ASSUME LogInv, NEW r \in Openers, NEW status, NEW log, Respond(r, status, log),
         \/ req[r].at \in {"rpc", "object", "acquire", "recv", "proxy"} /\ log = 0
         \/ req[r].at \in {"static", "opening"} /\ log = IF status # 502 THEN 1 ELSE 0
  PROVE  RequestsLogged'
<1> DEFINE q == [req[r] EXCEPT !.at = "answered", !.status = status, !.logged = @ + log]
<1>1. /\ DOMAIN q = Fields /\ q.at = "answered" /\ q.ask = req[r].ask
      /\ q.logged = req[r].logged + log /\ q.route = req[r].route /\ q.status = status
      /\ Logged(req[r])
  BY Moved
<1>2. Set(r, q)
  BY DEF Respond
<1> HIDE DEF q
<1>3. req[r].logged = 0
  BY <1>1 DEF Logged
<1>4. q.logged = log
  BY <1>1, <1>3
<1>5. q.logged = IF q.route = "static" /\ q.status # 502 THEN 1 ELSE 0
  BY <1>1, <1>4 DEF Logged
<1>6. Logged(q)
  BY <1>1, <1>5 DEF Logged, Resolved
<1> QED
  BY <1>2, <1>6, OneRequest

(* A handler that has its page, or the manifest of it.                     *)
LEMMA PageLogged ==
  ASSUME LogInv, NEW r \in Openers, NEW at, NEW info \in Infos,
         Set(r, [req[r] EXCEPT !.at = at, !.page = info]),
         req[r].at \in {"resolve", "rpc"}, at \in {"store", "manifest"}
  PROVE  RequestsLogged'
<1> DEFINE q == [req[r] EXCEPT !.at = at, !.page = info]
<1>1. Logged(req[r])
  BY DEF LogInv, RequestsLogged
<1>2. /\ DOMAIN q = Fields /\ q.at = at /\ q.ask = req[r].ask /\ q.page = info
      /\ q.logged = req[r].logged /\ q.route = req[r].route /\ q.status = req[r].status
  BY <1>1 DEF Logged, Fields
<1> HIDE DEF q
<1>3. Logged(q)
  BY <1>1, <1>2 DEF Logged, Resolved
<1> QED
  BY <1>3, OneRequest DEF q

(* A handler that goes to the worker or to the static pipeline.            *)
LEMMA DispatchLogged ==
  ASSUME LogInv, NEW r \in Openers, Dispatch(r), req[r].at \in {"manifest", "object"}
  PROVE  RequestsLogged'
<1>0. Decision(r).toWorker \in BOOLEAN
  BY DecisionFound DEF ToWorker, Resolved
<1>1. \/ Set(r, [req[r] EXCEPT !.at = "acquire", !.route = "dynamic"])
      \/ Set(r, [req[r] EXCEPT !.at = "static", !.route = "static"])
  <2>1. CASE Decision(r).toWorker = TRUE
    BY <2>1 DEF Dispatch
  <2>2. CASE Decision(r).toWorker = FALSE
    BY <2>2 DEF Dispatch
  <2> QED
    BY <1>0, <2>1, <2>2
<1>2. PICK at, route : /\ \/ at = "acquire" /\ route = "dynamic"
                          \/ at = "static" /\ route = "static"
                       /\ Set(r, [req[r] EXCEPT !.at = at, !.route = route])
  BY <1>1
<1> DEFINE q == [req[r] EXCEPT !.at = at, !.route = route]
<1>3. Logged(req[r])
  BY DEF LogInv, RequestsLogged
<1>4. Set(r, q)
  BY <1>2
<1>5. /\ DOMAIN q = Fields /\ q.at = at /\ q.ask = req[r].ask /\ q.page = req[r].page
      /\ q.logged = req[r].logged /\ q.route = route /\ q.status = req[r].status
  BY <1>3 DEF Logged, Fields
<1> HIDE DEF q
<1>6. Logged(q)
  BY <1>2, <1>3, <1>5 DEF Logged, Resolved
<1> QED
  BY <1>4, <1>6, OneRequest

(* The static pipeline answers, with a record, or opens the file.          *)
LEMMA StaticLogged ==
  ASSUME LogInv, NEW r \in Openers, StaticAnswer(r)
  PROVE  RequestsLogged'
<1>1. req[r].at = "static" /\ req[r].at \in Resolved
  BY DEF StaticAnswer, InReq, Resolved
<1> DEFINE a == Decision(r).answer
           hash == Manifest(r).static[a.key]
<1>2. a.status # 502
  BY <1>1, DecisionFound DEF AnswerStatus, ValidRedirectStatus
<1>3. \/ Respond(r, 405, 1) \/ Respond(r, a.status, 1) \/ Respond(r, 304, 1)
      \/ Set(r, [req[r] EXCEPT !.at = "body", !.status = a.status, !.hash = hash])
  BY DEF StaticAnswer
<1> HIDE DEF a, hash
<1>4. CASE Respond(r, 405, 1) \/ Respond(r, a.status, 1) \/ Respond(r, 304, 1)
  BY <1>1, <1>2, <1>4, RespondLogged
<1>5. CASE Set(r, [req[r] EXCEPT !.at = "body", !.status = a.status, !.hash = hash])
  <2> DEFINE q == [req[r] EXCEPT !.at = "body", !.status = a.status, !.hash = hash]
  <2>1. Logged(req[r])
    BY DEF LogInv, RequestsLogged
  <2>2. /\ DOMAIN q = Fields /\ q.at = "body" /\ q.ask = req[r].ask /\ q.page = req[r].page
        /\ q.logged = req[r].logged /\ q.route = req[r].route /\ q.status = a.status
    BY <2>1 DEF Logged, Fields
  <2>3. Set(r, q)
    BY <1>5
  <2> HIDE DEF q
  <2>4. Logged(q)
    BY <1>1, <1>2, <2>1, <2>2 DEF Logged, Resolved
  <2> QED
    BY <2>3, <2>4, OneRequest
<1> QED
  BY <1>3, <1>4, <1>5

(* Every step keeps the requests; the static cache takes no part.          *)
LEMMA StepLogged ==
  ASSUME LogInv, RouterNext
  PROVE  RequestsLogged'
<1> USE DEF InReq
<1>1. ASSUME NEW r \in Handlers, NEW ask \in AsksOf[r], Accept(r, ask) PROVE RequestsLogged'
  <2> DEFINE q == [NewReq(ask) EXCEPT !.at = "resolve"]
  <2>1. Logged(q) /\ r \in Openers
    BY RouterAssumption DEF Logged, NewReq, Fields, Resolved
  <2>2. Set(r, q)
    BY <1>1 DEF Accept
  <2> HIDE DEF q
  <2> QED
    BY <2>1, <2>2, OneRequest
<1>2. ASSUME NEW r \in Handlers PROVE r \in Openers /\ Host(r) \in RHosts
  BY RouterAssumption DEF LogInv, RequestsLogged, Logged, Host
<1>3. ASSUME NEW r \in Handlers, ResolveCached(r) PROVE RequestsLogged'
  <2>1. CASE resolved[Host(r)] # NoPage
    <3>1. resolved[Host(r)] \in Infos
      BY <1>2, <2>1 DEF LogInv
    <3>2. /\ req[r].at = "resolve"
          /\ Set(r, [req[r] EXCEPT !.at = "manifest", !.page = resolved[Host(r)]])
      BY <1>3, <2>1 DEF ResolveCached
    <3> QED
      BY <1>2, <3>1, <3>2, PageLogged
  <2>2. CASE resolved[Host(r)] = NoPage
    BY <1>2, <1>3, <2>2, ToLogged DEF ResolveCached
  <2> QED
    BY <2>1, <2>2
<1>4. ASSUME NEW r \in Handlers, CallResolve(r) PROVE RequestsLogged'
  <2>1. req[r].at = "rpc"
    BY <1>4 DEF CallResolve
  <2>2. CASE table[Host(r)] # NoPage /\ Set(r, [req[r] EXCEPT !.at = "store", !.page = table[Host(r)]])
    <3>1. table[Host(r)] \in Infos
      BY <1>2, <2>2 DEF LogInv
    <3> QED
      BY <1>2, <2>1, <2>2, <3>1, PageLogged
  <2>3. CASE Respond(r, 404, 0) \/ Respond(r, 502, 0)
    BY <1>2, <2>1, <2>3, RespondLogged
  <2> QED
    BY <1>4, <2>2, <2>3 DEF CallResolve
<1>5. ASSUME NEW r \in Handlers, StorePage(r) PROVE RequestsLogged'
  BY <1>2, <1>5, ToLogged DEF StorePage
<1>6. ASSUME NEW r \in Handlers, ManifestCached(r) PROVE RequestsLogged'
  BY <1>2, <1>6, ToLogged, DispatchLogged DEF ManifestCached
<1>7. ASSUME NEW r \in Handlers, FetchManifest(r) PROVE RequestsLogged'
  BY <1>2, <1>7, RespondLogged, DispatchLogged DEF FetchManifest
<1>8. ASSUME NEW r \in Handlers, StaticAnswer(r) PROVE RequestsLogged'
  BY <1>2, <1>8, StaticLogged
<1>9. ASSUME NEW r \in Handlers, OpenBody(r) PROVE RequestsLogged'
  BY <1>2, <1>9, ToLogged DEF OpenBody
<1>10. ASSUME NEW r \in Handlers, BodyDone(r) PROVE RequestsLogged'
  <2>1. req[r].at = "opening" /\ req[r].status # 502
    BY <1>2, <1>10 DEF BodyDone, LogInv, RequestsLogged, Logged
  <2>2. Respond(r, req[r].status, 1) \/ Respond(r, 502, 0)
    BY <1>10 DEF BodyDone
  <2> QED
    BY <1>2, <2>1, <2>2, RespondLogged
<1>11. ASSUME NEW r \in Handlers, AcquireSlot(r) PROVE RequestsLogged'
  BY <1>2, <1>11, ToLogged, RespondLogged DEF AcquireSlot
<1>12. ASSUME NEW r \in Handlers, Recv(r) PROVE RequestsLogged'
  BY <1>2, <1>12, ToLogged, RespondLogged DEF Recv
<1>13. ASSUME NEW r \in Handlers, Proxy(r) PROVE RequestsLogged'
  <2>1. PICK status : Set(r, [req[r] EXCEPT !.at = "release", !.status = status])
    BY <1>13 DEF Proxy
  <2> DEFINE q == [req[r] EXCEPT !.at = "release", !.status = status]
  <2>2. Logged(req[r]) /\ req[r].at = "proxy"
    BY <1>2, <1>13 DEF LogInv, RequestsLogged, Proxy
  <2>3. /\ DOMAIN q = Fields /\ q.at = "release" /\ q.ask = req[r].ask
        /\ q.logged = req[r].logged /\ q.route = req[r].route
    BY <2>2 DEF Logged, Fields
  <2>4. Set(r, q)
    BY <2>1
  <2> HIDE DEF q
  <2>5. Logged(q)
    BY <2>2, <2>3 DEF Logged, Resolved
  <2> QED
    BY <1>2, <2>4, <2>5, OneRequest
<1>14. ASSUME NEW r \in Handlers, ProxyAborts(r) PROVE RequestsLogged'
  BY <1>2, <1>14, RespondLogged DEF ProxyAborts
<1>15. ASSUME NEW r \in Handlers, ReleaseSlot(r) PROVE RequestsLogged'
  BY <1>2, <1>15, ToLogged DEF ReleaseSlot
<1>16. Logged(IdleReq)
  BY RouterAssumption DEF IdleReq, NewReq, Logged, Fields, Resolved
<1>17. ASSUME NEW r \in Handlers, EndRequest(r) PROVE RequestsLogged'
  BY <1>2, <1>16, <1>17, OneRequest DEF EndRequest
<1>18. ASSUME RouterRestart PROVE RequestsLogged'
  BY <1>16, <1>18 DEF RouterRestart, RequestsLogged
<1>19. ASSUME UNCHANGED req PROVE RequestsLogged'
  BY <1>19 DEF LogInv, RequestsLogged
<1>20. ASSUME NEW r \in Handlers, BodyStep(r) \/ Reclaim(r) PROVE RequestsLogged'
  BY <1>19, <1>20 DEF BodyStep, Reclaim, routerVars
<1>21. ASSUME NEW h \in RHosts, Expire(h) \/ \E info \in Infos \cup {NoPage} : Change(h, info) PROVE RequestsLogged'
  BY <1>19, <1>21 DEF Expire, Change
<1> QED
  BY <1>1, <1>3, <1>4, <1>5, <1>6, <1>7, <1>8, <1>9, <1>10, <1>11, <1>12, <1>13, <1>14, <1>15,
     <1>17, <1>18, <1>20, <1>21 DEF RouterNext, HandlerStep

(* Every step keeps the tables of pages.                                   *)
LEMMA StepTables ==
  ASSUME LogInv, RouterNext
  PROVE  /\ table' \in [RHosts -> Infos \cup {NoPage}]
         /\ resolved' \in [RHosts -> Infos \cup {NoPage}]
<1>1. CASE UNCHANGED <<table, resolved>>
  BY <1>1 DEF LogInv
<1>2. ASSUME NEW r \in Handlers, StorePage(r) PROVE resolved' \in [RHosts -> Infos \cup {NoPage}] /\ UNCHANGED table
  <2>1. req[r].page \in Infos
    BY <1>2, RouterAssumption DEF StorePage, InReq, LogInv, RequestsLogged, Logged, Resolved
  <2> QED
    BY <1>2, <2>1 DEF StorePage, LogInv
<1>3. ASSUME NEW h \in RHosts, NEW info \in Infos \cup {NoPage}, Change(h, info)
      PROVE  table' \in [RHosts -> Infos \cup {NoPage}] /\ UNCHANGED resolved
  BY <1>3 DEF Change, LogInv
<1>4. ASSUME NEW h \in RHosts, Expire(h) PROVE resolved' \in [RHosts -> Infos \cup {NoPage}] /\ UNCHANGED table
  BY <1>4 DEF Expire, LogInv
<1>5. CASE RouterRestart
  BY <1>5 DEF RouterRestart, LogInv
<1>6. ASSUME NEW r \in Handlers, (\E ask \in AsksOf[r] : Accept(r, ask)) \/ Reclaim(r) \/ HandlerStep(r), ~StorePage(r)
      PROVE  UNCHANGED <<table, resolved>>
  BY <1>6 DEF Accept, Reclaim, HandlerStep, ResolveCached, CallResolve, ManifestCached, FetchManifest,
       StaticAnswer, OpenBody, BodyStep, BodyDone, AcquireSlot, Recv, Proxy, ProxyAborts, ReleaseSlot,
       EndRequest, routerVars
<1> QED
  BY <1>1, <1>2, <1>3, <1>4, <1>5, <1>6 DEF RouterNext, LogInv

(* The invariant holds of every behaviour of the router.                   *)
THEOREM LogInvariant == RouterSpec => []LogInv
<1>1. RouterInit => LogInv
  <2> SUFFICES ASSUME RouterInit PROVE LogInv
    OBVIOUS
  <2>1. Logged(IdleReq)
    BY RouterAssumption DEF IdleReq, NewReq, Logged, Fields, Resolved
  <2> QED
    BY <2>1 DEF RouterInit, LogInv, RequestsLogged
<1>2. LogInv /\ [RouterNext]_<<routerVars, cacheVars>> => LogInv'
  <2>1. ASSUME LogInv, UNCHANGED <<routerVars, cacheVars>> PROVE LogInv'
    BY <2>1 DEF routerVars, LogInv, RequestsLogged
  <2> QED
    BY <2>1, StepLogged, StepTables DEF LogInv
<1> QED
  BY <1>1, <1>2, PTL DEF RouterSpec

(* The access log has one record for each answer of the static pipeline,   *)
(* none for a failed open and none for a request that went elsewhere       *)
(* (serveStatic and logStatic in pkg/router).                              *)
THEOREM StaticLoggedOnceHolds == RouterSpec => []StaticLoggedOnce
<1>1. LogInv => StaticLoggedOnce
  BY DEF LogInv, RequestsLogged, Logged, StaticLoggedOnce, InReq
<1> QED
  BY <1>1, LogInvariant, PTL

-----------------------------------------------------------------------------
(* Segments, with the base names that have a meaning of their own.         *)
Bases == STRING \cup {Nameless, ".", "..", "index", "404"}
Segments == [b : Bases, h : Nat]

(* The segments that name files and directories.                           *)
Names == {s \in Segments : IsName(s)}
Cleaned == [ok : BOOLEAN, out : Seq(Names)]

(* One segment more of a path that is being normalized.                    *)
LEMMA StepCleaned ==
  ASSUME NEW acc \in Cleaned, NEW s \in Segments
  PROVE  CleanStep(acc, s) \in Cleaned
<1>1. CASE ~acc.ok \/ s \in {Empty, Seg(".", 0)}
  <2>1. ~(acc.ok /\ s = Seg("..", 0))
    BY <1>1 DEF Empty, Seg, Nameless
  <2>2. CleanStep(acc, s) = acc
    BY <1>1, <2>1, Zenon DEF CleanStep
  <2> QED
    BY <2>2
<1>2. CASE acc.ok /\ s = Seg("..", 0) /\ acc.out = <<>>
  <2>1. CleanStep(acc, s) = [ok |-> FALSE, out |-> <<>>]
    BY <1>2 DEF CleanStep, Empty, Seg
  <2> QED
    BY <2>1 DEF Cleaned
<1>3. CASE acc.ok /\ s = Seg("..", 0) /\ acc.out # <<>>
  <2>1. CleanStep(acc, s) = [ok |-> TRUE, out |-> Front(acc.out)]
    BY <1>3 DEF CleanStep, Empty, Seg
  <2>2. Front(acc.out) \in Seq(Names)
    <3>1. acc.out \in Seq(Names) /\ acc.out # <<>>
      BY <1>3 DEF Cleaned
    <3> QED
      BY <3>1 DEF Front
  <2> QED
    BY <2>1, <2>2 DEF Cleaned
<1>4. CASE acc.ok /\ IsName(s)
  <2>1. CleanStep(acc, s) = [ok |-> TRUE, out |-> Append(acc.out, s)]
    BY <1>4 DEF CleanStep, IsName
  <2>2. acc.out \in Seq(Names) /\ s \in Names
    BY <1>4 DEF Cleaned, Names
  <2>3. Append(acc.out, s) \in Seq(Names)
    BY <2>2
  <2> QED
    BY <2>1, <2>3 DEF Cleaned
<1> QED
  BY <1>1, <1>2, <1>3, <1>4 DEF Cleaned, IsName

(* normalizePath as a fold: its equations have a solution.                 *)
Normalizes(p, f) ==
  /\ f[0] = [ok |-> TRUE, out |-> <<>>]
  /\ \A k \in 1..Len(p) : f[k] = CleanStep(f[k - 1], p[k])
  /\ NormalizePath(p) =
       [ok |-> f[Len(p)].ok,
        path |-> IF f[Len(p)].out = <<>> \/ IsDir(p) THEN Append(f[Len(p)].out, Empty)
                 ELSE f[Len(p)].out]

(* The equations of normalizePath have a solution, of clean paths.         *)
LEMMA NormalExists ==
  ASSUME NEW p \in Seq(Segments)
  PROVE  \E f \in [0..Len(p) -> Cleaned] : Normalizes(p, f)
<1> DEFINE start == [ok |-> TRUE, out |-> <<>>]
           f == CHOOSE h : h = [k \in 0..Len(p) |->
                  IF k = 0 THEN start ELSE CleanStep(h[k - 1], p[k])]
           g == [q \in Cleaned \X Segments |-> CleanStep(q[1], q[2])]
<1>1. NormalizePath(p) =
       [ok |-> f[Len(p)].ok,
        path |-> IF f[Len(p)].out = <<>> \/ IsDir(p) THEN Append(f[Len(p)].out, Empty)
                 ELSE f[Len(p)].out]
  BY Zenon DEF NormalizePath
<1>2. start \in Cleaned /\ \A acc \in Cleaned, s \in Segments : g[<<acc, s>>] \in Cleaned
  <2>1. <<>> \in Seq(Names)
    OBVIOUS
  <2> QED
    BY <2>1, StepCleaned DEF Cleaned
<1>3. \A acc \in Cleaned, s \in Segments : g[<<acc, s>>] = CleanStep(acc, s)
  OBVIOUS
<1> HIDE DEF g, start
<1>4. PICK h \in [0..Len(p) -> Cleaned] : FoldOf(p, start, g, h)
  <2> DEFINE K == Segments
             X == Cleaned
  <2>1. p \in Seq(K) /\ start \in X /\ \A x \in X, y \in K : g[<<x, y>>] \in X
    BY <1>2
  <2> HIDE DEF K, X
  <2>2. \E h \in [0..Len(p) -> X] : FoldOf(p, start, g, h)
    BY <2>1, FoldExists, Zenon
  <2> QED
    BY <2>2 DEF X
<1>5. h = [k \in 0..Len(p) |-> IF k = 0 THEN start ELSE CleanStep(h[k - 1], p[k])]
  <2>1. ASSUME NEW k \in 0..Len(p)
        PROVE  h[k] = IF k = 0 THEN start ELSE CleanStep(h[k - 1], p[k])
    <3>1. CASE k = 0
      BY <1>4, <3>1 DEF FoldOf
    <3>2. CASE k # 0
      <4>1. k \in 1..Len(p) /\ h[k - 1] \in Cleaned /\ p[k] \in Segments
        BY <3>2
      <4> QED
        BY <1>3, <1>4, <3>2, <4>1 DEF FoldOf
    <3> QED
      BY <3>1, <3>2
  <2>2. h = [k \in 0..Len(p) |-> h[k]]
    OBVIOUS
  <2> QED
    BY <2>1, <2>2, Zenon
<1>6. f = [k \in 0..Len(p) |-> IF k = 0 THEN start ELSE CleanStep(f[k - 1], p[k])]
  BY <1>5, Zenon
<1> HIDE DEF f
<1>7. \A k \in 0..Len(p) : f[k] = IF k = 0 THEN start ELSE CleanStep(f[k - 1], p[k])
  BY <1>6, Zenon
<1> DEFINE good(k) == k <= Len(p) => f[k] \in Cleaned
           P == {k \in Nat : good(k)}
<1>8. P \subseteq Nat /\ 0 \in P
  <2>1. f[0] = start
    BY <1>7
  <2> QED
    BY <1>2, <2>1
<1>9. ASSUME NEW k \in P PROVE k + 1 \in P
  <2>1. SUFFICES ASSUME k + 1 <= Len(p) PROVE f[k + 1] \in Cleaned
    OBVIOUS
  <2>2. k \in Nat /\ f[k] \in Cleaned /\ k + 1 \in 0..Len(p) /\ k + 1 # 0 /\ (k + 1) - 1 = k
    BY <2>1
  <2>3. f[k + 1] = CleanStep(f[k], p[k + 1]) /\ p[k + 1] \in Segments
    BY <1>7, <2>2
  <2> QED
    BY <2>2, <2>3, StepCleaned
<1>10. P = Nat
  <2> HIDE DEF P
  <2> QED
    BY <1>8, <1>9, SetInduction
<1>11. f \in [0..Len(p) -> Cleaned]
  <2>1. \A k \in 0..Len(p) : k \in Nat /\ k <= Len(p)
    OBVIOUS
  <2>2. \A k \in 0..Len(p) : f[k] \in Cleaned
    BY <1>10, <2>1
  <2>3. f = [k \in 0..Len(p) |-> f[k]]
    BY <1>6, <1>7, Zenon
  <2> QED
    BY <2>2, <2>3
<1>12. f[0] = start /\ \A k \in 1..Len(p) : f[k] = CleanStep(f[k - 1], p[k])
  BY <1>7
<1> QED
  BY <1>1, <1>11, <1>12 DEF Normalizes, start

(* The path to a directory or file: names, and a slash behind them or not. *)
Normal(p) == \E d \in Seq(Names) : (d # <<>> /\ p = d) \/ p = Append(d, Empty)

(* What normalizePath makes of a path is such a path.                      *)
LEMMA Normalized ==
  ASSUME NEW p \in Seq(Segments)
  PROVE  Normal(NormalizePath(p).path)
<1>1. PICK f \in [0..Len(p) -> Cleaned] : Normalizes(p, f)
  BY NormalExists
<1> DEFINE out == f[Len(p)].out
<1>2. out \in Seq(Names)
  <2>1. Len(p) \in 0..Len(p)
    OBVIOUS
  <2> QED
    BY <2>1 DEF Cleaned
<1>3. NormalizePath(p).path = IF out = <<>> \/ IsDir(p) THEN Append(out, Empty) ELSE out
  BY <1>1 DEF Normalizes
<1> HIDE DEF out
<1> QED
  BY <1>2, <1>3 DEF Normal

(* A prefix of a sequence, and the next longer one.                         *)
LEMMA PrefixGrows ==
  ASSUME NEW K, NEW d \in Seq(K), NEW k \in Nat, k + 1 <= Len(d)
  PROVE  SubSeq(d, 1, k + 1) = Append(SubSeq(d, 1, k), d[k + 1])
<1> DEFINE u == SubSeq(d, 1, k + 1)
           v == SubSeq(d, 1, k)
           w == Append(v, d[k + 1])
<1>1. u \in Seq(K) /\ Len(u) = k + 1 /\ \A i \in 1..(k + 1) : u[i] = d[i]
  OBVIOUS
<1>2. v \in Seq(K) /\ Len(v) = k /\ (\A i \in 1..k : v[i] = d[i]) /\ d[k + 1] \in K
  OBVIOUS
<1> HIDE DEF u, v
<1>3. w \in Seq(K) /\ Len(w) = k + 1 /\ w[k + 1] = d[k + 1] /\ \A i \in 1..k : w[i] = v[i]
  BY <1>2
<1> HIDE DEF w
<1>4. \A i \in 1..(k + 1) : i \in 1..k \/ i = k + 1
  OBVIOUS
<1>5. Len(u) = Len(w) /\ \A i \in 1..Len(u) : u[i] = w[i]
  BY <1>1, <1>2, <1>3, <1>4
<1>6. u = w
  BY <1>1, <1>3, <1>5, SeqEqual
<1> QED
  BY <1>6 DEF u, v, w

(* Names before the last segment stay as they are.                         *)
LEMMA NamesKept ==
  ASSUME NEW d \in Seq(Names), NEW s \in Segments
  PROVE  LET acc == CleanStep([ok |-> TRUE, out |-> d], s)
         IN NormalizePath(Append(d, s)) =
              [ok |-> acc.ok,
               path |-> IF acc.out = <<>> \/ s = Empty THEN Append(acc.out, Empty) ELSE acc.out]
<1> DEFINE p == Append(d, s)
           acc == CleanStep([ok |-> TRUE, out |-> d], s)
<1>1. /\ p \in Seq(Segments) /\ Len(p) = Len(d) + 1 /\ p[Len(d) + 1] = s /\ Len(d) \in Nat
      /\ \A k \in 1..Len(d) : p[k] = d[k] /\ d[k] \in Names
  <2>1. d \in Seq(Segments)
    BY DEF Names
  <2> QED
    BY <2>1
<1>2. Last(p) = s
  BY <1>1 DEF Last
<1> HIDE DEF p
<1>3. PICK f \in [0..Len(p) -> Cleaned] : Normalizes(p, f)
  BY <1>1, NormalExists
<1> DEFINE kept(k) == f[k] = [ok |-> TRUE, out |-> SubSeq(d, 1, k)]
           P == {k \in Nat : k <= Len(d) => kept(k)}
<1>4. P \subseteq Nat /\ 0 \in P
  <2>1. SubSeq(d, 1, 0) = <<>>
    OBVIOUS
  <2> QED
    BY <1>3, <2>1 DEF Normalizes
<1>5. ASSUME NEW k \in P PROVE k + 1 \in P
  <2>1. SUFFICES ASSUME k + 1 <= Len(d) PROVE kept(k + 1)
    OBVIOUS
  <2>2. k \in Nat /\ kept(k) /\ k + 1 \in 1..Len(p) /\ (k + 1) - 1 = k /\ k + 1 \in 1..Len(d)
    BY <1>1, <2>1
  <2>3. f[k + 1] = CleanStep(f[k], d[k + 1]) /\ d[k + 1] \in Names
    BY <1>1, <1>3, <2>2 DEF Normalizes
  <2> DEFINE o == SubSeq(d, 1, k)
             n == d[k + 1]
  <2>4. CleanStep([ok |-> TRUE, out |-> o], n) = [ok |-> TRUE, out |-> Append(o, n)]
    <3> HIDE DEF o, n
    <3>1. IsName(n)
      BY <2>3 DEF Names, n
    <3> QED
      BY <3>1 DEF CleanStep, IsName
  <2>5. SubSeq(d, 1, k + 1) = Append(o, n)
    BY <2>1, <2>2, PrefixGrows
  <2>6. f[k] = [ok |-> TRUE, out |-> o]
    BY <2>2
  <2> HIDE DEF o, n
  <2>7. f[k + 1] = [ok |-> TRUE, out |-> Append(o, n)]
    BY <2>3, <2>4, <2>6 DEF n
  <2> QED
    BY <2>5, <2>7
<1>6. P = Nat
  <2> HIDE DEF P
  <2> QED
    BY <1>4, <1>5, SetInduction
<1>7. f[Len(d)] = [ok |-> TRUE, out |-> d]
  <2>1. kept(Len(d))
    <3>1. Len(d) \in P
      BY <1>1, <1>6, Zenon
    <3>2. Len(d) <= Len(d)
      BY <1>1
    <3> QED
      BY <3>1, <3>2, Zenon
  <2>2. SubSeq(d, 1, Len(d)) = d
    OBVIOUS
  <2> QED
    BY <2>1, <2>2
<1>8. f[Len(p)] = acc
  <2>1. Len(p) \in 1..Len(p) /\ Len(p) - 1 = Len(d) /\ p[Len(p)] = s
    BY <1>1
  <2>2. f[Len(p)] = CleanStep(f[Len(p) - 1], p[Len(p)])
    BY <1>3, <2>1 DEF Normalizes
  <2> QED
    BY <1>7, <2>1, <2>2, Zenon
<1> HIDE DEF acc
<1>9. NormalizePath(p) =
        [ok |-> acc.ok,
         path |-> IF acc.out = <<>> \/ s = Empty THEN Append(acc.out, Empty) ELSE acc.out]
  BY <1>2, <1>3, <1>8, Zenon DEF Normalizes, IsDir
<1> QED
  BY <1>9, Zenon DEF p, acc

(* What becomes of a name, a slash, "." and ".." behind names.             *)
LEMMA NormalizeCases ==
  ASSUME NEW d \in Seq(Names)
  PROVE  /\ \A s \in Names \cup {Empty} :
              NormalizePath(Append(d, s)) = [ok |-> TRUE, path |-> Append(d, s)]
         /\ NormalizePath(Append(d, Seg(".", 0))) =
              [ok |-> TRUE, path |-> IF d = <<>> THEN <<Empty>> ELSE d]
         /\ LET n == NormalizePath(Append(d, Seg("..", 0)))
            IN /\ n.ok <=> d # <<>>
               /\ d # <<>> => n.path = IF Front(d) = <<>> THEN <<Empty>> ELSE Front(d)
<1> DEFINE start == [ok |-> TRUE, out |-> d]
<1>0. start.ok = TRUE /\ start.out = d
  OBVIOUS
<1>1. /\ Empty # Seg(".", 0) /\ Empty # Seg("..", 0) /\ Seg(".", 0) # Seg("..", 0)
      /\ Empty \in Segments /\ Seg(".", 0) \in Segments /\ Seg("..", 0) \in Segments
      /\ Names \subseteq Segments
  <2>1. Empty # Seg(".", 0) /\ Empty # Seg("..", 0) /\ Seg(".", 0) # Seg("..", 0)
    BY DEF Empty, Seg, Nameless
  <2>2. Empty \in Segments /\ Seg(".", 0) \in Segments /\ Seg("..", 0) \in Segments
    BY DEF Empty, Seg, Nameless, Segments, Bases
  <2> QED
    BY <2>1, <2>2 DEF Names
<1> HIDE DEF start
<1>2. ASSUME NEW s \in Names
      PROVE  NormalizePath(Append(d, s)) = [ok |-> TRUE, path |-> Append(d, s)]
  <2>1. CleanStep(start, s) = [ok |-> TRUE, out |-> Append(d, s)]
    BY <1>0 DEF CleanStep, Names, IsName
  <2>2. s # Empty /\ Append(d, s) # <<>>
    BY DEF Names, IsName
  <2>3. NormalizePath(Append(d, s)) =
          [ok |-> CleanStep(start, s).ok,
           path |-> IF CleanStep(start, s).out = <<>> \/ s = Empty
                    THEN Append(CleanStep(start, s).out, Empty) ELSE CleanStep(start, s).out]
    BY <1>1, NamesKept, Zenon DEF start
  <2> DEFINE a == Append(d, s)
             c == CleanStep(start, s)
  <2> HIDE DEF a, c
  <2>4. c.ok = TRUE /\ c.out = a
    BY <2>1 DEF a, c
  <2>5. NormalizePath(a) = [ok |-> TRUE, path |-> a]
    BY <2>2, <2>3, <2>4 DEF a, c
  <2> QED
    BY <2>5 DEF a
<1>3. NormalizePath(Append(d, Empty)) = [ok |-> TRUE, path |-> Append(d, Empty)]
  <2>1. CleanStep(start, Empty) = start
    BY <1>0, <1>1, Zenon DEF CleanStep
  <2>2. NormalizePath(Append(d, Empty)) =
          [ok |-> CleanStep(start, Empty).ok,
           path |-> IF CleanStep(start, Empty).out = <<>> \/ Empty = Empty
                    THEN Append(CleanStep(start, Empty).out, Empty)
                    ELSE CleanStep(start, Empty).out]
    BY <1>1, NamesKept, Zenon DEF start
  <2> QED
    BY <1>0, <2>1, <2>2
<1>4. NormalizePath(Append(d, Seg(".", 0))) = [ok |-> TRUE, path |-> IF d = <<>> THEN <<Empty>> ELSE d]
  <2> DEFINE s == Seg(".", 0)
  <2>1. CleanStep(start, s) = start
    <3>1. ~(start.ok /\ s = Seg("..", 0))
      BY <1>1
    <3> QED
      BY <3>1, Zenon DEF CleanStep
  <2>2. s # Empty /\ s \in Segments
    BY <1>1
  <2> HIDE DEF s
  <2>3. NormalizePath(Append(d, s)) =
          [ok |-> CleanStep(start, s).ok,
           path |-> IF CleanStep(start, s).out = <<>> \/ s = Empty
                    THEN Append(CleanStep(start, s).out, Empty) ELSE CleanStep(start, s).out]
    BY <2>2, NamesKept, Zenon DEF start
  <2>4. Append(<<>>, Empty) = <<Empty>>
    OBVIOUS
  <2> QED
    BY <1>0, <2>1, <2>2, <2>3, <2>4 DEF s
<1>5. LET n == NormalizePath(Append(d, Seg("..", 0)))
      IN /\ n.ok <=> d # <<>>
         /\ d # <<>> => n.path = IF Front(d) = <<>> THEN <<Empty>> ELSE Front(d)
  <2> DEFINE s == Seg("..", 0)
             acc == CleanStep(start, s)
  <2>1. acc = IF d = <<>> THEN [ok |-> FALSE, out |-> <<>>] ELSE [ok |-> TRUE, out |-> Front(d)]
    <3>1. ~(~start.ok \/ s \in {Empty, Seg(".", 0)})
      BY <1>0, <1>1
    <3>2. acc = IF start.out = <<>> THEN [ok |-> FALSE, out |-> <<>>]
                ELSE [ok |-> TRUE, out |-> Front(start.out)]
      BY <1>0, <3>1, Zenon DEF CleanStep
    <3> QED
      BY <1>0, <3>2
  <2>2. s # Empty /\ s \in Segments
    BY <1>1
  <2>3. NormalizePath(Append(d, s)) =
          [ok |-> acc.ok,
           path |-> IF acc.out = <<>> \/ s = Empty THEN Append(acc.out, Empty) ELSE acc.out]
    <3> HIDE DEF s
    <3> QED
      BY <2>2, NamesKept, Zenon DEF start
  <2>4. Append(<<>>, Empty) = <<Empty>>
    OBVIOUS
  <2> DEFINE front == Front(d)
  <2> HIDE DEF s, acc, front
  <2>5. CASE d = <<>>
    <3>1. acc.ok = FALSE
      BY <2>1, <2>5
    <3> QED
      BY <2>3, <2>5, <3>1 DEF s
  <2>6. CASE d # <<>>
    <3>1. acc = [ok |-> TRUE, out |-> front]
      BY <2>1, <2>6, Zenon DEF front
    <3>2. NormalizePath(Append(d, s)) =
            [ok |-> TRUE, path |-> IF front = <<>> THEN <<Empty>> ELSE front]
      BY <2>2, <2>3, <2>4, <3>1
    <3> QED
      BY <2>6, <3>2 DEF s, front
  <2> QED
    BY <2>5, <2>6
<1> QED
  BY <1>2, <1>3, <1>4, <1>5

(* A path, its last segment and what is before it.                         *)
LEMMA PathEnds ==
  ASSUME NEW K, NEW d \in Seq(K), NEW s \in K
  PROVE  /\ Append(d, s) \in Seq(K) /\ Append(d, s) # <<>> /\ Len(Append(d, s)) = Len(d) + 1
         /\ Front(Append(d, s)) = d /\ Last(Append(d, s)) = s
<1> DEFINE p == Append(d, s)
<1>1. p \in Seq(K) /\ Len(p) = Len(d) + 1 /\ p[Len(p)] = s /\ \A i \in 1..Len(d) : p[i] = d[i]
  OBVIOUS
<1> HIDE DEF p
<1>2. SubSeq(p, 1, Len(p) - 1) = d
  <2>1. SubSeq(p, 1, Len(d)) \in Seq(K) /\ Len(SubSeq(p, 1, Len(d))) = Len(d)
    BY <1>1
  <2>2. \A i \in 1..Len(d) : SubSeq(p, 1, Len(d))[i] = d[i]
    BY <1>1
  <2> QED
    BY <1>1, <2>1, <2>2
<1>3. p # <<>>
  BY <1>1
<1> QED
  BY <1>1, <1>2, <1>3 DEF p, Front, Last

(* A path that is not empty has both.                                      *)
LEMMA PathSplits ==
  ASSUME NEW K, NEW p \in Seq(K), p # <<>>
  PROVE  Front(p) \in Seq(K) /\ Last(p) \in K /\ p = Append(Front(p), Last(p))
<1>1. Len(p) \in Nat /\ Len(p) > 0 /\ Len(p) - 1 \in Nat /\ (Len(p) - 1) + 1 = Len(p)
  BY EmptySeq
<1>2. Front(p) \in Seq(K) /\ Last(p) \in K
  BY <1>1 DEF Front, Last
<1>3. SubSeq(p, 1, Len(p)) = Append(SubSeq(p, 1, Len(p) - 1), p[Len(p)])
  BY <1>1, PrefixGrows
<1>4. SubSeq(p, 1, Len(p)) = p
  OBVIOUS
<1> QED
  BY <1>2, <1>3, <1>4 DEF Front, Last

(* Equal paths have equal ends.                                            *)
LEMMA PathEqual ==
  ASSUME NEW K, NEW d \in Seq(K), NEW e \in Seq(K), NEW s \in K, NEW t \in K
  PROVE  Append(d, s) = Append(e, t) => d = e /\ s = t
<1>1. Front(Append(d, s)) = d /\ Last(Append(d, s)) = s
  BY PathEnds
<1>2. Front(Append(e, t)) = e /\ Last(Append(e, t)) = t
  BY PathEnds
<1> QED
  BY <1>1, <1>2

(* The files of a site and the directories they are in.                    *)
Files(F) ==
  \A key \in F : /\ key \in Seq(Names) /\ key # <<>>
                 /\ \A n \in 1..Len(key) - 1 : SubSeq(key, 1, n) \notin F
Directory(F, d) == \E key \in F : \E n \in 0..Len(key) - 1 : d = SubSeq(key, 1, n)

(* A directory of a site is no file of it, and its parent is a directory.  *)
LEMMA DirectoryNoFile ==
  ASSUME NEW F, Files(F), NEW d, Directory(F, d)
  PROVE  d \in Seq(Names) /\ (d # <<>> => d \notin F /\ Directory(F, Front(d)))
<1>1. PICK key \in F : \E n \in 0..Len(key) - 1 : d = SubSeq(key, 1, n)
  BY DEF Directory
<1>1a. PICK n \in 0..Len(key) - 1 : d = SubSeq(key, 1, n)
  BY <1>1
<1>2. key \in Seq(Names) /\ key # <<>> /\ Len(key) \in Nat /\ n \in Nat /\ n < Len(key)
  BY <1>1a, <1>1 DEF Files
<1>3. d \in Seq(Names) /\ Len(d) = n
  BY <1>1a, <1>2
<1>4. ASSUME d # <<>> PROVE d \notin F /\ Directory(F, Front(d))
  <2>1. n \in 1..Len(key) - 1 /\ n - 1 \in 0..Len(key) - 1 /\ n - 1 \in Nat /\ (n - 1) + 1 = n
    BY <1>2, <1>3, <1>4, EmptySeq
  <2>2. d \notin F
    BY <1>1, <1>1a, <2>1 DEF Files
  <2>3. Front(d) = SubSeq(key, 1, n - 1)
    <3>1. SubSeq(key, 1, n) = Append(SubSeq(key, 1, n - 1), key[n])
      BY <1>2, <2>1, PrefixGrows
    <3>2. SubSeq(key, 1, n - 1) \in Seq(Names) /\ key[n] \in Names
      BY <1>2, <2>1
    <3>3. Front(Append(SubSeq(key, 1, n - 1), key[n])) = SubSeq(key, 1, n - 1)
      BY <3>2, PathEnds
    <3> QED
      BY <1>1a, <3>1, <3>3
  <2> QED
    BY <1>1, <2>1, <2>2, <2>3 DEF Directory
<1> QED
  BY <1>3, <1>4

(* What is before the name of a file is a directory.                       *)
LEMMA FileDirectory ==
  ASSUME NEW F, Files(F), NEW d \in Seq(Segments), NEW s \in Segments, Append(d, s) \in F
  PROVE  Directory(F, d) /\ s \in Names /\ d \in Seq(Names)
<1> DEFINE p == Append(d, s)
<1>1. p \in F /\ p \in Seq(Names) /\ p # <<>>
  BY DEF Files
<1>2. Front(p) = d /\ Last(p) = s /\ Len(p) = Len(d) + 1
  BY PathEnds
<1> HIDE DEF p
<1>3. d \in Seq(Names) /\ s \in Names
  BY <1>1, <1>2, PathSplits
<1>4. d = SubSeq(p, 1, Len(p) - 1) /\ Len(p) - 1 \in 0..Len(p) - 1
  BY <1>2 DEF Front
<1> QED
  BY <1>1, <1>3, <1>4 DEF Directory

(* The error page a miss answers is the nearest one.                       *)
LEMMA NearestFound ==
  ASSUME NEW files, NEW dir \in Seq(Names)
  PROVE  LET n == Nearest404(files, dir)
         IN /\ n \in -1..Len(dir)
            /\ n >= 0 => Append(SubSeq(dir, 1, n), Page404) \in DOMAIN files
            /\ \A m \in 0..Len(dir) :
                 Append(SubSeq(dir, 1, m), Page404) \in DOMAIN files => m <= n
<1> DEFINE has(n) == Append(SubSeq(dir, 1, n), Page404) \in DOMAIN files
           up == CHOOSE f : f = [n \in 0..Len(dir) |->
                   IF has(n) THEN n ELSE IF n = 0 THEN -1 ELSE f[n - 1]]
           s == [k \in 1..Len(dir) |-> k]
           b == IF has(0) THEN 0 ELSE -1
           g == [q \in Int \X Nat |-> IF has(q[2]) THEN q[2] ELSE q[1]]
<1>1. Nearest404(files, dir) = up[Len(dir)]
  BY DEF Nearest404
<1> HIDE DEF has
<1>2. s \in Seq(Nat) /\ Len(s) = Len(dir) /\ b \in Int /\ \A x \in Int, y \in Nat : g[<<x, y>>] \in Int
  OBVIOUS
<1>3. \A x \in Int, y \in Nat : g[<<x, y>>] = IF has(y) THEN y ELSE x
  OBVIOUS
<1>4. \A k \in 1..Len(dir) : s[k] = k
  OBVIOUS
<1>5. Len(dir) \in Nat
  OBVIOUS
<1> HIDE DEF s, g
<1>6. PICK h \in [0..Len(s) -> Int] : FoldOf(s, b, g, h)
  <2> DEFINE K == Nat
             X == Int
  <2>1. s \in Seq(K) /\ b \in X /\ \A x \in X, y \in K : g[<<x, y>>] \in X
    BY <1>2
  <2> HIDE DEF K, X
  <2>2. \E h \in [0..Len(s) -> X] : FoldOf(s, b, g, h)
    BY <2>1, FoldExists, Zenon
  <2> QED
    BY <2>2 DEF X
<1>7. h = [n \in 0..Len(dir) |-> IF has(n) THEN n ELSE IF n = 0 THEN -1 ELSE h[n - 1]]
  <2>1. ASSUME NEW n \in 0..Len(dir)
        PROVE  h[n] = IF has(n) THEN n ELSE IF n = 0 THEN -1 ELSE h[n - 1]
    <3>1. CASE n = 0
      BY <1>6, <3>1 DEF FoldOf
    <3>2. CASE n # 0
      <4>0. n \in 1..Len(dir) /\ n \in Nat /\ n - 1 \in 0..Len(s)
        <5>1. Len(s) = Len(dir)
          BY <1>2
        <5> QED
          BY <1>5, <3>2, <5>1
      <4>1. n \in 1..Len(dir) /\ n \in Nat /\ h[n - 1] \in Int
        <5> HIDE DEF b, has
        <5> QED
          BY <4>0
      <4>2. h[n] = g[<<h[n - 1], n>>]
        <5>1. n \in 1..Len(s) /\ s[n] = n
          BY <1>2, <1>4, <4>1
        <5> QED
          BY <1>6, <5>1 DEF FoldOf
      <4>3. h[n] = IF has(n) THEN n ELSE h[n - 1]
        BY <1>3, <4>1, <4>2
      <4> QED
        BY <3>2, <4>3
    <3> QED
      BY <3>1, <3>2
  <2>2. h = [n \in 0..Len(dir) |-> h[n]]
    BY <1>2
  <2> QED
    BY <2>1, <2>2, Zenon
<1>8. up = [n \in 0..Len(dir) |-> IF has(n) THEN n ELSE IF n = 0 THEN -1 ELSE up[n - 1]]
  BY <1>7, Zenon
<1> HIDE DEF up
<1>9. \A n \in 0..Len(dir) : up[n] = IF has(n) THEN n ELSE IF n = 0 THEN -1 ELSE up[n - 1]
  BY <1>8, Zenon
<1> DEFINE found(n) == /\ up[n] \in -1..n
                       /\ up[n] >= 0 => has(up[n])
                       /\ \A m \in 0..n : has(m) => m <= up[n]
           P == {n \in Nat : n <= Len(dir) => found(n)}
<1>10. P \subseteq Nat /\ 0 \in P
  <2>1. up[0] = IF has(0) THEN 0 ELSE -1
    BY <1>5, <1>9
  <2> QED
    BY <2>1
<1>11. ASSUME NEW n \in P PROVE n + 1 \in P
  <2>1. SUFFICES ASSUME n + 1 <= Len(dir) PROVE found(n + 1)
    OBVIOUS
  <2>2. n \in Nat /\ found(n) /\ n + 1 \in 0..Len(dir) /\ n + 1 # 0 /\ (n + 1) - 1 = n
    BY <1>5, <2>1
  <2>3. up[n + 1] = IF has(n + 1) THEN n + 1 ELSE up[n]
    BY <1>9, <2>2
  <2>4. \A m \in 0..(n + 1) : m \in 0..n \/ m = n + 1
    BY <2>2
  <2> QED
    BY <2>2, <2>3, <2>4
<1>12. P = Nat
  <2> HIDE DEF P
  <2> QED
    BY <1>10, <1>11, SetInduction
<1>13. found(Len(dir))
  <2>1. Len(dir) \in P /\ Len(dir) <= Len(dir)
    BY <1>5, <1>12
  <2> QED
    BY <2>1
<1> QED
  BY <1>1, <1>13 DEF has

(* A miss answers the nearest error page, or index.html, or neither.       *)
LEMMA MissAnswers ==
  ASSUME NEW files, NEW dir \in Seq(Names)
  PROVE  LET a     == Miss(files, dir)
             on(m) == Append(SubSeq(dir, 1, m), Page404) \in DOMAIN files
         IN \/ /\ a.kind = "file" /\ a.status = 404
               /\ \E n \in 0..Len(dir) : /\ a.key = Append(SubSeq(dir, 1, n), Page404) /\ on(n)
                                         /\ \A m \in 0..Len(dir) : on(m) => m <= n
            \/ /\ a.kind = "file" /\ a.status = 200 /\ a.key = <<Index>>
               /\ \A m \in 0..Len(dir) : ~on(m)
            \/ /\ a.kind = "none" /\ <<Index>> \notin DOMAIN files
               /\ \A m \in 0..Len(dir) : ~on(m)
<1> DEFINE n == Nearest404(files, dir)
           on(m) == Append(SubSeq(dir, 1, m), Page404) \in DOMAIN files
           a == Miss(files, dir)
<1>1. n \in -1..Len(dir) /\ (n >= 0 => on(n)) /\ \A m \in 0..Len(dir) : on(m) => m <= n
  BY NearestFound
<1>2. a = CASE n >= 0 -> Serve(Append(SubSeq(dir, 1, n), Page404), 404)
            [] n < 0 /\ <<Index>> \in DOMAIN files -> Serve(<<Index>>, 200)
            [] OTHER -> NotFound
  BY DEF Miss
<1> HIDE DEF n, a
<1>3. Len(dir) \in Nat
  OBVIOUS
<1>4. CASE n >= 0
  <2>1. a = Serve(Append(SubSeq(dir, 1, n), Page404), 404) /\ n \in 0..Len(dir)
    BY <1>1, <1>2, <1>3, <1>4
  <2>2. a.kind = "file" /\ a.status = 404 /\ a.key = Append(SubSeq(dir, 1, n), Page404)
    BY <2>1 DEF Serve
  <2> QED
    BY <1>1, <1>4, <2>1, <2>2 DEF a
<1>5. CASE n < 0
  <2>1. \A m \in 0..Len(dir) : ~on(m)
    <3> HIDE DEF on
    <3> QED
      BY <1>1, <1>3, <1>5
  <2> HIDE DEF on
  <2>2. ~(n >= 0)
    BY <1>1, <1>3, <1>5
  <2>3. CASE <<Index>> \in DOMAIN files
    <3>1. a = Serve(<<Index>>, 200)
      BY <1>2, <1>5, <2>2, <2>3
    <3>2. a.kind = "file" /\ a.status = 200 /\ a.key = <<Index>>
      BY <3>1 DEF Serve
    <3> QED
      BY <2>1, <3>2 DEF a, on
  <2>4. CASE <<Index>> \notin DOMAIN files
    <3>1. a.kind = "none"
      BY <1>2, <2>2, <2>4 DEF NotFound
    <3> QED
      BY <2>1, <2>4, <3>1 DEF a, on
  <2> QED
    BY <2>3, <2>4
<1> QED
  BY <1>1, <1>3, <1>4, <1>5

(* The names with a meaning of their own.                                  *)
LEMMA Literals ==
  /\ Index \in Names /\ Page404 \in Names /\ Index # Page404
  /\ Empty \in Segments /\ Empty \notin Names /\ Names \subseteq Segments
  /\ Index.h = 1 /\ Index # Seg(Nameless, 1)
<1>1. Index \in Segments /\ Page404 \in Segments /\ Empty \in Segments
  BY DEF Index, Page404, Empty, Seg, Segments, Bases, Nameless
<1>2. Index.h = 1 /\ Page404.h = 1 /\ Empty.h = 0 /\ Seg(".", 0).h = 0 /\ Seg("..", 0).h = 0
  BY DEF Index, Page404, Empty, Seg
<1>3. Index # Page404
  BY DEF Index, Page404, Seg
<1>4. Index # Seg(Nameless, 1)
  BY DEF Index, Seg, Nameless
<1> QED
  BY <1>1, <1>2, <1>3, <1>4 DEF Names, IsName

(* What is asked once the path is normalized: a directory or a file.       *)
LEMMA DirectoryPath ==
  ASSUME NEW d \in Seq(Names)
  PROVE  /\ Append(d, Empty) \in Seq(Segments) /\ IsDir(Append(d, Empty))
         /\ Front(Append(d, Empty)) = d /\ Len(Append(d, Empty)) = Len(d) + 1
<1>1. d \in Seq(Segments)
  BY Literals
<1> QED
  BY <1>1, Literals, PathEnds DEF IsDir

(* The ends of the path of a file, and of the page it may stand for.       *)
LEMMA FilePath ==
  ASSUME NEW p \in Seq(Names), p # <<>>
  PROVE  /\ ~IsDir(p) /\ Last(p) \in Names /\ Front(p) \in Seq(Names)
         /\ p = Append(Front(p), Last(p)) /\ p \in Seq(Segments)
         /\ WithHtml(p) = Append(Front(p), Seg(Last(p).b, Last(p).h + 1))
         /\ Last(p).h \in Nat /\ Seg(Last(p).b, Last(p).h + 1) \in Names
         /\ Last(WithHtml(p)).h > 0 /\ Front(WithHtml(p)) = Front(p)
<1>1. Last(p) \in Names /\ Front(p) \in Seq(Names) /\ p = Append(Front(p), Last(p))
  BY PathSplits
<1>2. Last(p).b \in Bases /\ Last(p).h \in Nat
  BY <1>1 DEF Names, Segments
<1> DEFINE s == Seg(Last(p).b, Last(p).h + 1)
<1>3. s \in Segments /\ s.h = Last(p).h + 1
  BY <1>2 DEF Seg, Segments
<1>4. s \in Names
  <2>1. Empty.h = 0 /\ Seg(".", 0).h = 0 /\ Seg("..", 0).h = 0
    BY DEF Empty, Seg
  <2>2. s.h # 0
    BY <1>2, <1>3
  <2> HIDE DEF s
  <2> QED
    BY <1>3, <2>1, <2>2 DEF Names, IsName
<1>5. WithHtml(p) = Append(Front(p), s)
  BY DEF WithHtml
<1> HIDE DEF s
<1>6. Last(Append(Front(p), s)) = s /\ Front(Append(Front(p), s)) = Front(p)
  BY <1>1, <1>4, PathEnds
<1>7. s.h > 0
  BY <1>2, <1>3
<1>8. p \in Seq(Segments)
  BY Literals
<1>9. ~IsDir(p)
  BY <1>1, Literals DEF IsDir
<1> QED
  BY <1>1, <1>2, <1>4, <1>5, <1>6, <1>7, <1>8, <1>9 DEF s

(* The answers to a directory: its index, the page of its name, or a miss. *)
LEMMA ResolvesDirectory ==
  ASSUME NEW files, NEW d \in Seq(Names)
  PROVE  LET a == ResolveDir(files, Append(d, Empty))
         IN \/ Append(d, Index) \in DOMAIN files /\ a = Serve(Append(d, Index), 200)
            \/ /\ Append(d, Index) \notin DOMAIN files /\ d # <<>> /\ WithHtml(d) \in DOMAIN files
               /\ a = RedirectTo(d)
            \/ Append(d, Index) \notin DOMAIN files /\ a = Miss(files, d)
<1> DEFINE p == Append(d, Empty)
<1>1. Front(p) = d /\ Len(p) = Len(d) + 1
  BY DirectoryPath
<1>2. Len(p) > 1 => d # <<>>
  BY <1>1
<1> HIDE DEF p
<1>3. ResolveDir(files, p) =
        CASE Append(d, Index) \in DOMAIN files -> Serve(Append(d, Index), 200)
          [] Append(d, Index) \notin DOMAIN files /\ Len(p) > 1 /\ WithHtml(d) \in DOMAIN files ->
               RedirectTo(d)
          [] OTHER -> Miss(files, d)
  BY <1>1 DEF ResolveDir
<1> DEFINE a == ResolveDir(files, p)
           x == Serve(Append(d, Index), 200)
           y == RedirectTo(d)
           z == Miss(files, d)
           A == Append(d, Index) \in DOMAIN files
           B == WithHtml(d) \in DOMAIN files
           C == Len(p) > 1
<1>4. a = CASE A -> x [] ~A /\ C /\ B -> y [] OTHER -> z
  BY <1>3
<1> HIDE DEF a, x, y, z, A, B, C
<1>5. (A /\ a = x) \/ (~A /\ C /\ B /\ a = y) \/ (~A /\ a = z)
  BY <1>4
<1> QED
  BY <1>2, <1>5 DEF a, x, y, z, A, B, C, p

(* The answers to a file: sent to its pretty URL, served, or missed.       *)
LEMMA ResolvesFile ==
  ASSUME NEW files, NEW p
  PROVE  LET a == ResolveFile(files, p)
         IN \/ Last(p).h > 0 /\ p \in DOMAIN files /\ a = RedirectTo(PrettyURL(p))
            \/ Last(p).h > 0 /\ p \notin DOMAIN files /\ a = Miss(files, Front(p))
            \/ Last(p).h = 0 /\ p \in DOMAIN files /\ a = Serve(p, 200)
            \/ /\ ~(Last(p).h > 0) /\ (Last(p).h = 0 => p \notin DOMAIN files)
               /\ \/ WithHtml(p) \in DOMAIN files /\ a = Serve(WithHtml(p), 200)
                  \/ /\ WithHtml(p) \notin DOMAIN files /\ Append(p, Index) \in DOMAIN files
                     /\ a = RedirectTo(Append(p, Empty))
                  \/ /\ WithHtml(p) \notin DOMAIN files /\ Append(p, Index) \notin DOMAIN files
                     /\ a = Miss(files, Front(p))
<1> DEFINE a == ResolveFile(files, p)
           A == Last(p).h > 0
           B == p \in DOMAIN files
           C == Last(p).h = 0
           D == WithHtml(p) \in DOMAIN files
           E == Append(p, Index) \in DOMAIN files
           t == RedirectTo(PrettyURL(p))
           u == Miss(files, Front(p))
           v == Serve(p, 200)
           w == Serve(WithHtml(p), 200)
           x == RedirectTo(Append(p, Empty))
<1>1. a = CASE A /\ B -> t [] A /\ ~B -> u [] C /\ B -> v
            [] OTHER -> CASE D -> w [] ~D /\ E -> x [] OTHER -> u
  BY DEF ResolveFile
<1> HIDE DEF a, A, B, C, D, E, t, u, v, w, x
<1>2. \/ A /\ B /\ a = t
      \/ A /\ ~B /\ a = u
      \/ C /\ B /\ a = v
      \/ ~A /\ (C => ~B) /\ ((D /\ a = w) \/ (~D /\ E /\ a = x) \/ (~D /\ ~E /\ a = u))
  BY <1>1
<1> QED
  BY <1>2 DEF a, A, B, C, D, E, t, u, v, w, x

(* Which of the two it is that decides.                                    *)
LEMMA ResolvesClean ==
  ASSUME NEW files, NEW n
  PROVE  LET a == ResolveClean(files, n)
         IN /\ ~n.ok => a = Miss(files, <<>>)
            /\ n.ok /\ IsDir(n.path) => a = ResolveDir(files, n.path)
            /\ n.ok /\ ~IsDir(n.path) => a = ResolveFile(files, n.path)
<1> DEFINE A == n.ok
           B == IsDir(n.path)
           x == Miss(files, <<>>)
           y == ResolveDir(files, n.path)
           z == ResolveFile(files, n.path)
           a == ResolveClean(files, n)
<1>1. a = CASE ~A -> x [] A /\ B -> y [] OTHER -> z
  BY DEF ResolveClean
<1> HIDE DEF A, B, x, y, z, a
<1>2. (~A => a = x) /\ (A /\ B => a = y) /\ (A /\ ~B => a = z)
  BY <1>1
<1> QED
  BY <1>2 DEF A, B, x, y, z, a

(* How many redirects of Resolve a client may still be given.              *)
LeftOf(F, p) ==
  IF IsDir(p)
    THEN IF Append(Front(p), Index) \in F \/ Front(p) = <<>> THEN 0
         ELSE IF Directory(F, Front(p)) THEN 1
         ELSE Last(Front(p)).h + 2
    ELSE IF Last(p).h > 0 THEN IF p \in F THEN Last(p).h + 1 ELSE 0
         ELSE IF p \in F \/ WithHtml(p) \in F THEN 0 ELSE 1
RedirectsLeft(F, path) ==
  IF NormalizePath(path).ok THEN LeftOf(F, NormalizePath(path).path) ELSE 0

(* What a directory may still take.                                        *)
LEMMA LeftDirectory ==
  ASSUME NEW F, NEW d \in Seq(Names)
  PROVE  /\ LeftOf(F, Append(d, Empty)) =
              IF Append(d, Index) \in F \/ d = <<>> THEN 0
              ELSE IF Directory(F, d) THEN 1 ELSE Last(d).h + 2
         /\ LeftOf(F, Append(d, Empty)) \in Nat
         /\ d # <<>> => LeftOf(F, Append(d, Empty)) <= Last(d).h + 2
         /\ d = <<>> => LeftOf(F, Append(d, Empty)) = 0
<1> DEFINE l == LeftOf(F, Append(d, Empty))
<1>1. l = IF Append(d, Index) \in F \/ d = <<>> THEN 0
          ELSE IF Directory(F, d) THEN 1 ELSE Last(d).h + 2
  BY DirectoryPath DEF LeftOf
<1> HIDE DEF l
<1>2. d # <<>> => Last(d).h \in Nat
  BY FilePath
<1>3. l \in Nat /\ (d # <<>> => l <= Last(d).h + 2)
  BY <1>1, <1>2
<1> QED
  BY <1>1, <1>3 DEF l

(* What a file may still take.                                             *)
LEMMA LeftFile ==
  ASSUME NEW F, NEW p \in Seq(Names), p # <<>>
  PROVE  /\ LeftOf(F, p) = IF Last(p).h > 0 THEN IF p \in F THEN Last(p).h + 1 ELSE 0
                           ELSE IF p \in F \/ WithHtml(p) \in F THEN 0 ELSE 1
         /\ LeftOf(F, p) \in Nat /\ LeftOf(F, p) <= Last(p).h + 1
<1>1. ~IsDir(p) /\ Last(p).h \in Nat
  BY FilePath
<1>2. LeftOf(F, p) = IF Last(p).h > 0 THEN IF p \in F THEN Last(p).h + 1 ELSE 0
                     ELSE IF p \in F \/ WithHtml(p) \in F THEN 0 ELSE 1
  BY <1>1 DEF LeftOf
<1> QED
  BY <1>1, <1>2

(* No path takes more than two redirects and its suffixes.                 *)
LEMMA LeftTyped ==
  ASSUME NEW F, NEW path \in Seq(Segments)
  PROVE  /\ RedirectsLeft(F, path) \in Nat /\ NameSuffixes(path) \in Nat
         /\ RedirectsLeft(F, path) <= 2 + NameSuffixes(path)
<1> DEFINE p == NormalizePath(path).path
           l == LeftOf(F, p)
           n == NameSuffixes(path)
<1>1. PICK d \in Seq(Names) : (d # <<>> /\ p = d) \/ p = Append(d, Empty)
  BY Normalized DEF Normal
<1>2. n = IF ~IsDir(p) THEN Last(p).h ELSE IF Len(p) > 1 THEN Last(Front(p)).h ELSE 0
  BY DEF NameSuffixes
<1>3. n \in Nat /\ l \in Nat /\ l <= 2 + n
  <2> HIDE DEF p, n
  <2>1. CASE d # <<>> /\ p = d
    <3>1. n = Last(d).h /\ n \in Nat
      BY <1>2, <2>1, FilePath
    <3>2. l \in Nat /\ l <= Last(d).h + 1
      BY <2>1, LeftFile
    <3> QED
      BY <3>1, <3>2
  <2>2. CASE p = Append(d, Empty)
    <3>1. IsDir(p) /\ Front(p) = d /\ Len(p) = Len(d) + 1
      BY <2>2, DirectoryPath
    <3>2. CASE d = <<>>
      <4>1. n = 0
        BY <1>2, <3>1, <3>2
      <4>2. l = 0
        BY <2>2, <3>2, LeftDirectory
      <4> QED
        BY <4>1, <4>2
    <3>3. CASE d # <<>>
      <4>1. Last(d).h \in Nat
        BY <3>3, FilePath
      <4>2. Len(p) > 1
        BY <3>1, <3>3
      <4>3. n = Last(d).h
        BY <1>2, <3>1, <4>2
      <4>4. l \in Nat /\ l <= Last(d).h + 2
        BY <2>2, <3>3, LeftDirectory
      <4> QED
        BY <4>1, <4>3, <4>4
    <3> QED
      BY <3>2, <3>3
  <2> QED
    BY <1>1, <2>1, <2>2
<1>4. RedirectsLeft(F, path) = IF NormalizePath(path).ok THEN l ELSE 0
  BY DEF RedirectsLeft
<1> HIDE DEF l, n
<1> QED
  BY <1>3, <1>4 DEF n

(* A directory of the site, asked for with or without its slash, takes at  *)
(* most one.                                                               *)
LEMMA LeftInside ==
  ASSUME NEW F, Files(F), NEW d, Directory(F, d)
  PROVE  /\ LeftOf(F, Append(d, Empty)) <= 1
         /\ d # <<>> => LeftOf(F, d) <= 1
         /\ RedirectsLeft(F, Append(d, Seg(".", 0))) <= 1
         /\ RedirectsLeft(F, Append(d, Seg("..", 0))) <= 1
<1>1. /\ d \in Seq(Names)
      /\ d # <<>> => d \notin F /\ Directory(F, Front(d)) /\ Front(d) \in Seq(Names)
  BY DirectoryNoFile
<1>2. ASSUME NEW e \in Seq(Names), Directory(F, e), e # <<>> => e \notin F
      PROVE  LeftOf(F, Append(e, Empty)) <= 1 /\ (e # <<>> => LeftOf(F, e) <= 1)
  <2>1. LeftOf(F, Append(e, Empty)) <= 1
    BY <1>2, LeftDirectory
  <2>2. e # <<>> => LeftOf(F, e) <= 1
    BY <1>2, LeftFile
  <2> QED
    BY <2>1, <2>2
<1>3. <<Empty>> = Append(<<>>, Empty) /\ <<>> \in Seq(Names)
  OBVIOUS
<1>4. LeftOf(F, <<Empty>>) <= 1
  <2> DEFINE e == <<>>
  <2>1. e \in Seq(Names) /\ e = <<>>
    OBVIOUS
  <2> HIDE DEF e
  <2>2. LeftOf(F, Append(e, Empty)) = 0
    BY <2>1, LeftDirectory
  <2>3. LeftOf(F, <<Empty>>) = 0
    BY <1>3, <2>1, <2>2, Zenon
  <2> QED
    BY <2>3
<1>5. LeftOf(F, Append(d, Empty)) <= 1 /\ (d # <<>> => LeftOf(F, d) <= 1)
  BY <1>1, <1>2
<1>6. d # <<>> => (Front(d) # <<>> => LeftOf(F, Front(d)) <= 1)
  BY <1>1, <1>2, DirectoryNoFile
<1>7. RedirectsLeft(F, Append(d, Seg(".", 0))) <= 1
  <2>1. NormalizePath(Append(d, Seg(".", 0))) = [ok |-> TRUE, path |-> IF d = <<>> THEN <<Empty>> ELSE d]
    BY <1>1, NormalizeCases
  <2> DEFINE q == IF d = <<>> THEN <<Empty>> ELSE d
             n == NormalizePath(Append(d, Seg(".", 0)))
  <2>2. LeftOf(F, q) <= 1
    BY <1>4, <1>5
  <2> HIDE DEF n
  <2>3. n.ok = TRUE /\ n.path = q
    BY <2>1 DEF n
  <2> QED
    BY <2>2, <2>3 DEF RedirectsLeft, n
<1>8. RedirectsLeft(F, Append(d, Seg("..", 0))) <= 1
  <2> DEFINE n == NormalizePath(Append(d, Seg("..", 0)))
  <2>1. /\ n.ok <=> d # <<>>
        /\ d # <<>> => n.path = IF Front(d) = <<>> THEN <<Empty>> ELSE Front(d)
    BY <1>1, NormalizeCases
  <2> HIDE DEF n
  <2>2. n.ok => LeftOf(F, n.path) <= 1
    BY <1>4, <1>6, <2>1
  <2> QED
    BY <2>2 DEF RedirectsLeft, n
<1> QED
  BY <1>5, <1>7, <1>8

(* A normal path is left as it is.                                         *)
LEMMA CleanKept ==
  ASSUME NEW d \in Seq(Names)
  PROVE  /\ NormalizePath(Append(d, Empty)) = [ok |-> TRUE, path |-> Append(d, Empty)]
         /\ d # <<>> => NormalizePath(d) = [ok |-> TRUE, path |-> d]
<1>1. NormalizePath(Append(d, Empty)) = [ok |-> TRUE, path |-> Append(d, Empty)]
  BY NormalizeCases
<1>2. ASSUME d # <<>> PROVE NormalizePath(d) = [ok |-> TRUE, path |-> d]
  <2> DEFINE e == Front(d)
             s == Last(d)
  <2>1. e \in Seq(Names) /\ s \in Names /\ d = Append(e, s)
    BY <1>2, PathSplits
  <2> HIDE DEF e, s
  <2>2. NormalizePath(Append(e, s)) = [ok |-> TRUE, path |-> Append(e, s)]
    BY <2>1, NormalizeCases
  <2> QED
    BY <2>1, <2>2
<1> QED
  BY <1>1, <1>2

(* What a normal path may still take.                                      *)
LEMMA LeftClean ==
  ASSUME NEW F, NEW d \in Seq(Names)
  PROVE  /\ RedirectsLeft(F, Append(d, Empty)) = LeftOf(F, Append(d, Empty))
         /\ d # <<>> => RedirectsLeft(F, d) = LeftOf(F, d)
<1> DEFINE n == NormalizePath(Append(d, Empty))
           m == NormalizePath(d)
<1>1. n = [ok |-> TRUE, path |-> Append(d, Empty)] /\ (d # <<>> => m = [ok |-> TRUE, path |-> d])
  BY CleanKept
<1> HIDE DEF n, m
<1>2. /\ n.ok = TRUE /\ n.path = Append(d, Empty)
      /\ d # <<>> => m.ok = TRUE /\ m.path = d
  BY <1>1
<1>3. RedirectsLeft(F, Append(d, Empty)) = IF n.ok THEN LeftOf(F, n.path) ELSE 0
  BY DEF RedirectsLeft, n
<1>4. RedirectsLeft(F, d) = IF m.ok THEN LeftOf(F, m.path) ELSE 0
  BY DEF RedirectsLeft, m
<1> QED
  BY <1>2, <1>3, <1>4

(* A pretty URL takes fewer redirects than its file has suffixes, one at   *)
(* the least.                                                              *)
LEMMA PrettyFewer ==
  ASSUME NEW F, Files(F), NEW p \in F, Last(p).h > 0
  PROVE  PrettyURL(p) \in Seq(Segments) /\ RedirectsLeft(F, PrettyURL(p)) <= Last(p).h
<1> DEFINE d == Front(p)
           s == Last(p)
           t == Seg(s.b, s.h - 1)
           u == PrettyURL(p)
<1>1. /\ p \in Seq(Names) /\ p # <<>> /\ d \in Seq(Names) /\ s \in Names /\ p = Append(d, s)
      /\ s.h \in Nat /\ s.h > 0
  BY FilePath DEF Files
<1>2. Directory(F, d) /\ d \in Seq(Segments) /\ s \in Segments
  <2>1. d \in Seq(Segments) /\ s \in Segments
    BY <1>1, Literals
  <2> HIDE DEF d, s
  <2> QED
    BY <1>1, <2>1, FileDirectory
<1>3. t \in Segments /\ t.b = s.b /\ t.h = s.h - 1
  BY <1>1, <1>2 DEF Seg, Segments
<1>4. u = IF s \in {Index, Seg(Nameless, 1)} THEN Append(d, Empty) ELSE Append(d, t)
  BY DEF PrettyURL
<1> HIDE DEF d, u
<1>5. u \in Seq(Segments)
  BY <1>2, <1>3, <1>4, Literals
<1>6. CASE s \in {Index, Seg(Nameless, 1)}
  <2>1. u = Append(d, Empty)
    BY <1>4, <1>6
  <2>2. RedirectsLeft(F, u) = LeftOf(F, Append(d, Empty)) /\ LeftOf(F, Append(d, Empty)) \in Nat
    BY <1>1, <2>1, LeftClean, LeftDirectory
  <2>3. LeftOf(F, Append(d, Empty)) <= 1
    BY <1>2, LeftInside
  <2> QED
    BY <1>1, <1>5, <2>2, <2>3 DEF s, u
<1>7. CASE s \notin {Index, Seg(Nameless, 1)} /\ t \notin Names
  <2>1. u = Append(d, t)
    BY <1>4, <1>7
  <2>2. t \in {Empty, Seg(".", 0), Seg("..", 0)}
    BY <1>3, <1>7 DEF Names, IsName
  <2>3. t # Empty
    <3>1. SUFFICES ASSUME t = Empty PROVE FALSE
      OBVIOUS
    <3>2. s.b = Nameless /\ s.h = 1
      BY <1>1, <1>3, <3>1 DEF Empty, Seg
    <3>3. s = Seg(Nameless, 1)
      BY <1>2, <3>2 DEF Seg, Segments
    <3> QED
      BY <1>7, <3>3
  <2>4. RedirectsLeft(F, Append(d, Seg(".", 0))) <= 1 /\ RedirectsLeft(F, Append(d, Seg("..", 0))) <= 1
    BY <1>2, LeftInside
  <2> HIDE DEF t
  <2>5. RedirectsLeft(F, u) <= 1
    BY <2>1, <2>2, <2>3, <2>4
  <2>6. RedirectsLeft(F, u) \in Nat
    BY <1>5, LeftTyped
  <2> QED
    BY <1>1, <1>5, <2>5, <2>6 DEF s, u
<1>8. CASE s \notin {Index, Seg(Nameless, 1)} /\ t \in Names
  <2> HIDE DEF t
  <2>1. u = Append(d, t)
    BY <1>4, <1>8
  <2>2. u \in Seq(Names) /\ u # <<>> /\ Last(u) = t /\ Front(u) = d
    BY <1>1, <1>8, <2>1, PathEnds
  <2>3. RedirectsLeft(F, u) = LeftOf(F, u) /\ LeftOf(F, u) \in Nat /\ LeftOf(F, u) <= t.h + 1
    BY <2>2, LeftClean, LeftFile
  <2> QED
    BY <1>1, <1>3, <1>5, <2>3 DEF s, u
<1> QED
  BY <1>6, <1>7, <1>8

(* A redirect of Resolve leaves a client fewer of them.                    *)
LEMMA RedirectsDecrease ==
  ASSUME NEW files, Files(DOMAIN files), NEW path \in Seq(Segments),
         Resolve(files, path).kind = "redirect"
  PROVE  LET a == Resolve(files, path)
         IN /\ a.location \in Seq(Segments)
            /\ RedirectsLeft(DOMAIN files, a.location) < RedirectsLeft(DOMAIN files, path)
<1> DEFINE F == DOMAIN files
           a == Resolve(files, path)
           n == NormalizePath(path)
           goal == /\ a.location \in Seq(Segments)
                   /\ RedirectsLeft(F, a.location) < RedirectsLeft(F, path)
<1>1. a = ResolveClean(files, n)
  BY DEF Resolve
<1>2. PICK d \in Seq(Names) : (d # <<>> /\ n.path = d) \/ n.path = Append(d, Empty)
  BY Normalized DEF Normal
<1>3. \A e \in Seq(Names) : a # Miss(files, e)
  <2> SUFFICES ASSUME NEW e \in Seq(Names), a = Miss(files, e) PROVE FALSE
    OBVIOUS
  <2>1. Miss(files, e).kind = "file" \/ Miss(files, e).kind = "none"
    BY MissAnswers
  <2> QED
    BY <2>1
<1>4. <<>> \in Seq(Names)
  OBVIOUS
<1>5. RedirectsLeft(F, path) = IF n.ok THEN LeftOf(F, n.path) ELSE 0
  BY DEF RedirectsLeft
<1>6. \A k, c : a # Serve(k, c)
  <2> SUFFICES ASSUME NEW k, NEW c, a = Serve(k, c) PROVE FALSE
    OBVIOUS
  <2>1. Serve(k, c).kind = "file"
    BY DEF Serve
  <2> QED
    BY <2>1
<1>7. \A l : RedirectTo(l).location = l
  BY DEF RedirectTo
<1>8. \A e \in Seq(Names) : e \in Seq(Segments)
  BY Literals
<1>9. Files(F)
  OBVIOUS
<1> HIDE DEF a, n, F
<1>10. n.ok
  <2>1. ~n.ok => a = Miss(files, <<>>)
    BY <1>1, ResolvesClean
  <2> QED
    BY <1>3, <1>4, <2>1
<1>11. CASE n.path = Append(d, Empty)
  <2>1. a = ResolveDir(files, Append(d, Empty))
    <3>1. IsDir(n.path)
      BY <1>11, DirectoryPath
    <3> QED
      BY <1>1, <1>10, <1>11, <3>1, ResolvesClean
  <2>2. /\ Append(d, Index) \notin F /\ d # <<>> /\ WithHtml(d) \in F
        /\ a = RedirectTo(d)
    <3>1. \/ Append(d, Index) \in DOMAIN files /\ a = Serve(Append(d, Index), 200)
          \/ /\ Append(d, Index) \notin DOMAIN files /\ d # <<>> /\ WithHtml(d) \in DOMAIN files
             /\ a = RedirectTo(d)
          \/ Append(d, Index) \notin DOMAIN files /\ a = Miss(files, d)
      BY <2>1, ResolvesDirectory
    <3> QED
      BY <1>3, <1>6, <3>1 DEF F
  <2>3. a.location = d
    BY <1>7, <2>2
  <2>4. LeftOf(F, Append(d, Empty)) = IF Directory(F, d) THEN 1 ELSE Last(d).h + 2
    BY <2>2, LeftDirectory
  <2>5. RedirectsLeft(F, path) = LeftOf(F, Append(d, Empty))
    BY <1>5, <1>10, <1>11
  <2>6. RedirectsLeft(F, d) = LeftOf(F, d)
    BY <2>2, LeftClean
  <2>7. /\ LeftOf(F, d) = IF Last(d).h > 0 THEN IF d \in F THEN Last(d).h + 1 ELSE 0
                          ELSE IF d \in F \/ WithHtml(d) \in F THEN 0 ELSE 1
        /\ Last(d).h \in Nat
    BY <2>2, LeftFile, FilePath
  <2>8. Directory(F, d) => d \notin F
    BY <1>9, <2>2, DirectoryNoFile
  <2>9. LeftOf(F, d) < LeftOf(F, Append(d, Empty))
    BY <2>2, <2>4, <2>7, <2>8
  <2> QED
    BY <1>8, <2>3, <2>5, <2>6, <2>9 DEF a, F
<1>12. CASE d # <<>> /\ n.path = d
  <2>1. a = ResolveFile(files, d)
    <3>1. ~IsDir(n.path)
      BY <1>12, FilePath
    <3> QED
      BY <1>1, <1>10, <1>12, <3>1, ResolvesClean
  <2>2. Front(d) \in Seq(Names) /\ Last(d).h \in Nat
    BY <1>12, FilePath
  <2>3. \/ Last(d).h > 0 /\ d \in F /\ a = RedirectTo(PrettyURL(d))
        \/ /\ Last(d).h = 0 /\ d \notin F /\ WithHtml(d) \notin F /\ Append(d, Index) \in F
           /\ a = RedirectTo(Append(d, Empty))
    <3>1. \/ Last(d).h > 0 /\ d \in DOMAIN files /\ a = RedirectTo(PrettyURL(d))
          \/ Last(d).h > 0 /\ d \notin DOMAIN files /\ a = Miss(files, Front(d))
          \/ Last(d).h = 0 /\ d \in DOMAIN files /\ a = Serve(d, 200)
          \/ /\ ~(Last(d).h > 0) /\ (Last(d).h = 0 => d \notin DOMAIN files)
             /\ \/ WithHtml(d) \in DOMAIN files /\ a = Serve(WithHtml(d), 200)
                \/ /\ WithHtml(d) \notin DOMAIN files /\ Append(d, Index) \in DOMAIN files
                   /\ a = RedirectTo(Append(d, Empty))
                \/ /\ WithHtml(d) \notin DOMAIN files /\ Append(d, Index) \notin DOMAIN files
                   /\ a = Miss(files, Front(d))
      BY <2>1, ResolvesFile
    <3> QED
      BY <1>3, <1>6, <2>2, <3>1 DEF F
  <2>4. RedirectsLeft(F, path) = LeftOf(F, d)
    BY <1>5, <1>10, <1>12
  <2>5. LeftOf(F, d) = IF Last(d).h > 0 THEN IF d \in F THEN Last(d).h + 1 ELSE 0
                       ELSE IF d \in F \/ WithHtml(d) \in F THEN 0 ELSE 1
    BY <1>12, LeftFile
  <2>6. CASE Last(d).h > 0 /\ d \in F /\ a = RedirectTo(PrettyURL(d))
    <3>1. a.location = PrettyURL(d)
      BY <1>7, <2>6
    <3>2. PrettyURL(d) \in Seq(Segments) /\ RedirectsLeft(F, PrettyURL(d)) <= Last(d).h
      BY <1>9, <2>6, PrettyFewer
    <3>3. RedirectsLeft(F, PrettyURL(d)) \in Nat
      BY <3>2, LeftTyped
    <3>4. RedirectsLeft(F, PrettyURL(d)) < RedirectsLeft(F, path)
      BY <2>2, <2>4, <2>5, <2>6, <3>2, <3>3
    <3> QED
      BY <3>1, <3>2, <3>4 DEF a, F
  <2>7. CASE /\ Last(d).h = 0 /\ d \notin F /\ WithHtml(d) \notin F /\ Append(d, Index) \in F
             /\ a = RedirectTo(Append(d, Empty))
    <3>1. a.location = Append(d, Empty) /\ Append(d, Empty) \in Seq(Segments)
      BY <1>7, <2>7, DirectoryPath
    <3>2. RedirectsLeft(F, Append(d, Empty)) = 0
      BY <2>7, LeftClean, LeftDirectory
    <3>3. RedirectsLeft(F, path) = 1
      BY <2>4, <2>5, <2>7
    <3> QED
      BY <3>1, <3>2, <3>3 DEF a, F
  <2> QED
    BY <2>3, <2>6, <2>7
<1> QED
  BY <1>2, <1>11, <1>12

(* A plain page asked for by its file name is sent to its pretty URL, and  *)
(* there it or the file without suffix is served.                          *)
LEMMA PageAnswered ==
  ASSUME NEW files, Files(DOMAIN files), NEW key \in DOMAIN files, PlainPage(key)
  PROVE  /\ Resolve(files, key) = RedirectTo(PrettyURL(key))
         /\ \E k \in {key, Shadow(key)} : Resolve(files, PrettyURL(key)) = Serve(k, 200)
<1> DEFINE F == DOMAIN files
           d == Front(key)
           s == Last(key)
           t == Seg(s.b, 0)
           u == PrettyURL(key)
<1>1. /\ key \in Seq(Names) /\ key # <<>> /\ d \in Seq(Names) /\ s \in Names /\ key = Append(d, s)
      /\ ~IsDir(key) /\ s.h = 1 /\ s.b \notin {Nameless, ".", ".."}
  BY FilePath DEF Files, PlainPage
<1>2. Resolve(files, key) = RedirectTo(u)
  <2> DEFINE n == NormalizePath(key)
  <2>1. n = [ok |-> TRUE, path |-> key]
    BY <1>1, CleanKept
  <2> HIDE DEF n
  <2>2. n.ok /\ n.path = key
    BY <2>1
  <2>3. ResolveClean(files, n) = ResolveFile(files, key)
    BY <1>1, <2>2, ResolvesClean
  <2>4. ResolveFile(files, key) = RedirectTo(PrettyURL(key))
    BY <1>1, ResolvesFile
  <2> QED
    BY <2>3, <2>4 DEF Resolve, n
<1>3. t \in Names /\ t.h = 0 /\ t.b = s.b
  <2>1. t \in Segments /\ t.h = 0 /\ t.b = s.b
    BY <1>1, Literals DEF Seg, Segments, Names
  <2>2. Empty.b = Nameless /\ Seg(".", 0).b = "." /\ Seg("..", 0).b = ".."
    BY DEF Empty, Seg
  <2> HIDE DEF t
  <2> QED
    BY <1>1, <2>1, <2>2 DEF Names, IsName
<1>4. s = Seg(s.b, 1)
  BY <1>1, Literals DEF Seg, Segments, Names
<1>5. u = IF s = Index THEN Append(d, Empty) ELSE Append(d, t)
  <2>1. s # Seg(Nameless, 1)
    BY <1>1 DEF Seg
  <2>2. s.h - 1 = 0
    BY <1>1
  <2>3. Seg(s.b, s.h - 1) = t
    BY <2>2
  <2> QED
    BY <2>1, <2>3 DEF PrettyURL
<1> HIDE DEF F, u
<1>6. CASE s = Index
  <2> DEFINE n == NormalizePath(u)
  <2>1. u = Append(d, Empty) /\ IsDir(u)
    BY <1>1, <1>5, <1>6, DirectoryPath
  <2>2. n = [ok |-> TRUE, path |-> u]
    BY <1>1, <2>1, CleanKept
  <2> HIDE DEF n
  <2>3. n.ok /\ n.path = u
    BY <2>2
  <2>4. ResolveClean(files, n) = ResolveDir(files, u)
    BY <2>1, <2>3, ResolvesClean
  <2>5. ResolveDir(files, Append(d, Empty)) = Serve(key, 200)
    BY <1>1, <1>6, ResolvesDirectory
  <2> QED
    BY <1>2, <2>1, <2>4, <2>5 DEF Resolve, n, u
<1>7. CASE s # Index
  <2> DEFINE n == NormalizePath(u)
  <2> HIDE DEF t
  <2>1. u = Append(d, t)
    BY <1>5, <1>7
  <2>2. u \in Seq(Names) /\ u # <<>> /\ Last(u) = t /\ Front(u) = d
    BY <1>1, <1>3, <2>1, PathEnds
  <2>3. ~IsDir(u) /\ WithHtml(u) = Append(d, Seg(t.b, t.h + 1))
    BY <2>2, FilePath
  <2>4. WithHtml(u) = key
    <3>1. t.h + 1 = 1
      BY <1>3
    <3> QED
      BY <1>1, <1>3, <1>4, <2>3, <3>1
  <2>5. u = Shadow(key)
    BY <2>1 DEF Shadow, t
  <2>6. n = [ok |-> TRUE, path |-> u]
    BY <2>2, CleanKept
  <2> HIDE DEF n
  <2>7. n.ok /\ n.path = u
    BY <2>6
  <2>8. ResolveClean(files, n) = ResolveFile(files, u)
    BY <2>3, <2>7, ResolvesClean
  <2>9. ResolveFile(files, u) = Serve(u, 200) \/ ResolveFile(files, u) = Serve(key, 200)
    BY <1>3, <2>2, <2>4, ResolvesFile
  <2> QED
    BY <1>2, <2>5, <2>8, <2>9 DEF Resolve, n, u
<1> QED
  BY <1>6, <1>7

(* The directory a miss looks for an error page from.                      *)
MissDir(path) == IF NormalizePath(path).ok THEN Front(NormalizePath(path).path) ELSE <<>>

(* Resolve misses, redirects, or serves what was asked for.                *)
LEMMA ResolveAnswers ==
  ASSUME NEW files, NEW path \in Seq(Segments)
  PROVE  LET a == Resolve(files, path)
         IN /\ MissDir(path) \in Seq(Names)
            /\ \/ a = Miss(files, MissDir(path))
               \/ a.kind = "redirect"
               \/ /\ a.kind = "file" /\ a.status = 200
                  /\ a.key = <<Index>> =>
                       /\ NormalizePath(path).ok
                       /\ NormalizePath(path).path \in {<<Empty>>, <<Seg("index", 0)>>}
<1> DEFINE n == NormalizePath(path)
           p == n.path
           a == Resolve(files, path)
           m == MissDir(path)
<1>1. PICK d \in Seq(Names) : (d # <<>> /\ p = d) \/ p = Append(d, Empty)
  BY Normalized DEF Normal
<1>2. a = ResolveClean(files, n) /\ m = IF n.ok THEN Front(p) ELSE <<>>
  BY DEF Resolve, MissDir
<1>3. \A k : Serve(k, 200).kind = "file" /\ Serve(k, 200).status = 200 /\ Serve(k, 200).key = k
  BY DEF Serve
<1>4. \A l : RedirectTo(l).kind = "redirect"
  BY DEF RedirectTo
<1>5. /\ <<Index>> = Append(<<>>, Index) /\ <<Empty>> = Append(<<>>, Empty) /\ <<>> \in Seq(Names)
      /\ <<Seg("index", 0)>> = Append(<<>>, Seg("index", 0))
  OBVIOUS
<1> HIDE DEF n, p, a, m
<1>6. CASE ~n.ok
  <2>1. a = Miss(files, <<>>) /\ m = <<>>
    BY <1>2, <1>6, ResolvesClean
  <2> QED
    BY <1>5, <2>1 DEF a, m
<1>7. CASE n.ok /\ p = Append(d, Empty)
  <2>1. IsDir(p) /\ m = d
    BY <1>2, <1>7, DirectoryPath
  <2>2. a = ResolveDir(files, Append(d, Empty))
    BY <1>2, <1>7, <2>1, ResolvesClean DEF p
  <2>3. a = Serve(Append(d, Index), 200) \/ a = RedirectTo(d) \/ a = Miss(files, d)
    BY <2>2, ResolvesDirectory
  <2>4. Append(d, Index) = <<Index>> => p = <<Empty>>
    <3>1. Append(d, Index) = Append(<<>>, Index) => d = <<>>
      <4> DEFINE e == <<>>
      <4>1. e \in Seq(Names) /\ e = <<>>
        BY <1>5
      <4> HIDE DEF e
      <4>2. Append(d, Index) = Append(e, Index) => d = e
        BY <4>1, Literals, PathEqual
      <4> QED
        BY <4>1, <4>2
    <3> QED
      BY <1>5, <1>7, <3>1
  <2>5. CASE a = Serve(Append(d, Index), 200)
    <3>1. a.kind = "file" /\ a.status = 200 /\ a.key = Append(d, Index)
      BY <1>3, <2>5
    <3> QED
      BY <1>7, <2>1, <2>4, <3>1 DEF a, m, p, n
  <2>6. CASE a = RedirectTo(d) \/ a = Miss(files, d)
    <3>1. a.kind = "redirect" \/ a = Miss(files, d)
      BY <1>4, <2>6
    <3> QED
      BY <2>1, <3>1 DEF a, m
  <2> QED
    BY <2>3, <2>5, <2>6
<1>8. CASE n.ok /\ d # <<>> /\ p = d
  <2>1. /\ ~IsDir(p) /\ m = Front(d) /\ Front(d) \in Seq(Names) /\ Last(d) \in Names
        /\ d = Append(Front(d), Last(d))
        /\ WithHtml(d) = Append(Front(d), Seg(Last(d).b, Last(d).h + 1))
        /\ Last(d).h \in Nat /\ Seg(Last(d).b, Last(d).h + 1) \in Names
    BY <1>2, <1>8, FilePath
  <2>2. a = ResolveFile(files, d)
    BY <1>2, <1>8, <2>1, ResolvesClean DEF p
  <2>3. \/ a = RedirectTo(PrettyURL(d)) \/ a = RedirectTo(Append(d, Empty))
        \/ a = Miss(files, Front(d))
        \/ Last(d).h = 0 /\ a = Serve(d, 200)
        \/ ~(Last(d).h > 0) /\ a = Serve(WithHtml(d), 200)
    BY <2>2, ResolvesFile
  <2> DEFINE e == Front(d)
             s == Last(d)
             o == <<>>
  <2>4. o \in Seq(Names) /\ o = <<>>
    BY <1>5
  <2> HIDE DEF e, s, o
  <2>5a. e \in Seq(Names) /\ s \in Names /\ o \in Seq(Names) /\ Index \in Names
    BY <2>1, <2>4, Literals, Zenon DEF e, s
  <2>5. Last(d).h = 0 => d # <<Index>>
    <3>1. Append(e, s) = Append(o, Index) => s = Index
      BY <2>5a, PathEqual
    <3>2. SUFFICES ASSUME s.h = 0, d = <<Index>> PROVE FALSE
      BY DEF s
    <3>3. d = Append(e, s) /\ <<Index>> = Append(o, Index)
      BY <1>5, <2>1, <2>4, Zenon DEF e, s
    <3>4. s = Index
      BY <3>1, <3>2, <3>3, Zenon
    <3> QED
      BY <3>2, <3>4, Literals
  <2>6. ~(Last(d).h > 0) /\ WithHtml(d) = <<Index>> => d = <<Seg("index", 0)>>
    <3>1. SUFFICES ASSUME ~(s.h > 0), WithHtml(d) = <<Index>> PROVE d = <<Seg("index", 0)>>
      BY DEF s
    <3> DEFINE x == Seg(s.b, s.h + 1)
    <3>2. WithHtml(d) = Append(e, x) /\ <<Index>> = Append(o, Index)
      BY <1>5, <2>1, <2>4, Zenon DEF e, s
    <3>3. x \in Names
      BY <2>1 DEF s
    <3> HIDE DEF x
    <3>4. e = o /\ x = Index
      <4>1. Append(e, x) = Append(o, Index) => e = o /\ x = Index
        BY <2>5a, <3>3, PathEqual
      <4> QED
        BY <3>1, <3>2, <4>1, Zenon
    <3>5. s.b = "index" /\ s.h = 0 /\ s \in Segments
      <4>1. s.h = 0
        BY <2>1, <3>1 DEF s
      <4>2. s.b = "index"
        BY <3>4 DEF x, Index, Seg
      <4> QED
        BY <2>1, <4>1, <4>2, Literals DEF s
    <3>6. s = Seg("index", 0)
      BY <3>5 DEF Segments, Seg
    <3>7. d = Append(e, s) /\ <<Seg("index", 0)>> = Append(o, Seg("index", 0))
      BY <1>5, <2>1, <2>4, Zenon DEF e, s
    <3> QED
      BY <3>4, <3>6, <3>7, Zenon
  <2>7. ASSUME NEW k, a = Serve(k, 200), k = <<Index>> => p = <<Seg("index", 0)>>
        PROVE  /\ a.kind = "file" /\ a.status = 200
               /\ a.key = <<Index>> => p = <<Seg("index", 0)>>
    BY <1>3, <2>7
  <2>8. \/ a.kind = "redirect" \/ a = Miss(files, m)
        \/ /\ a.kind = "file" /\ a.status = 200
           /\ a.key = <<Index>> => p = <<Seg("index", 0)>>
    BY <1>4, <1>8, <2>1, <2>3, <2>5, <2>6, <2>7
  <2>9. m \in Seq(Names)
    BY <2>1
  <2> QED
    BY <1>8, <2>8, <2>9 DEF a, m, p, n
<1> QED
  BY <1>1, <1>6, <1>7, <1>8

(* Without keeps, of any sequence, one element for every place that is not *)
(* taken out.                                                              *)
LEMMA WithoutCounts ==
  ASSUME NEW K, NEW s \in Seq(K), NEW S
  PROVE  /\ Without(s, S) \in Seq(K)
         /\ RangeOf(Without(s, S)) \subseteq RangeOf(s) \ S
         /\ Len(Without(s, S)) = Cardinality({i \in 1..Len(s) : s[i] \notin S})
<1> DEFINE f == CHOOSE g : g = [k \in 0..Len(s) |->
                  IF k = 0 THEN <<>> ELSE IF s[k] \in S THEN g[k - 1] ELSE Append(g[k - 1], s[k])]
<1>1. Without(s, S) = f[Len(s)]
  BY Zenon DEF Without
<1>2. PICK g \in [0..Len(s) -> Seq(K)] : Selection(s, S, g)
  BY SelectExists, Zenon
<1>3. g = [k \in 0..Len(s) |->
             IF k = 0 THEN <<>> ELSE IF s[k] \in S THEN g[k - 1] ELSE Append(g[k - 1], s[k])]
  <2>1. Len(s) \in Nat /\ \A k \in 0..Len(s) : k = 0 \/ k \in 1..Len(s)
    OBVIOUS
  <2>2. \A k \in 0..Len(s) : g[k] =
             IF k = 0 THEN <<>> ELSE IF s[k] \in S THEN g[k - 1] ELSE Append(g[k - 1], s[k])
    BY <1>2, <2>1, Zenon DEF Selection
  <2>3. g = [k \in 0..Len(s) |-> g[k]]
    OBVIOUS
  <2> QED
    BY <2>2, <2>3, Zenon
<1>4. f = [k \in 0..Len(s) |->
             IF k = 0 THEN <<>> ELSE IF s[k] \in S THEN f[k - 1] ELSE Append(f[k - 1], s[k])]
  BY <1>3, Zenon
<1> HIDE DEF f
<1>5. \A k \in 0..Len(s) : f[k] =
        IF k = 0 THEN <<>> ELSE IF s[k] \in S THEN f[k - 1] ELSE Append(f[k - 1], s[k])
  BY <1>4, Zenon
<1> DEFINE left(k) == {i \in 1..k : s[i] \notin S}
           good(k) == /\ f[k] \in Seq(K) /\ RangeOf(f[k]) \subseteq RangeOf(s) \ S
                      /\ IsFiniteSet(left(k)) /\ Len(f[k]) = Cardinality(left(k))
           P == {k \in Nat : k <= Len(s) => good(k)}
<1>6. P \subseteq Nat /\ 0 \in P
  <2>1. f[0] = <<>> /\ Len(s) \in Nat
    BY <1>5
  <2>2. left(0) = {}
    OBVIOUS
  <2>3. IsFiniteSet({}) /\ Cardinality({}) = 0
    BY FS_EmptySet
  <2>4. RangeOf(<<>>) = {} /\ <<>> \in Seq(K) /\ Len(<<>>) = 0
    BY DEF RangeOf
  <2> HIDE DEF left
  <2>5. good(0)
    BY <2>1, <2>2, <2>3, <2>4
  <2> HIDE DEF good
  <2> QED
    BY <2>5
<1>7. ASSUME NEW k \in P PROVE k + 1 \in P
  <2> HIDE DEF good
  <2>1. SUFFICES ASSUME k + 1 <= Len(s) PROVE good(k + 1)
    OBVIOUS
  <2>2. k \in Nat /\ good(k) /\ Len(s) \in Nat
    BY <2>1
  <2>3. k + 1 \in 1..Len(s) /\ k + 1 \in 0..Len(s) /\ k + 1 # 0 /\ (k + 1) - 1 = k
    BY <2>1, <2>2
  <2> HIDE DEF P
  <2>4. f[k + 1] = IF s[k + 1] \in S THEN f[k] ELSE Append(f[k], s[k + 1])
    BY <1>5, <2>3
  <2>5. left(k + 1) = IF s[k + 1] \in S THEN left(k) ELSE left(k) \cup {k + 1}
    <3>1. 1..(k + 1) = (1..k) \cup {k + 1}
      BY <2>2
    <3> QED
      BY <3>1
  <2>6. s[k + 1] \in K /\ s[k + 1] \in RangeOf(s)
    BY <2>3 DEF RangeOf
  <2>7. k + 1 \notin left(k)
    BY <2>2
  <2> HIDE DEF left
  <2>8. /\ f[k] \in Seq(K) /\ RangeOf(f[k]) \subseteq RangeOf(s) \ S
        /\ IsFiniteSet(left(k)) /\ Len(f[k]) = Cardinality(left(k))
    BY <2>2 DEF good
  <2>9. CASE s[k + 1] \in S
    <3>1. f[k + 1] = f[k] /\ left(k + 1) = left(k)
      BY <2>4, <2>5, <2>9
    <3> QED
      BY <2>8, <3>1 DEF good
  <2>10. CASE s[k + 1] \notin S
    <3>1. f[k + 1] = Append(f[k], s[k + 1]) /\ left(k + 1) = left(k) \cup {k + 1}
      BY <2>4, <2>5, <2>10
    <3>2. /\ Append(f[k], s[k + 1]) \in Seq(K)
          /\ RangeOf(Append(f[k], s[k + 1])) = RangeOf(f[k]) \cup {s[k + 1]}
      BY <2>6, <2>8, AppendContents
    <3>3. Len(Append(f[k], s[k + 1])) = Len(f[k]) + 1
      BY <2>6, <2>8
    <3>4. IsFiniteSet(left(k) \cup {k + 1}) /\ Cardinality(left(k) \cup {k + 1}) = Cardinality(left(k)) + 1
      BY <2>7, <2>8, FS_AddElement
    <3>5. f[k + 1] \in Seq(K) /\ RangeOf(f[k + 1]) = RangeOf(f[k]) \cup {s[k + 1]}
      BY <3>1, <3>2
    <3>6. Len(f[k + 1]) = Cardinality(left(k + 1)) /\ IsFiniteSet(left(k + 1))
      BY <2>8, <3>1, <3>3, <3>4
    <3> QED
      BY <2>6, <2>8, <2>10, <3>5, <3>6 DEF good
  <2> QED
    BY <2>9, <2>10
<1>8. P = Nat
  <2> HIDE DEF P
  <2> QED
    BY <1>6, <1>7, SetInduction
<1>9. good(Len(s))
  <2>1. Len(s) \in Nat /\ Len(s) <= Len(s)
    OBVIOUS
  <2>2. Len(s) \in P
    BY <1>8, <2>1, Zenon
  <2> HIDE DEF good
  <2> QED
    BY <2>1, <2>2
<1> QED
  BY <1>1, <1>9

(* What an accepted _redirects file says.                                  *)
GoodRedirects(rs) ==
  /\ \A i \in DOMAIN rs : Compiles(rs[i].source) /\ (rs[i].status = 200 => rs[i].local)
  /\ LET dynamic == {i \in DOMAIN rs : IsDynamicSource(rs[i].source)}
     IN  /\ Cardinality(dynamic) <= MaxDynamicRedirects
         /\ Len(rs) - Cardinality(dynamic) <= MaxStaticRedirects

(* The rules of a _redirects file that parsed are good.                    *)
LEMMA RedirectsParse ==
  ASSUME NEW K, NEW ls \in Seq(K), ParseRedirects(ls).ok
  PROVE  GoodRedirects(ParseRedirects(ls).rules)
<1> DEFINE blank == {l \in RangeOf(ls) : l.fields = 0}
           kept == Without(ls, blank)
           plain == {l \in RangeOf(kept) : ~IsDynamicSource(l.source)}
           dynamic == Without(kept, plain)
           rs == [i \in DOMAIN kept |-> RuleOf(kept[i])]
           r == ParseRedirects(ls)
<1>1. r = [ok |-> /\ \A i \in DOMAIN ls : ~ls[i].long /\ RedirectLineOK(ls[i])
                  /\ Len(dynamic) <= MaxDynamicRedirects
                  /\ Len(kept) - Len(dynamic) <= MaxStaticRedirects,
           rules |-> rs]
  BY DEF ParseRedirects
<1>2. kept \in Seq(K) /\ RangeOf(kept) \subseteq RangeOf(ls) \ blank
  BY WithoutCounts
<1> HIDE DEF kept
<1>3. Len(dynamic) = Cardinality({i \in 1..Len(kept) : kept[i] \notin plain})
  <2> HIDE DEF plain
  <2> QED
    BY <1>2, WithoutCounts
<1> HIDE DEF dynamic, rs, r
<1>4. /\ \A i \in DOMAIN ls : RedirectLineOK(ls[i])
      /\ Len(dynamic) <= MaxDynamicRedirects
      /\ Len(kept) - Len(dynamic) <= MaxStaticRedirects
      /\ r.rules = rs
  BY <1>1 DEF r
<1>5. DOMAIN kept = 1..Len(kept) /\ DOMAIN rs = DOMAIN kept
  BY <1>2 DEF rs
<1>6. ASSUME NEW i \in DOMAIN rs
      PROVE  /\ Compiles(rs[i].source) /\ (rs[i].status = 200 => rs[i].local)
             /\ IsDynamicSource(rs[i].source) <=> kept[i] \notin plain
  <2> DEFINE l == kept[i]
  <2>1. l \in RangeOf(kept) /\ rs[i] = RuleOf(l)
    BY <1>5 DEF RangeOf, rs
  <2>2. l \in RangeOf(ls) /\ l.fields # 0
    BY <1>2, <2>1
  <2> HIDE DEF l
  <2>3. RedirectLineOK(l)
    BY <1>4, <2>2 DEF RangeOf
  <2>4. Compiles(l.source) /\ (RedirectCode(l) = 200 => l.local)
    BY <2>2, <2>3 DEF RedirectLineOK
  <2>5. rs[i].source = l.source /\ rs[i].status = RedirectCode(l) /\ rs[i].local = l.local
    BY <2>1 DEF RuleOf
  <2>6. IsDynamicSource(l.source) <=> l \notin plain
    BY <2>1
  <2> QED
    BY <2>4, <2>5, <2>6 DEF l
<1>7. {i \in DOMAIN rs : IsDynamicSource(rs[i].source)} = {i \in 1..Len(kept) : kept[i] \notin plain}
  <2> HIDE DEF plain
  <2> QED
    BY <1>5, <1>6
<1>8. /\ Cardinality({i \in DOMAIN rs : IsDynamicSource(rs[i].source)}) = Len(dynamic)
      /\ Len(rs) = Len(kept)
  <2>1. rs = [i \in 1..Len(kept) |-> RuleOf(kept[i])] /\ Len(kept) \in Nat
    BY <1>2, <1>5 DEF rs
  <2>2. Len(rs) = Len(kept)
    BY <2>1
  <2> HIDE DEF plain, rs
  <2> QED
    BY <1>3, <1>7, <2>2
<1>9. GoodRedirects(rs)
  BY <1>4, <1>6, <1>8 DEF GoodRedirects
<1> QED
  BY <1>4, <1>9 DEF r

(* What an accepted _headers file says.                                    *)
HeaderRules ==
  [pattern : {l.pattern : l \in HeaderLines}, host : {l.host : l \in HeaderLines},
   set : Seq([name : {l.name : l \in HeaderLines}, value : {l.value : l \in HeaderLines}]),
   unset : SUBSET {l.name : l \in HeaderLines}]
GoodHeaders(rs) ==
  Len(rs) <= MaxHeaderRules /\ \A i \in DOMAIN rs : Compiles(rs[i].pattern)
Parsed == {acc \in [ok : BOOLEAN, rules : Seq(HeaderRules)] : acc.ok => GoodHeaders(acc.rules)}

(* A header line changes the last rule and not its pattern.                *)
LEMMA RuleChanged ==
  ASSUME NEW acc \in Parsed, acc.rules # <<>>, acc.ok, NEW r \in HeaderRules,
         r.pattern = acc.rules[Len(acc.rules)].pattern
  PROVE  [ok |-> acc.ok, rules |-> [acc.rules EXCEPT ![Len(acc.rules)] = r]] \in Parsed
<1> DEFINE rs == acc.rules
           n == Len(rs)
           new == [rs EXCEPT ![n] = r]
<1>1. rs \in Seq(HeaderRules) /\ GoodHeaders(rs) /\ n \in 1..Len(rs) /\ acc.ok \in BOOLEAN
  <2>1. rs \in Seq(HeaderRules) /\ GoodHeaders(rs) /\ acc.ok \in BOOLEAN
    BY DEF Parsed
  <2> HIDE DEF rs
  <2>2. Len(rs) \in Nat /\ Len(rs) # 0
    BY <2>1 DEF rs
  <2> QED
    BY <2>1, <2>2
<1>2. r.pattern = rs[n].pattern
  OBVIOUS
<1> HIDE DEF rs, n
<1>3. /\ new \in Seq(HeaderRules) /\ Len(new) = Len(rs) /\ DOMAIN new = DOMAIN rs
      /\ \A i \in DOMAIN rs : new[i] = IF i = n THEN r ELSE rs[i]
  BY <1>1
<1> HIDE DEF new
<1>4. GoodHeaders(new)
  BY <1>1, <1>2, <1>3 DEF GoodHeaders
<1> QED
  BY <1>1, <1>3, <1>4 DEF Parsed, rs, n, new

(* Every line keeps what was parsed good.                                  *)
LEMMA HeaderParsed ==
  ASSUME NEW acc \in Parsed, NEW l \in HeaderLines
  PROVE  ParseHeaderLine(acc, l) \in Parsed
<1> DEFINE n == Len(acc.rules)
           r == acc.rules[n]
           next == ParseHeaderLine(acc, l)
           opened == [pattern |-> l.pattern, host |-> l.host, set |-> <<>>, unset |-> {}]
<1>1. /\ acc.ok \in BOOLEAN /\ acc.rules \in Seq(HeaderRules) /\ n \in Nat
      /\ acc.ok => GoodHeaders(acc.rules)
      /\ acc = [ok |-> acc.ok, rules |-> acc.rules]
  BY DEF Parsed
<1>2. l.kind \in {"blank", "pattern", "set", "unset", "malformed"}
  BY SiteAssumption
<1>3. CASE ~acc.ok \/ l.kind = "blank"
  <2>1. next = acc
    BY <1>3, Zenon DEF ParseHeaderLine
  <2> QED
    BY <2>1
<1>4. CASE acc.ok /\ (l.kind = "malformed" \/ (n = 0 /\ l.kind \in {"set", "unset"}))
  <2>1. next = [acc EXCEPT !.ok = FALSE]
    BY <1>4 DEF ParseHeaderLine
  <2>2. next = [ok |-> FALSE, rules |-> acc.rules]
    BY <1>1, <2>1
  <2> QED
    BY <1>1, <2>2 DEF Parsed
<1>5. CASE acc.ok /\ l.kind = "pattern"
  <2>1. next = [ok |-> Compiles(l.pattern) /\ n < MaxHeaderRules, rules |-> Append(acc.rules, opened)]
    BY <1>5 DEF ParseHeaderLine
  <2>2. opened \in HeaderRules /\ opened.pattern = l.pattern
    <3>1. <<>> \in Seq([name : {k.name : k \in HeaderLines}, value : {k.value : k \in HeaderLines}])
      OBVIOUS
    <3> QED
      BY <3>1 DEF HeaderRules
  <2> DEFINE rs == acc.rules
             new == Append(rs, opened)
  <2> HIDE DEF opened, rs
  <2>3. rs \in Seq(HeaderRules) /\ GoodHeaders(rs) /\ n = Len(rs)
    BY <1>1, <1>5 DEF rs
  <2> HIDE DEF n
  <2>4. /\ new \in Seq(HeaderRules) /\ Len(new) = n + 1 /\ new[n + 1] = opened
        /\ \A i \in DOMAIN new : i \in DOMAIN rs \/ i = n + 1
        /\ \A i \in DOMAIN rs : new[i] = rs[i]
    BY <2>2, <2>3
  <2> HIDE DEF new
  <2>5. ASSUME Compiles(l.pattern), n < MaxHeaderRules PROVE GoodHeaders(new)
    <3>1. n \in Nat /\ MaxHeaderRules \in Nat
      BY <1>1, LimitsAssumption DEF n
    <3>2. n + 1 <= MaxHeaderRules
      BY <2>5, <3>1
    <3>3. \A i \in DOMAIN new : Compiles(new[i].pattern)
      BY <2>2, <2>3, <2>4, <2>5 DEF GoodHeaders
    <3> QED
      BY <2>4, <3>2, <3>3 DEF GoodHeaders
  <2>6. (Compiles(l.pattern) /\ n < MaxHeaderRules) \in BOOLEAN
    OBVIOUS
  <2>7. next = [ok |-> Compiles(l.pattern) /\ n < MaxHeaderRules, rules |-> new]
    BY <2>1 DEF new, rs, n
  <2> HIDE DEF next
  <2>8. next.ok = (Compiles(l.pattern) /\ n < MaxHeaderRules) /\ next.rules = new
    BY <2>7
  <2>9. next \in [ok : BOOLEAN, rules : Seq(HeaderRules)]
    BY <2>4, <2>6, <2>7
  <2>10. next.ok => GoodHeaders(next.rules)
    BY <2>5, <2>8
  <2> QED
    BY <2>9, <2>10 DEF Parsed, next
<1>6. ASSUME acc.ok, n # 0
      PROVE  n \in 1..Len(acc.rules) /\ r \in HeaderRules /\ acc.rules # <<>> /\ n > 0
  BY <1>1, <1>6
<1>7. CASE acc.ok /\ n # 0 /\ l.kind = "unset"
  <2> DEFINE s == [r EXCEPT !.unset = @ \cup {l.name}]
  <2>1. n > 0 /\ r \in HeaderRules /\ acc.rules # <<>>
    BY <1>6, <1>7
  <2>2. next = [acc EXCEPT !.rules[n].unset = @ \cup {l.name}]
    BY <1>7, <2>1 DEF ParseHeaderLine
  <2>3. next = [ok |-> acc.ok, rules |-> [acc.rules EXCEPT ![n] = s]]
    <3>1. [acc EXCEPT !.rules[n].unset = @ \cup {l.name}] = [acc EXCEPT !.rules = [acc.rules EXCEPT ![n] = s]]
      OBVIOUS
    <3> DEFINE x == [acc.rules EXCEPT ![n] = s]
    <3> HIDE DEF x, n, r, s
    <3>2. [acc EXCEPT !.rules = x] = [ok |-> acc.ok, rules |-> x]
      BY <1>1
    <3> QED
      BY <2>2, <3>1, <3>2 DEF x
  <2>4. s \in HeaderRules /\ s.pattern = r.pattern
    <3> HIDE DEF r
    <3> QED
      BY <2>1 DEF HeaderRules
  <2> HIDE DEF s
  <2> QED
    BY <1>7, <2>1, <2>3, <2>4, RuleChanged
<1>8. CASE acc.ok /\ n # 0 /\ l.kind = "set"
  <2> DEFINE e == [name |-> l.name, value |-> l.value]
             s == [r EXCEPT !.set = Append(@, e)]
  <2>1. n > 0 /\ r \in HeaderRules /\ acc.rules # <<>>
    BY <1>6, <1>8
  <2>2. next = [acc EXCEPT !.rules[n].set = Append(@, e)]
    BY <1>8, <2>1 DEF ParseHeaderLine
  <2>3. next = [ok |-> acc.ok, rules |-> [acc.rules EXCEPT ![n] = s]]
    <3> HIDE DEF e
    <3>1. [acc EXCEPT !.rules[n].set = Append(@, e)] = [acc EXCEPT !.rules = [acc.rules EXCEPT ![n] = s]]
      OBVIOUS
    <3> DEFINE x == [acc.rules EXCEPT ![n] = s]
    <3> HIDE DEF x, n, r, s
    <3>2. [acc EXCEPT !.rules = x] = [ok |-> acc.ok, rules |-> x]
      BY <1>1
    <3> QED
      BY <2>2, <3>1, <3>2 DEF x
  <2>4. s \in HeaderRules /\ s.pattern = r.pattern
    <3>1. e \in [name : {k.name : k \in HeaderLines}, value : {k.value : k \in HeaderLines}]
      OBVIOUS
    <3> DEFINE more == Append(r.set, e)
    <3> HIDE DEF r, e
    <3>2. r.set \in Seq([name : {k.name : k \in HeaderLines}, value : {k.value : k \in HeaderLines}])
      BY <2>1 DEF HeaderRules
    <3>3. more \in Seq([name : {k.name : k \in HeaderLines}, value : {k.value : k \in HeaderLines}])
      BY <3>1, <3>2
    <3> HIDE DEF more
    <3>4. [r EXCEPT !.set = more] \in HeaderRules /\ [r EXCEPT !.set = more].pattern = r.pattern
      BY <2>1, <3>3 DEF HeaderRules
    <3> QED
      BY <3>4 DEF more
  <2> HIDE DEF s
  <2> QED
    BY <1>8, <2>1, <2>3, <2>4, RuleChanged
<1> QED
  BY <1>2, <1>3, <1>4, <1>5, <1>7, <1>8

(* The rules of a _headers file that parsed are good.                      *)
LEMMA HeadersParse ==
  ASSUME NEW ls \in Seq(HeaderLines)
  PROVE  ParseHeaders(ls) \in Parsed
<1> DEFINE start == [ok |-> TRUE, rules |-> <<>>]
           f == CHOOSE h : h = [n \in 0..Len(ls) |->
                  IF n = 0 THEN start ELSE ParseHeaderLine(h[n - 1], ls[n])]
           g == [q \in Parsed \X HeaderLines |-> ParseHeaderLine(q[1], q[2])]
<1>1. ParseHeaders(ls) = f[Len(ls)]
  BY Zenon DEF ParseHeaders
<1>2. start \in Parsed
  <2>1. GoodHeaders(<<>>)
    BY LimitsAssumption DEF GoodHeaders
  <2> QED
    BY <2>1 DEF Parsed
<1>3. \A acc \in Parsed, l \in HeaderLines :
        g[<<acc, l>>] = ParseHeaderLine(acc, l) /\ g[<<acc, l>>] \in Parsed
  BY HeaderParsed
<1> HIDE DEF g, start
<1>4. PICK h \in [0..Len(ls) -> Parsed] : FoldOf(ls, start, g, h)
  <2> DEFINE K == HeaderLines
             X == Parsed
  <2>1. ls \in Seq(K) /\ start \in X /\ \A x \in X, y \in K : g[<<x, y>>] \in X
    BY <1>2, <1>3
  <2> HIDE DEF K, X
  <2>2. \E h \in [0..Len(ls) -> X] : FoldOf(ls, start, g, h)
    BY <2>1, FoldExists, Zenon
  <2> QED
    BY <2>2 DEF X
<1>5. h = [n \in 0..Len(ls) |-> IF n = 0 THEN start ELSE ParseHeaderLine(h[n - 1], ls[n])]
  <2>1. ASSUME NEW n \in 0..Len(ls)
        PROVE  h[n] = IF n = 0 THEN start ELSE ParseHeaderLine(h[n - 1], ls[n])
    <3>1. CASE n = 0
      BY <1>4, <3>1 DEF FoldOf
    <3>2. CASE n # 0
      <4>1. n \in 1..Len(ls) /\ h[n - 1] \in Parsed /\ ls[n] \in HeaderLines
        BY <3>2
      <4> QED
        BY <1>3, <1>4, <3>2, <4>1 DEF FoldOf
    <3> QED
      BY <3>1, <3>2
  <2>2. h = [n \in 0..Len(ls) |-> h[n]]
    OBVIOUS
  <2> QED
    BY <2>1, <2>2, Zenon
<1>6. f = [n \in 0..Len(ls) |-> IF n = 0 THEN start ELSE ParseHeaderLine(f[n - 1], ls[n])]
  BY <1>5, Zenon
<1> HIDE DEF f
<1>7. \A n \in 0..Len(ls) : f[n] = IF n = 0 THEN start ELSE ParseHeaderLine(f[n - 1], ls[n])
  BY <1>6, Zenon
<1> DEFINE P == {n \in Nat : n <= Len(ls) => f[n] \in Parsed}
<1>8. P \subseteq Nat /\ 0 \in P
  <2>1. f[0] = start
    BY <1>7
  <2> QED
    BY <1>2, <2>1
<1>9. ASSUME NEW n \in P PROVE n + 1 \in P
  <2>1. SUFFICES ASSUME n + 1 <= Len(ls) PROVE f[n + 1] \in Parsed
    OBVIOUS
  <2>2. n \in Nat /\ f[n] \in Parsed /\ n + 1 \in 0..Len(ls) /\ n + 1 # 0 /\ (n + 1) - 1 = n
    BY <2>1
  <2>3. f[n + 1] = ParseHeaderLine(f[n], ls[n + 1]) /\ ls[n + 1] \in HeaderLines
    BY <1>7, <2>2
  <2> QED
    BY <2>2, <2>3, HeaderParsed
<1>10. P = Nat
  <2> HIDE DEF P
  <2> QED
    BY <1>8, <1>9, SetInduction
<1>11. Len(ls) \in P /\ Len(ls) <= Len(ls)
  BY <1>10
<1> QED
  BY <1>1, <1>11

SiteTypes ==
  /\ Files(DOMAIN static)
  /\ asked \in Seq(Segments)
  /\ lines \in [redirects : Seq(RedirectLines), headers : Seq(HeaderLines)]
  /\ hops \in Nat
  /\ phase \in {"write", "serve", "done", "refused"}

(* Until the site is published nothing has been asked of it; a published   *)
(* one has parsed rules.                                                   *)
SitePhases ==
  /\ phase = "write" => url = asked /\ hops = 0 /\ rules = NoFiles
  /\ phase \in {"serve", "done"} => GoodRedirects(rules.redirects) /\ GoodHeaders(rules.headers)

(* Without _redirects every redirect followed is one that Resolve gave.    *)
FollowsPretty ==
  rules.redirects = <<>> =>
    /\ url \in Seq(Segments)
    /\ hops + RedirectsLeft(DOMAIN static, url) <= 2 + NameSuffixes(asked)
    /\ asked \in DOMAIN static /\ PlainPage(asked) => url \in {asked, PrettyURL(asked)}

Answered(a) ==
  /\ a.kind # "redirect"
  /\ answer = IF a.kind = "file"
                THEN WithHeaders(a, ResponseHeaders(rules.headers, SiteHost, url))
                ELSE a
SiteInv ==
  SiteTypes /\ SitePhases /\ FollowsPretty /\ (phase = "done" => Answered(Answer(url)))

(* The segments of a site are segments here.                               *)
LEMMA SegmentsTyped == Segment \subseteq Segments /\ Seq(Segment) \subseteq Seq(Segments)
<1>1. Segment \subseteq Segments
  BY DEF Segment, Segments, Bases
<1> QED
  BY <1>1

(* The invariant holds of a site nothing is written for yet.               *)
LEMMA SiteStarts ==
  ASSUME SiteInit
  PROVE  SiteInv
<1>1. PICK S \in StaticSets : static = [k \in S |-> k]
  BY DEF SiteInit
<1>2. Files(S)
  <2> SUFFICES ASSUME NEW key \in S
               PROVE  /\ key \in Seq(Names) /\ key # <<>>
                      /\ \A n \in 1..Len(key) - 1 : SubSeq(key, 1, n) \notin S
    BY DEF Files
  <2>1. /\ key \in Seq(Segment) /\ key # <<>> /\ \A i \in DOMAIN key : IsName(key[i])
        /\ \A n \in 1..Len(key) - 1 : SubSeq(key, 1, n) \notin S
    BY SiteAssumption
  <2>2. \A i \in 1..Len(key) : key[i] \in Names
    BY <2>1, SegmentsTyped DEF Names
  <2>3. key \in Seq(Names)
    BY <2>1, <2>2
  <2> QED
    BY <2>1, <2>3
<1>3. asked \in Seq(Segments)
  BY SiteAssumption, SegmentsTyped DEF SiteInit
<1>4. SiteTypes
  <2>1. NoFiles \in [redirects : Seq(RedirectLines), headers : Seq(HeaderLines)]
    BY DEF NoFiles
  <2>2. DOMAIN static = S
    BY <1>1
  <2> QED
    BY <1>2, <1>3, <2>1, <2>2 DEF SiteInit, SiteTypes
<1>5. SitePhases
  BY DEF SiteInit, SitePhases
<1>6. FollowsPretty
  <2>1. /\ RedirectsLeft(DOMAIN static, asked) \in Nat /\ NameSuffixes(asked) \in Nat
        /\ RedirectsLeft(DOMAIN static, asked) <= 2 + NameSuffixes(asked)
    BY <1>3, LeftTyped
  <2> QED
    BY <1>3, <2>1 DEF FollowsPretty, SiteInit
<1> QED
  BY <1>4, <1>5, <1>6 DEF SiteInv, SiteInit

(* Without _redirects it is the worker or Resolve that answers.            *)
LEMMA PlainAnswer ==
  ASSUME rules.redirects = <<>>
  PROVE  Answer(url) = [kind |-> "worker", status |-> 200] \/ Answer(url) = Resolve(static, url)
<1> DEFINE Takes(r) == Compiles(r.source) /\ ~r.host /\ Matches(r.source, url)
           taken == {i \in 1..Len(<<>>) : Takes(<<>>[i])}
           rule == EvalRedirects(rules.redirects, url)
<1>1. RuleFor(<<>>, url) = IF taken # {} THEN Min(taken) ELSE 0
  BY DEF RuleFor, SelectInSeq
<1>2. taken = {}
  <2> HIDE DEF Takes
  <2> QED
    OBVIOUS
<1> HIDE DEF taken
<1>3. rule = [ok |-> FALSE]
  BY <1>1, <1>2 DEF EvalRedirects, FirstApplied
<1> HIDE DEF rule
<1>4. ~rule.ok
  BY <1>3
<1>5. ServeStatic(static, rules, url) = Resolve(static, url)
  BY <1>4 DEF ServeStatic, UnderRule, rule
<1> QED
  BY <1>5 DEF Answer

(* Every step keeps the types and what the phases say.                     *)
LEMMA SiteTyped ==
  ASSUME SiteInv, SiteNext
  PROVE  SiteTypes'
<1> USE DEF SiteInv, SiteTypes
<1>1. ASSUME NEW l \in RedirectLines, WriteRedirect(l) PROVE SiteTypes'
  <2>1. Append(lines.redirects, l) \in Seq(RedirectLines)
    OBVIOUS
  <2> QED
    BY <1>1, <2>1 DEF WriteRedirect
<1>2. ASSUME NEW l \in HeaderLines, WriteHeader(l) PROVE SiteTypes'
  <2>1. Append(lines.headers, l) \in Seq(HeaderLines)
    OBVIOUS
  <2> QED
    BY <1>2, <2>1 DEF WriteHeader
<1>3. ASSUME Publish PROVE SiteTypes'
  <2>1. phase' \in {"serve", "refused"} /\ UNCHANGED <<static, lines, asked, hops>>
    BY <1>3 DEF Publish
  <2> QED
    BY <2>1
<1>4. ASSUME Follow PROVE SiteTypes'
  BY <1>4 DEF Follow
<1>5. ASSUME Finish PROVE SiteTypes'
  BY <1>5 DEF Finish
<1> QED
  BY <1>1, <1>2, <1>3, <1>4, <1>5 DEF SiteNext

(* Publishing a site parses its files, and asks nothing of it.             *)
LEMMA PublishChecked ==
  ASSUME SiteInv, Publish
  PROVE  SitePhases' /\ FollowsPretty' /\ phase' # "done"
<1>1. /\ phase = "write" /\ phase' \in {"serve", "refused"}
      /\ UNCHANGED <<static, lines, asked, url, hops, answer>>
  BY DEF Publish
<1>2. url = asked /\ hops = 0 /\ rules = NoFiles
  BY <1>1 DEF SiteInv, SitePhases
<1>3. asked \in Seq(Segments) /\ lines.redirects \in Seq(RedirectLines) /\ lines.headers \in Seq(HeaderLines)
  BY DEF SiteInv, SiteTypes
<1>4. ASSUME phase' = "serve" PROVE GoodRedirects(rules'.redirects) /\ GoodHeaders(rules'.headers)
  <2> DEFINE r == ParseRedirects(lines.redirects)
             h == ParseHeaders(lines.headers)
  <2>1. r.ok /\ h.ok /\ rules' = [redirects |-> r.rules, headers |-> h.rules]
    BY <1>4 DEF Publish
  <2>2. GoodRedirects(r.rules)
    BY <1>3, <2>1, RedirectsParse
  <2>3. GoodHeaders(h.rules)
    <3>1. h \in Parsed
      BY <1>3, HeadersParse
    <3> QED
      BY <2>1, <3>1 DEF Parsed
  <2> HIDE DEF r, h
  <2>4. rules'.redirects = r.rules /\ rules'.headers = h.rules
    BY <2>1
  <2> QED
    BY <2>2, <2>3, <2>4
<1>5. SitePhases'
  BY <1>1, <1>4 DEF SitePhases, GoodRedirects, GoodHeaders
<1>6. FollowsPretty'
  <2>1. /\ RedirectsLeft(DOMAIN static, asked) \in Nat /\ NameSuffixes(asked) \in Nat
        /\ RedirectsLeft(DOMAIN static, asked) <= 2 + NameSuffixes(asked)
    BY <1>3, LeftTyped
  <2>2. /\ url' \in Seq(Segments)
        /\ hops' + RedirectsLeft(DOMAIN static', url') <= 2 + NameSuffixes(asked')
        /\ url' = asked'
    BY <1>1, <1>2, <1>3, <2>1
  <2> QED
    BY <2>2 DEF FollowsPretty
<1> QED
  BY <1>1, <1>5, <1>6

(* A redirect followed leaves fewer of them.                               *)
LEMMA FollowKeeps ==
  ASSUME SiteInv, Follow
  PROVE  FollowsPretty'
<1> DEFINE a == Answer(url)
           F == DOMAIN static
<1>1. /\ a.kind = "redirect" /\ url' = a.location /\ hops' = hops + 1
      /\ UNCHANGED <<static, rules, asked>>
  BY Zenon DEF Follow
<1>2. SUFFICES ASSUME rules.redirects = <<>>
               PROVE  /\ url' \in Seq(Segments)
                      /\ hops' + RedirectsLeft(F, url') <= 2 + NameSuffixes(asked)
                      /\ asked \in F /\ PlainPage(asked) => url' \in {asked, PrettyURL(asked)}
  BY <1>1 DEF FollowsPretty
<1>3. /\ url \in Seq(Segments) /\ hops \in Nat /\ asked \in Seq(Segments)
      /\ hops + RedirectsLeft(F, url) <= 2 + NameSuffixes(asked)
      /\ asked \in F /\ PlainPage(asked) => url \in {asked, PrettyURL(asked)}
      /\ Files(F)
  BY <1>2 DEF SiteInv, SiteTypes, FollowsPretty
<1>4. a = Resolve(static, url)
  <2>1. a = [kind |-> "worker", status |-> 200] \/ a = Resolve(static, url)
    BY <1>2, PlainAnswer
  <2> HIDE DEF a
  <2> QED
    BY <1>1, <2>1
<1>5. a.location \in Seq(Segments) /\ RedirectsLeft(F, a.location) < RedirectsLeft(F, url)
  BY <1>1, <1>3, <1>4, RedirectsDecrease
<1> HIDE DEF a
<1>6. /\ RedirectsLeft(F, a.location) \in Nat /\ RedirectsLeft(F, url) \in Nat
      /\ NameSuffixes(asked) \in Nat
  BY <1>3, <1>5, LeftTyped
<1>7. hops' + RedirectsLeft(F, url') <= 2 + NameSuffixes(asked)
  BY <1>1, <1>3, <1>5, <1>6
<1>8. ASSUME asked \in F, PlainPage(asked) PROVE url' \in {asked, PrettyURL(asked)}
  <2>1. Resolve(static, asked) = RedirectTo(PrettyURL(asked))
    BY <1>3, <1>8, PageAnswered
  <2>2. PICK k \in {asked, Shadow(asked)} : Resolve(static, PrettyURL(asked)) = Serve(k, 200)
    BY <1>3, <1>8, PageAnswered
  <2>3. Serve(k, 200).kind = "file" /\ RedirectTo(PrettyURL(asked)).location = PrettyURL(asked)
    BY DEF Serve, RedirectTo
  <2> QED
    BY <1>1, <1>3, <1>4, <1>8, <2>1, <2>2, <2>3
<1> QED
  BY <1>1, <1>5, <1>7, <1>8

(* Every step keeps the invariant.                                         *)
LEMMA SiteStep ==
  ASSUME SiteInv, [SiteNext]_siteVars
  PROVE  SiteInv'
<1>1. CASE UNCHANGED siteVars
  BY <1>1 DEF siteVars, SiteInv, SiteTypes, SitePhases, FollowsPretty, Answered, Answer,
              GoodRedirects, GoodHeaders
<1>2. CASE SiteNext
  <2>1. SiteTypes'
    BY <1>2, SiteTyped
  <2>2. CASE (\E l \in RedirectLines : WriteRedirect(l)) \/ (\E l \in HeaderLines : WriteHeader(l))
    <3>1. phase = "write" /\ UNCHANGED <<static, phase, rules, asked, url, hops>>
      BY <2>2 DEF WriteRedirect, WriteHeader
    <3> QED
      BY <2>1, <3>1 DEF SiteInv, SitePhases, FollowsPretty
  <2>3. CASE Publish
    BY <2>1, <2>3, PublishChecked DEF SiteInv
  <2>4. CASE Follow
    <3>1. phase = "serve" /\ UNCHANGED <<phase, rules>>
      BY <2>4 DEF Follow
    <3>2. SitePhases'
      BY <3>1 DEF SiteInv, SitePhases, GoodRedirects, GoodHeaders
    <3> QED
      BY <2>1, <2>4, <3>1, <3>2, FollowKeeps DEF SiteInv
  <2>5. CASE Finish
    <3>1. /\ phase = "serve" /\ phase' = "done"
          /\ UNCHANGED <<static, routes, worker, rules, asked, url, hops>>
      BY <2>5 DEF Finish
    <3>2. SitePhases' /\ FollowsPretty'
      BY <3>1 DEF SiteInv, SitePhases, FollowsPretty, GoodRedirects, GoodHeaders
    <3>3. Answered(Answer(url))'
      <4>1. Answer(url)' = Answer(url)
        BY <3>1 DEF Answer
      <4> DEFINE a == Answer(url)
      <4>2. /\ a.kind # "redirect"
            /\ answer' = IF a.kind = "file"
                           THEN WithHeaders(a, ResponseHeaders(rules.headers, SiteHost, url))
                           ELSE a
        BY <2>5, Zenon DEF Finish
      <4> HIDE DEF a
      <4> QED
        BY <3>1, <4>1, <4>2 DEF Answered, a
    <3> QED
      BY <2>1, <3>2, <3>3 DEF SiteInv
  <2> QED
    BY <1>2, <2>2, <2>3, <2>4, <2>5 DEF SiteNext
<1> QED
  BY <1>1, <1>2

(* The invariant of a site: the types, the phases, parsed rules, and what is*)
(* left of the redirects a client may be given (Publish, Follow, Finish).  *)
THEOREM SiteInvariant == SiteSpec => []SiteInv
<1>1. SiteInit => SiteInv
  BY SiteStarts
<1>2. SiteInv /\ [SiteNext]_siteVars => SiteInv'
  BY SiteStep
<1> QED
  BY <1>1, <1>2, PTL DEF SiteSpec

(* The answer to a client of a site without _redirects is the worker's, or *)
(* what Resolve made of the last path.                                     *)
LEMMA PlainDone ==
  ASSUME SiteInv, phase = "done", rules.redirects = <<>>
  PROVE  LET a == Resolve(static, url)
         IN \/ answer.kind = "worker" /\ answer.status = 200
            \/ /\ a.kind # "redirect" /\ answer.kind = a.kind
               /\ a.kind = "file" => answer.key = a.key /\ answer.status = a.status
<1> DEFINE a == Answer(url)
           r == Resolve(static, url)
           w == WithHeaders(a, ResponseHeaders(rules.headers, SiteHost, url))
<1>1. Answered(a)
  BY DEF SiteInv
<1>2. a = [kind |-> "worker", status |-> 200] \/ a = r
  BY PlainAnswer
<1>3. a.kind # "redirect" /\ answer = IF a.kind = "file" THEN w ELSE a
  BY <1>1, Zenon DEF Answered
<1>4. w.kind = a.kind /\ w.key = a.key /\ w.status = a.status
  BY DEF WithHeaders
<1> HIDE DEF a, r, w
<1>5. answer.kind = a.kind /\ (a.kind = "file" => answer.key = a.key /\ answer.status = a.status)
  BY <1>3, <1>4
<1>6. CASE a = r
  BY <1>3, <1>5, <1>6 DEF r
<1>7. CASE a = [kind |-> "worker", status |-> 200]
  <2>1. a.kind = "worker" /\ a.status = 200
    BY <1>7
  <2> QED
    BY <1>3, <2>1
<1> QED
  BY <1>2, <1>6, <1>7

(* A page is reached: by its pretty URL, in one redirect.                  *)
LEMMA PagesFound ==
  ASSUME SiteInv
  PROVE  PagesReachable
<1> SUFFICES ASSUME phase = "done", answer.kind # "worker", rules.redirects = <<>>,
                    asked \in DOMAIN static, PlainPage(asked)
             PROVE  /\ answer.kind = "file" /\ answer.status = 200
                    /\ answer.key \in {asked, Shadow(asked)}
  BY DEF PagesReachable
<1>1. url \in {asked, PrettyURL(asked)} /\ Files(DOMAIN static)
  BY DEF SiteInv, FollowsPretty, SiteTypes
<1> DEFINE a == Resolve(static, url)
<1>2. /\ a.kind # "redirect" /\ answer.kind = a.kind
      /\ a.kind = "file" => answer.key = a.key /\ answer.status = a.status
  BY PlainDone
<1>3. Resolve(static, asked) = RedirectTo(PrettyURL(asked))
  BY <1>1, PageAnswered
<1>4. PICK k \in {asked, Shadow(asked)} : Resolve(static, PrettyURL(asked)) = Serve(k, 200)
  BY <1>1, PageAnswered
<1>5. /\ RedirectTo(PrettyURL(asked)).kind = "redirect"
      /\ Serve(k, 200).kind = "file" /\ Serve(k, 200).key = k /\ Serve(k, 200).status = 200
  BY DEF RedirectTo, Serve
<1>6. a = Serve(k, 200)
  BY <1>1, <1>2, <1>3, <1>4, <1>5
<1> HIDE DEF a
<1> QED
  BY <1>2, <1>5, <1>6

(* The error pages above a path, one for every place they can be at.       *)
LEMMA ErrorPagesAbove ==
  ASSUME NEW path, MissDir(path) \in Seq(Names), NEW d
  PROVE  d \in ErrorPages(path) <=>
           \E m \in 0..Len(MissDir(path)) :
             /\ d = SubSeq(MissDir(path), 1, m)
             /\ Append(SubSeq(MissDir(path), 1, m), Page404) \in DOMAIN static
<1> DEFINE n == NormalizePath(path)
           dir == MissDir(path)
           on(e) == Append(e, Page404) \in DOMAIN static
<1>1. ErrorPages(path) = IF n.ok THEN {e \in Prefixes(Front(n.path)) \cup {<<>>} : on(e)}
                         ELSE {e \in {<<>>} : <<Page404>> \in DOMAIN static}
  BY DEF ErrorPages, Above
<1>2. dir = IF n.ok THEN Front(n.path) ELSE <<>>
  BY DEF MissDir
<1>3. <<Page404>> = Append(<<>>, Page404) /\ Len(<<>>) = 0 /\ 0 \in 0..0 /\ SubSeq(<<>>, 1, 0) = <<>>
      /\ \A m \in 0..0 : m = 0
  OBVIOUS
<1> HIDE DEF n, dir
<1>4. CASE n.ok
  <2>1. d \in ErrorPages(path) <=> (d \in Prefixes(dir) \cup {<<>>}) /\ on(d)
    BY <1>1, <1>2, <1>4
  <2>2. SubSeq(dir, 1, 0) = <<>> /\ 0 \in 0..Len(dir)
    BY DEF dir
  <2>3. d \in Prefixes(dir) <=> \E m \in 0..Len(dir) : d = SubSeq(dir, 1, m)
    BY DEF Prefixes
  <2> QED
    BY <2>1, <2>2, <2>3 DEF dir
<1>5. CASE ~n.ok
  <2>1. d \in ErrorPages(path) <=> d = <<>> /\ on(<<>>)
    BY <1>1, <1>3, <1>5
  <2>2. dir = <<>>
    BY <1>2, <1>5
  <2> QED
    BY <1>3, <2>1, <2>2 DEF dir
<1> QED
  BY <1>4, <1>5

(* A miss answers the error page of the nearest directory.                 *)
LEMMA ErrorPageFound ==
  ASSUME SiteInv
  PROVE  ErrorPageIsNearest
<1> SUFFICES ASSUME phase = "done", rules.redirects = <<>>
    PROVE  /\ answer.status = 404 /\ answer.kind = "file" =>
                /\ Front(answer.key) \in ErrorPages(url)
                /\ \A d \in ErrorPages(url) : Len(d) <= Len(Front(answer.key))
           /\ answer.kind = "none" => ErrorPages(url) = {} /\ <<Index>> \notin DOMAIN static
           /\ answer.kind = "file" /\ answer.key = <<Index>>
                /\ (NormalizePath(url).ok =>
                      NormalizePath(url).path \notin {<<Empty>>, <<Seg("index", 0)>>}) =>
                ErrorPages(url) = {}
  BY DEF ErrorPageIsNearest
<1> DEFINE a == Resolve(static, url)
           dir == MissDir(url)
           pages == ErrorPages(url)
           on(m) == Append(SubSeq(dir, 1, m), Page404) \in DOMAIN static
           known == /\ NormalizePath(url).ok
                    /\ NormalizePath(url).path \in {<<Empty>>, <<Seg("index", 0)>>}
<1>1. url \in Seq(Segments)
  BY DEF SiteInv, FollowsPretty
<1>2. /\ dir \in Seq(Names)
      /\ \/ a = Miss(static, dir)
         \/ a.kind = "redirect"
         \/ a.kind = "file" /\ a.status = 200 /\ (a.key = <<Index>> => known)
  BY <1>1, ResolveAnswers
<1>3. \/ answer.kind = "worker" /\ answer.status = 200
      \/ /\ a.kind # "redirect" /\ answer.kind = a.kind
         /\ a.kind = "file" => answer.key = a.key /\ answer.status = a.status
  BY PlainDone
<1>4. \A d : d \in pages <=> \E m \in 0..Len(dir) : d = SubSeq(dir, 1, m) /\ on(m)
  BY <1>2, ErrorPagesAbove
<1>5. ASSUME NEW n \in 0..Len(dir) PROVE SubSeq(dir, 1, n) \in Seq(Names) /\ Len(SubSeq(dir, 1, n)) = n
  BY <1>2
<1> HIDE DEF a, dir, pages, known
<1>6. CASE answer.kind = "worker" /\ answer.status = 200
  BY <1>6
<1>7. CASE /\ answer.kind = "file" /\ a.kind = "file" /\ a.status = 200 /\ (a.key = <<Index>> => known)
           /\ answer.key = a.key /\ answer.status = a.status
  BY <1>7 DEF known
<1>8. CASE /\ a = Miss(static, dir) /\ answer.kind = a.kind
           /\ a.kind = "file" => answer.key = a.key /\ answer.status = a.status
  <2>1. \/ /\ a.kind = "file" /\ a.status = 404
           /\ \E n \in 0..Len(dir) : /\ a.key = Append(SubSeq(dir, 1, n), Page404) /\ on(n)
                                     /\ \A m \in 0..Len(dir) : on(m) => m <= n
        \/ /\ a.kind = "file" /\ a.status = 200 /\ a.key = <<Index>>
           /\ \A m \in 0..Len(dir) : ~on(m)
        \/ /\ a.kind = "none" /\ <<Index>> \notin DOMAIN static
           /\ \A m \in 0..Len(dir) : ~on(m)
    <3> DEFINE b == Miss(static, dir)
    <3>1. \/ /\ b.kind = "file" /\ b.status = 404
             /\ \E n \in 0..Len(dir) : /\ b.key = Append(SubSeq(dir, 1, n), Page404) /\ on(n)
                                       /\ \A m \in 0..Len(dir) : on(m) => m <= n
          \/ /\ b.kind = "file" /\ b.status = 200 /\ b.key = <<Index>>
             /\ \A m \in 0..Len(dir) : ~on(m)
          \/ /\ b.kind = "none" /\ <<Index>> \notin DOMAIN static
             /\ \A m \in 0..Len(dir) : ~on(m)
      BY <1>2, MissAnswers, Zenon
    <3>2. a = b
      BY <1>8
    <3> HIDE DEF b, on
    <3> QED
      BY <3>1, <3>2
  <2>2. (\A m \in 0..Len(dir) : ~on(m)) => pages = {}
    <3>1. SUFFICES ASSUME \A m \in 0..Len(dir) : ~on(m) PROVE \A d : d \notin pages
      OBVIOUS
    <3> HIDE DEF on
    <3> QED
      BY <1>4, <3>1, Zenon
  <2>3. ASSUME NEW n \in 0..Len(dir), a.kind = "file", a.status = 404,
               a.key = Append(SubSeq(dir, 1, n), Page404), on(n),
               \A m \in 0..Len(dir) : on(m) => m <= n
        PROVE  /\ answer.kind = "file" /\ answer.key # <<Index>>
               /\ Front(answer.key) \in pages /\ \A d \in pages : Len(d) <= Len(Front(answer.key))
    <3> DEFINE e == SubSeq(dir, 1, n)
    <3>1. e \in Seq(Names) /\ Len(e) = n /\ answer.key = Append(e, Page404)
      BY <1>5, <1>8, <2>3
    <3>2. e \in pages
      BY <1>4, <2>3
    <3>3. ASSUME NEW d \in pages PROVE Len(d) <= n
      <4>1. PICK m \in 0..Len(dir) : d = SubSeq(dir, 1, m) /\ on(m)
        BY <1>4
      <4> HIDE DEF on
      <4>2. Len(d) = m
        BY <1>5, <4>1
      <4> QED
        BY <2>3, <4>1, <4>2
    <3> HIDE DEF e
    <3>4. Front(answer.key) = e /\ Last(answer.key) = Page404
      BY <3>1, Literals, PathEnds
    <3>5. Last(<<Index>>) = Index
      BY DEF Last
    <3> QED
      BY <1>8, <2>3, <3>1, <3>2, <3>3, <3>4, <3>5, Literals
  <2> HIDE DEF on
  <2>4. CASE \A m \in 0..Len(dir) : ~on(m)
    <3>1. pages = {}
      BY <2>2, <2>4
    <3>2. answer.kind = "none" => <<Index>> \notin DOMAIN static
      BY <1>8, <2>1, <2>4
    <3>3. ~(answer.status = 404 /\ answer.kind = "file")
      BY <1>8, <2>1, <2>4
    <3> QED
      BY <3>1, <3>2, <3>3 DEF pages
  <2>5. CASE /\ answer.kind = "file" /\ answer.key # <<Index>>
             /\ Front(answer.key) \in pages /\ \A d \in pages : Len(d) <= Len(Front(answer.key))
    BY <2>5 DEF pages
  <2> QED
    BY <2>1, <2>3, <2>4, <2>5
<1> QED
  BY <1>2, <1>3, <1>6, <1>7, <1>8

(* Every accepted rule can be used, the redirects of Resolve end, pages are*)
(* reached and the nearest error page is found (pkg/pagesspec, pkg/assets).*)
THEOREM SiteSoundHolds == SiteSpec => []SiteSound
<1>1. SiteInv => AcceptedRulesEvaluate
  BY DEF SiteInv, SitePhases, GoodRedirects, GoodHeaders, AcceptedRulesEvaluate
<1>2. SiteInv => PrettyUrlsEnd
  <2> SUFFICES ASSUME SiteInv, rules.redirects = <<>> PROVE hops <= 2 + NameSuffixes(asked)
    BY DEF PrettyUrlsEnd
  <2>1. /\ url \in Seq(Segments) /\ asked \in Seq(Segments) /\ hops \in Nat
        /\ hops + RedirectsLeft(DOMAIN static, url) <= 2 + NameSuffixes(asked)
    BY DEF SiteInv, FollowsPretty, SiteTypes
  <2>2. RedirectsLeft(DOMAIN static, url) \in Nat /\ NameSuffixes(asked) \in Nat
    BY <2>1, LeftTyped
  <2> QED
    BY <2>1, <2>2
<1>3. SiteInv => SiteSound
  BY <1>1, <1>2, PagesFound, ErrorPageFound DEF SiteSound
<1> QED
  BY <1>3, SiteInvariant, PTL
=============================================================================
