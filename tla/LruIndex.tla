------------------------------ MODULE LruIndex ------------------------------
(***************************************************************************)
(* The recency list of the disk caches (staticcache.Cache in the router,   *)
(* diskCache in the hub): a container/list of entries, the most recently   *)
(* used first, with the bytes of each, evicted from the back.              *)
(***************************************************************************)
EXTENDS Integers, SequencesExt, SeqOps

(* MoveToFront of an entry, PushFront of a new one.                        *)
ToFront(s, x) ==
  <<x>> \o (IF x \in RangeOf(s) THEN RemoveAt(s, CHOOSE i \in DOMAIN s : s[i] = x) ELSE s)

(* The bytes of the last entries of s, those after the first n.            *)
BytesAfter(size, s, n) ==
  LET tail[k \in 0..Len(s)] == IF k = 0 THEN 0 ELSE tail[k - 1] + size[s[Len(s) - k + 1]]
  IN tail[Len(s) - n]

(* evictLocked, with bytes counted for l: entries leave from the back      *)
(* until the rest fits in max, or the back is a protected one.             *)
Kept(size, max, l, bytes, protect) ==
  CHOOSE n \in 0..Len(l) :
    /\ bytes - BytesAfter(size, l, n) <= max \/ n = 0 \/ l[n] \in protect
    /\ \A m \in (n + 1)..Len(l) : bytes - BytesAfter(size, l, m) > max /\ l[m] \notin protect
=============================================================================
