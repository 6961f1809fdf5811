------------------------------- MODULE SeqOps -------------------------------
(***************************************************************************)
(* Sequences without repetition: the elements of one, and the rest of one  *)
(* in its order once some are taken out.  Lists and sorted names are kept  *)
(* as such sequences.                                                      *)
(***************************************************************************)
EXTENDS Integers, Sequences

RangeOf(s) == {s[i] : i \in DOMAIN s}

(* The rest of s, in order, once the members of S are taken out.           *)
Without(s, S) ==
  LET kept[k \in 0..Len(s)] ==
        IF k = 0 THEN <<>> ELSE IF s[k] \in S THEN kept[k - 1] ELSE Append(kept[k - 1], s[k])
  IN kept[Len(s)]
=============================================================================
