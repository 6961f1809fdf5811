---------------------------- MODULE MCDispatcher ----------------------------
(* Model-checking instances of Dispatcher. *)
EXTENDS Dispatcher, TLC

CONSTANTS r1, r2, r3, p1, p2, a

AllOnA        == [r \in Req |-> a]
NothingLoaded == {{}}
SomeLoaded    == {{}, {a}}

Symmetry    == Permutations(Req) \cup Permutations(Pods)
ReqSymmetry == Permutations(Req)
PodSymmetry == Permutations(Pods)
=============================================================================
