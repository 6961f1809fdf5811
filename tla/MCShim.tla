------------------------------- MODULE MCShim -------------------------------
(* Model-checking instances of Shim: page a with two deployments, page b with one. *)
EXTENDS Shim, TLC

CONSTANTS a, b, a1, a2, b1, r1, r2, r3

PageMap == a1 :> a @@ a2 :> a @@ b1 :> b
\* Two requests that replace each other's deployment.
RivalWants == r1 :> a1 @@ r2 :> a2
\* The same with a request for the other page.
ThreeWants == r1 :> a1 @@ r2 :> a2 @@ r3 :> b1
InstanceSymmetry == Permutations(Instances)
=============================================================================
