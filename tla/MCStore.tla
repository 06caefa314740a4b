------------------------------ MODULE MCStore ------------------------------
EXTENDS Store, TLC

CONSTANTS p1, p2, g1, g2, c1, c2, c3, w1, w2, w3

(* the first guild can move its honeypot; the second shows locality *)
MCOwner == c1 :> g1 @@ c2 :> g1 @@ c3 :> g2
MCHome == w1 :> c1 @@ w2 :> c2 @@ w3 :> c3

Symmetry == Permutations(Proc)
=============================================================================
