----------------------------- MODULE MCGallector -----------------------------
(* Instance of Gallector for TLC: one pool of size 0, one of size 1.        *)
EXTENDS Gallector, TLC

CONSTANTS c0, c1
TwoPools == {c0, c1}
TwoSizes == [c \in TwoPools |-> IF c = c0 THEN 0 ELSE 1]
Symmetry == Permutations(Objs)
=============================================================================
