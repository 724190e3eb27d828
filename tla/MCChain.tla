------------------------------ MODULE MCChain ------------------------------
(* Instance of Chain for TLC: objects and blocks are interchangeable.       *)
EXTENDS Chain, TLC

Symmetry == Permutations(Objs) \cup Permutations(Blocks)
=============================================================================
