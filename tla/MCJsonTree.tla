----------------------------- MODULE MCJsonTree -----------------------------
(* Instance of JsonTree for TLC: blocks are interchangeable.                *)
EXTENDS JsonTree, TLC

Symmetry == Permutations(Blocks)

\* Bound: values, and those of them that are no number, which weigh more: one array
\* of five numbers, or up to four values of which three are no numbers.
Few == Cardinality(Places) + 2 * Cardinality({p \in Places : At(p).type # "plain"}) <= 10
=============================================================================
