-------------------------------- MODULE Links --------------------------------
(* A linked list read as a sequence.                                         *)
EXTENDS Integers, FiniteSets

\* The elements of Q in the order of the walk from hd along nx.
Order(Q, hd, nx) ==
  LET s[i \in 1..Cardinality(Q)] == IF i = 1 THEN hd ELSE nx[s[i - 1]] IN s
=============================================================================
