------------------------------ MODULE MCHashmap ------------------------------
(* Instance of Hashmap for TLC, with its refinement of KeyMap.              *)
EXTENDS HashmapEntries, TLC

CONSTANTS a,           \* a plain key
          q4, q2, q1   \* the texts "%%%%", "%%" and "%"

Passed == {a, q4}
Percent == {a, q4, q2, q1}
PercentFormat == [t \in {a, q4, q2} |-> CASE t = a -> a [] t = q4 -> q2 [] t = q2 -> q1]
\* The two keys the application makes collide; a copy puts q1 into the other bucket.
PercentHash == [t \in Percent |-> IF t = q1 THEN 1 ELSE 0]

\* Bounds: a deletion that leaks is the last call, and two maps have two nodes when
\* no copy runs; one has up to MaxNodes.
Few ==
  /\ \A o \in Objs : leaked[o] = 0
  /\ call.pc # "copy" /\ alive = Maps => Cardinality(UNION {Places(m) : m \in Maps}) <= 2

Symmetry == Permutations(Objs) \cup Permutations(Maps)
=============================================================================
