------------------------------- MODULE MCArray -------------------------------
(* Instances of Array for TLC.                                              *)
EXTENDS ArrayVector

Symmetry == Permutations(Objs) \cup Permutations(Arrays)

\* Bound: between calls two arrays hold at most MaxBoth elements together, and then
\* nothing is lost or stored outside.  The loops run until they return.
CONSTANT MaxBoth
FewElements ==
  call = Idle => \A a, b \in alive : a # b =>
    /\ length[a] + length[b] <= MaxBoth
    /\ outside = {} /\ \A o \in Objs : leaked[o] = 0
=============================================================================
