---------------------------- MODULE MCChainDeque ----------------------------
(* Instance of ChainDeque for TLC.                                          *)
EXTENDS ChainDeque

Symmetry == Permutations(Objs) \cup Permutations(Blocks)

\* Between calls the application keeps at most MaxSize blocks in all its
\* chains together, no cursor inside one, and a reversal that leaks references or
\* loses blocks is its last call; the handlers use the rest.
FewBlocks ==
  call = Idle => /\ Cardinality(live) <= MaxSize
                 /\ \A c \in alive : cursor[c] = NULL
                 /\ \A o \in Objs : leaked[o] = 0
                 /\ \A b \in live : owner[b] \in alive
=============================================================================
