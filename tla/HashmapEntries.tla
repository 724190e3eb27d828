---------------------------- MODULE HashmapEntries ----------------------------
(* The maps of Hashmap as their callers know them, the values by key, which  *)
(* KeyMap specifies.                                                         *)
EXTENDS Hashmap

\* The nodes with key k in the bucket s; the a-th of a set of nodes on the walk.
Having(s, k) == {i \in 1..Len(s) : s[i].key = k}
Walked(ns, a) == CHOOSE i \in ns : Cardinality({j \in ns : j <= i}) = a

\* The values of key k, the newest first.
ValuesIn(s, k) ==
  LET ns == Having(s, k) IN [a \in 1..Cardinality(ns) |-> s[Walked(ns, a)].value]

entries == [m \in Maps |-> [k \in Texts |-> ValuesIn(bucket[m][Hash[k]], k)]]

Abstract == INSTANCE KeyMap
              WITH Ids <- Maps, Keys <- Texts, Values <- Objs, HashOf <- Hash,
                   refused <- rejected, entries <- entries

\* The buckets implement a map from keys to values, but for what a deletion takes
\* with it and what a refused replacement leaves beneath.
ImplementsKeyMap == Abstract!Spec
=============================================================================
