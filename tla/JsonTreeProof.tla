--------------------------- MODULE JsonTreeProof ---------------------------
(***************************************************************************)
(* The blocks of the JSON values are a tree, for every number of blocks and  *)
(* variables and every size.                                                 *)
(*                                                                           *)
(* The argument has two layers.  The first knows only which cell points to   *)
(* which block: Owned says that no two cells point to one block, that what   *)
(* is allocated is what the variables reach, and that keys are leaves.  Each *)
(* operation is made of four changes to such a heap: a cell gives up a block *)
(* and all below it, a cell gets a new block, two cells change their values, *)
(* and the cells of a block change places.  The second layer knows the       *)
(* types: Shape says which cells of a container are filled and what its      *)
(* capacity is.                                                              *)
(***************************************************************************)
EXTENDS JsonTree, FiniteSetTheorems, SequenceTheorems, TLAPS

-----------------------------------------------------------------------------
(* Graphs.  H[c] are the blocks that the cells of c point to.               *)

Nodes == Blocks \cup {App}
Graphs == [Nodes -> SUBSET Blocks]

Closed(H, S) == \A c \in S : H[c] \subseteq S
Close(H, X) == {b \in Blocks : \A S \in SUBSET Blocks : X \subseteq S /\ Closed(H, S) => b \in S}

\* A forest below App: every block is held once, and L are those that App reaches.
Sole(H) == \A c, d \in Nodes, x \in Blocks : x \in H[c] /\ x \in H[d] => c = d
Forest(H, L) ==
  /\ H \in Graphs
  /\ Sole(H)
  /\ L = Close(H, H[App])
  /\ \A c \in Blocks \ L : H[c] = {}

LEMMA CloseLeast ==
  ASSUME NEW H, NEW X, NEW S, S \subseteq Blocks, X \subseteq S, Closed(H, S)
  PROVE  Close(H, X) \subseteq S
BY DEF Close

LEMMA CloseClosed ==
  ASSUME NEW H \in Graphs, NEW X, X \subseteq Blocks
  PROVE  /\ Close(H, X) \subseteq Blocks /\ X \subseteq Close(H, X)
         /\ Closed(H, Close(H, X))
<1>1. Close(H, X) \subseteq Blocks /\ X \subseteq Close(H, X)
  BY DEF Close
<1>2. ASSUME NEW c \in Close(H, X), NEW x \in H[c]
      PROVE  x \in Close(H, X)
  <2>1. c \in Blocks /\ x \in Blocks
    BY <1>1 DEF Graphs, Nodes
  <2>2. ASSUME NEW S \in SUBSET Blocks, X \subseteq S, Closed(H, S)
        PROVE  x \in S
    <3>1. c \in S
      BY <2>2 DEF Close
    <3> QED BY <3>1, <2>2 DEF Closed
  <2> QED BY <2>1, <2>2 DEF Close
<1> QED BY <1>1, <1>2 DEF Closed

\* What is reached is there from the start or is held by something that is reached.
LEMMA CloseStep ==
  ASSUME NEW H \in Graphs, NEW X, X \subseteq Blocks, NEW x \in Close(H, X)
  PROVE  x \in X \/ \E c \in Close(H, X) : x \in H[c]
<1> DEFINE S == X \cup {y \in Close(H, X) : \E c \in Close(H, X) : y \in H[c]}
<1>1. S \subseteq Close(H, X) /\ S \subseteq Blocks
  BY CloseClosed
<1>2. ASSUME NEW c \in S, NEW y \in H[c]
      PROVE  y \in S
  <2>1. c \in Close(H, X) /\ y \in Close(H, X)
    BY <1>1, CloseClosed DEF Closed
  <2> QED BY <2>1
<1>3. Close(H, X) \subseteq S
  <2>1. Closed(H, S)
    BY <1>2 DEF Closed
  <2> HIDE DEF S
  <2>2. X \subseteq S
    BY DEF S
  <2> QED BY <1>1, <2>1, <2>2, CloseLeast
<1> QED BY <1>3

LEMMA CloseMono ==
  ASSUME NEW H \in Graphs, NEW H1 \in Graphs, NEW X, NEW Y, X \subseteq Blocks, Y \subseteq X,
         \A c \in Close(H, X) : H1[c] \subseteq H[c]
  PROVE  Close(H1, Y) \subseteq Close(H, X)
<1>1. Close(H, X) \subseteq Blocks /\ Y \subseteq Close(H, X) /\ Closed(H, Close(H, X))
  BY CloseClosed
<1>2. Closed(H1, Close(H, X))
  BY <1>1 DEF Closed
<1> QED BY <1>1, <1>2, CloseLeast

LEMMA LiveClosed ==
  ASSUME NEW H, NEW L, Forest(H, L), NEW c \in L \cup {App}, NEW X, X \subseteq H[c]
  PROVE  /\ L \subseteq Blocks /\ H[c] \subseteq L /\ X \subseteq Blocks
         /\ Close(H, X) \subseteq L
<1>1. H \in Graphs /\ H[App] \subseteq Blocks /\ L = Close(H, H[App])
  BY DEF Forest, Graphs, Nodes
<1>2. L \subseteq Blocks /\ H[App] \subseteq L /\ Closed(H, L)
  BY <1>1, CloseClosed
<1>3. H[c] \subseteq L
  BY <1>2 DEF Closed
<1> QED BY <1>2, <1>3, CloseLeast

LEMMA ForestFacts ==
  ASSUME NEW H, NEW L, Forest(H, L)
  PROVE  /\ H \in Graphs /\ Sole(H) /\ L = Close(H, H[App])
         /\ App \notin Blocks /\ App \in Nodes /\ H[App] \subseteq Blocks
         /\ L \subseteq Blocks /\ H[App] \subseteq L /\ Closed(H, L)
         /\ \A c \in Blocks \ L : H[c] = {}
<1>1. H \in Graphs /\ Sole(H) /\ L = Close(H, H[App]) /\ \A c \in Blocks \ L : H[c] = {}
  BY DEF Forest
<1>2. App \notin Blocks /\ App \in Nodes /\ H[App] \subseteq Blocks
  BY <1>1, JsonTreeAssumption DEF Graphs, Nodes
<1> QED BY <1>1, <1>2, CloseClosed

\* Nothing is below itself: what is below a holder's blocks is not the holder.
LEMMA Acyclic ==
  ASSUME NEW H, NEW L, Forest(H, L), NEW c \in L \cup {App}, NEW X, X \subseteq H[c]
  PROVE  c \notin Close(H, X)
<1> DEFINE D == Close(H, X)
           T == L \ D
<1>0. /\ H \in Graphs /\ App \notin Blocks /\ L = Close(H, H[App]) /\ Sole(H)
      /\ L \subseteq Blocks /\ X \subseteq Blocks /\ D \subseteq L /\ Closed(H, L)
  BY LiveClosed, CloseClosed, JsonTreeAssumption DEF Forest, Graphs, Nodes
<1>1. SUFFICES ASSUME c \in D PROVE FALSE
  OBVIOUS
<1>2. c \in Blocks
  BY <1>0, <1>1
<1>3. ASSUME NEW t \in T \cup {App}, NEW x \in H[t]
      PROVE  x \in T
  <2>1. t \in L \cup {App} /\ t \in Nodes /\ t \notin D /\ x \in Blocks /\ x \in L
    BY <1>0, LiveClosed DEF Nodes, Graphs
  <2>2. SUFFICES ASSUME x \in D PROVE FALSE
    BY <2>1
  <2>3. x \in X \/ \E y \in D : x \in H[y]
    BY <1>0, <2>2, CloseStep
  <2>4. CASE x \in X
    BY <2>4, <2>1, <1>0, <1>1, <1>2 DEF Sole, Nodes
  <2>5. CASE \E y \in D : x \in H[y]
    BY <2>5, <2>1, <1>0 DEF Sole, Nodes
  <2> QED BY <2>3, <2>4, <2>5
<1>4. L \subseteq T
  <2>1. T \subseteq Blocks /\ H[App] \subseteq T /\ Closed(H, T)
    BY <1>0, <1>3 DEF Closed
  <2> HIDE DEF T
  <2> QED BY <2>1, <1>0, CloseLeast
<1> QED BY <1>0, <1>1, <1>4

\* A holder gives up X, and all below it goes.
Drops(H, H1, c, X, D) ==
  /\ H1 \in Graphs /\ X \subseteq H[c] /\ D = Close(H, X)
  /\ \A n \in Nodes : H1[n] = IF n \in D THEN {} ELSE IF n = c THEN H[c] \ X ELSE H[n]

LEMMA ForestDrop ==
  ASSUME NEW H, NEW L, NEW H1, NEW c \in L \cup {App}, NEW X, NEW D,
         Forest(H, L), Drops(H, H1, c, X, D)
  PROVE  Forest(H1, L \ D)
<1> USE DEF Drops
<1>0. /\ H \in Graphs /\ App \notin Blocks /\ L = Close(H, H[App]) /\ Sole(H) /\ c \in Nodes
      /\ L \subseteq Blocks /\ X \subseteq Blocks /\ D \subseteq L /\ Closed(H, L)
      /\ X \subseteq D /\ Closed(H, D) /\ H[App] \subseteq L
  <2>1. X \subseteq Blocks /\ D \subseteq L
    BY LiveClosed
  <2>2. H \in Graphs
    BY ForestFacts
  <2>3. X \subseteq D /\ Closed(H, D)
    BY <2>1, <2>2, CloseClosed
  <2> QED BY <2>1, <2>3, ForestFacts DEF Nodes
<1>1. c \notin D
  BY Acyclic
<1>2. \A n \in Nodes : H1[n] \subseteq H[n]
  BY <1>0
<1>3. Sole(H1)
  BY <1>0, <1>2 DEF Sole
  \* The blocks that stay are not below X, so no holder that stays holds one of D.
<1>4. ASSUME NEW n \in Nodes, n \notin D, NEW x \in H[n], x \in D
      PROVE  n = c /\ x \in X
  <2>1. x \in X \/ \E y \in D : x \in H[y]
    <3>1. x \in Close(H, X)
      BY <1>4
    <3>2. x \in X \/ \E y \in Close(H, X) : x \in H[y]
      BY <3>1, <1>0, CloseStep
    <3> QED BY <3>2
  <2>2. x \in Blocks
    BY <1>0 DEF Graphs
  <2> QED BY <2>1, <2>2, <1>0, <1>4 DEF Sole, Nodes
<1>5. H1[App] \subseteq L \ D
  <2>1. App \in Nodes /\ App \notin D
    BY <1>0 DEF Nodes
  <2> QED BY <2>1, <1>0, <1>4
<1>6. Closed(H1, L \ D)
  <2>1. SUFFICES ASSUME NEW n \in L \ D, NEW x \in H1[n]
                 PROVE  x \in L \ D
    BY DEF Closed
  <2>2. n \in Nodes /\ x \in H[n] /\ x \in L
    BY <1>0, <1>2, <2>1 DEF Closed, Nodes
  <2> QED BY <1>4, <2>1, <2>2
<1>7. Close(H1, H1[App]) \subseteq L \ D
  BY <1>0, <1>5, <1>6, CloseLeast
<1>8. L \ D \subseteq Close(H1, H1[App])
  <2> DEFINE S == Close(H1, H1[App])
             T == S \cup D
  <2>1. S \subseteq Blocks /\ H1[App] \subseteq S /\ Closed(H1, S)
    <3>1. H1[App] \subseteq Blocks
      BY DEF Graphs, Nodes
    <3> QED BY <3>1, CloseClosed
  <2>2. H[App] \subseteq T
    <3>1. App \in Nodes /\ App \notin D
      BY <1>0 DEF Nodes
    <3> QED BY <3>1, <2>1, <1>0
  <2>3. Closed(H, T)
    <3>1. SUFFICES ASSUME NEW n \in T, NEW x \in H[n]
                   PROVE  x \in T
      BY DEF Closed
    <3>2. CASE n \in D
      BY <3>2, <1>0 DEF Closed
    <3>3. CASE n \notin D
      BY <3>3, <2>1, <1>0 DEF Closed, Nodes
    <3> QED BY <3>2, <3>3
  <2>4. T \subseteq Blocks
    BY <2>1, <1>0
  <2> HIDE DEF T
  <2>5. L \subseteq T
    BY <1>0, <2>2, <2>3, <2>4, CloseLeast
  <2> QED BY <2>5 DEF T
<1>9. \A n \in Blocks \ (L \ D) : H1[n] = {}
  BY <1>0 DEF Forest, Nodes
<1> QED BY <1>3, <1>7, <1>8, <1>9 DEF Forest

\* A holder gets a new block.
Adds(H, H1, c, b) ==
  H1 \in Graphs /\ \A n \in Nodes : H1[n] = IF n = c THEN H[c] \cup {b} ELSE H[n]

LEMMA ForestAdd ==
  ASSUME NEW H, NEW L, NEW H1, NEW c \in L \cup {App}, NEW b \in Blocks \ L,
         Forest(H, L), Adds(H, H1, c, b)
  PROVE  Forest(H1, L \cup {b})
<1> USE DEF Adds
<1>0. /\ H \in Graphs /\ App \notin Blocks /\ L = Close(H, H[App]) /\ Sole(H) /\ c \in Nodes
      /\ L \subseteq Blocks /\ Closed(H, L) /\ H[App] \subseteq L /\ H[b] = {} /\ App \in Nodes
  BY ForestFacts DEF Nodes
<1>1. \A n \in Nodes : b \notin H[n]
  <2>1. \A n \in L \cup {App} : H[n] \subseteq L
    BY <1>0 DEF Closed
  <2> QED BY <2>1 DEF Forest, Nodes
<1>2. Sole(H1)
  BY <1>0, <1>1 DEF Sole
<1>3. Close(H1, H1[App]) \subseteq L \cup {b}
  <2>1. b # c
    BY <1>0
  <2>2. Closed(H1, L \cup {b}) /\ H1[App] \subseteq L \cup {b}
    BY <1>0, <2>1 DEF Closed, Nodes
  <2> QED BY <2>2, <1>0, CloseLeast
<1>4. L \cup {b} \subseteq Close(H1, H1[App])
  <2> DEFINE S == Close(H1, H1[App])
  <2>1. S \subseteq Blocks /\ H1[App] \subseteq S /\ Closed(H1, S)
    <3>1. H1[App] \subseteq Blocks
      BY DEF Graphs, Nodes
    <3> QED BY <3>1, CloseClosed
  <2>2. Closed(H, S) /\ H[App] \subseteq S
    BY <2>1, <1>0 DEF Closed, Nodes
  <2> HIDE DEF S
  <2>3. L \subseteq S
    BY <1>0, <2>1, <2>2, CloseLeast
  <2>4. b \in S
    BY <2>1, <2>3, <1>0 DEF Closed, Nodes
  <2> QED BY <2>3, <2>4 DEF S
<1>5. \A n \in Blocks \ (L \cup {b}) : H1[n] = {}
  BY <1>0 DEF Forest, Nodes
<1> QED BY <1>2, <1>3, <1>4, <1>5 DEF Forest

\* Two holders exchange X for Y, neither of them below what it gets.
Swaps(H, H1, c, d, X, Y) ==
  /\ H1 \in Graphs /\ c # d /\ X \subseteq H[c] /\ Y \subseteq H[d]
  /\ d \notin Close(H, X) /\ c \notin Close(H, Y)
  /\ \A n \in Nodes : H1[n] = IF n = c THEN (H[c] \ X) \cup Y
                               ELSE IF n = d THEN (H[d] \ Y) \cup X ELSE H[n]

LEMMA ForestSwap ==
  ASSUME NEW H, NEW L, NEW H1, NEW c \in L \cup {App}, NEW d \in L \cup {App}, NEW X, NEW Y,
         Forest(H, L), Swaps(H, H1, c, d, X, Y)
  PROVE  Forest(H1, L)
<1> USE DEF Swaps
<1>0. /\ H \in Graphs /\ App \notin Blocks /\ L = Close(H, H[App]) /\ Sole(H)
      /\ c \in Nodes /\ d \in Nodes /\ App \in Nodes
      /\ L \subseteq Blocks /\ Closed(H, L) /\ H[App] \subseteq L
      /\ X \subseteq Blocks /\ Y \subseteq Blocks /\ X \subseteq L /\ Y \subseteq L
  <2>1. c \in Nodes /\ d \in Nodes
    BY ForestFacts DEF Nodes
  <2>2. X \subseteq Blocks /\ X \subseteq L /\ Y \subseteq Blocks /\ Y \subseteq L
    BY ForestFacts DEF Closed
  <2> QED BY <2>1, <2>2, ForestFacts
<1>1. Sole(H1)
  <2>1. X \cap Y = {}
    BY <1>0 DEF Sole
  <2>2. \A n \in Nodes, x \in X : x \in H1[n] => n = d
    BY <1>0, <2>1 DEF Sole
  <2>3. \A n \in Nodes, x \in Y : x \in H1[n] => n = c
    BY <1>0, <2>1 DEF Sole
  <2>4. \A n \in Nodes, x \in Blocks : x \in H1[n] /\ x \notin X /\ x \notin Y => x \in H[n]
    OBVIOUS
  <2> QED BY <1>0, <2>2, <2>3, <2>4 DEF Sole
<1>2. Close(H1, H1[App]) \subseteq L
  <2>1. \A n \in L \cup {App} : H1[n] \subseteq L
    BY <1>0 DEF Closed, Nodes
  <2>2. Closed(H1, L) /\ H1[App] \subseteq L
    BY <2>1 DEF Closed
  <2> QED BY <2>2, <1>0, CloseLeast
<1>3. L \subseteq Close(H1, H1[App])
  <2> DEFINE S == Close(H1, H1[App])
             DX == Close(H, X)
             DY == Close(H, Y)
             T == S \cup DX \cup DY
  <2>1. S \subseteq Blocks /\ H1[App] \subseteq S /\ Closed(H1, S)
    <3>1. H1[App] \subseteq Blocks
      BY DEF Graphs, Nodes
    <3> QED BY <3>1, CloseClosed
  <2>2. /\ DX \subseteq Blocks /\ X \subseteq DX /\ Closed(H, DX)
        /\ DY \subseteq Blocks /\ Y \subseteq DY /\ Closed(H, DY)
    BY <1>0, CloseClosed
  <2>3. c \notin DX /\ d \notin DY
    BY Acyclic
  <2>4. c \notin DY /\ d \notin DX
    OBVIOUS
  <2> HIDE DEF S, DX, DY
  <2>5. Closed(H, T) /\ H[App] \subseteq T
    <3>1. \A n \in S \cup {App} : H1[n] \subseteq S
      BY <2>1 DEF Closed
    <3>2. \A n \in Nodes : H[n] \subseteq H1[n] \cup X \cup Y
      BY <1>0
    <3>3. S \subseteq Nodes
      BY <2>1 DEF Nodes
    <3> QED BY <3>1, <3>2, <3>3, <2>2, <1>0 DEF Closed
  <2>6. T \subseteq Blocks
    BY <2>1, <2>2
  <2>7. L \subseteq T
    <3> HIDE DEF T
    <3> QED BY <1>0, <2>5, <2>6, CloseLeast
  <2>8. c \in S \cup {App} /\ d \in S \cup {App}
    BY <2>3, <2>4, <2>7
  <2>9. X \subseteq S /\ Y \subseteq S
    BY <1>0, <2>1, <2>8 DEF Closed
  <2>10. \A n \in DX \cup DY : H1[n] = H[n]
    BY <2>2, <2>3, <2>4 DEF Nodes
  <2>11. DX \subseteq S
    <3>1. Closed(H, DX \cap S) /\ X \subseteq DX \cap S /\ DX \cap S \subseteq Blocks
      BY <2>1, <2>2, <2>9, <2>10 DEF Closed
    <3>2. Close(H, X) \subseteq DX \cap S
      BY <3>1, CloseLeast
    <3> QED BY <3>2 DEF DX
  <2>12. DY \subseteq S
    <3>1. Closed(H, DY \cap S) /\ Y \subseteq DY \cap S /\ DY \cap S \subseteq Blocks
      BY <2>1, <2>2, <2>9, <2>10 DEF Closed
    <3>2. Close(H, Y) \subseteq DY \cap S
      BY <3>1, CloseLeast
    <3> QED BY <3>2 DEF DY
  <2> QED BY <2>7, <2>11, <2>12 DEF S
<1>4. \A n \in Blocks \ L : H1[n] = {}
  BY <1>0 DEF Forest, Nodes
<1> QED BY <1>1, <1>2, <1>3, <1>4 DEF Forest

-----------------------------------------------------------------------------
(* Heaps, and which cell points to which block.                             *)

Types == {"plain", "junk", "string", "array", "object"}
Values == [type : Types, at : Blocks \cup {NULL}, size : Nat, capacity : Nat, raw : BOOLEAN]
Cells == [key : Blocks \cup {NULL}, v : Values]
Heaps == [Nodes -> Seq(Cells)]

Points(x, b) == x.key = b \/ x.v.at = b
SameRefs(x, y) == x.key = y.key /\ x.v.at = y.v.at
Graph(h) == [c \in Nodes |-> {b \in Blocks : \E i \in DOMAIN h[c] : Points(h[c][i], b)}]

\* No two cells point to one block, nor does one cell twice.
Distinct(s) ==
  /\ \A i, j \in DOMAIN s, b \in Blocks : Points(s[i], b) /\ Points(s[j], b) => i = j
  /\ \A i \in DOMAIN s : s[i].key = NULL \/ s[i].key # s[i].v.at
Leaves(h) ==
  \A c \in Nodes : \A i \in DOMAIN h[c] : h[c][i].key # NULL => h[h[c][i].key] = <<>>
Owned(h, L) ==
  /\ h \in Heaps
  /\ Forest(Graph(h), L)
  /\ \A c \in Nodes : Distinct(h[c])
  /\ \A b \in Blocks \ L : h[b] = <<>>
  /\ Leaves(h)

LEMMA GraphType ==
  ASSUME NEW h
  PROVE  /\ Graph(h) \in Graphs
         /\ \A c \in Nodes, b \in Blocks :
              b \in Graph(h)[c] <=> \E i \in DOMAIN h[c] : Points(h[c][i], b)
BY DEF Graph, Graphs

LEMMA CellOf ==
  ASSUME NEW h \in Heaps, NEW c \in Nodes, NEW i \in DOMAIN h[c]
  PROVE  /\ h[c] \in Seq(Cells) /\ h[c][i] \in Cells /\ i \in 1 .. Len(h[c])
         /\ h[c][i].key \in Blocks \cup {NULL} /\ h[c][i].v \in Values
         /\ h[c][i].v.at \in Blocks \cup {NULL}
<1>1. h[c] \in Seq(Cells)
  BY DEF Heaps
<1>2. h[c][i] \in Cells /\ i \in 1 .. Len(h[c])
  BY <1>1
<1> QED BY <1>1, <1>2 DEF Cells, Values

LEMMA OwnedFacts ==
  ASSUME NEW h, NEW L, Owned(h, L)
  PROVE  /\ h \in Heaps /\ L \subseteq Blocks /\ App \in Nodes /\ L \cup {App} \subseteq Nodes
         /\ Graph(h) \in Graphs
         /\ \A c \in Nodes \ (L \cup {App}) : h[c] = <<>>
         /\ \A c \in L \cup {App}, b \in Blocks :
              (\E i \in DOMAIN h[c] : Points(h[c][i], b)) => b \in L
<1>1. Forest(Graph(h), L) /\ Graph(h) \in Graphs /\ h \in Heaps
  BY GraphType DEF Owned
<1>2. \A c \in L \cup {App} : L \subseteq Blocks /\ Graph(h)[c] \subseteq L
  BY <1>1, ForestFacts DEF Closed
<1>3. L \subseteq Blocks /\ App \in Nodes /\ L \cup {App} \subseteq Nodes
  BY <1>2 DEF Nodes
<1>4. \A c \in Nodes \ (L \cup {App}) : h[c] = <<>>
  BY DEF Nodes, Owned
<1> QED BY <1>1, <1>2, <1>3, <1>4, GraphType

LEMMA NoCells ==
  ASSUME NEW s, NEW k \in DOMAIN s
  PROVE  s # <<>>
OBVIOUS

LEMMA Empty ==
  ASSUME NEW S, NEW s \in Seq(S)
  PROVE  s = <<>> <=> DOMAIN s = {}
OBVIOUS

\* A cell gives up the blocks X, and all below them is freed.
CellDrops(h, h1, c, i, X, D) ==
  /\ h1 \in Heaps /\ X \subseteq Blocks /\ D = Close(Graph(h), X)
  /\ \A b \in X : Points(h[c][i], b)
  /\ \A n \in D : h1[n] = <<>>
  /\ \A n \in Nodes \ D : DOMAIN h1[n] = DOMAIN h[n]
  /\ \A n \in Nodes \ D : \A j \in DOMAIN h[n] : n # c \/ j # i => SameRefs(h1[n][j], h[n][j])
  /\ h1[c][i].key = IF h[c][i].key \in X THEN NULL ELSE h[c][i].key
  /\ h1[c][i].v.at = IF h[c][i].v.at \in X THEN NULL ELSE h[c][i].v.at

LEMMA HeapDrop ==
  ASSUME NEW h, NEW L, Owned(h, L), NEW c \in L \cup {App}, NEW i \in DOMAIN h[c],
         NEW X, NEW D, NEW h1, CellDrops(h, h1, c, i, X, D)
  PROVE  /\ Owned(h1, L \ D)
         /\ c \notin D /\ D \subseteq L /\ X \subseteq D
<1> USE DEF CellDrops
<1>0. /\ h \in Heaps /\ L \subseteq Blocks /\ c \in Nodes /\ NULL \notin Blocks
      /\ Graph(h) \in Graphs /\ Graph(h1) \in Graphs /\ Forest(Graph(h), L)
      /\ \A n \in Nodes : Distinct(h[n])
  BY OwnedFacts, GraphType, JsonTreeAssumption DEF Owned
<1>1. X \subseteq Graph(h)[c]
  BY <1>0, GraphType
<1>2. c \notin D
  BY <1>0, <1>1, Acyclic
<1>3. D \subseteq L /\ X \subseteq D
  BY <1>0, <1>1, LiveClosed, CloseClosed
<1>4. \A n \in D, b \in Blocks : b \notin Graph(h1)[n]
  <2>1. D \subseteq Nodes
    BY <1>0, <1>3 DEF Nodes
  <2> QED BY <2>1, GraphType
  \* What the cells of h1 point to, the cells of h did.
<1>5. \A n \in Nodes : \A j \in DOMAIN h1[n], b \in Blocks :
        Points(h1[n][j], b) <=> j \in DOMAIN h[n] /\ Points(h[n][j], b) /\ n \notin D
                                /\ ~(n = c /\ j = i /\ b \in X)
  <2>1. TAKE n \in Nodes
  <2>2. TAKE j \in DOMAIN h1[n], b \in Blocks
  <2>3. n \notin D /\ j \in DOMAIN h[n]
    BY <2>1, <2>2
  <2>4. CASE n = c /\ j = i
    BY <2>3, <2>4, <1>0 DEF Points
  <2>5. CASE ~(n = c /\ j = i)
    BY <2>3, <2>5 DEF Points, SameRefs
  <2> QED BY <2>4, <2>5
<1>6. \A n \in Nodes : Graph(h1)[n] = IF n \in D THEN {} ELSE IF n = c THEN Graph(h)[c] \ X
                                                            ELSE Graph(h)[n]
  <2>1. TAKE n \in Nodes
  <2>2. CASE n \in D
    <3>1. Graph(h1)[n] \subseteq Blocks
      BY <1>0 DEF Graphs
    <3> QED BY <3>1, <2>2, <1>4
  <2>3. CASE n \notin D
    <3>1. Graph(h1)[n] \subseteq Blocks /\ Graph(h)[n] \subseteq Blocks
      BY <1>0 DEF Graphs
    <3>2. \A b \in Blocks : b \in Graph(h1)[n] <=>
            \E j \in DOMAIN h[n] : Points(h[n][j], b) /\ ~(n = c /\ j = i /\ b \in X)
      <4>1. \A b \in Blocks : b \in Graph(h1)[n] <=> \E j \in DOMAIN h1[n] : Points(h1[n][j], b)
        BY GraphType
      <4> QED BY <4>1, <1>5, <2>3
    <3>3. \A b \in Blocks : b \in Graph(h)[n] <=> \E j \in DOMAIN h[n] : Points(h[n][j], b)
      BY GraphType
    <3>4. CASE n # c
      BY <3>1, <3>2, <3>3, <3>4, <2>3
    <3>5. CASE n = c
      <4>1. \A b \in X, j \in DOMAIN h[c] : Points(h[c][j], b) => j = i
        BY <1>0 DEF Distinct
      <4>2. \A b \in Blocks : b \in Graph(h1)[c] <=> b \in Graph(h)[c] /\ b \notin X
        BY <3>2, <3>3, <3>5, <4>1
      <4> QED BY <4>2, <3>1, <3>5, <2>3
    <3> QED BY <3>4, <3>5
  <2> QED BY <2>2, <2>3
<1>7. Forest(Graph(h1), L \ D)
  <2>1. Drops(Graph(h), Graph(h1), c, X, D)
    BY <1>0, <1>1, <1>6 DEF Drops
  <2> QED BY <2>1, <1>0, ForestDrop
<1>8. \A n \in Nodes : Distinct(h1[n])
  <2>1. SUFFICES ASSUME NEW n \in Nodes PROVE Distinct(h1[n])
    OBVIOUS
  <2>2. \A j, k \in DOMAIN h1[n], b \in Blocks :
          Points(h1[n][j], b) /\ Points(h1[n][k], b) => j = k
    BY <1>0, <1>5 DEF Distinct
  <2>3. \A j \in DOMAIN h1[n] : h1[n][j].key = NULL \/ h1[n][j].key # h1[n][j].v.at
    <3>1. TAKE j \in DOMAIN h1[n]
    <3>2. n \notin D /\ j \in DOMAIN h[n]
      BY <3>1
    <3>3. h[n][j].key = NULL \/ h[n][j].key # h[n][j].v.at
      BY <1>0, <3>2 DEF Distinct
    <3>4. CASE n = c /\ j = i
      BY <3>3, <3>4
    <3>5. CASE ~(n = c /\ j = i)
      BY <3>2, <3>3, <3>5 DEF SameRefs
    <3> QED BY <3>4, <3>5
  <2> QED BY <2>2, <2>3 DEF Distinct
<1>9. \A n \in Nodes : h[n] = <<>> => h1[n] = <<>>
  <2>1. TAKE n \in Nodes
  <2>2. CASE n \in D
    BY <2>2
  <2>3. CASE n \notin D
    <3>1. h1[n] \in Seq(Cells) /\ DOMAIN h1[n] = DOMAIN h[n]
      BY <2>3 DEF Heaps
    <3> QED BY <3>1, Empty
  <2> QED BY <2>2, <2>3
<1>10. \A b \in Blocks \ (L \ D) : h1[b] = <<>>
  BY <1>9 DEF Owned, Nodes
<1>11. Leaves(h1)
  <2>1. SUFFICES ASSUME NEW n \in Nodes, NEW j \in DOMAIN h1[n], h1[n][j].key # NULL
                 PROVE  h1[h1[n][j].key] = <<>>
    BY DEF Leaves
  <2>2. n \notin D /\ j \in DOMAIN h[n]
    BY <2>1
  <2>3. h1[n][j].key = h[n][j].key
    BY <2>1, <2>2 DEF SameRefs
  <2>4. h[n][j].key \in Nodes
    BY <1>0, <2>1, <2>2, <2>3, CellOf DEF Nodes
  <2> QED BY <2>1, <2>2, <2>3, <2>4, <1>9 DEF Owned, Leaves
<1> QED BY <1>2, <1>3, <1>7, <1>8, <1>10, <1>11 DEF Owned

\* A block has one owner.
LEMMA OneRef ==
  ASSUME NEW h, NEW L, Owned(h, L), NEW b \in Blocks,
         NEW c \in Nodes, NEW i \in DOMAIN h[c], Points(h[c][i], b),
         NEW d \in Nodes, NEW j \in DOMAIN h[d], Points(h[d][j], b)
  PROVE  c = d /\ i = j
<1>1. b \in Graph(h)[c] /\ b \in Graph(h)[d]
  BY GraphType
<1>2. c = d
  BY <1>1 DEF Owned, Forest, Sole
<1> QED BY <1>2 DEF Owned, Distinct

\* A cell that has no key, or no value with a block, gets a new block.
CellGets(h, h1, c, i, b) ==
  /\ h1 \in Heaps
  /\ \A n \in Nodes \ {b} : DOMAIN h1[n] = DOMAIN h[n]
  /\ \A n \in Nodes \ {b} : \A j \in DOMAIN h[n] : n # c \/ j # i => SameRefs(h1[n][j], h[n][j])
  /\ \A j \in DOMAIN h1[b] : h1[b][j].key = NULL /\ h1[b][j].v.at = NULL
  /\ \/ h[c][i].v.at = NULL /\ h1[c][i].v.at = b /\ h1[c][i].key = h[c][i].key
     \/ /\ h[c][i].key = NULL /\ h1[c][i].key = b /\ h1[c][i].v.at = h[c][i].v.at
        /\ h1[b] = <<>>

LEMMA HeapNew ==
  ASSUME NEW h, NEW L, Owned(h, L), NEW c \in L \cup {App}, NEW i \in DOMAIN h[c],
         NEW b \in Blocks \ L, NEW h1, CellGets(h, h1, c, i, b)
  PROVE  Owned(h1, L \cup {b})
<1> USE DEF CellGets
<1>0. /\ h \in Heaps /\ L \subseteq Blocks /\ c \in Nodes /\ NULL \notin Blocks /\ b # App
      /\ Graph(h) \in Graphs /\ Graph(h1) \in Graphs /\ Forest(Graph(h), L)
      /\ (\A n \in Nodes : Distinct(h[n])) /\ b \in Nodes /\ c # b
  BY OwnedFacts, GraphType, JsonTreeAssumption DEF Owned, Nodes
<1>1. \A n \in Nodes : \A j \in DOMAIN h[n] : ~Points(h[n][j], b)
  BY OwnedFacts, Empty
<1>2. h[b] = <<>>
  BY DEF Owned
<1>3. \A n \in Nodes : \A j \in DOMAIN h1[n], x \in Blocks :
        Points(h1[n][j], x) <=> /\ n # b /\ j \in DOMAIN h[n]
                                /\ Points(h[n][j], x) \/ (n = c /\ j = i /\ x = b)
  <2>1. TAKE n \in Nodes
  <2>2. TAKE j \in DOMAIN h1[n], x \in Blocks
  <2>3. CASE n = b
    BY <2>2, <2>3, <1>0 DEF Points
  <2>4. CASE n # b
    <3>1. j \in DOMAIN h[n]
      BY <2>2, <2>4
    <3>2. CASE n = c /\ j = i
      BY <3>1, <3>2, <2>4, <1>0 DEF Points
    <3>3. CASE ~(n = c /\ j = i)
      BY <3>1, <3>3, <2>4 DEF Points, SameRefs
    <3> QED BY <3>2, <3>3
  <2> QED BY <2>3, <2>4
<1>4. \A n \in Nodes : Graph(h1)[n] = IF n = c THEN Graph(h)[c] \cup {b} ELSE Graph(h)[n]
  <2>1. TAKE n \in Nodes
  <2>2. Graph(h1)[n] \subseteq Blocks /\ Graph(h)[n] \subseteq Blocks
    BY <1>0 DEF Graphs
  <2>3. \A x \in Blocks : x \in Graph(h1)[n] <=> \E j \in DOMAIN h1[n] : Points(h1[n][j], x)
    BY GraphType
  <2>4. \A x \in Blocks : x \in Graph(h)[n] <=> \E j \in DOMAIN h[n] : Points(h[n][j], x)
    BY GraphType
  <2>5. CASE n = b
    <3>1. \A x \in Blocks : x \notin Graph(h1)[n] /\ x \notin Graph(h)[n]
      BY <2>3, <2>4, <2>5, <1>2, <1>3
    <3> QED BY <3>1, <2>2, <2>5, <1>0
  <2>6. CASE n # b
    <3>1. DOMAIN h1[n] = DOMAIN h[n]
      BY <2>6
    <3>2. \A x \in Blocks : x \in Graph(h1)[n] <=> x \in Graph(h)[n] \/ (n = c /\ x = b)
      BY <3>1, <2>3, <2>4, <2>6, <1>3
    <3> QED BY <3>2, <2>2
  <2> QED BY <2>5, <2>6
<1>5. Forest(Graph(h1), L \cup {b})
  <2>1. Adds(Graph(h), Graph(h1), c, b)
    BY <1>0, <1>4 DEF Adds
  <2> QED BY <2>1, <1>0, ForestAdd
<1>6. \A n \in Nodes : Distinct(h1[n])
  <2>1. SUFFICES ASSUME NEW n \in Nodes PROVE Distinct(h1[n])
    OBVIOUS
  <2>2. \A j, k \in DOMAIN h1[n], x \in Blocks :
          Points(h1[n][j], x) /\ Points(h1[n][k], x) => j = k
    BY <1>0, <1>1, <1>3 DEF Distinct
  <2>3. \A j \in DOMAIN h1[n] : h1[n][j].key = NULL \/ h1[n][j].key # h1[n][j].v.at
    <3>1. TAKE j \in DOMAIN h1[n]
    <3>2. CASE n = b
      BY <3>1, <3>2
    <3>3. CASE n # b
      <4>1. j \in DOMAIN h[n]
        BY <3>1, <3>3
      <4>2. h[n][j].key = NULL \/ h[n][j].key # h[n][j].v.at
        BY <1>0, <4>1 DEF Distinct
      <4>3. h[n][j].key # b /\ h[n][j].v.at # b
        BY <4>1, <1>1 DEF Points
      <4>4. CASE n = c /\ j = i
        BY <4>2, <4>3, <4>4
      <4>5. CASE ~(n = c /\ j = i)
        BY <3>3, <4>1, <4>2, <4>5 DEF SameRefs
      <4> QED BY <4>4, <4>5
    <3> QED BY <3>2, <3>3
  <2> QED BY <2>2, <2>3 DEF Distinct
<1>7. \A n \in Nodes \ {b} : h[n] = <<>> => h1[n] = <<>>
  <2>1. TAKE n \in Nodes \ {b}
  <2>2. h1[n] \in Seq(Cells) /\ DOMAIN h1[n] = DOMAIN h[n]
    BY DEF Heaps
  <2> QED BY <2>2, Empty
<1>8. \A x \in Blocks \ (L \cup {b}) : h1[x] = <<>>
  BY <1>7 DEF Owned, Nodes
<1>9. Leaves(h1)
  <2>1. SUFFICES ASSUME NEW n \in Nodes, NEW j \in DOMAIN h1[n], h1[n][j].key # NULL
                 PROVE  h1[h1[n][j].key] = <<>>
    BY DEF Leaves
  <2>2. n # b /\ j \in DOMAIN h[n]
    BY <2>1
  <2>3. CASE h1[n][j].key = h[n][j].key
    <3>1. h[n][j].key \in Blocks /\ h[n][j].key # b
      BY <1>0, <1>1, <2>1, <2>2, <2>3, CellOf DEF Points
    <3> QED BY <3>1, <2>1, <2>2, <2>3, <1>7 DEF Owned, Leaves, Nodes
  <2>4. CASE h1[n][j].key # h[n][j].key
    <3>1. n = c /\ j = i
      BY <2>2, <2>4 DEF SameRefs
    <3> QED BY <3>1, <2>4
  <2> QED BY <2>3, <2>4
<1> QED BY <1>5, <1>6, <1>8, <1>9 DEF Owned

\* The cells of the block c change places; a cell that points to nothing may come or go.
Reorders(h, h1, c, f) ==
  /\ h1 \in Heaps
  /\ \A n \in Nodes : \A i \in DOMAIN h[n] : h[n][i].key # c
  /\ \A n \in Nodes \ {c} : DOMAIN h1[n] = DOMAIN h[n]
  /\ \A n \in Nodes \ {c} : \A j \in DOMAIN h[n] : SameRefs(h1[n][j], h[n][j])
  /\ \A j \in DOMAIN h1[c], b \in Blocks :
       Points(h1[c][j], b) => f[j] \in DOMAIN h[c] /\ SameRefs(h1[c][j], h[c][f[j]])
  /\ \A i \in DOMAIN h[c], b \in Blocks :
       Points(h[c][i], b) => \E j \in DOMAIN h1[c] : f[j] = i /\ SameRefs(h1[c][j], h[c][i])
  /\ \A j, k \in DOMAIN h1[c] : f[j] = f[k] /\ f[j] \in DOMAIN h[c] => j = k

LEMMA HeapReorder ==
  ASSUME NEW h, NEW L, Owned(h, L), NEW c \in L, NEW h1, NEW f, Reorders(h, h1, c, f)
  PROVE  Owned(h1, L)
<1> USE DEF Reorders
<1>0. /\ h \in Heaps /\ L \subseteq Blocks /\ c \in Nodes /\ NULL \notin Blocks
      /\ Graph(h) \in Graphs /\ Graph(h1) \in Graphs /\ Forest(Graph(h), L)
      /\ (\A n \in Nodes : Distinct(h[n]))
  BY OwnedFacts, GraphType, JsonTreeAssumption DEF Owned, Nodes
<1>1. Graph(h1) = Graph(h)
  <2>1. ASSUME NEW n \in Nodes, NEW b \in Blocks
        PROVE  b \in Graph(h1)[n] <=> b \in Graph(h)[n]
    <3>1. b \in Graph(h1)[n] <=> \E j \in DOMAIN h1[n] : Points(h1[n][j], b)
      BY GraphType
    <3>2. b \in Graph(h)[n] <=> \E j \in DOMAIN h[n] : Points(h[n][j], b)
      BY GraphType
    <3>3. CASE n = c
      BY <3>1, <3>2, <3>3 DEF Points, SameRefs
    <3>4. CASE n # c
      <4>1. DOMAIN h1[n] = DOMAIN h[n]
        BY <3>4
      <4>2. \A j \in DOMAIN h[n] : Points(h1[n][j], b) <=> Points(h[n][j], b)
        BY <3>4 DEF Points, SameRefs
      <4> QED BY <4>1, <4>2, <3>1, <3>2
    <3> QED BY <3>3, <3>4
  <2>2. \A n \in Nodes : Graph(h1)[n] = Graph(h)[n]
    <3>1. TAKE n \in Nodes
    <3>2. Graph(h1)[n] \subseteq Blocks /\ Graph(h)[n] \subseteq Blocks
      BY <1>0 DEF Graphs
    <3>3. \A b \in Blocks : b \in Graph(h1)[n] <=> b \in Graph(h)[n]
      BY <2>1
    <3> QED BY <3>2, <3>3
  <2> QED BY <2>2, <1>0 DEF Graphs
<1>2. \A n \in Nodes : Distinct(h1[n])
  <2>1. SUFFICES ASSUME NEW n \in Nodes PROVE Distinct(h1[n])
    OBVIOUS
  <2>2. CASE n # c
    <3>1. DOMAIN h1[n] = DOMAIN h[n] /\ \A j \in DOMAIN h[n] : SameRefs(h1[n][j], h[n][j])
      BY <2>2
    <3>2. Distinct(h[n])
      BY <1>0
    <3> QED BY <3>1, <3>2 DEF Distinct, SameRefs, Points
  <2>3. CASE n = c
    <3>1. Distinct(h[c])
      BY <1>0
    <3>2. \A j, k \in DOMAIN h1[c], b \in Blocks :
            Points(h1[c][j], b) /\ Points(h1[c][k], b) => j = k
      <4>1. TAKE j, k \in DOMAIN h1[c], b \in Blocks
      <4>2. HAVE Points(h1[c][j], b) /\ Points(h1[c][k], b)
      <4>3. f[j] \in DOMAIN h[c] /\ f[k] \in DOMAIN h[c] /\ Points(h[c][f[j]], b)
            /\ Points(h[c][f[k]], b)
        BY <4>2 DEF Points, SameRefs
      <4>4. f[j] = f[k]
        BY <3>1, <4>3 DEF Distinct
      <4> QED BY <4>3, <4>4
    <3>3. \A j \in DOMAIN h1[c] : h1[c][j].key = NULL \/ h1[c][j].key # h1[c][j].v.at
      <4>1. SUFFICES ASSUME NEW j \in DOMAIN h1[c], h1[c][j].key # NULL
                     PROVE  h1[c][j].key # h1[c][j].v.at
        OBVIOUS
      <4>2. h1[c][j].key \in Blocks
        BY <4>1, <1>0, CellOf
      <4>3. f[j] \in DOMAIN h[c] /\ SameRefs(h1[c][j], h[c][f[j]])
        BY <4>2 DEF Points
      <4> QED BY <4>1, <4>3, <3>1 DEF Distinct, SameRefs
    <3> QED BY <2>3, <3>2, <3>3 DEF Distinct
  <2> QED BY <2>2, <2>3
<1>3. \A n \in Nodes \ {c} : h[n] = <<>> => h1[n] = <<>>
  <2>1. TAKE n \in Nodes \ {c}
  <2>2. h1[n] \in Seq(Cells) /\ DOMAIN h1[n] = DOMAIN h[n]
    BY DEF Heaps
  <2> QED BY <2>2, Empty
<1>4. \A x \in Blocks \ L : h1[x] = <<>>
  BY <1>3 DEF Owned, Nodes
<1>5. Leaves(h1)
  <2>1. SUFFICES ASSUME NEW n \in Nodes, NEW j \in DOMAIN h1[n], h1[n][j].key # NULL
                 PROVE  h1[h1[n][j].key] = <<>>
    BY DEF Leaves
  <2>2. h1[n][j].key \in Blocks
    BY <2>1, <1>0, CellOf
  <2>3. \E i \in DOMAIN h[n] : h[n][i].key = h1[n][j].key
    <3>1. CASE n # c
      BY <3>1, <2>1 DEF SameRefs
    <3>2. CASE n = c
      BY <3>2, <2>1, <2>2 DEF SameRefs, Points
    <3> QED BY <3>1, <3>2
  <2>4. h1[n][j].key # c /\ h[h1[n][j].key] = <<>>
    BY <2>1, <2>3 DEF Owned, Leaves
  <2> QED BY <2>2, <2>4, <1>3 DEF Nodes
<1> QED BY <1>0, <1>1, <1>2, <1>4, <1>5 DEF Owned

\* Two cells change their values, and neither value is above the other cell.
CellsSwap(h, h1, c, i, d, j) ==
  /\ h1 \in Heaps /\ (c # d \/ i # j)
  /\ d \notin Close(Graph(h), {h[c][i].v.at} \ {NULL})
  /\ c \notin Close(Graph(h), {h[d][j].v.at} \ {NULL})
  /\ \A n \in Nodes : DOMAIN h1[n] = DOMAIN h[n]
  /\ \A n \in Nodes : \A k \in DOMAIN h[n] :
       (n # c \/ k # i) /\ (n # d \/ k # j) => SameRefs(h1[n][k], h[n][k])
  /\ h1[c][i].key = h[c][i].key /\ h1[c][i].v.at = h[d][j].v.at
  /\ h1[d][j].key = h[d][j].key /\ h1[d][j].v.at = h[c][i].v.at

LEMMA HeapSwap ==
  ASSUME NEW h, NEW L, Owned(h, L),
         NEW c \in L \cup {App}, NEW i \in DOMAIN h[c], NEW d \in L \cup {App}, NEW j \in DOMAIN h[d],
         NEW h1, CellsSwap(h, h1, c, i, d, j)
  PROVE  Owned(h1, L)
<1> USE DEF CellsSwap
<1> DEFINE a == h[c][i].v.at
           e == h[d][j].v.at
<1>0. /\ h \in Heaps /\ L \subseteq Blocks /\ c \in Nodes /\ d \in Nodes /\ NULL \notin Blocks
      /\ Graph(h) \in Graphs /\ Graph(h1) \in Graphs /\ Forest(Graph(h), L)
      /\ (\A n \in Nodes : Distinct(h[n]))
      /\ a \in Blocks \cup {NULL} /\ e \in Blocks \cup {NULL}
  BY OwnedFacts, GraphType, JsonTreeAssumption, CellOf DEF Owned
<1>1. \A n \in Nodes : \A k \in DOMAIN h[n] : a # NULL /\ Points(h[n][k], a) => n = c /\ k = i
  <2>1. Points(h[c][i], a)
    BY DEF Points
  <2> QED BY <1>0, <2>1, OneRef
<1>2. \A n \in Nodes : \A k \in DOMAIN h[n] : e # NULL /\ Points(h[n][k], e) => n = d /\ k = j
  <2>1. Points(h[d][j], e)
    BY DEF Points
  <2> QED BY <1>0, <2>1, OneRef
<1>3. /\ a # NULL => h[c][i].key # a /\ h[d][j].key # a
      /\ e # NULL => h[c][i].key # e /\ h[d][j].key # e
      /\ a # NULL /\ e # NULL => a # e
  <2>1. /\ h[c][i].key = NULL \/ h[c][i].key # a
        /\ h[d][j].key = NULL \/ h[d][j].key # e
    BY <1>0 DEF Distinct
  <2> QED BY <1>0, <1>1, <1>2, <2>1 DEF Points
<1> HIDE DEF a, e
<1>4. h1[c][i].v.at = e /\ h1[d][j].v.at = a /\ h[c][i].v.at = a /\ h[d][j].v.at = e
  BY DEF a, e
<1>5. ASSUME NEW n \in Nodes, NEW k \in DOMAIN h[n], NEW x \in Blocks
      PROVE  Points(h1[n][k], x) <=> IF x = a THEN n = d /\ k = j
                                     ELSE IF x = e THEN n = c /\ k = i
                                     ELSE Points(h[n][k], x)
  <2>1. CASE n = c /\ k = i
    BY <2>1, <1>0, <1>3, <1>4 DEF Points
  <2>2. CASE n = d /\ k = j
    BY <2>2, <1>0, <1>3, <1>4 DEF Points
  <2>3. CASE ~(n = c /\ k = i) /\ ~(n = d /\ k = j)
    <3>1. SameRefs(h1[n][k], h[n][k])
      BY <2>3
    <3> QED BY <3>1, <2>3, <1>0, <1>1, <1>2 DEF Points, SameRefs
  <2> QED BY <2>1, <2>2, <2>3
<1>6. ASSUME NEW n \in Nodes, NEW x \in Blocks
      PROVE  x \in Graph(h1)[n] <=> IF x = a THEN n = d ELSE IF x = e THEN n = c
                                    ELSE x \in Graph(h)[n]
  <2>1. x \in Graph(h1)[n] <=> \E k \in DOMAIN h[n] : Points(h1[n][k], x)
    <3>1. DOMAIN h1[n] = DOMAIN h[n]
      OBVIOUS
    <3> QED BY <3>1, GraphType
  <2>2. x \in Graph(h)[n] <=> \E k \in DOMAIN h[n] : Points(h[n][k], x)
    BY GraphType
  <2> QED BY <1>5, <2>1, <2>2
<1>7. ASSUME NEW n \in Nodes, NEW x \in Blocks
      PROVE  /\ x = a => (x \in Graph(h)[n] <=> n = c)
             /\ x = e => (x \in Graph(h)[n] <=> n = d)
  <2>1. x \in Graph(h)[n] <=> \E k \in DOMAIN h[n] : Points(h[n][k], x)
    BY GraphType
  <2> QED BY <2>1, <1>0, <1>1, <1>2, <1>4 DEF Points
<1>8. \A n \in Nodes : Graph(h1)[n] \subseteq Blocks /\ Graph(h)[n] \subseteq Blocks
  BY <1>0 DEF Graphs
<1>9. Forest(Graph(h1), L)
  <2>1. CASE c = d
    <3>1. \A n \in Nodes : Graph(h1)[n] = Graph(h)[n]
      <4>1. TAKE n \in Nodes
      <4>2. \A x \in Blocks : x \in Graph(h1)[n] <=> x \in Graph(h)[n]
        BY <2>1, <1>6, <1>7
      <4> QED BY <4>2, <1>8
    <3>2. Graph(h1) = Graph(h)
      BY <3>1, <1>0 DEF Graphs
    <3> QED BY <3>2, <1>0
  <2>2. CASE c # d
    <3> DEFINE X == {a} \ {NULL}
               Y == {e} \ {NULL}
    <3>1. X \subseteq Graph(h)[c] /\ Y \subseteq Graph(h)[d]
      BY <1>0, <1>7
    <3>2. \A n \in Nodes : Graph(h1)[n] = IF n = c THEN (Graph(h)[c] \ X) \cup Y
                                          ELSE IF n = d THEN (Graph(h)[d] \ Y) \cup X
                                          ELSE Graph(h)[n]
      <4>1. TAKE n \in Nodes
      <4>2. X \subseteq Blocks /\ Y \subseteq Blocks
        BY <1>0
      <4>3. CASE n = c
        <5>1. \A x \in Blocks : x \in Graph(h1)[n] <=> (x \in Graph(h)[c] /\ x \notin X) \/ x \in Y
          BY <4>3, <2>2, <1>0, <1>3, <1>6, <1>7
        <5> QED BY <5>1, <4>2, <4>3, <1>8
      <4>4. CASE n = d
        <5>1. \A x \in Blocks : x \in Graph(h1)[n] <=> (x \in Graph(h)[d] /\ x \notin Y) \/ x \in X
          BY <4>4, <2>2, <1>0, <1>3, <1>6, <1>7
        <5> QED BY <5>1, <4>2, <4>4, <2>2, <1>8
      <4>5. CASE n # c /\ n # d
        <5>1. \A x \in Blocks : x \in Graph(h1)[n] <=> x \in Graph(h)[n]
          BY <4>5, <1>6, <1>7
        <5> QED BY <5>1, <4>5, <1>8
      <4> QED BY <4>3, <4>4, <4>5
    <3>3. d \notin Close(Graph(h), X) /\ c \notin Close(Graph(h), Y)
      BY <1>4
    <3> HIDE DEF X, Y
    <3>4. Swaps(Graph(h), Graph(h1), c, d, X, Y)
      BY <2>2, <1>0, <3>1, <3>2, <3>3 DEF Swaps
    <3> QED BY <3>4, <1>0, ForestSwap
  <2> QED BY <2>1, <2>2
<1>10. \A n \in Nodes : Distinct(h1[n])
  <2>1. SUFFICES ASSUME NEW n \in Nodes PROVE Distinct(h1[n])
    OBVIOUS
  <2>2. DOMAIN h1[n] = DOMAIN h[n] /\ Distinct(h[n])
    BY <1>0
  <2>3. \A k, m \in DOMAIN h1[n], x \in Blocks :
          Points(h1[n][k], x) /\ Points(h1[n][m], x) => k = m
    BY <2>2, <1>5 DEF Distinct
  <2>4. \A k \in DOMAIN h1[n] : h1[n][k].key = NULL \/ h1[n][k].key # h1[n][k].v.at
    <3>1. TAKE k \in DOMAIN h1[n]
    <3>2. k \in DOMAIN h[n] /\ (h[n][k].key = NULL \/ h[n][k].key # h[n][k].v.at)
      BY <2>2 DEF Distinct
    <3>3. CASE n = c /\ k = i
      BY <3>3, <1>3, <1>4
    <3>4. CASE n = d /\ k = j
      BY <3>4, <1>3, <1>4
    <3>5. CASE ~(n = c /\ k = i) /\ ~(n = d /\ k = j)
      BY <3>2, <3>5 DEF SameRefs
    <3> QED BY <3>3, <3>4, <3>5
  <2> QED BY <2>3, <2>4 DEF Distinct
<1>11. \A n \in Nodes : h[n] = <<>> => h1[n] = <<>>
  <2>1. TAKE n \in Nodes
  <2>2. h1[n] \in Seq(Cells) /\ DOMAIN h1[n] = DOMAIN h[n]
    BY DEF Heaps
  <2> QED BY <2>2, Empty
<1>12. \A x \in Blocks \ L : h1[x] = <<>>
  BY <1>11 DEF Owned, Nodes
<1>13. \A n \in Nodes : \A k \in DOMAIN h[n] : h1[n][k].key = h[n][k].key
  BY DEF SameRefs
<1>14. Leaves(h1)
  <2>1. SUFFICES ASSUME NEW n \in Nodes, NEW k \in DOMAIN h1[n], h1[n][k].key # NULL
                 PROVE  h1[h1[n][k].key] = <<>>
    BY DEF Leaves
  <2>2. k \in DOMAIN h[n] /\ h1[n][k].key = h[n][k].key
    BY <1>13
  <2>3. h[n][k].key \in Nodes
    BY <1>0, <2>1, <2>2, CellOf DEF Nodes
  <2> QED BY <2>1, <2>2, <2>3, <1>11 DEF Owned, Leaves
<1> QED BY <1>9, <1>10, <1>12, <1>14 DEF Owned

-----------------------------------------------------------------------------
(* What the values of a heap look like.                                     *)

Content(h, v) == IF v.at = NULL THEN <<>> ELSE h[v.at]

\* The memory s of a container v is filled up to its size.
Filled(v, s) ==
  /\ v.size <= Len(s)
  /\ \A i \in DOMAIN s : s[i].v.type = "junk" <=> i > v.size
  /\ ~v.raw => v.capacity = Len(s)
  /\ \A i \in 1 .. v.size : s[i].key # NULL <=> v.type = "object"

\* What may be in a cell x of the heap h.
Fits(h, x) ==
  /\ x.v.type = "junk" => x = Junk
  /\ x.v.type = "plain" => x.v.at = NULL
  /\ ~IsContainer(x.v) => x.v.size = 0
  /\ IsContainer(x.v) => Filled(x.v, Content(h, x.v))

Shape(h) ==
  /\ Len(h[App]) = Variables
  /\ \A i \in DOMAIN h[App] : h[App][i].key = NULL /\ h[App][i].v.type # "junk"
  /\ \A c \in Nodes : \A i \in DOMAIN h[c] : Fits(h, h[c][i])

Good(h, L) == Owned(h, L) /\ Shape(h)
TreeInv == Good(heap, live) /\ fault \in {"none", "outside", "assert"}

\* Two cells that are both filled or both not, with a key or without.
Like(x, y) == /\ x.v.type = "junk" <=> y.v.type = "junk"
              /\ x.key = NULL <=> y.key = NULL
AllLike(s, t) == Len(s) = Len(t) /\ DOMAIN s = DOMAIN t /\ \A i \in DOMAIN s : Like(s[i], t[i])

LEMMA LikeFacts ==
  ASSUME NEW s, NEW t, AllLike(s, t), s \in Seq(Cells), NEW v \in Values, Filled(v, s)
  PROVE  Filled(v, t)
<1>1. Len(s) \in Nat /\ DOMAIN s = 1 .. Len(s)
  OBVIOUS
<1>2. v.size \in Nat /\ v.size <= Len(s)
  BY DEF Values, Filled
<1>3. \A i \in 1 .. v.size : i \in DOMAIN s
  BY <1>1, <1>2
<1> QED BY <1>1, <1>2, <1>3 DEF AllLike, Like, Filled

\* A value fits in a heap whose blocks look the same.
LEMMA FitsLike ==
  ASSUME NEW h \in Heaps, NEW h1, NEW x \in Cells, Fits(h, x),
         x.v.at # NULL => AllLike(h[x.v.at], h1[x.v.at])
  PROVE  Fits(h1, x)
<1>1. CASE x.v.at = NULL
  BY <1>1 DEF Fits, Content
<1>2. CASE x.v.at # NULL
  <2>1. h[x.v.at] \in Seq(Cells) /\ x.v \in Values
    BY <1>2 DEF Heaps, Nodes, Cells, Values
  <2>2. IsContainer(x.v) => Filled(x.v, h[x.v.at])
    BY <1>2 DEF Fits, Content
  <2>3. IsContainer(x.v) => Filled(x.v, h1[x.v.at])
    BY <1>2, <2>1, <2>2, LikeFacts
  <2> QED BY <1>2, <2>3 DEF Fits, Content
<1> QED BY <1>1, <1>2

LEMMA LikeSelf ==
  ASSUME NEW s
  PROVE  AllLike(s, s)
BY DEF AllLike, Like

\* How a heap changes at one cell.
Changed(h, h1, c, i, x) ==
  /\ DOMAIN h1[c] = DOMAIN h[c] /\ Len(h1[c]) = Len(h[c])
  /\ h1[c][i] = x
  /\ \A j \in DOMAIN h[c] : j # i => h1[c][j] = h[c][j]

LEMMA LikeChanged ==
  ASSUME NEW h, NEW h1, NEW c, NEW i, NEW x, Changed(h, h1, c, i, x), Like(h[c][i], x)
  PROVE  AllLike(h[c], h1[c])
BY DEF Changed, AllLike, Like

LEMMA PutIs ==
  ASSUME NEW h \in Heaps, NEW c \in Nodes, NEW i \in DOMAIN h[c], NEW v \in Values
  PROVE  /\ Put(h, <<c, i>>, v) \in Heaps
         /\ \A n \in Nodes \ {c} : Put(h, <<c, i>>, v)[n] = h[n]
         /\ Changed(h, Put(h, <<c, i>>, v), c, i, Cell(h[c][i].key, v))
<1>1. h[c] \in Seq(Cells) /\ h[c][i] \in Cells /\ i \in 1 .. Len(h[c])
  BY CellOf
<1>2. PICK x : x = [h[c][i] EXCEPT !.v = v]
  OBVIOUS
<1>3. x = Cell(h[c][i].key, v) /\ x \in Cells
  BY <1>1, <1>2 DEF Cells, Cell
<1>4. PICK s : s = [h[c] EXCEPT ![i] = x]
  OBVIOUS
<1>5. s \in Seq(Cells) /\ Len(s) = Len(h[c]) /\ DOMAIN s = DOMAIN h[c]
      /\ s[i] = x /\ \A j \in DOMAIN h[c] : j # i => s[j] = h[c][j]
  BY <1>1, <1>3, <1>4
<1>6. Put(h, <<c, i>>, v) = [h EXCEPT ![c] = s]
  BY <1>2, <1>4 DEF Put
<1>7. [h EXCEPT ![c] = s] \in Heaps
  BY <1>5 DEF Heaps
<1>8. [h EXCEPT ![c] = s][c] = s /\ \A n \in Nodes \ {c} : [h EXCEPT ![c] = s][n] = h[n]
  BY DEF Heaps
<1> QED BY <1>3, <1>5, <1>6, <1>7, <1>8 DEF Changed

LEMMA WithoutIs ==
  ASSUME NEW h \in Heaps, NEW D
  PROVE  /\ Without(h, D) \in Heaps
         /\ \A n \in Nodes : Without(h, D)[n] = IF n \in D THEN <<>> ELSE h[n]
BY DEF Without, Heaps

LEMMA ReachIs ==
  ASSUME heap \in Heaps, NEW v
  PROVE  Reach(v) = Close(Graph(heap), {v.at} \ {NULL})
<1>1. ASSUME NEW c \in Blocks PROVE Holds(c) = Graph(heap)[c]
  <2>1. c \in Nodes
    BY DEF Nodes
  <2>5. \A b \in Blocks : b \in Holds(c) <=> b \in Graph(heap)[c]
    BY <2>1, GraphType DEF Points, Holds
  <2>6. Graph(heap)[c] \subseteq Blocks
    BY <2>1, GraphType DEF Graphs
  <2> QED BY <2>5, <2>6 DEF Holds
<1>2. \A S \in SUBSET Blocks : (\A c \in S : Holds(c) \subseteq S) <=> Closed(Graph(heap), S)
  BY <1>1 DEF Closed
<1> QED BY <1>2 DEF Reach, Close

\* A key is a leaf: with it goes nothing else.
LEMMA CloseKey ==
  ASSUME NEW h, NEW L, Owned(h, L), NEW k \in Blocks, h[k] = <<>>, NEW X, X \subseteq Blocks
  PROVE  Close(Graph(h), X \cup {k}) = Close(Graph(h), X) \cup {k}
<1>1. Graph(h) \in Graphs /\ k \in Nodes
  BY OwnedFacts DEF Nodes
<1>2. Graph(h)[k] = {}
  <2>1. \A b \in Blocks : b \notin Graph(h)[k]
    BY <1>1, GraphType
  <2> QED BY <2>1, <1>1 DEF Graphs
<1>3. /\ Close(Graph(h), X) \subseteq Blocks /\ X \subseteq Close(Graph(h), X)
      /\ Closed(Graph(h), Close(Graph(h), X))
  BY <1>1, CloseClosed
<1>4. X \cup {k} \subseteq Blocks
  OBVIOUS
<1>5. /\ Close(Graph(h), X \cup {k}) \subseteq Blocks
      /\ X \cup {k} \subseteq Close(Graph(h), X \cup {k})
      /\ Closed(Graph(h), Close(Graph(h), X \cup {k}))
  BY <1>1, <1>4, CloseClosed
<1>6. Close(Graph(h), X) \subseteq Close(Graph(h), X \cup {k})
  BY <1>5, CloseLeast
<1>7. Close(Graph(h), X \cup {k}) \subseteq Close(Graph(h), X) \cup {k}
  <2>1. PICK S : S = Close(Graph(h), X) \cup {k}
    OBVIOUS
  <2>2. S \subseteq Blocks /\ X \cup {k} \subseteq S /\ Closed(Graph(h), S)
    BY <1>2, <1>3, <2>1 DEF Closed
  <2>3. Close(Graph(h), X \cup {k}) \subseteq S
    BY <2>2, CloseLeast
  <2> QED BY <2>1, <2>3
<1> QED BY <1>5, <1>6, <1>7

-----------------------------------------------------------------------------
(* What the operations do to a good heap.                                   *)

\* A value that has no block, whatever the heap.
Bare(w) ==
  /\ w \in Values /\ w.at = NULL /\ w.type # "junk" /\ w.size = 0
  /\ IsContainer(w) /\ ~w.raw => w.capacity = 0

LEMMA BareFits ==
  ASSUME NEW h, NEW k, NEW w, Bare(w)
  PROVE  Fits(h, Cell(k, w))
<1>1. Content(h, w) = <<>>
  BY DEF Bare, Content
<1> QED BY <1>1 DEF Bare, Fits, Filled, Cell

LEMMA GoodFacts ==
  ASSUME NEW h, NEW L, Good(h, L)
  PROVE  /\ Owned(h, L) /\ h \in Heaps /\ L \subseteq Blocks /\ NULL \notin Blocks
         /\ App \notin Blocks /\ App \in Nodes /\ L \cup {App} \subseteq Nodes /\ Blocks \subseteq Nodes
         /\ \A n \in Nodes : \A k \in DOMAIN h[n] :
              /\ h[n][k] \in Cells /\ Fits(h, h[n][k]) /\ h[n][k].v \in Values
              /\ h[n][k].key \in L \cup {NULL} /\ h[n][k].v.at \in L \cup {NULL}
         /\ \A n \in Nodes : h[n] \in Seq(Cells) /\ Len(h[n]) \in Nat /\ DOMAIN h[n] = 1 .. Len(h[n])
<1>1. /\ h \in Heaps /\ L \subseteq Blocks /\ NULL \notin Blocks /\ App \notin Blocks
      /\ App \in Nodes /\ L \cup {App} \subseteq Nodes
  BY OwnedFacts, JsonTreeAssumption DEF Good
<1>2. \A n \in Nodes : h[n] \in Seq(Cells) /\ Len(h[n]) \in Nat /\ DOMAIN h[n] = 1 .. Len(h[n])
  BY <1>1 DEF Heaps
<1>3. ASSUME NEW n \in Nodes, NEW k \in DOMAIN h[n]
      PROVE  /\ h[n][k] \in Cells /\ Fits(h, h[n][k]) /\ h[n][k].v \in Values
             /\ h[n][k].key \in L \cup {NULL} /\ h[n][k].v.at \in L \cup {NULL}
  <2>1. /\ h[n][k] \in Cells /\ h[n][k].v \in Values
        /\ h[n][k].key \in Blocks \cup {NULL} /\ h[n][k].v.at \in Blocks \cup {NULL}
    BY <1>1, <1>3, CellOf
  <2>2. n \in L \cup {App}
    BY OwnedFacts DEF Good
  <2>3. \A b \in Blocks : Points(h[n][k], b) => b \in L
    BY <2>2, OwnedFacts DEF Good
  <2> QED BY <2>1, <2>3 DEF Points, Good, Shape
<1> QED BY <1>1, <1>2, <1>3 DEF Good, Nodes

\* Every change gives a good heap in the same way: the cells of the application keep
\* a value, and each cell either fits in the new heap for a reason of its own or was
\* in the old one, and the blocks it may own still look the same.
LEMMA ShapeFrom ==
  ASSUME NEW h, NEW L, Good(h, L), NEW h1, NEW L1, Owned(h1, L1),
         Len(h1[App]) = Len(h[App]),
         \A k \in DOMAIN h1[App] : h1[App][k].key = NULL /\ h1[App][k].v.type # "junk",
         \A n \in Nodes : \A k \in DOMAIN h1[n] :
           \/ Fits(h1, h1[n][k])
           \/ /\ Fits(h, h1[n][k])
              /\ h1[n][k].v.at # NULL => AllLike(h[h1[n][k].v.at], h1[h1[n][k].v.at])
  PROVE  Good(h1, L1)
<1>1. h \in Heaps /\ h1 \in Heaps
  BY OwnedFacts DEF Good
<1>2. ASSUME NEW n \in Nodes, NEW k \in DOMAIN h1[n]
      PROVE  Fits(h1, h1[n][k])
  <2>1. h1[n][k] \in Cells
    BY <1>1, CellOf
  <2>2. PICK x : x = h1[n][k]
    OBVIOUS
  <2>3. Fits(h, x) /\ (x.v.at # NULL => AllLike(h[x.v.at], h1[x.v.at])) => Fits(h1, x)
    BY <2>1, <2>2, <1>1, FitsLike
  <2> QED BY <2>2, <2>3
<1> QED BY <1>2 DEF Good, Shape

\* json_free of what is at <<c, i>>, and a value without a block in its place.
Frees(h, h1, c, i, D, w) ==
  /\ h1 \in Heaps /\ D = Close(Graph(h), {h[c][i].v.at} \ {NULL})
  /\ \A n \in Nodes : n \in D => h1[n] = <<>>
  /\ \A n \in Nodes : n \notin D /\ n # c => h1[n] = h[n]
  /\ c \notin D => Changed(h, h1, c, i, Cell(h[c][i].key, w))

LEMMA GoodFree ==
  ASSUME NEW h, NEW L, NEW h1, NEW c \in L \cup {App}, NEW i \in DOMAIN h[c], NEW w, NEW D,
         Good(h, L), h[c][i].v.type # "junk", Bare(w), Frees(h, h1, c, i, D, w)
  PROVE  Good(h1, L \ D) /\ c \notin D /\ D \subseteq L
<1> DEFINE X == {h[c][i].v.at} \ {NULL}
<1>1. /\ Owned(h, L) /\ h \in Heaps /\ h1 \in Heaps /\ L \subseteq Blocks /\ NULL \notin Blocks
      /\ c \in Nodes /\ App \notin Blocks /\ h[c][i].v.at \in L \cup {NULL}
  BY GoodFacts DEF Frees
<1>2. X \subseteq Blocks /\ X \subseteq Graph(h)[c] /\ \A b \in X : Points(h[c][i], b)
  <2>1. X \subseteq Blocks /\ \A b \in X : Points(h[c][i], b)
    BY <1>1 DEF Points
  <2> QED BY <2>1, <1>1, GraphType
<1>a. D = Close(Graph(h), X)
  BY DEF Frees
<1>3. c \notin D
  <2>1. Forest(Graph(h), L)
    BY <1>1 DEF Owned
  <2> QED BY <2>1, <1>2, <1>a, Acyclic
<1>4. Changed(h, h1, c, i, Cell(h[c][i].key, w)) /\ w.at = NULL
  BY <1>3 DEF Frees, Bare
<1>5. h[c][i].key = NULL \/ h[c][i].key # h[c][i].v.at
  BY <1>1 DEF Owned, Distinct
<1>6. Owned(h1, L \ D) /\ D \subseteq L
  <2>1. /\ h1[c][i].key = IF h[c][i].key \in X THEN NULL ELSE h[c][i].key
        /\ h1[c][i].v.at = IF h[c][i].v.at \in X THEN NULL ELSE h[c][i].v.at
    BY <1>4, <1>5 DEF Changed, Cell
  <2>2. /\ \A n \in Nodes \ D : DOMAIN h1[n] = DOMAIN h[n]
        /\ \A n \in Nodes \ D : \A j \in DOMAIN h[n] : n # c \/ j # i => SameRefs(h1[n][j], h[n][j])
    BY <1>4 DEF Changed, SameRefs, Frees
  <2>3. \A n \in D : h1[n] = <<>>
    <3>1. D \subseteq Blocks
      BY <1>a DEF Close
    <3> QED BY <3>1 DEF Frees, Nodes
  <2> HIDE DEF X
  <2>4. CellDrops(h, h1, c, i, X, D)
    BY <1>1, <1>2, <1>a, <2>1, <2>2, <2>3 DEF CellDrops
  <2> QED BY <2>4, <1>1, HeapDrop
<1>7. App \notin D
  BY <1>1, <1>6
<1>8. Like(h[c][i], Cell(h[c][i].key, w))
  BY DEF Like, Cell, Bare
<1>9. \A n \in Nodes \ D : AllLike(h[n], h1[n])
  <2>1. TAKE n \in Nodes \ D
  <2>2. CASE n = c
    BY <2>2, <1>4, <1>8, LikeChanged
  <2>3. CASE n # c
    <3>1. h1[n] = h[n]
      BY <2>3 DEF Frees
    <3> QED BY <3>1, LikeSelf
  <2> QED BY <2>2, <2>3
<1>10. \A k \in DOMAIN h1[App] : h1[App][k].key = NULL /\ h1[App][k].v.type # "junk"
  <2>1. AllLike(h[App], h1[App])
    BY <1>7, <1>9 DEF Nodes
  <2> QED BY <2>1 DEF AllLike, Like, Good, Shape
<1>11. Len(h1[App]) = Len(h[App])
  BY <1>7, <1>9 DEF Nodes, AllLike
<1>12. ASSUME NEW n \in Nodes, NEW k \in DOMAIN h1[n]
       PROVE  \/ Fits(h1, h1[n][k])
              \/ /\ Fits(h, h1[n][k])
                 /\ h1[n][k].v.at # NULL => AllLike(h[h1[n][k].v.at], h1[h1[n][k].v.at])
  <2>1. n \notin D
    <3>1. h1[n] # <<>>
      BY NoCells
    <3> QED BY <3>1 DEF Frees
  <2>2. CASE n = c /\ k = i
    <3>1. h1[n][k] = Cell(h[c][i].key, w)
      BY <2>2, <1>4 DEF Changed
    <3> QED BY <3>1, BareFits
  <2>3. CASE ~(n = c /\ k = i)
    <3>1. k \in DOMAIN h[n] /\ h1[n][k] = h[n][k]
      BY <2>1, <2>3, <1>4 DEF Changed, Frees
    <3>2. Fits(h, h1[n][k])
      BY <3>1, GoodFacts
    <3>3. h1[n][k].v.at # NULL => h1[n][k].v.at \in L \ D
      <4>1. h1[n][k].v.at \in Blocks \cup {NULL}
        BY <1>1, CellOf
      <4>2. n \in (L \ D) \cup {App}
        <5>1. h1[n] # <<>>
          BY NoCells
        <5>2. \A m \in Nodes \ ((L \ D) \cup {App}) : h1[m] = <<>>
          BY <1>6, OwnedFacts
        <5> QED BY <5>1, <5>2
      <4> QED BY <4>1, <4>2, <1>6, OwnedFacts DEF Points
    <3>4. L \subseteq Nodes
      BY <1>1 DEF Nodes
    <3> QED BY <3>2, <3>3, <3>4, <1>9
  <2> QED BY <2>2, <2>3
<1> QED BY <1>3, <1>6, <1>10, <1>11, <1>12, ShapeFrom

\* Cells that own nothing.
Unowning(s) == s \in Seq(Cells) /\ \A j \in DOMAIN s : s[j] = Junk \/ s[j] = Cell(NULL, Plain)

\* The block b becomes s, and the value at <<c, i>>, which had no block or has b, is w.
Boxes(h, h1, c, i, b, s, w) ==
  /\ h1 \in Heaps /\ h1[b] = s
  /\ \A n \in Nodes : n # b /\ n # c => h1[n] = h[n]
  /\ Changed(h, h1, c, i, Cell(h[c][i].key, w))

Suits(w, b, s) ==
  /\ w \in Values /\ w.at = b /\ w.type \in {"string", "array", "object"}
  /\ ~IsContainer(w) => w.size = 0
  /\ IsContainer(w) => Filled(w, s)

LEMMA SuitsFits ==
  ASSUME NEW h, NEW b, b # NULL, NEW k, NEW w, Suits(w, b, h[b])
  PROVE  Fits(h, Cell(k, w))
BY DEF Suits, Fits, Cell, Content

LEMMA UnowningFits ==
  ASSUME NEW h, NEW s, Unowning(s), NEW k \in DOMAIN s
  PROVE  Fits(h, s[k]) /\ s[k].key = NULL /\ s[k].v.at = NULL
BY DEF Unowning, Fits, Cell, Junk, Plain, Value, IsContainer

LEMMA GoodBox ==
  ASSUME NEW h, NEW L, NEW h1, NEW c \in L \cup {App}, NEW i \in DOMAIN h[c],
         NEW b \in Blocks \ L, NEW s, NEW w,
         Good(h, L), h[c][i].v.type # "junk", h[c][i].v.at = NULL,
         Unowning(s), Suits(w, b, s), Boxes(h, h1, c, i, b, s, w)
  PROVE  Good(h1, L \cup {b})
<1>1. /\ Owned(h, L) /\ h \in Heaps /\ h1 \in Heaps /\ L \subseteq Blocks /\ NULL \notin Blocks
      /\ c \in Nodes /\ App \notin Blocks /\ c # b /\ b \in Nodes /\ b # NULL /\ b # App
  BY GoodFacts DEF Boxes
<1>2. Changed(h, h1, c, i, Cell(h[c][i].key, w)) /\ w.at = b /\ h1[b] = s
  BY DEF Boxes, Suits
<1>3. Owned(h1, L \cup {b})
  <2>1. \A j \in DOMAIN h1[b] : h1[b][j].key = NULL /\ h1[b][j].v.at = NULL
    BY <1>2, UnowningFits
  <2>2. h1[c][i].v.at = b /\ h1[c][i].key = h[c][i].key
    BY <1>2 DEF Changed, Cell
  <2>3. /\ \A n \in Nodes \ {b} : DOMAIN h1[n] = DOMAIN h[n]
        /\ \A n \in Nodes \ {b} : \A j \in DOMAIN h[n] : n # c \/ j # i => SameRefs(h1[n][j], h[n][j])
    BY <1>2 DEF Changed, SameRefs, Boxes
  <2>4. CellGets(h, h1, c, i, b)
    BY <1>1, <2>1, <2>2, <2>3 DEF CellGets
  <2> QED BY <2>4, <1>1, HeapNew
<1>4. Like(h[c][i], Cell(h[c][i].key, w))
  BY DEF Like, Cell, Suits
<1>5. \A n \in Nodes \ {b} : AllLike(h[n], h1[n])
  <2>1. TAKE n \in Nodes \ {b}
  <2>2. CASE n = c
    BY <2>2, <1>2, <1>4, LikeChanged
  <2>3. CASE n # c
    <3>1. h1[n] = h[n]
      BY <2>3 DEF Boxes
    <3> QED BY <3>1, LikeSelf
  <2> QED BY <2>2, <2>3
<1>6. AllLike(h[App], h1[App])
  BY <1>1, <1>5 DEF Nodes
<1>7. Len(h1[App]) = Len(h[App]) /\ \A k \in DOMAIN h1[App] : h1[App][k].key = NULL /\ h1[App][k].v.type # "junk"
  BY <1>6 DEF AllLike, Like, Good, Shape
<1>8. ASSUME NEW n \in Nodes, NEW k \in DOMAIN h1[n]
      PROVE  \/ Fits(h1, h1[n][k])
             \/ /\ Fits(h, h1[n][k])
                /\ h1[n][k].v.at # NULL => AllLike(h[h1[n][k].v.at], h1[h1[n][k].v.at])
  <2>1. CASE n = b
    BY <2>1, <1>2, UnowningFits
  <2>2. CASE n = c /\ k = i
    <3>1. h1[n][k] = Cell(h[c][i].key, w)
      BY <2>2, <1>2 DEF Changed
    <3> QED BY <3>1, <1>1, <1>2, SuitsFits
  <2>3. CASE n # b /\ ~(n = c /\ k = i)
    <3>1. k \in DOMAIN h[n] /\ h1[n][k] = h[n][k]
      BY <2>3, <1>2 DEF Changed, Boxes
    <3>2. Fits(h, h1[n][k]) /\ h1[n][k].v.at \in L \cup {NULL}
      BY <3>1, GoodFacts
    <3>3. L \subseteq Nodes \ {b}
      BY <1>1 DEF Nodes
    <3> QED BY <3>2, <3>3, <1>5
  <2> QED BY <2>1, <2>2, <2>3
<1> QED BY <1>3, <1>7, <1>8, ShapeFrom

\* The values at <<c, i>> and <<d, j>> change places.
Swapped(h, h1, c, i, d, j) ==
  /\ h1 \in Heaps
  /\ \A n \in Nodes : DOMAIN h1[n] = DOMAIN h[n] /\ Len(h1[n]) = Len(h[n])
  /\ h1[c][i] = Cell(h[c][i].key, h[d][j].v)
  /\ h1[d][j] = Cell(h[d][j].key, h[c][i].v)
  /\ \A n \in Nodes : \A k \in DOMAIN h[n] :
       (n # c \/ k # i) /\ (n # d \/ k # j) => h1[n][k] = h[n][k]

LEMMA GoodSwap ==
  ASSUME NEW h, NEW L, NEW h1, NEW c \in L \cup {App}, NEW i \in DOMAIN h[c],
         NEW d \in L \cup {App}, NEW j \in DOMAIN h[d],
         Good(h, L), h[c][i].v.type # "junk", h[d][j].v.type # "junk",
         Swapped(h, h1, c, i, d, j), (c # d \/ i # j),
         d \notin Close(Graph(h), {h[c][i].v.at} \ {NULL}),
         c \notin Close(Graph(h), {h[d][j].v.at} \ {NULL})
  PROVE  Good(h1, L)
<1>1. /\ Owned(h, L) /\ h \in Heaps /\ h1 \in Heaps /\ L \subseteq Blocks /\ NULL \notin Blocks
      /\ c \in Nodes /\ d \in Nodes /\ L \subseteq Nodes /\ App \in Nodes
  BY GoodFacts DEF Swapped, Nodes
<1>2. Owned(h1, L)
  <2>1. CellsSwap(h, h1, c, i, d, j)
    BY <1>1 DEF CellsSwap, Swapped, Cell, SameRefs
  <2> QED BY <2>1, <1>1, HeapSwap
<1>3. \A n \in Nodes : \A k \in DOMAIN h[n] : Like(h[n][k], h1[n][k])
  <2>1. TAKE n \in Nodes
  <2>2. TAKE k \in DOMAIN h[n]
  <2>3. CASE n = c /\ k = i
    BY <2>3 DEF Swapped, Like, Cell
  <2>4. CASE n = d /\ k = j
    BY <2>4 DEF Swapped, Like, Cell
  <2>5. CASE ~(n = c /\ k = i) /\ ~(n = d /\ k = j)
    BY <2>5 DEF Swapped, Like
  <2> QED BY <2>3, <2>4, <2>5
<1>4. \A n \in Nodes : AllLike(h[n], h1[n])
  BY <1>3 DEF AllLike, Swapped
<1>5. AllLike(h[App], h1[App])
  BY <1>1, <1>4
<1>6. Len(h1[App]) = Len(h[App]) /\ \A k \in DOMAIN h1[App] : h1[App][k].key = NULL /\ h1[App][k].v.type # "junk"
  BY <1>5 DEF AllLike, Like, Good, Shape
<1>7. ASSUME NEW n \in Nodes, NEW k \in DOMAIN h1[n]
      PROVE  Fits(h, h1[n][k]) /\ h1[n][k].v.at \in L \cup {NULL}
  <2>1. k \in DOMAIN h[n] /\ Fits(h, h[n][k]) /\ h[n][k].v.at \in L \cup {NULL}
    BY GoodFacts DEF Swapped
  <2>2. /\ Fits(h, h[c][i]) /\ h[c][i].v.at \in L \cup {NULL}
        /\ Fits(h, h[d][j]) /\ h[d][j].v.at \in L \cup {NULL}
    BY <1>1, GoodFacts
  <2>3. CASE n = c /\ k = i
    BY <2>2, <2>3 DEF Swapped, Fits, Cell
  <2>4. CASE n = d /\ k = j
    BY <2>2, <2>4 DEF Swapped, Fits, Cell
  <2>5. CASE ~(n = c /\ k = i) /\ ~(n = d /\ k = j)
    BY <2>1, <2>5 DEF Swapped
  <2> QED BY <2>3, <2>4, <2>5
<1>8. \A n \in Nodes : \A k \in DOMAIN h1[n] :
        /\ Fits(h, h1[n][k])
        /\ h1[n][k].v.at # NULL => AllLike(h[h1[n][k].v.at], h1[h1[n][k].v.at])
  BY <1>1, <1>4, <1>7
<1> QED BY <1>2, <1>6, <1>8, ShapeFrom

-----------------------------------------------------------------------------
(* Containers: the value at <<c, i>> has the block b.                       *)

LEMMA OwnerFacts ==
  ASSUME NEW h, NEW L, Owned(h, L), NEW c \in L \cup {App}, NEW i \in DOMAIN h[c],
         NEW b \in Blocks, h[c][i].v.at = b
  PROVE  /\ b \in L /\ b \in Nodes /\ c \in Nodes /\ c # b /\ b # App
         /\ b \in Graph(h)[c]
         /\ \A n \in Nodes : \A k \in DOMAIN h[n] : h[n][k].key # b
         /\ \A n \in Nodes : \A k \in DOMAIN h[n] : n # c \/ k # i => h[n][k].v.at # b
<1>1. c \in Nodes /\ Points(h[c][i], b) /\ b \in Nodes /\ b # App
  BY OwnedFacts, JsonTreeAssumption DEF Points, Nodes
<1>2. b \in Graph(h)[c] /\ b \in L
  <2>1. b \in Graph(h)[c]
    BY <1>1, GraphType
  <2> QED BY <2>1, <1>1, OwnedFacts
<1>3. c # b
  <2>1. Forest(Graph(h), L) /\ Graph(h) \in Graphs
    BY OwnedFacts DEF Owned
  <2>2. {b} \subseteq Graph(h)[c] /\ {b} \subseteq Blocks
    BY <1>2
  <2>3. c \notin Close(Graph(h), {b})
    BY <2>1, <2>2, Acyclic
  <2>4. b \in Close(Graph(h), {b})
    BY <2>1, <2>2, CloseClosed
  <2> QED BY <2>3, <2>4
<1>4. \A n \in Nodes : \A k \in DOMAIN h[n] : Points(h[n][k], b) => n = c /\ k = i
  BY <1>1, OneRef
<1>5. h[c][i].key # b
  <2>1. h[c][i].key = NULL \/ h[c][i].key # h[c][i].v.at
    BY <1>1 DEF Owned, Distinct
  <2> QED BY <2>1, JsonTreeAssumption
<1> QED BY <1>1, <1>2, <1>3, <1>4, <1>5 DEF Points

LEMMA NotBelow ==
  ASSUME NEW h, NEW L, Owned(h, L), NEW c \in L \cup {App}, NEW i \in DOMAIN h[c],
         NEW b \in Blocks, h[c][i].v.at = b,
         NEW d \in L \cup {App}, NEW j \in DOMAIN h[d], c # d \/ i # j,
         c \notin Close(Graph(h), {h[d][j].v.at} \ {NULL})
  PROVE  b \notin Close(Graph(h), {h[d][j].v.at} \ {NULL})
<1>1. PICK X : X = {h[d][j].v.at} \ {NULL}
  OBVIOUS
<1>2. /\ c \in Nodes /\ d \in Nodes /\ Graph(h) \in Graphs /\ NULL \notin Blocks
      /\ h[d][j].v.at \in Blocks \cup {NULL} /\ h \in Heaps
  BY OwnedFacts, CellOf, JsonTreeAssumption
<1>3. X \subseteq Blocks
  BY <1>1, <1>2
<1>4. b \notin X
  <2>1. h[d][j].v.at # b
    BY <1>2, OwnerFacts
  <2> QED BY <2>1, <1>1
<1>5. \A n \in Nodes : b \in Graph(h)[n] => n = c
  <2>1. b \in Graph(h)[c] /\ Sole(Graph(h))
    BY OwnerFacts DEF Owned, Forest
  <2> QED BY <2>1, <1>2 DEF Sole
<1>6. Close(Graph(h), X) \subseteq Nodes
  BY DEF Close, Nodes
<1>7. b \notin Close(Graph(h), X)
  <2>1. SUFFICES ASSUME b \in Close(Graph(h), X) PROVE FALSE
    OBVIOUS
  <2>2. b \in X \/ \E n \in Close(Graph(h), X) : b \in Graph(h)[n]
    BY <2>1, <1>2, <1>3, CloseStep
  <2> QED BY <2>2, <1>1, <1>4, <1>5, <1>6
<1> QED BY <1>1, <1>7

\* _json_array_check_resize: the cells behind the elements come or go.
Enlarges(h, c, i, b, s, w) ==
  LET v == h[c][i].v IN
  /\ IsContainer(v) /\ v.at = b
  /\ s \in Seq(Cells) /\ v.size <= Len(s)
  /\ \A j \in DOMAIN s : s[j] = IF j <= v.size THEN h[b][j] ELSE Junk
  /\ w \in Values /\ w.type = v.type /\ w.at = b /\ w.size = v.size
  /\ ~w.raw => w.capacity = Len(s)

LEMMA ContainerFacts ==
  ASSUME NEW h, NEW L, Good(h, L), NEW c \in Nodes, NEW i \in DOMAIN h[c],
         IsContainer(h[c][i].v), NEW b \in Blocks, h[c][i].v.at = b
  PROVE  /\ Filled(h[c][i].v, h[b])
         /\ h[c][i].v.size \in Nat /\ h[c][i].v.size <= Len(h[b]) /\ Len(h[b]) \in Nat
         /\ DOMAIN h[b] = 1 .. Len(h[b])
         /\ \A j \in DOMAIN h[b] : j > h[c][i].v.size => h[b][j].key = NULL /\ h[b][j].v.at = NULL
<1>1. /\ Fits(h, h[c][i]) /\ b # NULL /\ b \in Nodes /\ h[c][i].v \in Values
      /\ Len(h[b]) \in Nat /\ DOMAIN h[b] = 1 .. Len(h[b])
      /\ \A j \in DOMAIN h[b] : Fits(h, h[b][j])
  BY GoodFacts
<1>2. Filled(h[c][i].v, h[b])
  BY <1>1 DEF Fits, Content
<1>3. ASSUME NEW j \in DOMAIN h[b], j > h[c][i].v.size
      PROVE  h[b][j] = Junk
  <2>1. h[b][j].v.type = "junk"
    BY <1>2, <1>3 DEF Filled
  <2> QED BY <2>1, <1>1 DEF Fits
<1>4. h[c][i].v.size \in Nat /\ h[c][i].v.size <= Len(h[b])
  BY <1>1, <1>2 DEF Filled, Values
<1> QED BY <1>1, <1>2, <1>3, <1>4 DEF Junk, Cell, Value

LEMMA GoodGrow ==
  ASSUME NEW h, NEW L, NEW h1, NEW c \in L \cup {App}, NEW i \in DOMAIN h[c],
         NEW b \in Blocks, NEW s, NEW w,
         Good(h, L), Enlarges(h, c, i, b, s, w), Boxes(h, h1, c, i, b, s, w)
  PROVE  Good(h1, L)
<1> DEFINE v == h[c][i].v
<1>1. /\ Owned(h, L) /\ h \in Heaps /\ h1 \in Heaps /\ L \subseteq Blocks /\ NULL \notin Blocks
      /\ c \in Nodes /\ App \notin Blocks /\ b \in Nodes /\ b # NULL /\ b # App /\ L \subseteq Nodes
      /\ App \in Nodes
  BY GoodFacts DEF Boxes, Nodes
<1>2. v.at = b /\ IsContainer(v)
  BY DEF Enlarges
<1>3. /\ b \in L /\ c # b
      /\ \A n \in Nodes : \A k \in DOMAIN h[n] : h[n][k].key # b
      /\ \A n \in Nodes : \A k \in DOMAIN h[n] : n # c \/ k # i => h[n][k].v.at # b
  BY <1>1, <1>2, OwnerFacts
<1>4. /\ Filled(v, h[b]) /\ v.size \in Nat /\ v.size <= Len(h[b]) /\ Len(h[b]) \in Nat
      /\ DOMAIN h[b] = 1 .. Len(h[b])
      /\ \A j \in DOMAIN h[b] : j > v.size => h[b][j].key = NULL /\ h[b][j].v.at = NULL
  BY <1>1, <1>2, ContainerFacts
<1>5. /\ s \in Seq(Cells) /\ Len(s) \in Nat /\ DOMAIN s = 1 .. Len(s) /\ v.size <= Len(s)
      /\ \A j \in 1 .. Len(s) : s[j] = IF j <= v.size THEN h[b][j] ELSE Junk
      /\ w.type = v.type /\ w.size = v.size /\ w.at = b /\ w \in Values
      /\ ~w.raw => w.capacity = Len(s)
  BY DEF Enlarges
<1>6. Changed(h, h1, c, i, Cell(h[c][i].key, w)) /\ h1[b] = s
  BY DEF Boxes
<1>7. Owned(h1, L)
  <2>1. PICK f : f = [j \in 1 .. Len(s) |-> j]
    OBVIOUS
  <2>2. /\ \A n \in Nodes \ {b} : DOMAIN h1[n] = DOMAIN h[n]
        /\ \A n \in Nodes \ {b} : \A j \in DOMAIN h[n] : SameRefs(h1[n][j], h[n][j])
    BY <1>2, <1>5, <1>6 DEF Changed, SameRefs, Boxes, Cell
  <2>3. \A x \in Blocks : ~Points(Junk, x)
    BY <1>1 DEF Points, Junk, Cell, Value
  <2>4. ASSUME NEW j \in DOMAIN h1[b], NEW x \in Blocks, Points(h1[b][j], x)
        PROVE  f[j] \in DOMAIN h[b] /\ SameRefs(h1[b][j], h[b][f[j]])
    <3>1. j \in 1 .. Len(s) /\ f[j] = j /\ h1[b][j] = s[j]
      BY <2>1, <1>5, <1>6
    <3>2. j <= v.size
      BY <3>1, <2>3, <2>4, <1>5
    <3> QED BY <3>1, <3>2, <1>4, <1>5 DEF SameRefs
  <2>5. ASSUME NEW k \in DOMAIN h[b], NEW x \in Blocks, Points(h[b][k], x)
        PROVE  \E j \in DOMAIN h1[b] : f[j] = k /\ SameRefs(h1[b][j], h[b][k])
    <3>1. k <= v.size /\ k \in 1 .. Len(h[b])
      BY <2>5, <1>1, <1>4 DEF Points
    <3>2. k \in 1 .. Len(s) /\ k \in DOMAIN h1[b] /\ f[k] = k /\ h1[b][k] = h[b][k]
      BY <3>1, <2>1, <1>4, <1>5, <1>6
    <3> QED BY <3>2 DEF SameRefs
  <2>6. \A j, k \in DOMAIN h1[b] : f[j] = f[k] /\ f[j] \in DOMAIN h[b] => j = k
    BY <2>1, <1>5, <1>6
  <2>7. Reorders(h, h1, b, f)
    BY <1>1, <1>3, <2>2, <2>4, <2>5, <2>6 DEF Reorders
  <2> QED BY <2>7, <1>1, <1>3, HeapReorder
<1>8. Like(h[c][i], Cell(h[c][i].key, w))
  BY <1>5 DEF Like, Cell
<1>9. \A n \in Nodes \ {b} : AllLike(h[n], h1[n])
  <2>1. TAKE n \in Nodes \ {b}
  <2>2. CASE n = c
    BY <2>2, <1>6, <1>8, LikeChanged
  <2>3. CASE n # c
    <3>1. h1[n] = h[n]
      BY <2>3 DEF Boxes
    <3> QED BY <3>1, LikeSelf
  <2> QED BY <2>2, <2>3
<1>10. AllLike(h[App], h1[App])
  BY <1>1, <1>9
<1>11. Len(h1[App]) = Len(h[App]) /\ \A k \in DOMAIN h1[App] : h1[App][k].key = NULL /\ h1[App][k].v.type # "junk"
  BY <1>10 DEF AllLike, Like, Good, Shape
<1>12. Suits(w, b, s)
  <2>1. \A j \in 1 .. Len(s) : s[j].v.type = "junk" <=> j > w.size
    BY <1>4, <1>5 DEF Filled, Junk, Cell, Value
  <2>2. \A j \in 1 .. w.size : s[j].key # NULL <=> w.type = "object"
    <3>1. TAKE j \in 1 .. w.size
    <3>2. j \in 1 .. Len(s) /\ j <= v.size /\ j \in 1 .. v.size
      BY <1>4, <1>5
    <3> QED BY <3>2, <1>4, <1>5 DEF Filled
  <2>3. Filled(w, s)
    BY <2>1, <2>2, <1>5 DEF Filled
  <2> QED BY <2>3, <1>2, <1>5 DEF Suits, IsContainer
<1>13. ASSUME NEW n \in Nodes, NEW k \in DOMAIN h1[n]
       PROVE  \/ Fits(h1, h1[n][k])
              \/ /\ Fits(h, h1[n][k])
                 /\ h1[n][k].v.at # NULL => AllLike(h[h1[n][k].v.at], h1[h1[n][k].v.at])
  <2>1. CASE n = c /\ k = i
    <3>1. h1[n][k] = Cell(h[c][i].key, w)
      BY <2>1, <1>6 DEF Changed
    <3> QED BY <3>1, <1>1, <1>6, <1>12, SuitsFits
  <2>2. CASE n = b /\ k > v.size
    <3>1. h1[n][k] = Junk
      BY <2>2, <1>4, <1>5, <1>6
    <3> QED BY <3>1 DEF Fits, Junk, Cell, Value, IsContainer
  <2>3. CASE ~(n = c /\ k = i) /\ ~(n = b /\ k > v.size)
    <3>1. k \in DOMAIN h[n] /\ h1[n][k] = h[n][k]
      <4>1. CASE n = b
        BY <4>1, <2>3, <1>4, <1>5, <1>6
      <4>2. CASE n # b
        BY <4>2, <2>3, <1>6 DEF Changed, Boxes
      <4> QED BY <4>1, <4>2
    <3>2. Fits(h, h1[n][k]) /\ h1[n][k].v.at \in L \cup {NULL} /\ h1[n][k].v.at # b
      BY <3>1, <2>3, <1>3, GoodFacts
    <3> QED BY <3>2, <1>1, <1>9
  <2> QED BY <2>1, <2>2, <2>3
<1> QED BY <1>7, <1>11, <1>13, ShapeFrom

\* The cell <<b, k>> without its key and its value, and D freed.
Emptied(h, D, b, k) ==
  [n \in Nodes |-> IF n \in D THEN <<>> ELSE IF n = b THEN [h[b] EXCEPT ![k] = Junk] ELSE h[n]]

\* D is what json_free frees of a cell: its key, its value and all below.
Empties(h, b, k, D) == D = Close(Graph(h), {h[b][k].key, h[b][k].v.at} \ {NULL})

LEMMA JunkFacts ==
  /\ Junk \in Cells /\ Cell(NULL, Plain) \in Cells /\ Plain \in Values
  /\ Junk.key = NULL /\ Junk.v.at = NULL /\ Junk.v.type = "junk"
  /\ Bare(Plain)
BY DEF Junk, Cell, Cells, Value, Values, Types, Plain, Bare, IsContainer

LEMMA OwnedEmpty ==
  ASSUME NEW h, NEW L, Owned(h, L), NEW b \in L, NEW k \in DOMAIN h[b], NEW D,
         Empties(h, b, k, D)
  PROVE  /\ Owned(Emptied(h, D, b, k), L \ D)
         /\ b \notin D /\ D \subseteq L
<1> DEFINE X == {h[b][k].key, h[b][k].v.at} \ {NULL}
           h1 == Emptied(h, D, b, k)
<1>1. /\ h \in Heaps /\ b \in Nodes /\ Graph(h) \in Graphs /\ Forest(Graph(h), L)
      /\ L \subseteq Blocks /\ NULL \notin Blocks
  BY OwnedFacts, JsonTreeAssumption DEF Owned, Nodes
<1>2. h[b] \in Seq(Cells) /\ h[b][k].key \in Blocks \cup {NULL} /\ h[b][k].v.at \in Blocks \cup {NULL}
      /\ k \in 1 .. Len(h[b])
  BY <1>1, CellOf
<1>3. X \subseteq Blocks /\ X \subseteq Graph(h)[b] /\ \A x \in X : Points(h[b][k], x)
  <2>1. X \subseteq Blocks /\ \A x \in X : Points(h[b][k], x)
    BY <1>2 DEF Points
  <2> QED BY <2>1, <1>1, GraphType
<1>a. D = Close(Graph(h), X)
  BY DEF Empties
<1>4. b \notin D
  BY <1>1, <1>3, <1>a, Acyclic
<1>5. PICK s : s = [h[b] EXCEPT ![k] = Junk]
  OBVIOUS
<1>6. s \in Seq(Cells) /\ DOMAIN s = DOMAIN h[b] /\ s[k] = Junk
      /\ \A j \in DOMAIN h[b] : j # k => s[j] = h[b][j]
  BY <1>2, <1>5, JunkFacts
<1>7. \A n \in Nodes : h1[n] = IF n \in D THEN <<>> ELSE IF n = b THEN s ELSE h[n]
  BY <1>5 DEF Emptied
<1>8. h1 \in Heaps
  <2>1. ASSUME NEW n \in Nodes PROVE h1[n] \in Seq(Cells)
    <3>1. <<>> \in Seq(Cells) /\ h[n] \in Seq(Cells)
      BY <1>1 DEF Heaps
    <3> HIDE DEF h1
    <3> QED BY <3>1, <1>6, <1>7
  <2>2. h1 = [n \in Nodes |-> h1[n]]
    BY DEF Emptied
  <2> HIDE DEF h1
  <2> QED BY <2>1, <2>2 DEF Heaps
<1>9. D \subseteq Nodes
  BY <1>a DEF Close, Nodes
<1> HIDE DEF h1, X
<1>10. CellDrops(h, h1, b, k, X, D)
  <2>1. \A n \in D : h1[n] = <<>>
    BY <1>7, <1>9
  <2>2. \A n \in Nodes \ D : DOMAIN h1[n] = DOMAIN h[n]
    BY <1>6, <1>7
  <2>3. \A n \in Nodes \ D : \A j \in DOMAIN h[n] : n # b \/ j # k => SameRefs(h1[n][j], h[n][j])
    BY <1>6, <1>7 DEF SameRefs
  <2>4. h1[b][k] = Junk
    BY <1>1, <1>4, <1>6, <1>7
  <2>5. /\ h1[b][k].key = IF h[b][k].key \in X THEN NULL ELSE h[b][k].key
        /\ h1[b][k].v.at = IF h[b][k].v.at \in X THEN NULL ELSE h[b][k].v.at
    BY <2>4, JunkFacts DEF X
  <2> QED BY <1>3, <1>8, <1>a, <2>1, <2>2, <2>3, <2>5 DEF CellDrops
<1>11. Owned(h1, L \ D) /\ D \subseteq L
  BY <1>10, HeapDrop
<1> QED BY <1>4, <1>11 DEF h1

\* The empty cell <<b, k>> gets a key and the value of the variable j.
Gains(h, h1, b, k, j, key) ==
  /\ h1 \in Heaps
  /\ \A n \in Nodes : DOMAIN h1[n] = DOMAIN h[n]
  /\ \A n \in Nodes : \A m \in DOMAIN h[n] :
       (n # b \/ m # k) /\ (n # App \/ m # j) => SameRefs(h1[n][m], h[n][m])
  /\ h1[b][k].key = key /\ h1[b][k].v.at = h[App][j].v.at
  /\ h1[App][j].key = NULL /\ h1[App][j].v.at = NULL

LEMMA OwnedGain ==
  ASSUME NEW h, NEW L, Owned(h, L), NEW b \in L, NEW k \in DOMAIN h[b], NEW j \in DOMAIN h[App],
         NEW h1, NEW key \in {NULL} \cup (Blocks \ L), Gains(h, h1, b, k, j, key),
         h[b][k].key = NULL, h[b][k].v.at = NULL, h[App][j].key = NULL,
         b \notin Close(Graph(h), {h[App][j].v.at} \ {NULL})
  PROVE  Owned(h1, L \cup ({key} \ {NULL}))
<1>1. /\ h \in Heaps /\ h1 \in Heaps /\ b \in Nodes /\ L \subseteq Blocks /\ NULL \notin Blocks
      /\ App \in Nodes /\ App \notin Blocks /\ b # App
  BY OwnedFacts, JsonTreeAssumption DEF Owned, Nodes, Gains
<1>2. App \notin Close(Graph(h), {h[b][k].v.at} \ {NULL})
  BY <1>1 DEF Close
<1>3. CASE key = NULL
  <2>1. CellsSwap(h, h1, b, k, App, j)
    BY <1>1, <1>2, <1>3 DEF CellsSwap, Gains
  <2>2. Owned(h1, L)
    BY <2>1, <1>1, HeapSwap
  <2> QED BY <2>2, <1>3
<1>4. CASE key # NULL
  \* The value first, then the key.
  <2>1. key \in Blocks \ L /\ h[key] = <<>> /\ key \in Nodes
    BY <1>4 DEF Owned, Nodes
  <2>a. k \in DOMAIN h1[b]
    BY <1>1 DEF Gains
  <2>2. h1[b] \in Seq(Cells) /\ k \in DOMAIN h1[b] /\ h1[b][k] \in Cells
    BY <1>1, <2>a, CellOf
  <2>3. PICK x : x = [h1[b][k] EXCEPT !.key = NULL]
    OBVIOUS
  <2>4. x \in Cells /\ x.key = NULL /\ x.v = h1[b][k].v
    BY <2>2, <2>3 DEF Cells
  <2>5. PICK s : s = [h1[b] EXCEPT ![k] = x]
    OBVIOUS
  <2>6. s \in Seq(Cells) /\ DOMAIN s = DOMAIN h1[b] /\ s[k] = x
        /\ \A m \in DOMAIN h1[b] : m # k => s[m] = h1[b][m]
    BY <2>2, <2>4, <2>5
  <2>7. PICK h0 : h0 = [h1 EXCEPT ![b] = s]
    OBVIOUS
  <2>8. h0 \in Heaps /\ h0[b] = s /\ \A n \in Nodes \ {b} : h0[n] = h1[n]
    BY <1>1, <2>6, <2>7 DEF Heaps
  <2>9. \A n \in Nodes : DOMAIN h0[n] = DOMAIN h1[n] /\ DOMAIN h0[n] = DOMAIN h[n]
    BY <2>6, <2>8 DEF Gains
  <2>10. \A n \in Nodes : \A m \in DOMAIN h[n] : n # b \/ m # k => h0[n][m] = h1[n][m]
    BY <2>6, <2>8 DEF Gains
  <2>11. h0[b][k] = x
    BY <2>6, <2>8
  <2>12. CellsSwap(h, h0, b, k, App, j)
    <3>1. h0[App][j] = h1[App][j]
      BY <1>1, <2>10
    <3>2. \A n \in Nodes : \A m \in DOMAIN h[n] :
            (n # b \/ m # k) /\ (n # App \/ m # j) => SameRefs(h0[n][m], h[n][m])
      BY <2>10 DEF Gains
    <3> QED BY <1>1, <1>2, <2>4, <2>8, <2>9, <2>11, <3>1, <3>2 DEF CellsSwap, Gains
  <2>13. Owned(h0, L)
    BY <2>12, <1>1, HeapSwap
  <2>14. CellGets(h0, h1, b, k, key)
    <3>1. h1[key] = <<>>
      <4>1. /\ h1[key] \in Seq(Cells) /\ h[key] \in Seq(Cells)
            /\ DOMAIN h1[key] = DOMAIN h[key]
        BY <1>1, <2>1 DEF Heaps, Gains
      <4> QED BY <4>1, <2>1, Empty
    <3>2. \A m \in DOMAIN h1[key] : h1[key][m].key = NULL /\ h1[key][m].v.at = NULL
      BY <3>1, NoCells
    <3>3. \A n \in Nodes : \A m \in DOMAIN h0[n] : n # b \/ m # k => SameRefs(h1[n][m], h0[n][m])
      BY <2>9, <2>10 DEF SameRefs
    <3> QED BY <1>1, <2>4, <2>9, <2>11, <3>1, <3>2, <3>3 DEF CellGets, Gains
  <2>15. k \in DOMAIN h0[b]
    BY <1>1, <2>9
  <2>16. Owned(h1, L \cup {key})
    BY <2>1, <2>13, <2>14, <2>15, HeapNew
  <2> QED BY <2>16, <1>4
<1> QED BY <1>3, <1>4

\* An addition behind the elements of the container at <<c, i>>, which has room.
GivesLast(h, h1, c, i, b, k, j, key) ==
  /\ h1 \in Heaps
  /\ c # App \/ i # j
  /\ IsContainer(h[c][i].v) /\ h[c][i].v.at = b /\ k = h[c][i].v.size + 1
  /\ key = NULL <=> h[c][i].v.type = "array"
  /\ \A n \in Nodes : DOMAIN h1[n] = DOMAIN h[n] /\ Len(h1[n]) = Len(h[n])
  /\ \A n \in Nodes : \A m \in DOMAIN h[n] :
       (n # b \/ m # k) /\ (n # App \/ m # j) /\ (n # c \/ m # i) => h1[n][m] = h[n][m]
  /\ h1[b][k] = Cell(key, h[App][j].v)
  /\ h1[App][j] = Cell(NULL, Plain)
  /\ h1[c][i] = Cell(h[c][i].key, [h[c][i].v EXCEPT !.size = k])

LEMMA GoodGive ==
  ASSUME NEW h, NEW L, NEW h1, NEW c \in L \cup {App}, NEW i \in DOMAIN h[c],
         NEW b \in Blocks, NEW k \in DOMAIN h[b], NEW j \in DOMAIN h[App],
         NEW key \in {NULL} \cup (Blocks \ L),
         Good(h, L), GivesLast(h, h1, c, i, b, k, j, key),
         c \notin Close(Graph(h), {h[App][j].v.at} \ {NULL})
  PROVE  Good(h1, L \cup ({key} \ {NULL}))
<1>1. /\ Owned(h, L) /\ h \in Heaps /\ h1 \in Heaps /\ L \subseteq Blocks /\ NULL \notin Blocks
      /\ c \in Nodes /\ App \notin Blocks /\ b \in Nodes /\ b # NULL /\ b # App /\ L \subseteq Nodes
      /\ App \in Nodes
  <2>1. h1 \in Heaps
    BY DEF GivesLast
  <2> QED BY <2>1, GoodFacts DEF Nodes
<1>2. PICK v : v = h[c][i].v
  OBVIOUS
<1>3. v.at = b /\ IsContainer(v) /\ k = v.size + 1 /\ v \in Values /\ (c # App \/ i # j)
      /\ (key = NULL <=> v.type = "array")
  BY <1>1, <1>2, GoodFacts DEF GivesLast
<1>4. /\ b \in L /\ c # b
      /\ \A n \in Nodes : \A m \in DOMAIN h[n] : h[n][m].key # b
      /\ \A n \in Nodes : \A m \in DOMAIN h[n] : n # c \/ m # i => h[n][m].v.at # b
  BY <1>1, <1>2, <1>3, OwnerFacts
<1>5. /\ Filled(v, h[b]) /\ v.size \in Nat /\ v.size <= Len(h[b]) /\ Len(h[b]) \in Nat
      /\ DOMAIN h[b] = 1 .. Len(h[b])
      /\ \A m \in DOMAIN h[b] : m > v.size => h[b][m].key = NULL /\ h[b][m].v.at = NULL
  BY <1>1, <1>2, <1>3, ContainerFacts
<1>6. k \in Nat /\ k > v.size /\ h[b][k].key = NULL /\ h[b][k].v.at = NULL
  BY <1>3, <1>5
<1>7. h[App][j].key = NULL /\ h[App][j].v.type # "junk" /\ Fits(h, h[App][j])
      /\ h[App][j].v.at \in L \cup {NULL}
  BY <1>1, GoodFacts DEF Good, Shape
<1>8. PICK w : w = [v EXCEPT !.size = k]
  OBVIOUS
<1>9. /\ w \in Values /\ w.type = v.type /\ w.at = b /\ w.size = k
      /\ w.capacity = v.capacity /\ w.raw = v.raw
  BY <1>3, <1>6, <1>8 DEF Values
<1>10. h1[b][k] = Cell(key, h[App][j].v) /\ h1[App][j] = Cell(NULL, Plain)
       /\ h1[c][i] = Cell(h[c][i].key, w)
  BY <1>2, <1>8 DEF GivesLast
<1>11. b \notin Close(Graph(h), {h[App][j].v.at} \ {NULL})
  <2>1. h[c][i].v.at = b
    BY <1>2, <1>3
  <2> QED BY <2>1, <1>1, <1>3, NotBelow
<1>12. Owned(h1, L \cup ({key} \ {NULL}))
  <2>1. ASSUME NEW n \in Nodes, NEW m \in DOMAIN h[n], n # b \/ m # k, n # App \/ m # j
        PROVE  SameRefs(h1[n][m], h[n][m])
    <3>1. CASE n = c /\ m = i
      BY <3>1, <1>2, <1>3, <1>9, <1>10 DEF SameRefs, Cell
    <3>2. CASE ~(n = c /\ m = i)
      BY <2>1, <3>2 DEF SameRefs, GivesLast
    <3> QED BY <3>1, <3>2
  <2>2. \A n \in Nodes : DOMAIN h1[n] = DOMAIN h[n]
    BY DEF GivesLast
  <2>3. Gains(h, h1, b, k, j, key)
    BY <1>1, <1>10, <2>1, <2>2, JunkFacts DEF Gains, Cell, Plain, Value
  <2> QED BY <2>3, <1>1, <1>4, <1>6, <1>7, <1>11, OwnedGain
<1>13. \A n \in Nodes \ {b} : AllLike(h[n], h1[n])
  <2>1. ASSUME NEW n \in Nodes \ {b}, NEW m \in DOMAIN h[n]
        PROVE  Like(h[n][m], h1[n][m])
    <3>1. CASE n = c /\ m = i
      BY <3>1, <1>2, <1>3, <1>9, <1>10 DEF Like, Cell, IsContainer
    <3>2. CASE n = App /\ m = j
      BY <3>2, <1>7, <1>10 DEF Like, Cell, Plain, Value
    <3>3. CASE ~(n = c /\ m = i) /\ ~(n = App /\ m = j)
      BY <3>3 DEF Like, GivesLast
    <3> QED BY <3>1, <3>2, <3>3
  <2>2. \A n \in Nodes : DOMAIN h1[n] = DOMAIN h[n] /\ Len(h1[n]) = Len(h[n])
    BY DEF GivesLast
  <2> QED BY <2>1, <2>2 DEF AllLike
<1>14. AllLike(h[App], h1[App])
  BY <1>1, <1>13
<1>15. Len(h1[App]) = Len(h[App]) /\ \A m \in DOMAIN h1[App] : h1[App][m].key = NULL /\ h1[App][m].v.type # "junk"
  BY <1>14 DEF AllLike, Like, Good, Shape
<1>16. Suits(w, b, h1[b])
  <2>1. Len(h1[b]) = Len(h[b]) /\ DOMAIN h1[b] = 1 .. Len(h[b]) /\ k <= Len(h[b])
    BY <1>1, <1>5 DEF GivesLast
  <2>2. \A m \in 1 .. Len(h[b]) : m # k => h1[b][m] = h[b][m]
    BY <1>1, <1>4, <1>5 DEF GivesLast
  <2>3. \A m \in 1 .. Len(h[b]) : h1[b][m].v.type = "junk" <=> m > k
    <3>1. TAKE m \in 1 .. Len(h[b])
    <3>2. CASE m = k
      BY <3>2, <1>6, <1>7, <1>10 DEF Cell
    <3>3. CASE m # k
      <4>1. h1[b][m].v.type = "junk" <=> m > v.size
        BY <2>2, <3>3, <1>5 DEF Filled
      <4> QED BY <4>1, <3>3, <1>3, <1>5
    <3> QED BY <3>2, <3>3
  <2>4. \A m \in 1 .. k : h1[b][m].key # NULL <=> w.type = "object"
    <3>1. TAKE m \in 1 .. k
    <3>2. CASE m = k
      BY <3>2, <1>3, <1>9, <1>10 DEF Cell, IsContainer
    <3>3. CASE m # k
      <4>1. m \in 1 .. v.size /\ m \in 1 .. Len(h[b])
        BY <3>3, <1>3, <1>5
      <4> QED BY <4>1, <2>2, <3>3, <1>5, <1>9 DEF Filled
    <3> QED BY <3>2, <3>3
  <2>5. ~w.raw => w.capacity = Len(h1[b])
    BY <1>5, <1>9, <2>1 DEF Filled
  <2>6. Filled(w, h1[b])
    BY <2>1, <2>3, <2>4, <2>5, <1>9 DEF Filled
  <2> QED BY <2>6, <1>3, <1>9 DEF Suits, IsContainer
<1>17. ASSUME NEW n \in Nodes, NEW m \in DOMAIN h1[n]
       PROVE  \/ Fits(h1, h1[n][m])
              \/ /\ Fits(h, h1[n][m])
                 /\ h1[n][m].v.at # NULL => AllLike(h[h1[n][m].v.at], h1[h1[n][m].v.at])
  <2>1. CASE n = c /\ m = i
    BY <2>1, <1>1, <1>10, <1>16, SuitsFits
  <2>2. CASE n = App /\ m = j
    BY <2>2, <1>10, JunkFacts, BareFits
  <2>3. CASE n = b /\ m = k
    <3>1. Fits(h, h1[n][m])
      BY <2>3, <1>7, <1>10 DEF Fits, Cell
    <3>2. h1[n][m].v.at \in L \cup {NULL} /\ h1[n][m].v.at # b
      BY <2>3, <1>1, <1>3, <1>4, <1>7, <1>10 DEF Cell
    <3> QED BY <3>1, <3>2, <1>1, <1>13
  <2>4. CASE ~(n = c /\ m = i) /\ ~(n = App /\ m = j) /\ ~(n = b /\ m = k)
    <3>1. m \in DOMAIN h[n] /\ h1[n][m] = h[n][m]
      BY <2>4 DEF GivesLast
    <3>2. Fits(h, h1[n][m]) /\ h1[n][m].v.at \in L \cup {NULL} /\ h1[n][m].v.at # b
      BY <3>1, <2>4, <1>4, GoodFacts
    <3> QED BY <3>2, <1>1, <1>13
  <2> QED BY <2>1, <2>2, <2>3, <2>4
<1> QED BY <1>12, <1>15, <1>17, ShapeFrom

\* A removal from the container at <<c, i>>: the cells behind <<b, k>> move up.
Deletes(h, h1, c, i, b, k, D, n) ==
  /\ h1 \in Heaps /\ IsContainer(h[c][i].v) /\ h[c][i].v.at = b /\ n = h[c][i].v.size /\ k \in 1 .. n
  /\ \A m \in Nodes : m \in D => h1[m] = <<>>
  /\ \A m \in Nodes : m \notin D /\ m # b /\ m # c => h1[m] = h[m]
  /\ b \notin D => h1[b] = Shifted(h[b], k, n)
  /\ c \notin D => Changed(h, h1, c, i, Cell(h[c][i].key, [h[c][i].v EXCEPT !.size = n - 1]))

LEMMA GoodDel ==
  ASSUME NEW h, NEW L, NEW h1, NEW c \in L \cup {App}, NEW i \in DOMAIN h[c],
         NEW b \in Blocks, NEW k \in DOMAIN h[b], NEW D, NEW n,
         Good(h, L), Empties(h, b, k, D), Deletes(h, h1, c, i, b, k, D, n)
  PROVE  Good(h1, L \ D)
<1>1. /\ Owned(h, L) /\ h \in Heaps /\ h1 \in Heaps /\ L \subseteq Blocks /\ NULL \notin Blocks
      /\ c \in Nodes /\ App \notin Blocks /\ b \in Nodes /\ b # NULL /\ b # App /\ L \subseteq Nodes
      /\ App \in Nodes
  <2>1. h1 \in Heaps
    BY DEF Deletes
  <2> QED BY <2>1, GoodFacts DEF Nodes
<1>2. PICK v : v = h[c][i].v
  OBVIOUS
<1>3. v.at = b /\ IsContainer(v) /\ n = v.size /\ v \in Values /\ k \in 1 .. n
  BY <1>1, <1>2, GoodFacts DEF Deletes
<1>4. /\ b \in L /\ c # b
      /\ b \in Graph(h)[c]
      /\ \A m \in Nodes : \A l \in DOMAIN h[m] : h[m][l].key # b
      /\ \A m \in Nodes : \A l \in DOMAIN h[m] : m # c \/ l # i => h[m][l].v.at # b
  BY <1>1, <1>2, <1>3, OwnerFacts
<1>5. /\ Filled(v, h[b]) /\ n \in Nat /\ n <= Len(h[b]) /\ Len(h[b]) \in Nat
      /\ DOMAIN h[b] = 1 .. Len(h[b]) /\ k \in Nat
      /\ \A l \in DOMAIN h[b] : l > n => h[b][l].key = NULL /\ h[b][l].v.at = NULL
  BY <1>1, <1>2, <1>3, ContainerFacts
<1>6. PICK h0 : h0 = Emptied(h, D, b, k)
  OBVIOUS
<1>7. Owned(h0, L \ D) /\ b \notin D /\ D \subseteq L
  BY <1>1, <1>4, <1>6, OwnedEmpty
<1>8. c \notin D
  <2>1. SUFFICES ASSUME c \in D PROVE FALSE
    OBVIOUS
  <2>2. PICK X : X = {h[b][k].key, h[b][k].v.at} \ {NULL}
    OBVIOUS
  <2>3. X \subseteq Blocks /\ Graph(h) \in Graphs
    BY <1>1, <2>2, CellOf, GraphType
  <2>4. Closed(Graph(h), Close(Graph(h), X))
    BY <2>3, CloseClosed
  <2>5. D = Close(Graph(h), X)
    BY <2>2 DEF Empties
  <2> QED BY <2>1, <2>4, <2>5, <1>4, <1>7 DEF Closed
<1>9. PICK w : w = [v EXCEPT !.size = n - 1]
  OBVIOUS
<1>10. /\ w \in Values /\ w.type = v.type /\ w.at = b /\ w.size = n - 1
       /\ w.capacity = v.capacity /\ w.raw = v.raw
  BY <1>3, <1>5, <1>9 DEF Values
<1>11. Changed(h, h1, c, i, Cell(h[c][i].key, w)) /\ h1[b] = Shifted(h[b], k, n)
  BY <1>2, <1>7, <1>8, <1>9 DEF Deletes
<1>12. /\ DOMAIN h1[b] = 1 .. Len(h[b]) /\ Len(h1[b]) = Len(h[b])
       /\ h1[b][n] = Junk
       /\ \A l \in k .. n - 1 : h1[b][l] = h[b][l + 1]
       /\ \A l \in 1 .. Len(h[b]) : l < k \/ l > n => h1[b][l] = h[b][l]
  <2>1. DOMAIN h1[b] = 1 .. Len(h[b])
    BY <1>5, <1>11 DEF Shifted
  <2>2. Len(h1[b]) = Len(h[b])
    <3>1. h1[b] \in Seq(Cells)
      BY <1>1 DEF Heaps
    <3> QED BY <3>1, <2>1, <1>5
  <2> QED BY <2>1, <2>2, <1>3, <1>5, <1>11 DEF Shifted
<1>13. /\ h0[b][k] = Junk /\ DOMAIN h0[b] = DOMAIN h[b]
       /\ \A l \in DOMAIN h[b] : l # k => h0[b][l] = h[b][l]
       /\ \A m \in Nodes : m \in D => h0[m] = <<>>
       /\ \A m \in Nodes : m \notin D /\ m # b => h0[m] = h[m]
  BY <1>1, <1>6, <1>7 DEF Emptied
<1>14. \A x \in Blocks : ~Points(Junk, x)
  BY <1>1, JunkFacts DEF Points
<1>15. Owned(h1, L \ D)
  <2>1. PICK f : f = [l \in 1 .. Len(h[b]) |-> IF l = n THEN 0 ELSE IF l \in k .. n - 1 THEN l + 1 ELSE l]
    OBVIOUS
  <2>2. ASSUME NEW m \in Nodes, NEW l \in DOMAIN h0[m]
        PROVE  h0[m][l].key # b
    <3>1. CASE m = b /\ l = k
      BY <3>1, <1>1, <1>13, JunkFacts
    <3>2. CASE ~(m = b /\ l = k)
      <4>1. m \notin D
        BY <1>13, NoCells
      <4>2. l \in DOMAIN h[m] /\ h0[m][l] = h[m][l]
        BY <3>2, <4>1, <1>13
      <4> QED BY <4>2, <1>4
    <3> QED BY <3>1, <3>2
  <2>3. ASSUME NEW m \in Nodes \ {b}
        PROVE  DOMAIN h1[m] = DOMAIN h0[m] /\ \A l \in DOMAIN h0[m] : SameRefs(h1[m][l], h0[m][l])
    <3>1. CASE m \in D
      <4>1. h0[m] = <<>> /\ h1[m] = <<>>
        BY <3>1, <1>13 DEF Deletes
      <4> QED BY <4>1 DEF SameRefs
    <3>2. CASE m \notin D /\ m = c
      <4>1. h0[c] = h[c]
        BY <3>2, <1>13
      <4> QED BY <4>1, <3>2, <1>2, <1>3, <1>10, <1>11 DEF Changed, SameRefs, Cell
    <3>3. CASE m \notin D /\ m # c
      <4>1. h0[m] = h[m] /\ h1[m] = h[m]
        BY <3>3, <1>13 DEF Deletes
      <4> QED BY <4>1 DEF SameRefs
    <3> QED BY <3>1, <3>2, <3>3
  <2>4. ASSUME NEW l \in DOMAIN h1[b], NEW x \in Blocks, Points(h1[b][l], x)
        PROVE  f[l] \in DOMAIN h0[b] /\ SameRefs(h1[b][l], h0[b][f[l]])
    <3>1. l \in 1 .. Len(h[b]) /\ l # n
      BY <2>4, <1>12, <1>14
    <3>2. CASE l \in k .. n - 1
      <4>1. f[l] = l + 1 /\ l + 1 \in 1 .. Len(h[b]) /\ l + 1 # k
        BY <3>1, <3>2, <2>1, <1>3, <1>5
      <4>2. h1[b][l] = h[b][l + 1] /\ h0[b][l + 1] = h[b][l + 1] /\ l + 1 \in DOMAIN h0[b]
        BY <4>1, <3>2, <1>5, <1>12, <1>13
      <4> QED BY <4>1, <4>2 DEF SameRefs
    <3>3. CASE l \notin k .. n - 1
      <4>1. f[l] = l /\ l # k /\ (l < k \/ l > n)
        BY <3>1, <3>3, <2>1, <1>3, <1>5
      <4> QED BY <4>1, <3>1, <1>5, <1>12, <1>13 DEF SameRefs
    <3> QED BY <3>2, <3>3
  <2>5. ASSUME NEW m \in DOMAIN h0[b], NEW x \in Blocks, Points(h0[b][m], x)
        PROVE  \E l \in DOMAIN h1[b] : f[l] = m /\ SameRefs(h1[b][l], h0[b][m])
    <3>1. m \in 1 .. Len(h[b]) /\ m # k /\ h0[b][m] = h[b][m]
      BY <2>5, <1>5, <1>13, <1>14
    <3>2. m <= n
      BY <2>5, <3>1, <1>1, <1>5 DEF Points
    <3>3. CASE m < k
      <4>1. f[m] = m /\ m \in DOMAIN h1[b] /\ h1[b][m] = h[b][m]
        BY <3>1, <3>3, <2>1, <1>3, <1>5, <1>12
      <4> QED BY <4>1, <3>1 DEF SameRefs
    <3>4. CASE m > k
      <4>1. m - 1 \in k .. n - 1 /\ m - 1 \in 1 .. Len(h[b]) /\ m - 1 # n /\ m - 1 + 1 = m
        BY <3>1, <3>2, <3>4, <1>3, <1>5
      <4>2. f[m - 1] = m /\ h1[b][m - 1] = h[b][m]
        BY <4>1, <2>1, <1>12
      <4> QED BY <4>1, <4>2, <3>1, <1>12 DEF SameRefs
    <3> QED BY <3>1, <3>3, <3>4, <1>5
  <2>6. ASSUME NEW l \in DOMAIN h1[b], NEW m \in DOMAIN h1[b], f[l] = f[m], f[l] \in DOMAIN h0[b]
        PROVE  l = m
    <3>1. l \in 1 .. Len(h[b]) /\ m \in 1 .. Len(h[b]) /\ f[l] # 0
      BY <2>6, <1>5, <1>12, <1>13
    <3> QED BY <3>1, <2>1, <2>6, <1>3, <1>5
  <2>7. Reorders(h0, h1, b, f)
    BY <1>1, <2>2, <2>3, <2>4, <2>5, <2>6 DEF Reorders
  <2> QED BY <2>7, <1>4, <1>7, HeapReorder
<1>16. Like(h[c][i], Cell(h[c][i].key, w))
  BY <1>2, <1>10 DEF Like, Cell
<1>17. \A m \in Nodes : m \notin D /\ m # b => AllLike(h[m], h1[m])
  <2>1. SUFFICES ASSUME NEW m \in Nodes, m \notin D, m # b PROVE AllLike(h[m], h1[m])
    OBVIOUS
  <2>2. CASE m = c
    BY <2>2, <1>11, <1>16, LikeChanged
  <2>3. CASE m # c
    <3>1. h1[m] = h[m]
      BY <2>1, <2>3 DEF Deletes
    <3> QED BY <3>1, LikeSelf
  <2> QED BY <2>2, <2>3
<1>18. AllLike(h[App], h1[App])
  BY <1>1, <1>7, <1>17
<1>19. Len(h1[App]) = Len(h[App]) /\ \A l \in DOMAIN h1[App] : h1[App][l].key = NULL /\ h1[App][l].v.type # "junk"
  BY <1>18 DEF AllLike, Like, Good, Shape
<1>20. Suits(w, b, h1[b])
  <2>1. \A l \in 1 .. Len(h[b]) : h1[b][l].v.type = "junk" <=> l > n - 1
    <3>1. TAKE l \in 1 .. Len(h[b])
    <3>2. CASE l = n
      BY <3>2, <1>5, <1>12, JunkFacts
    <3>3. CASE l \in k .. n - 1
      <4>1. l + 1 \in 1 .. Len(h[b]) /\ ~(l + 1 > n) /\ ~(l > n - 1)
        BY <3>3, <1>3, <1>5
      <4> QED BY <4>1, <3>3, <1>3, <1>5, <1>12 DEF Filled
    <3>4. CASE l < k \/ l > n
      <4>1. h1[b][l] = h[b][l] /\ (h[b][l].v.type = "junk" <=> l > n)
        BY <3>4, <1>3, <1>5, <1>12 DEF Filled
      <4>2. l > n <=> l > n - 1
        BY <3>4, <1>3, <1>5
      <4> QED BY <4>1, <4>2
    <3> QED BY <3>2, <3>3, <3>4, <1>5
  <2>2. \A l \in 1 .. n - 1 : h1[b][l].key # NULL <=> w.type = "object"
    <3>1. TAKE l \in 1 .. n - 1
    <3>2. l \in 1 .. Len(h[b]) /\ l \in 1 .. n /\ l + 1 \in 1 .. n /\ (l < k \/ l \in k .. n - 1)
      BY <1>3, <1>5
    <3>3. h1[b][l] = h[b][l] \/ h1[b][l] = h[b][l + 1]
      BY <3>2, <1>12
    <3>4. (h[b][l].key # NULL <=> v.type = "object") /\ (h[b][l + 1].key # NULL <=> v.type = "object")
      BY <3>2, <1>3, <1>5 DEF Filled
    <3> QED BY <3>3, <3>4, <1>10
  <2>3. ~w.raw => w.capacity = Len(h1[b])
    BY <1>5, <1>10, <1>12 DEF Filled
  <2>4. Filled(w, h1[b])
    BY <2>1, <2>2, <2>3, <1>5, <1>10, <1>12 DEF Filled
  <2> QED BY <2>4, <1>3, <1>10 DEF Suits, IsContainer
<1>21. ASSUME NEW m \in Nodes, NEW l \in DOMAIN h1[m]
       PROVE  \/ Fits(h1, h1[m][l])
              \/ /\ Fits(h, h1[m][l])
                 /\ h1[m][l].v.at # NULL => AllLike(h[h1[m][l].v.at], h1[h1[m][l].v.at])
  <2>1. CASE m = c /\ l = i
    <3>1. h1[m][l] = Cell(h[c][i].key, w)
      BY <2>1, <1>11 DEF Changed
    <3> QED BY <3>1, <1>1, <1>20, SuitsFits
  <2>2. CASE m = b /\ l = n
    <3>1. h1[m][l] = Junk
      BY <2>2, <1>12
    <3> QED BY <3>1 DEF Fits, Junk, Cell, Value, IsContainer
  <2>3. CASE ~(m = c /\ l = i) /\ ~(m = b /\ l = n)
    <3>1. m \notin D
      BY NoCells DEF Deletes
    <3>2. \E y \in DOMAIN h[m] : h1[m][l] = h[m][y] /\ (m # c \/ y # i)
      <4>1. CASE m = b
        <5>1. l \in 1 .. Len(h[b]) /\ (l < k \/ l > n \/ l \in k .. n - 1)
          BY <4>1, <2>3, <1>3, <1>5, <1>12
        <5>2. CASE l < k \/ l > n
          BY <5>1, <5>2, <4>1, <1>4, <1>5, <1>12
        <5>3. CASE l \in k .. n - 1
          <6>1. l + 1 \in 1 .. Len(h[b]) /\ h1[b][l] = h[b][l + 1]
            BY <5>3, <1>3, <1>5, <1>12
          <6> QED BY <6>1, <4>1, <1>4, <1>5
        <5> QED BY <5>1, <5>2, <5>3
      <4>2. CASE m # b /\ m = c
        BY <4>2, <2>3, <1>11 DEF Changed
      <4>3. CASE m # b /\ m # c
        <5>1. h1[m] = h[m]
          BY <4>3, <3>1 DEF Deletes
        <5> QED BY <5>1, <4>3
      <4> QED BY <4>1, <4>2, <4>3
    <3>3. Fits(h, h1[m][l]) /\ h1[m][l].v.at # b
      BY <3>2, <1>4, GoodFacts
    <3>4. h1[m][l].v.at # NULL => h1[m][l].v.at \in L \ D
      <4>1. h1[m][l].v.at \in Blocks \cup {NULL}
        BY <1>1, CellOf
      <4>2. m \in (L \ D) \cup {App}
        <5>1. h1[m] # <<>>
          BY NoCells
        <5>2. \A y \in Nodes \ ((L \ D) \cup {App}) : h1[y] = <<>>
          BY <1>15, OwnedFacts
        <5> QED BY <5>1, <5>2
      <4> QED BY <4>1, <4>2, <1>15, OwnedFacts DEF Points
    <3> QED BY <3>3, <3>4, <1>1, <1>17
  <2> QED BY <2>1, <2>2, <2>3
<1> QED BY <1>15, <1>19, <1>21, ShapeFrom

\* An element of the container at <<c, i>> is replaced by the value of the variable j.
Replaces(h, h1, c, i, b, k, j, key, D) ==
  /\ h1 \in Heaps
  /\ c # App \/ i # j
  /\ IsContainer(h[c][i].v) /\ h[c][i].v.at = b /\ k \in 1 .. h[c][i].v.size
  /\ key = NULL <=> h[c][i].v.type = "array"
  /\ \A m \in Nodes : m \in D => h1[m] = <<>>
  /\ b \notin D => Changed(h, h1, b, k, Cell(key, h[App][j].v))
  /\ App \notin D => Changed(h, h1, App, j, Cell(NULL, Plain))
  /\ \A m \in Nodes : m \notin D /\ m # b /\ m # App => h1[m] = h[m]

LEMMA GoodReplace ==
  ASSUME NEW h, NEW L, NEW h1, NEW c \in L \cup {App}, NEW i \in DOMAIN h[c],
         NEW b \in Blocks, NEW k \in DOMAIN h[b], NEW j \in DOMAIN h[App],
         NEW key \in {NULL} \cup (Blocks \ L), NEW D,
         Good(h, L), Empties(h, b, k, D), Replaces(h, h1, c, i, b, k, j, key, D),
         c \notin Close(Graph(h), {h[App][j].v.at} \ {NULL})
  PROVE  Good(h1, (L \ D) \cup ({key} \ {NULL}))
<1>1. /\ Owned(h, L) /\ h \in Heaps /\ h1 \in Heaps /\ L \subseteq Blocks /\ NULL \notin Blocks
      /\ c \in Nodes /\ App \notin Blocks /\ b \in Nodes /\ b # NULL /\ b # App /\ L \subseteq Nodes
      /\ App \in Nodes
  <2>1. h1 \in Heaps
    BY DEF Replaces
  <2> QED BY <2>1, GoodFacts DEF Nodes
<1>2. PICK v : v = h[c][i].v
  OBVIOUS
<1>3. v.at = b /\ IsContainer(v) /\ k \in 1 .. v.size /\ v \in Values /\ (c # App \/ i # j)
      /\ (key = NULL <=> v.type = "array")
  BY <1>1, <1>2, GoodFacts DEF Replaces
<1>4. /\ b \in L /\ c # b
      /\ \A m \in Nodes : \A l \in DOMAIN h[m] : h[m][l].key # b
      /\ \A m \in Nodes : \A l \in DOMAIN h[m] : m # c \/ l # i => h[m][l].v.at # b
  BY <1>1, <1>2, <1>3, OwnerFacts
<1>5. /\ Filled(v, h[b]) /\ v.size \in Nat /\ v.size <= Len(h[b]) /\ Len(h[b]) \in Nat
      /\ DOMAIN h[b] = 1 .. Len(h[b])
  BY <1>1, <1>2, <1>3, ContainerFacts
<1>6. h[b][k].v.type # "junk" /\ (h[b][k].key # NULL <=> v.type = "object")
  BY <1>3, <1>5 DEF Filled
<1>7. PICK q : q = h[App][j]
  OBVIOUS
<1>8. q.key = NULL /\ q.v.type # "junk" /\ Fits(h, q) /\ q.v.at \in L \cup {NULL}
  BY <1>1, <1>7, GoodFacts DEF Good, Shape
<1>9. b \notin Close(Graph(h), {q.v.at} \ {NULL})
  <2>1. h[c][i].v.at = b
    BY <1>2, <1>3
  <2> QED BY <2>1, <1>1, <1>3, <1>7, NotBelow
<1>10. PICK h0 : h0 = Emptied(h, D, b, k)
  OBVIOUS
<1>11. Owned(h0, L \ D) /\ b \notin D /\ D \subseteq L /\ App \notin D
  BY <1>1, <1>4, <1>10, OwnedEmpty
<1>12. /\ Changed(h, h1, b, k, Cell(key, q.v)) /\ Changed(h, h1, App, j, Cell(NULL, Plain))
       /\ \A m \in Nodes : m \in D => h1[m] = <<>>
       /\ \A m \in Nodes : m \notin D /\ m # b /\ m # App => h1[m] = h[m]
  BY <1>7, <1>11 DEF Replaces
<1>13. /\ h0[b][k] = Junk /\ DOMAIN h0[b] = DOMAIN h[b]
       /\ \A l \in DOMAIN h[b] : l # k => h0[b][l] = h[b][l]
       /\ \A m \in Nodes : m \in D => h0[m] = <<>>
       /\ \A m \in Nodes : m \notin D /\ m # b => h0[m] = h[m]
       /\ h0[App] = h[App] /\ h0 \in Heaps
  <2>1. h0 \in Heaps
    BY <1>11, OwnedFacts
  <2> QED BY <2>1, <1>1, <1>10, <1>11 DEF Emptied
<1>14. b \notin Close(Graph(h0), {q.v.at} \ {NULL})
  <2>1. PICK X : X = {q.v.at} \ {NULL}
    OBVIOUS
  <2>2. X \subseteq Blocks /\ Graph(h) \in Graphs /\ Graph(h0) \in Graphs
    BY <1>1, <1>8, <2>1, GraphType
  <2>3. \A m \in Nodes : Graph(h0)[m] \subseteq Graph(h)[m]
    <3>1. ASSUME NEW m \in Nodes, NEW x \in Graph(h0)[m]
          PROVE  x \in Graph(h)[m]
      <4>1. x \in Blocks
        BY <2>2 DEF Graphs
      <4>2. PICK l \in DOMAIN h0[m] : Points(h0[m][l], x)
        BY <4>1, GraphType
      <4>3. ~(m = b /\ l = k)
        BY <4>1, <4>2, <1>1, <1>13, JunkFacts DEF Points
      <4>4. m \notin D
        BY <1>13, NoCells
      <4>5. l \in DOMAIN h[m] /\ h0[m][l] = h[m][l]
        BY <4>3, <4>4, <1>13
      <4> QED BY <4>1, <4>2, <4>5, GraphType
    <3> QED BY <3>1
  <2>4. Close(Graph(h0), X) \subseteq Close(Graph(h), X)
    <3>1. Close(Graph(h), X) \subseteq Nodes
      BY DEF Close, Nodes
    <3> QED BY <3>1, <2>2, <2>3, CloseMono
  <2> QED BY <2>1, <2>4, <1>9
<1>15. PICK L1 : L1 = (L \ D) \cup ({key} \ {NULL})
  OBVIOUS
<1>16. Owned(h1, L1)
  <2>1. \A m \in Nodes : DOMAIN h1[m] = DOMAIN h0[m]
    <3>1. TAKE m \in Nodes
    <3>2. CASE m \in D
      BY <3>2, <1>12, <1>13
    <3>3. CASE m \notin D /\ m = b
      BY <3>3, <1>12, <1>13 DEF Changed
    <3>4. CASE m \notin D /\ m = App
      BY <3>4, <1>12, <1>13 DEF Changed
    <3>5. CASE m \notin D /\ m # b /\ m # App
      BY <3>5, <1>12, <1>13
    <3> QED BY <3>2, <3>3, <3>4, <3>5
  <2>2. ASSUME NEW m \in Nodes, NEW l \in DOMAIN h0[m], m # b \/ l # k, m # App \/ l # j
        PROVE  SameRefs(h1[m][l], h0[m][l])
    <3>1. m \notin D
      BY <1>13, NoCells
    <3>2. CASE m = b
      BY <2>2, <3>2, <1>12, <1>13 DEF Changed, SameRefs
    <3>3. CASE m = App
      BY <2>2, <3>3, <1>12, <1>13 DEF Changed, SameRefs
    <3>4. CASE m # b /\ m # App
      BY <3>1, <3>4, <1>12, <1>13 DEF SameRefs
    <3> QED BY <3>2, <3>3, <3>4
  <2>3. h1[b][k] = Cell(key, q.v) /\ h1[App][j] = Cell(NULL, Plain) /\ h0[App][j] = q
    BY <1>7, <1>12, <1>13 DEF Changed
  <2>4. Gains(h0, h1, b, k, j, key)
    BY <1>1, <2>1, <2>2, <2>3 DEF Gains, Cell, Plain, Value
  <2>5. /\ b \in L \ D /\ k \in DOMAIN h0[b] /\ j \in DOMAIN h0[App]
        /\ key \in {NULL} \cup (Blocks \ (L \ D))
        /\ h0[b][k].key = NULL /\ h0[b][k].v.at = NULL /\ h0[App][j].key = NULL
    BY <1>4, <1>7, <1>8, <1>11, <1>13, JunkFacts
  <2>6. b \notin Close(Graph(h0), {h0[App][j].v.at} \ {NULL})
    BY <2>3, <1>14
  <2> QED BY <2>4, <2>5, <2>6, <1>11, <1>15, OwnedGain
<1>17. \A m \in Nodes : m \notin D => AllLike(h[m], h1[m])
  <2>1. SUFFICES ASSUME NEW m \in Nodes, m \notin D PROVE AllLike(h[m], h1[m])
    OBVIOUS
  <2>2. CASE m = b
    <3>1. Like(h[b][k], Cell(key, q.v))
      BY <1>3, <1>6, <1>8 DEF Like, Cell, IsContainer
    <3> QED BY <2>2, <3>1, <1>12, LikeChanged
  <2>3. CASE m = App
    <3>1. Like(h[App][j], Cell(NULL, Plain))
      BY <1>7, <1>8 DEF Like, Cell, Plain, Value
    <3> QED BY <2>3, <3>1, <1>12, LikeChanged
  <2>4. CASE m # b /\ m # App
    <3>1. h1[m] = h[m]
      BY <2>1, <2>4, <1>12
    <3> QED BY <3>1, LikeSelf
  <2> QED BY <2>2, <2>3, <2>4
<1>18. AllLike(h[App], h1[App])
  BY <1>1, <1>11, <1>17
<1>19. Len(h1[App]) = Len(h[App]) /\ \A l \in DOMAIN h1[App] : h1[App][l].key = NULL /\ h1[App][l].v.type # "junk"
  BY <1>18 DEF AllLike, Like, Good, Shape
<1>20. ASSUME NEW m \in Nodes, NEW l \in DOMAIN h1[m]
       PROVE  \/ Fits(h1, h1[m][l])
              \/ /\ Fits(h, h1[m][l])
                 /\ h1[m][l].v.at # NULL => AllLike(h[h1[m][l].v.at], h1[h1[m][l].v.at])
  <2>1. m \notin D
    BY <1>12, NoCells
  <2>2. Fits(h, h1[m][l]) /\ h1[m][l].v.at \in L \cup {NULL}
    <3>1. CASE m = b /\ l = k
      <4>1. h1[m][l] = Cell(key, q.v)
        BY <3>1, <1>12 DEF Changed
      <4> QED BY <4>1, <1>8 DEF Fits, Cell
    <3>2. CASE m = App /\ l = j
      <4>1. h1[m][l] = Cell(NULL, Plain)
        BY <3>2, <1>12 DEF Changed
      <4> QED BY <4>1, JunkFacts, BareFits DEF Cell, Bare
    <3>3. CASE ~(m = b /\ l = k) /\ ~(m = App /\ l = j)
      <4>1. l \in DOMAIN h[m] /\ h1[m][l] = h[m][l]
        BY <3>3, <2>1, <1>12 DEF Changed
      <4> QED BY <4>1, GoodFacts
    <3> QED BY <3>1, <3>2, <3>3
  <2>3. h1[m][l].v.at # NULL => h1[m][l].v.at \in L1
    <3>1. h1[m][l].v.at \in Blocks \cup {NULL}
      BY <1>1, CellOf
    <3>2. m \in L1 \cup {App}
      <4>1. h1[m] # <<>>
        BY NoCells
      <4>2. \A y \in Nodes \ (L1 \cup {App}) : h1[y] = <<>>
        BY <1>16, OwnedFacts
      <4> QED BY <4>1, <4>2
    <3> QED BY <3>1, <3>2, <1>16, OwnedFacts DEF Points
  <2>4. h1[m][l].v.at # NULL => h1[m][l].v.at \in Nodes /\ h1[m][l].v.at \notin D
    BY <2>2, <2>3, <1>1, <1>15
  <2> QED BY <2>2, <2>4, <1>17
<1> QED BY <1>15, <1>16, <1>19, <1>20, ShapeFrom

-----------------------------------------------------------------------------
(* The heaps the operations build.                                          *)

\* What json_free of the value at <<c, i>> frees.
Freed(h, c, i) == Close(Graph(h), {h[c][i].v.at} \ {NULL})

LEMMA FreedFacts ==
  ASSUME NEW h, NEW L, Owned(h, L), NEW c \in L \cup {App}, NEW i \in DOMAIN h[c]
  PROVE  c \notin Freed(h, c, i) /\ Freed(h, c, i) \subseteq L /\ Freed(h, c, i) \subseteq Nodes
<1>1. PICK X : X = {h[c][i].v.at} \ {NULL}
  OBVIOUS
<1>2. c \in Nodes /\ h \in Heaps /\ Forest(Graph(h), L) /\ L \subseteq Blocks
  BY OwnedFacts DEF Owned
<1>3. X \subseteq Graph(h)[c]
  <2>1. X \subseteq Blocks /\ \A b \in X : Points(h[c][i], b)
    BY <1>1, <1>2, CellOf DEF Points
  <2> QED BY <2>1, <1>2, GraphType
<1>4. c \notin Close(Graph(h), X) /\ Close(Graph(h), X) \subseteq L
  BY <1>2, <1>3, Acyclic, LiveClosed
<1> QED BY <1>1, <1>2, <1>4 DEF Freed, Nodes

LEMMA FreedNone ==
  ASSUME NEW h \in Heaps, NEW c, NEW i, h[c][i].v.at = NULL
  PROVE  Freed(h, c, i) = {} /\ Without(h, {}) = h
<1>1. {h[c][i].v.at} \ {NULL} = {}
  OBVIOUS
<1>2. Close(Graph(h), {}) = {}
  <2>1. Closed(Graph(h), {})
    BY DEF Closed
  <2>2. Close(Graph(h), {}) \subseteq {}
    BY <2>1, CloseLeast
  <2> QED BY <2>2
<1>3. Without(h, {}) = h
  BY DEF Without, Heaps
<1> QED BY <1>1, <1>2, <1>3 DEF Freed

LEMMA FreesIs ==
  ASSUME NEW h, NEW L, Good(h, L), NEW c \in L \cup {App}, NEW i \in DOMAIN h[c], NEW w \in Values
  PROVE  Frees(h, Put(Without(h, Freed(h, c, i)), <<c, i>>, w), c, i, Freed(h, c, i), w)
<1>1. PICK D : D = Freed(h, c, i)
  OBVIOUS
<1>2. h \in Heaps /\ c \in Nodes /\ c \notin D /\ D = Close(Graph(h), {h[c][i].v.at} \ {NULL})
  BY <1>1, GoodFacts, FreedFacts DEF Freed
<1>3. PICK g : g = Without(h, D)
  OBVIOUS
<1>4. g \in Heaps /\ \A n \in Nodes : g[n] = IF n \in D THEN <<>> ELSE h[n]
  BY <1>2, <1>3, WithoutIs
<1>5. g[c] = h[c] /\ i \in DOMAIN g[c]
  BY <1>2, <1>4
<1>6. PICK h1 : h1 = Put(g, <<c, i>>, w)
  OBVIOUS
<1>7. /\ h1 \in Heaps /\ \A n \in Nodes \ {c} : h1[n] = g[n]
      /\ Changed(g, h1, c, i, Cell(g[c][i].key, w))
  BY <1>2, <1>4, <1>5, <1>6, PutIs
<1>8. Changed(h, h1, c, i, Cell(h[c][i].key, w))
  BY <1>5, <1>7 DEF Changed
<1>9. /\ \A n \in Nodes : n \in D => h1[n] = <<>>
      /\ \A n \in Nodes : n \notin D /\ n # c => h1[n] = h[n]
  BY <1>2, <1>4, <1>7
<1>10. Frees(h, h1, c, i, D, w)
  BY <1>2, <1>7, <1>8, <1>9 DEF Frees
<1> QED BY <1>1, <1>3, <1>6, <1>10

LEMMA PutFree ==
  ASSUME NEW h, NEW L, Good(h, L), NEW c \in L \cup {App}, NEW i \in DOMAIN h[c],
         h[c][i].v.type # "junk", NEW w, Bare(w)
  PROVE  Good(Put(Without(h, Freed(h, c, i)), <<c, i>>, w), L \ Freed(h, c, i))
<1>1. w \in Values
  BY DEF Bare
<1> QED BY <1>1, FreesIs, GoodFree

\* What is freed is no longer pointed to, and nothing else changes.
LEMMA FreeMono ==
  ASSUME NEW h, NEW L, Good(h, L), NEW c \in L \cup {App}, NEW i \in DOMAIN h[c],
         NEW h1, NEW D, NEW w, Bare(w), Frees(h, h1, c, i, D, w), c \notin D,
         NEW Y, Y \subseteq Blocks
  PROVE  Close(Graph(h1), Y) \subseteq Close(Graph(h), Y)
<1>1. h1 \in Heaps /\ h \in Heaps /\ NULL \notin Blocks
  BY GoodFacts DEF Frees
<1>2. ASSUME NEW n \in Nodes, NEW x \in Graph(h1)[n]
      PROVE  x \in Graph(h)[n]
  <2>1. x \in Blocks
    BY GraphType DEF Graphs
  <2>2. PICK l \in DOMAIN h1[n] : Points(h1[n][l], x)
    BY <2>1, GraphType
  <2>3. n \notin D
    <3>1. h1[n] # <<>>
      BY NoCells
    <3> QED BY <3>1 DEF Frees
  <2>4. CASE n = c /\ l = i
    <3>1. h1[n][l] = Cell(h[c][i].key, w) /\ i \in DOMAIN h[c]
      BY <2>4 DEF Frees, Changed
    <3>2. Points(h[n][l], x)
      BY <3>1, <2>2, <2>4, <1>1, <2>1 DEF Points, Cell, Bare
    <3> QED BY <3>2, <2>1, <2>4, GraphType
  <2>5. CASE ~(n = c /\ l = i)
    <3>1. l \in DOMAIN h[n] /\ h1[n][l] = h[n][l]
      BY <2>3, <2>5 DEF Frees, Changed
    <3> QED BY <3>1, <2>1, <2>2, GraphType
  <2> QED BY <2>4, <2>5
<1>3. Graph(h) \in Graphs /\ Graph(h1) \in Graphs /\ Close(Graph(h), Y) \subseteq Nodes
  BY GraphType DEF Close, Nodes
<1> QED BY <1>2, <1>3, CloseMono

\* The value at <<c, i>> is freed and one with a new block b takes its place.
LEMMA PutBox ==
  ASSUME NEW h, NEW L, Good(h, L), NEW c \in L \cup {App}, NEW i \in DOMAIN h[c],
         h[c][i].v.type # "junk", NEW b \in Blocks \ (L \ Freed(h, c, i)),
         NEW s, NEW w, Unowning(s), Suits(w, b, s)
  PROVE  Good(Put([Without(h, Freed(h, c, i)) EXCEPT ![b] = s], <<c, i>>, w),
              (L \ Freed(h, c, i)) \cup {b})
<1>1. PICK D : D = Freed(h, c, i)
  OBVIOUS
<1>2. PICK g : g = Without(h, D)
  OBVIOUS
<1>3. /\ h \in Heaps /\ c \in Nodes /\ c \notin D /\ D \subseteq L /\ L \subseteq Blocks
      /\ b \in Nodes /\ b # c /\ w \in Values /\ s \in Seq(Cells) /\ App \notin Blocks
  <2>1. c \notin D /\ D \subseteq L
    BY <1>1, FreedFacts DEF Good
  <2>2. w \in Values /\ s \in Seq(Cells)
    BY DEF Suits, Unowning
  <2> QED BY <1>1, <2>1, <2>2, GoodFacts
<1>4. g \in Heaps /\ g[c] = h[c]
  BY <1>2, <1>3, WithoutIs
<1>5. PICK h0 : h0 = Put(g, <<c, i>>, Plain)
  OBVIOUS
<1>6. Good(h0, L \ D)
  <2>1. Bare(Plain)
    BY JunkFacts
  <2> QED BY <2>1, <1>1, <1>2, <1>5, PutFree
<1>7. /\ h0 \in Heaps /\ \A n \in Nodes \ {c} : h0[n] = g[n]
      /\ Changed(g, h0, c, i, Cell(g[c][i].key, Plain))
  BY <1>3, <1>4, <1>5, JunkFacts, PutIs
<1>8. PICK g1 : g1 = [g EXCEPT ![b] = s]
  OBVIOUS
<1>9. g1 \in Heaps /\ g1[b] = s /\ \A n \in Nodes \ {b} : g1[n] = g[n]
  BY <1>3, <1>4, <1>8 DEF Heaps
<1>10. PICK h1 : h1 = Put(g1, <<c, i>>, w)
  OBVIOUS
<1>11. /\ h1 \in Heaps /\ \A n \in Nodes \ {c} : h1[n] = g1[n]
       /\ Changed(g1, h1, c, i, Cell(g1[c][i].key, w))
  <2>1. i \in DOMAIN g1[c]
    BY <1>3, <1>4, <1>9
  <2> QED BY <2>1, <1>3, <1>9, <1>10, PutIs
<1>12. Changed(h0, h1, c, i, Cell(h0[c][i].key, w))
  <2>1. g1[c] = g[c] /\ h0[c][i].key = g[c][i].key
    BY <1>3, <1>7, <1>9 DEF Changed, Cell
  <2> QED BY <2>1, <1>7, <1>11 DEF Changed
<1>13. Boxes(h0, h1, c, i, b, s, w)
  BY <1>3, <1>7, <1>9, <1>11, <1>12 DEF Boxes
<1>14. /\ c \in (L \ D) \cup {App} /\ i \in DOMAIN h0[c] /\ b \in Blocks \ (L \ D)
       /\ h0[c][i].v = Plain
  BY <1>1, <1>3, <1>4, <1>7 DEF Changed, Cell
<1>15. h0[c][i].v.type # "junk" /\ h0[c][i].v.at = NULL
  BY <1>14 DEF Plain, Value
<1>16. Good(h1, (L \ D) \cup {b})
  BY <1>6, <1>13, <1>14, <1>15, GoodBox
<1> QED BY <1>1, <1>2, <1>8, <1>10, <1>16

-----------------------------------------------------------------------------
(* The steps.                                                               *)

\* What a step makes of the heap and of what is allocated is good.
LEMMA Keeps ==
  ASSUME TreeInv, NEW h, NEW L, heap' = h, live' = L, Good(h, L),
         fault' \in {"none", "outside", "assert"}
  PROVE  TreeInv'
BY DEF TreeInv

LEMMA PlaceIs ==
  ASSUME TreeInv, NEW p \in Places
  PROVE  \E c \in live \cup {App} : \E i \in DOMAIN heap[c] :
           p = <<c, i>> /\ At(p) = heap[c][i].v /\ heap[c][i].v.type # "junk"
<1>1. PICK c \in {App} \cup live : p \in {c} \X DOMAIN heap[c] /\ At(p).type # "junk"
  BY Zenon DEF Places
<1>2. PICK i \in DOMAIN heap[c] : p = <<c, i>>
  BY <1>1
<1>3. At(p) = heap[c][i].v
  BY <1>2 DEF At
<1> QED BY <1>1, <1>2, <1>3

LEMMA VariableIs ==
  ASSUME TreeInv, NEW q \in Variable
  PROVE  \E j \in DOMAIN heap[App] :
           /\ q = <<App, j>> /\ At(q) = heap[App][j].v
           /\ heap[App][j].v.type # "junk" /\ heap[App][j].key = NULL
<1>1. DOMAIN heap[App] = 1 .. Variables
  BY GoodFacts DEF TreeInv, Good, Shape
<1>2. PICK j \in DOMAIN heap[App] : q = <<App, j>>
  BY <1>1 DEF Variable
<1>3. At(q) = heap[App][j].v
  BY <1>2 DEF At
<1> QED BY <1>2, <1>3 DEF TreeInv, Good, Shape

LEMMA DeadIs ==
  ASSUME TreeInv, NEW c, NEW i
  PROVE  /\ Reach(heap[c][i].v) = Freed(heap, c, i)
         /\ Dead(heap[c][i].v) = Freed(heap, c, i)
<1>1. heap \in Heaps
  BY GoodFacts DEF TreeInv
<1> QED BY <1>1, ReachIs DEF Freed, Dead

LEMMA PlainStep ==
  ASSUME TreeInv, NEW p \in Places, NEW w, Bare(w),
         heap' = Put(Without(heap, Dead(At(p))), p, w), live' = live \ Dead(At(p)), UNCHANGED fault
  PROVE  TreeInv'
<1>1. PICK c \in live \cup {App} : \E i \in DOMAIN heap[c] :
         p = <<c, i>> /\ At(p) = heap[c][i].v /\ heap[c][i].v.type # "junk"
  BY PlaceIs
<1>2. PICK i \in DOMAIN heap[c] :
         p = <<c, i>> /\ At(p) = heap[c][i].v /\ heap[c][i].v.type # "junk"
  BY <1>1
<1>3. Dead(At(p)) = Freed(heap, c, i)
  BY <1>2, DeadIs
<1>4. Good(Put(Without(heap, Freed(heap, c, i)), <<c, i>>, w), live \ Freed(heap, c, i))
  BY <1>2, PutFree DEF TreeInv
<1>5. /\ heap' = Put(Without(heap, Freed(heap, c, i)), <<c, i>>, w)
      /\ live' = live \ Freed(heap, c, i)
  BY <1>2, <1>3
<1>6. fault' \in {"none", "outside", "assert"}
  BY DEF TreeInv
<1> QED BY <1>4, <1>5, <1>6, Keeps

LEMMA SetPlainStep ==
  ASSUME TreeInv, NEW p \in Places, SetPlain(p)
  PROVE  TreeInv'
BY PlainStep, JunkFacts DEF SetPlain

\* A block b of cells that own nothing, and a value with it.
LEMMA BlockStep ==
  ASSUME TreeInv, NEW p \in Places, NEW b \in Blocks \ (live \ Dead(At(p))),
         NEW s, NEW w, Unowning(s), Suits(w, b, s),
         heap' = Put([Without(heap, Dead(At(p))) EXCEPT ![b] = s], p, w),
         live' = (live \ Dead(At(p))) \cup {b}, UNCHANGED fault
  PROVE  TreeInv'
<1>1. PICK c \in live \cup {App} : \E i \in DOMAIN heap[c] :
         p = <<c, i>> /\ At(p) = heap[c][i].v /\ heap[c][i].v.type # "junk"
  BY PlaceIs
<1>2. PICK i \in DOMAIN heap[c] :
         p = <<c, i>> /\ At(p) = heap[c][i].v /\ heap[c][i].v.type # "junk"
  BY <1>1
<1>3. Dead(At(p)) = Freed(heap, c, i)
  BY <1>2, DeadIs
<1>4. b \in Blocks \ (live \ Freed(heap, c, i))
  BY <1>3
<1>5. Good(Put([Without(heap, Freed(heap, c, i)) EXCEPT ![b] = s], <<c, i>>, w),
           (live \ Freed(heap, c, i)) \cup {b})
  BY <1>2, <1>4, PutBox DEF TreeInv
<1>6. /\ heap' = Put([Without(heap, Freed(heap, c, i)) EXCEPT ![b] = s], <<c, i>>, w)
      /\ live' = (live \ Freed(heap, c, i)) \cup {b}
  BY <1>2, <1>3
<1>7. fault' \in {"none", "outside", "assert"}
  BY DEF TreeInv
<1> QED BY <1>5, <1>6, <1>7, Keeps

LEMMA JunksFacts ==
  ASSUME NEW n \in Nat
  PROVE  /\ Unowning(Junks(n)) /\ Len(Junks(n)) = n /\ DOMAIN Junks(n) = 1 .. n
         /\ \A j \in 1 .. n : Junks(n)[j] = Junk
<1>1. Junks(n) \in Seq(Cells) /\ Len(Junks(n)) = n /\ DOMAIN Junks(n) = 1 .. n
      /\ \A j \in 1 .. n : Junks(n)[j] = Junk
  BY JunkFacts DEF Junks
<1> QED BY <1>1 DEF Unowning

LEMMA SetBlockStep ==
  ASSUME TreeInv, NEW p \in Places, NEW t, NEW n \in Nat, SetBlock(p, t, n),
         t \in {"array", "object"} \/ t = "string"
  PROVE  TreeInv'
<1>1. PICK b \in Blocks \ (live \ Dead(At(p))) :
        /\ heap' = Put([Without(heap, Dead(At(p))) EXCEPT ![b] = Junks(n)], p, Value(t, b, 0, n, FALSE))
        /\ live' = (live \ Dead(At(p))) \cup {b}
        /\ UNCHANGED fault
  BY DEF SetBlock
<1>2. PICK w : w = Value(t, b, 0, n, FALSE)
  OBVIOUS
<1>3. /\ w \in Values /\ w.at = b /\ w.type = t /\ w.size = 0 /\ w.capacity = n /\ ~w.raw
  BY <1>2 DEF Value, Values, Types
<1>4. Filled(w, Junks(n))
  BY <1>3, JunksFacts, JunkFacts DEF Filled
<1>5. Suits(w, b, Junks(n))
  BY <1>3, <1>4 DEF Suits
<1>6. Unowning(Junks(n))
  BY JunksFacts
<1> QED BY <1>1, <1>2, <1>5, <1>6, BlockStep

LEMMA SetStringStep ==
  ASSUME TreeInv, NEW p \in Places, json_set_string(p)
  PROVE  TreeInv'
BY SetBlockStep DEF json_set_string

LEMMA SetContainerStep ==
  ASSUME TreeInv, NEW p \in Places, NEW t \in {"array", "object"}, NEW n \in Nat,
         json_set_container(p, t, n)
  PROVE  TreeInv'
<1>1. CASE n > 0
  BY <1>1, SetBlockStep DEF json_set_container
<1>2. CASE ~(n > 0)
  <2>1. Bare(Value(t, NULL, 0, 0, FALSE))
    BY DEF Bare, Value, Values, Types
  <2> QED BY <1>2, <2>1, PlainStep DEF json_set_container
<1> QED BY <1>1, <1>2

LEMMA SetStep ==
  ASSUME TreeInv, AppSet
  PROVE  TreeInv'
<1>1. PICK p \in Places :
       \/ SetPlain(p) \/ json_set_string(p)
       \/ \E t \in {"array", "object"}, n \in Capacities : json_set_container(p, t, n)
  BY DEF AppSet
<1>2. CASE SetPlain(p)
  BY <1>2, SetPlainStep
<1>3. CASE json_set_string(p)
  BY <1>3, SetStringStep
<1>4. CASE \E t \in {"array", "object"}, n \in Capacities : json_set_container(p, t, n)
  <2>1. PICK t \in {"array", "object"}, n \in Capacities : json_set_container(p, t, n)
    BY <1>4
  <2>2. n \in Nat
    BY JsonTreeAssumption
  <2> QED BY <2>1, <2>2, SetContainerStep
<1> QED BY <1>1, <1>2, <1>3, <1>4

LEMMA CopyStep ==
  ASSUME TreeInv, AppCopy
  PROVE  TreeInv'
<1>1. PICK p \in Places, q \in Places :
        CASE At(q).type = "string" -> json_set_string(p)
          [] At(q).type = "plain" -> SetPlain(p)
          [] OTHER -> UNCHANGED vars
  BY DEF AppCopy
<1>2. CASE At(q).type = "string"
  BY <1>1, <1>2, SetStringStep
<1>3. CASE At(q).type = "plain"
  BY <1>1, <1>3, SetPlainStep
<1>4. CASE At(q).type # "string" /\ At(q).type # "plain"
  <2>1. UNCHANGED vars
    BY <1>1, <1>4
  <2> QED BY <2>1, Keeps DEF vars, TreeInv
<1> QED BY <1>2, <1>3, <1>4

LEMMA ObjectClearStep ==
  ASSUME TreeInv, AppObjectClear
  PROVE  TreeInv'
BY Keeps DEF AppObjectClear, TreeInv

\* Two cells get new values.
TwoPut(h, h1, c, i, v, d, j, w) ==
  /\ h1 \in Heaps
  /\ \A n \in Nodes : DOMAIN h1[n] = DOMAIN h[n] /\ Len(h1[n]) = Len(h[n])
  /\ h1[c][i] = Cell(h[c][i].key, v)
  /\ h1[d][j] = Cell(h[d][j].key, w)
  /\ \A n \in Nodes : \A k \in DOMAIN h[n] :
       (n # c \/ k # i) /\ (n # d \/ k # j) => h1[n][k] = h[n][k]

LEMMA TwoPutIs ==
  ASSUME NEW h \in Heaps, NEW c \in Nodes, NEW i \in DOMAIN h[c], NEW d \in Nodes, NEW j \in DOMAIN h[d],
         c # d \/ i # j, NEW v \in Values, NEW w \in Values
  PROVE  TwoPut(h, Put(Put(h, <<c, i>>, v), <<d, j>>, w), c, i, v, d, j, w)
<1>1. PICK g : g = Put(h, <<c, i>>, v)
  OBVIOUS
<1>2. /\ g \in Heaps /\ \A n \in Nodes \ {c} : g[n] = h[n]
      /\ Changed(h, g, c, i, Cell(h[c][i].key, v))
  BY <1>1, PutIs
<1>3. \A n \in Nodes : DOMAIN g[n] = DOMAIN h[n] /\ Len(g[n]) = Len(h[n])
  BY <1>2 DEF Changed
<1>4. PICK h1 : h1 = Put(g, <<d, j>>, w)
  OBVIOUS
<1>5. /\ h1 \in Heaps /\ \A n \in Nodes \ {d} : h1[n] = g[n]
      /\ Changed(g, h1, d, j, Cell(g[d][j].key, w))
  BY <1>2, <1>3, <1>4, PutIs
<1>6. \A n \in Nodes : DOMAIN h1[n] = DOMAIN h[n] /\ Len(h1[n]) = Len(h[n])
  BY <1>3, <1>5 DEF Changed
<1>7. g[d][j] = h[d][j] /\ g[c][i] = Cell(h[c][i].key, v)
  BY <1>2 DEF Changed
<1>8. h1[d][j] = Cell(h[d][j].key, w)
  BY <1>5, <1>7 DEF Changed
<1>9. h1[c][i] = g[c][i]
  BY <1>2, <1>5 DEF Changed
<1>10. ASSUME NEW n \in Nodes, NEW k \in DOMAIN h[n], n # c \/ k # i, n # d \/ k # j
       PROVE  h1[n][k] = h[n][k]
  <2>1. h1[n][k] = g[n][k]
    BY <1>3, <1>5, <1>10 DEF Changed
  <2>2. g[n][k] = h[n][k]
    BY <1>2, <1>10 DEF Changed
  <2> QED BY <2>1, <2>2
<1>11. TwoPut(h, h1, c, i, v, d, j, w)
  BY <1>5, <1>6, <1>7, <1>8, <1>9, <1>10 DEF TwoPut
<1> QED BY <1>1, <1>4, <1>11

LEMMA PutSwap ==
  ASSUME NEW h, NEW L, Good(h, L), NEW c \in L \cup {App}, NEW i \in DOMAIN h[c],
         NEW d \in L \cup {App}, NEW j \in DOMAIN h[d],
         h[c][i].v.type # "junk", h[d][j].v.type # "junk", c # d \/ i # j,
         d \notin Freed(h, c, i), c \notin Freed(h, d, j)
  PROVE  Good(Put(Put(h, <<c, i>>, h[d][j].v), <<d, j>>, h[c][i].v), L)
<1>1. /\ h \in Heaps /\ c \in Nodes /\ d \in Nodes
      /\ h[c][i].v \in Values /\ h[d][j].v \in Values
  BY GoodFacts
<1>2. PICK h1 : h1 = Put(Put(h, <<c, i>>, h[d][j].v), <<d, j>>, h[c][i].v)
  OBVIOUS
<1>3. TwoPut(h, h1, c, i, h[d][j].v, d, j, h[c][i].v)
  BY <1>1, <1>2, TwoPutIs
<1>4. Swapped(h, h1, c, i, d, j)
  BY <1>3 DEF TwoPut, Swapped
<1>5. Good(h1, L)
  BY <1>4, GoodSwap DEF Freed
<1> QED BY <1>2, <1>5

LEMMA PutMove ==
  ASSUME NEW h, NEW L, Good(h, L), NEW c \in L \cup {App}, NEW i \in DOMAIN h[c],
         NEW d \in L \cup {App}, NEW j \in DOMAIN h[d],
         h[c][i].v.type # "junk", h[d][j].v.type # "junk", c # d \/ i # j,
         d \notin Freed(h, c, i), c \notin Freed(h, d, j)
  PROVE  Good(Put(Put(Without(h, Freed(h, c, i)), <<c, i>>, h[d][j].v), <<d, j>>, Plain),
              L \ Freed(h, c, i))
<1>1. PICK D : D = Freed(h, c, i)
  OBVIOUS
<1>2. /\ h \in Heaps /\ c \in Nodes /\ d \in Nodes /\ c \notin D /\ d \notin D
      /\ h[c][i].v \in Values /\ h[d][j].v \in Values /\ L \subseteq Blocks
      /\ h[d][j].v.at \in L \cup {NULL}
  <2>1. c \notin D
    BY <1>1, FreedFacts DEF Good
  <2> QED BY <1>1, <2>1, GoodFacts
<1>3. PICK g : g = Without(h, D)
  OBVIOUS
<1>4. g \in Heaps /\ g[c] = h[c] /\ g[d] = h[d]
  BY <1>2, <1>3, WithoutIs
<1>5. PICK v : v = h[d][j].v
  OBVIOUS
<1>6. PICK h0 : h0 = Put(g, <<c, i>>, Plain)
  OBVIOUS
<1>7. /\ h0 \in Heaps /\ \A n \in Nodes \ {c} : h0[n] = g[n]
      /\ Changed(g, h0, c, i, Cell(g[c][i].key, Plain))
  BY <1>2, <1>4, <1>6, JunkFacts, PutIs
<1>8. Good(h0, L \ D) /\ Frees(h, h0, c, i, D, Plain)
  BY <1>1, <1>3, <1>6, JunkFacts, PutFree, FreesIs
<1>9. PICK h1 : h1 = Put(Put(g, <<c, i>>, v), <<d, j>>, Plain)
  OBVIOUS
<1>10. TwoPut(g, h1, c, i, v, d, j, Plain)
  BY <1>2, <1>4, <1>5, <1>9, JunkFacts, TwoPutIs
<1>11. /\ h0[d][j] = h[d][j] /\ h0[c][i] = Cell(g[c][i].key, Plain)
       /\ i \in DOMAIN h0[c] /\ j \in DOMAIN h0[d]
       /\ \A n \in Nodes : DOMAIN h0[n] = DOMAIN g[n] /\ Len(h0[n]) = Len(g[n])
       /\ \A n \in Nodes : \A k \in DOMAIN g[n] : n # c \/ k # i => h0[n][k] = g[n][k]
  BY <1>2, <1>4, <1>7 DEF Changed
<1>12. /\ h0[c][i].key = g[c][i].key /\ h0[c][i].v = Plain
       /\ h0[d][j].key = g[d][j].key /\ h0[d][j].v = v
  BY <1>4, <1>5, <1>11 DEF Cell
<1>13. Swapped(h0, h1, c, i, d, j)
  BY <1>10, <1>11, <1>12 DEF TwoPut, Swapped
<1>14. /\ c \in (L \ D) \cup {App} /\ d \in (L \ D) \cup {App}
       /\ h0[c][i].v.type # "junk" /\ h0[d][j].v.type # "junk" /\ h0[c][i].v.at = NULL
  BY <1>2, <1>5, <1>12 DEF Plain, Value
<1>15. d \notin Close(Graph(h0), {h0[c][i].v.at} \ {NULL})
  <2>1. Freed(h0, c, i) = {}
    BY <1>7, <1>14, FreedNone
  <2> QED BY <2>1 DEF Freed
<1>16. c \notin Close(Graph(h0), {h0[d][j].v.at} \ {NULL})
  <2>1. PICK Y : Y = {h[d][j].v.at} \ {NULL}
    OBVIOUS
  <2>2. Y \subseteq Blocks
    BY <2>1, <1>2
  <2>3. Close(Graph(h0), Y) \subseteq Close(Graph(h), Y)
    BY <2>2, <1>2, <1>8, JunkFacts, FreeMono
  <2>4. c \notin Close(Graph(h), Y)
    BY <2>1 DEF Freed
  <2> QED BY <2>1, <2>3, <2>4, <1>11
<1>17. Good(h1, L \ D)
  BY <1>8, <1>11, <1>13, <1>14, <1>15, <1>16, GoodSwap
<1> QED BY <1>1, <1>3, <1>5, <1>9, <1>17

LEMMA MoveStep ==
  ASSUME TreeInv, AppMove
  PROVE  TreeInv'
<1>1. PICK p \in Places, q \in Places :
        /\ ~PartOf(p, q) /\ ~PartOf(q, p)
        /\ \/ Move(p, q)
           \/ heap' = Put(Put(heap, p, At(q)), q, At(p)) /\ UNCHANGED <<live, fault>>
  BY DEF AppMove
<1>2. PICK c \in live \cup {App} : \E i \in DOMAIN heap[c] :
         p = <<c, i>> /\ At(p) = heap[c][i].v /\ heap[c][i].v.type # "junk"
  BY PlaceIs
<1>3. PICK i \in DOMAIN heap[c] :
         p = <<c, i>> /\ At(p) = heap[c][i].v /\ heap[c][i].v.type # "junk"
  BY <1>2
<1>4. PICK d \in live \cup {App} : \E j \in DOMAIN heap[d] :
         q = <<d, j>> /\ At(q) = heap[d][j].v /\ heap[d][j].v.type # "junk"
  BY PlaceIs
<1>5. PICK j \in DOMAIN heap[d] :
         q = <<d, j>> /\ At(q) = heap[d][j].v /\ heap[d][j].v.type # "junk"
  BY <1>4
<1>6. c # d \/ i # j
  BY <1>1, <1>3, <1>5 DEF PartOf
<1>7. c \notin Freed(heap, d, j) /\ d \notin Freed(heap, c, i)
  <2>1. c \notin Reach(At(q)) /\ d \notin Reach(At(p))
    BY <1>1, <1>3, <1>5 DEF PartOf
  <2> QED BY <2>1, <1>3, <1>5, DeadIs
<1>8. fault \in {"none", "outside", "assert"} /\ Good(heap, live)
  BY DEF TreeInv
<1>9. CASE Move(p, q)
  <2>1. /\ heap' = Put(Put(Without(heap, Freed(heap, c, i)), <<c, i>>, heap[d][j].v), <<d, j>>, Plain)
        /\ live' = live \ Freed(heap, c, i) /\ UNCHANGED fault
    <3>1. Dead(At(p)) = Freed(heap, c, i)
      BY <1>3, DeadIs
    <3> QED BY <3>1, <1>3, <1>5, <1>9 DEF Move
  <2>2. Good(Put(Put(Without(heap, Freed(heap, c, i)), <<c, i>>, heap[d][j].v), <<d, j>>, Plain),
             live \ Freed(heap, c, i))
    BY <1>3, <1>5, <1>6, <1>7, <1>8, PutMove
  <2> QED BY <2>1, <2>2, <1>8, Keeps
<1>10. CASE heap' = Put(Put(heap, p, At(q)), q, At(p)) /\ UNCHANGED <<live, fault>>
  <2>1. /\ heap' = Put(Put(heap, <<c, i>>, heap[d][j].v), <<d, j>>, heap[c][i].v)
        /\ live' = live /\ UNCHANGED fault
    BY <1>3, <1>5, <1>10
  <2>2. Good(Put(Put(heap, <<c, i>>, heap[d][j].v), <<d, j>>, heap[c][i].v), live)
    BY <1>3, <1>5, <1>6, <1>7, <1>8, PutSwap
  <2> QED BY <2>1, <2>2, <1>8, Keeps
<1> QED BY <1>1, <1>9, <1>10

LEMMA DecodeStep ==
  ASSUME TreeInv, AppDecode
  PROVE  TreeInv'
<1>1. PICK p \in Variable, t \in {"array", "object"}, n \in Decoded, m \in Garbage :
       /\ At(p).at = NULL /\ (n > 0 => t = "array")
       /\ IF n = 0
            THEN heap' = Put(heap, p, Value(t, NULL, 0, m, TRUE)) /\ UNCHANGED live
            ELSE \E b \in Blocks \ live :
                   /\ heap' = Put([heap EXCEPT ![b] = [i \in 1..n |-> Cell(NULL, Plain)]],
                                  p, Value(t, b, n, m, TRUE))
                   /\ live' = live \cup {b}
       /\ UNCHANGED fault
  BY DEF AppDecode
<1>2. n \in Nat /\ m \in Nat
  BY JsonTreeAssumption
<1>3. PICK j \in DOMAIN heap[App] : p = <<App, j>> /\ At(p) = heap[App][j].v
                                    /\ heap[App][j].v.type # "junk"
  BY VariableIs
<1>4. p \in Places
  <2>1. p \in {App} \X DOMAIN heap[App] /\ At(p).type # "junk"
    BY <1>3
  <2> QED BY <2>1, Zenon DEF Places
<1>5. Dead(At(p)) = {} /\ Without(heap, {}) = heap
  <2>1. heap \in Heaps
    BY GoodFacts DEF TreeInv
  <2> QED BY <2>1, <1>1, <1>3, DeadIs, FreedNone
<1>6. Without(heap, Dead(At(p))) = heap /\ live \ Dead(At(p)) = live
  BY <1>5
<1>7. CASE n = 0
  <2>1. Bare(Value(t, NULL, 0, m, TRUE))
    BY <1>2 DEF Bare, Value, Values, Types
  <2>2. /\ heap' = Put(Without(heap, Dead(At(p))), p, Value(t, NULL, 0, m, TRUE))
        /\ live' = live \ Dead(At(p)) /\ UNCHANGED fault
    BY <1>1, <1>6, <1>7
  <2> QED BY <2>1, <2>2, <1>4, PlainStep
<1>8. CASE n # 0
  <2>1. PICK s : s = [i \in 1..n |-> Cell(NULL, Plain)]
    OBVIOUS
  <2>2. PICK b \in Blocks \ live :
          /\ heap' = Put([heap EXCEPT ![b] = s], p, Value(t, b, n, m, TRUE))
          /\ live' = live \cup {b}
    BY <1>1, <1>8, <2>1
  <2>3. PICK w : w = Value(t, b, n, m, TRUE)
    OBVIOUS
  <2>4. w \in Values /\ w.at = b /\ w.type = "array" /\ w.size = n /\ w.raw
    BY <1>1, <1>2, <1>8, <2>3 DEF Value, Values, Types
  <2>5. /\ s \in Seq(Cells) /\ Len(s) = n /\ DOMAIN s = 1 .. n
        /\ \A i \in 1 .. n : s[i] = Cell(NULL, Plain)
    BY <1>2, <2>1, JunkFacts
  <2>6. Unowning(s)
    BY <2>5 DEF Unowning
  <2>7. Filled(w, s)
    BY <1>2, <2>4, <2>5 DEF Filled, Cell, Plain, Value
  <2>8. Suits(w, b, s)
    BY <2>4, <2>7 DEF Suits, IsContainer
  <2>9. /\ heap' = Put([Without(heap, Dead(At(p))) EXCEPT ![b] = s], p, w)
        /\ live' = (live \ Dead(At(p))) \cup {b} /\ UNCHANGED fault
        /\ b \in Blocks \ (live \ Dead(At(p)))
    BY <1>1, <1>6, <2>2, <2>3
  <2> QED BY <2>6, <2>8, <2>9, <1>4, BlockStep
<1> QED BY <1>7, <1>8

\* The container at a place, and its block.
LEMMA MemoryFacts ==
  ASSUME TreeInv, NEW c \in live \cup {App}, NEW i \in DOMAIN heap[c], IsContainer(heap[c][i].v)
  PROVE  /\ Memory(heap[c][i].v) = Content(heap, heap[c][i].v)
         /\ heap[c][i].v \in Values
         /\ heap[c][i].v.size \in Nat /\ heap[c][i].v.capacity \in Nat
         /\ Filled(heap[c][i].v, Memory(heap[c][i].v))
         /\ heap[c][i].v.at \in Blocks \cup {NULL}
         /\ heap[c][i].v.size > 0 => heap[c][i].v.at \in Blocks
<1>1. c \in Nodes /\ heap[c][i].v \in Values /\ Fits(heap, heap[c][i])
  BY GoodFacts DEF TreeInv
<1>2. Memory(heap[c][i].v) = Content(heap, heap[c][i].v)
  BY DEF Memory, Content
<1>3. Filled(heap[c][i].v, Memory(heap[c][i].v))
  BY <1>1, <1>2 DEF Fits
<1>4. heap[c][i].v.size \in Nat /\ heap[c][i].v.capacity \in Nat /\ heap[c][i].v.at \in Blocks \cup {NULL}
  BY <1>1 DEF Values
<1>5. ASSUME heap[c][i].v.at = NULL, heap[c][i].v.size > 0 PROVE FALSE
  <2>1. Memory(heap[c][i].v) = <<>> /\ Len(<<>>) = 0
    BY <1>5 DEF Memory
  <2>2. heap[c][i].v.size <= 0
    BY <2>1, <1>3 DEF Filled
  <2> QED BY <2>2, <1>4, <1>5
<1> QED BY <1>1, <1>2, <1>3, <1>4, <1>5

LEMMA ClearStep ==
  ASSUME TreeInv, AppClear
  PROVE  TreeInv'
<1>1. PICK p \in Places : Clear(p)
  BY DEF AppClear
<1>2. PICK c \in live \cup {App} : \E i \in DOMAIN heap[c] :
         p = <<c, i>> /\ At(p) = heap[c][i].v /\ heap[c][i].v.type # "junk"
  BY PlaceIs
<1>3. PICK i \in DOMAIN heap[c] :
         p = <<c, i>> /\ At(p) = heap[c][i].v /\ heap[c][i].v.type # "junk"
  BY <1>2
<1>4. PICK v : v = At(p)
  OBVIOUS
<1>5. v.type = "array" /\ IsContainer(heap[c][i].v) /\ v = heap[c][i].v
  BY <1>1, <1>3, <1>4 DEF Clear, IsContainer
<1>6. CASE v.size = 0
  <2>1. UNCHANGED vars
    BY <1>1, <1>4, <1>6 DEF Clear
  <2> QED BY <2>1, Keeps DEF vars, TreeInv
<1>7. CASE v.size # 0
  <2>1. /\ v \in Values /\ v.size \in Nat /\ v.capacity \in Nat /\ v.at \in Blocks
        /\ Filled(v, Memory(v)) /\ v.at # NULL
    <3>1. v.size \in Nat
      BY <1>5, MemoryFacts
    <3>2. v.size > 0
      BY <3>1, <1>7
    <3> QED BY <3>2, <1>5, MemoryFacts, JsonTreeAssumption
  <2>2. PICK b : b = v.at
    OBVIOUS
  <2>3. PICK dead : dead = Dead(v)
    OBVIOUS
  <2>4. PICK w0 : w0 = [v EXCEPT !.size = 0]
    OBVIOUS
  <2>5. /\ w0.type = "array" /\ w0.at = b /\ w0.size = 0 /\ w0.capacity = v.capacity
        /\ w0.raw = v.raw /\ w0 \in Values
    BY <1>5, <2>1, <2>2, <2>4 DEF Values
  <2>6. PICK m : m = IF Resizes(w0) THEN Capacity(w0) ELSE Len(heap[b])
    OBVIOUS
  <2>7. Capacity(w0) \in Nat /\ (~Resizes(w0) => Capacity(w0) = v.capacity)
    <3>1. Greater(Min, (w0.size * 3) \div 2) \in Nat /\ Greater(Min, w0.size \div 2) \in Nat
      <4>1. (w0.size * 3) \div 2 = 0 /\ w0.size \div 2 = 0
        BY <2>5
      <4> QED BY <4>1, JsonTreeAssumption DEF Greater
    <3>2. w0.capacity \in Nat
      BY <2>1, <2>5
    <3> QED BY <3>1, <3>2, <2>5 DEF Capacity, Resizes
  <2>8. /\ b \in Nodes /\ heap \in Heaps /\ heap[b] \in Seq(Cells) /\ Len(heap[b]) \in Nat
        /\ Memory(v) = heap[b]
    <3>1. b \in Nodes /\ heap \in Heaps
      BY <2>1, <2>2, GoodFacts DEF TreeInv
    <3> QED BY <3>1, <2>1, <2>2 DEF Heaps, Memory
  <2>9. m \in Nat
    BY <2>6, <2>7, <2>8
  <2>10. PICK w : w = Grown(w0, b, 0)
    OBVIOUS
  <2>11. /\ w \in Values /\ w.type = "array" /\ w.at = b /\ w.size = 0 /\ w.capacity = Capacity(w0)
         /\ w.raw = (w0.raw /\ ~Resizes(w0))
    <3>1. w.type = w0.type /\ w.at = b /\ w.size = 0 /\ w.capacity = Capacity(w0)
          /\ w.raw = (w0.raw /\ ~Resizes(w0))
      BY <2>5, <2>10 DEF Grown, Values
    <3>2. (w0.raw /\ ~Resizes(w0)) \in BOOLEAN
      BY <2>5 DEF Values
    <3>3. w \in Values
      BY <3>2, <2>1, <2>2, <2>5, <2>7, <2>10 DEF Grown, Values
    <3> QED BY <3>1, <3>3, <2>5
  <2>12. Suits(w, b, Junks(m))
    <3>1. ~w.raw => w.capacity = m
      <4>1. CASE Resizes(w0)
        BY <4>1, <2>6, <2>11
      <4>2. CASE ~Resizes(w0)
        <5>1. m = Len(heap[b]) /\ w.capacity = v.capacity /\ (~w.raw => ~v.raw)
          BY <4>2, <2>5, <2>6, <2>7, <2>11
        <5> QED BY <5>1, <2>1, <2>8 DEF Filled
      <4> QED BY <4>1, <4>2
    <3>2. Filled(w, Junks(m))
      <4>1. /\ Len(Junks(m)) = m /\ DOMAIN Junks(m) = 1 .. m
            /\ \A j \in 1 .. m : Junks(m)[j] = Junk
        BY <2>9, JunksFacts
      <4> QED BY <4>1, <3>1, <2>9, <2>11, JunkFacts DEF Filled
    <3> QED BY <3>2, <2>11 DEF Suits, IsContainer
  <2>13. b \in dead /\ b \in live /\ dead \subseteq live
    <3>1. dead = Freed(heap, c, i)
      BY <1>5, <2>3, DeadIs
    <3>2. dead \subseteq live
      BY <3>1, FreedFacts DEF TreeInv, Good
    <3>3. {v.at} \ {NULL} = {b}
      BY <2>1, <2>2
    <3>4. {b} \subseteq Close(Graph(heap), {b})
      BY <2>1, <2>2, GraphType, CloseClosed
    <3> QED BY <3>1, <3>2, <3>3, <3>4, <1>5 DEF Freed
  <2>14. /\ heap' = Put([Without(heap, dead \ {b}) EXCEPT
                               ![b] = Junks(IF Resizes(w0) THEN Capacity(w0) ELSE Len(@))],
                        p, w)
         /\ live' = live \ (dead \ {b})
         /\ UNCHANGED fault
    BY <1>1, <1>4, <1>7, <2>2, <2>3, <2>4, <2>10 DEF Clear
  <2>15. Without(heap, dead \ {b})[b] = heap[b]
    BY <2>8, WithoutIs
  <2>16. [Without(heap, dead \ {b}) EXCEPT ![b] = Junks(IF Resizes(w0) THEN Capacity(w0) ELSE Len(@))]
         = [Without(heap, dead) EXCEPT ![b] = Junks(m)]
    <3>1. Junks(IF Resizes(w0) THEN Capacity(w0) ELSE Len(Without(heap, dead \ {b})[b])) = Junks(m)
      BY <2>6, <2>15
    <3>2. PICK s : s = Junks(m)
      OBVIOUS
    <3>3. [Without(heap, dead \ {b}) EXCEPT ![b] = s] = [Without(heap, dead) EXCEPT ![b] = s]
      BY DEF Without
    <3> QED BY <3>1, <3>2, <3>3
  <2>17. /\ heap' = Put([Without(heap, Dead(At(p))) EXCEPT ![b] = Junks(m)], p, w)
         /\ live' = (live \ Dead(At(p))) \cup {b}
         /\ b \in Blocks \ (live \ Dead(At(p)))
    <3>1. live \ (dead \ {b}) = (live \ dead) \cup {b}
      BY <2>13
    <3> QED BY <3>1, <1>4, <2>1, <2>2, <2>3, <2>13, <2>14, <2>16
  <2>18. Unowning(Junks(m))
    BY <2>9, JunksFacts
  <2> QED BY <2>12, <2>14, <2>17, <2>18, BlockStep
<1> QED BY <1>6, <1>7

\* What json_free frees of the cell <<b, k>>: its value, its key and all below.
CellFreed(h, b, k) == Close(Graph(h), {h[b][k].key, h[b][k].v.at} \ {NULL})
Has(h, c, i, b) == h[c][i].v.at = b

LEMMA CellFreedFacts ==
  ASSUME NEW h, NEW L, Owned(h, L), NEW c \in L \cup {App}, NEW i \in DOMAIN h[c],
         NEW b \in Blocks, Has(h, c, i, b), NEW k \in DOMAIN h[b]
  PROVE  /\ Empties(h, b, k, CellFreed(h, b, k))
         /\ b \notin CellFreed(h, b, k) /\ c \notin CellFreed(h, b, k)
         /\ App \notin CellFreed(h, b, k) /\ CellFreed(h, b, k) \subseteq L
         /\ CellFreed(h, b, k) = Freed(h, b, k) \cup ({h[b][k].key} \ {NULL})
<1>1. PICK D : D = CellFreed(h, b, k)
  OBVIOUS
<1>2. Empties(h, b, k, D)
  BY <1>1 DEF Empties, CellFreed
<1>3. /\ b \in L /\ b \in Nodes /\ b \in Graph(h)[c] /\ h \in Heaps /\ L \subseteq Blocks
      /\ App \notin Blocks /\ NULL \notin Blocks
  BY OwnerFacts, OwnedFacts, JsonTreeAssumption DEF Has
<1>4. b \notin D /\ D \subseteq L
  BY <1>2, <1>3, OwnedEmpty
<1>5. /\ h[b][k].key \in Blocks \cup {NULL} /\ h[b][k].v.at \in Blocks \cup {NULL}
  BY <1>3, CellOf
<1>6. c \notin D
  <2>1. PICK X : X = {h[b][k].key, h[b][k].v.at} \ {NULL}
    OBVIOUS
  <2>2. X \subseteq Blocks
    BY <2>1, <1>5
  <2>3. Closed(Graph(h), Close(Graph(h), X))
    BY <2>2, GraphType, CloseClosed
  <2>4. Closed(Graph(h), D)
    BY <2>1, <2>3, <1>1 DEF CellFreed
  <2> QED BY <2>4, <1>3, <1>4 DEF Closed
<1>7. D = Freed(h, b, k) \cup ({h[b][k].key} \ {NULL})
  <2>1. PICK X : X = {h[b][k].v.at} \ {NULL}
    OBVIOUS
  <2>2. PICK key : key = h[b][k].key
    OBVIOUS
  <2>3. Freed(h, b, k) = Close(Graph(h), X) /\ D = Close(Graph(h), {key, h[b][k].v.at} \ {NULL})
    BY <2>1, <2>2, <1>1 DEF Freed, CellFreed
  <2>4. CASE key = NULL
    <3>1. {key, h[b][k].v.at} \ {NULL} = X /\ {key} \ {NULL} = {}
      BY <2>1, <2>4
    <3> QED BY <3>1, <2>2, <2>3
  <2>5. CASE key # NULL
    <3>1. {key, h[b][k].v.at} \ {NULL} = X \cup {key} /\ {key} \ {NULL} = {key}
      BY <2>1, <2>5
    <3>2. key \in Blocks /\ X \subseteq Blocks
      BY <2>1, <2>2, <2>5, <1>5
    <3>3. h[key] = <<>>
      BY <2>2, <2>5, <1>3 DEF Owned, Leaves
    <3>4. Close(Graph(h), X \cup {key}) = Close(Graph(h), X) \cup {key}
      BY <3>2, <3>3, CloseKey
    <3> QED BY <3>1, <3>4, <2>2, <2>3
  <2> QED BY <2>4, <2>5
<1> QED BY <1>1, <1>2, <1>3, <1>4, <1>6, <1>7

LEMMA ShiftedIs ==
  ASSUME NEW s \in Seq(Cells), NEW n \in Nat, n <= Len(s), NEW k \in 1 .. n
  PROVE  Shifted(s, k, n) \in Seq(Cells)
<1>1. Len(s) \in Nat /\ DOMAIN s = 1 .. Len(s)
  OBVIOUS
<1>2. \A j \in 1 .. Len(s) : s[j] \in Cells /\ (j \in k .. n - 1 => s[j + 1] \in Cells)
  <2>1. TAKE j \in 1 .. Len(s)
  <2>2. j \in k .. n - 1 => j + 1 \in 1 .. Len(s)
    BY <1>1
  <2> QED BY <2>2, <1>1
<1>3. Shifted(s, k, n) = [j \in 1 .. Len(s) |-> IF j = n THEN Junk ELSE IF j \in k .. n - 1 THEN s[j + 1] ELSE s[j]]
  BY <1>1 DEF Shifted
<1> QED BY <1>1, <1>2, <1>3, JunkFacts

LEMMA PutDel ==
  ASSUME NEW h, NEW L, Good(h, L), NEW c \in L \cup {App}, NEW i \in DOMAIN h[c],
         IsContainer(h[c][i].v), NEW b \in Blocks, h[c][i].v.at = b, NEW k \in 1 .. h[c][i].v.size
  PROVE  Good(Put(Without([h EXCEPT ![b] = Shifted(@, k, h[c][i].v.size)], CellFreed(h, b, k)),
                  <<c, i>>, [h[c][i].v EXCEPT !.size = @ - 1]),
              L \ CellFreed(h, b, k))
<1>1. PICK v : v = h[c][i].v
  OBVIOUS
<1>2. PICK n : n = v.size
  OBVIOUS
<1>3. PICK D : D = CellFreed(h, b, k)
  OBVIOUS
<1>4. /\ Owned(h, L) /\ h \in Heaps /\ c \in Nodes /\ b \in Nodes /\ b # c /\ v \in Values
      /\ App \in Nodes
  <2>1. b # c
    BY GoodFacts, OwnerFacts
  <2> QED BY <2>1, <1>1, GoodFacts
<1>5. /\ Filled(v, h[b]) /\ n \in Nat /\ n <= Len(h[b]) /\ Len(h[b]) \in Nat
      /\ DOMAIN h[b] = 1 .. Len(h[b]) /\ h[b] \in Seq(Cells)
  BY <1>1, <1>2, <1>4, ContainerFacts DEF Heaps
<1>6. k \in 1 .. n /\ k \in DOMAIN h[b]
  BY <1>1, <1>2, <1>5
<1>a. Has(h, c, i, b)
  BY DEF Has
<1>7. Empties(h, b, k, D) /\ b \notin D /\ c \notin D
  BY <1>3, <1>4, <1>6, <1>a, CellFreedFacts
<1>8. PICK s : s = Shifted(h[b], k, n)
  OBVIOUS
<1>9. s \in Seq(Cells)
  BY <1>5, <1>6, <1>8, ShiftedIs
<1>10. PICK g : g = [h EXCEPT ![b] = s]
  OBVIOUS
<1>11. g \in Heaps /\ g[b] = s /\ \A m \in Nodes \ {b} : g[m] = h[m]
  BY <1>4, <1>9, <1>10 DEF Heaps
<1>12. PICK g0 : g0 = Without(g, D)
  OBVIOUS
<1>13. g0 \in Heaps /\ \A m \in Nodes : g0[m] = IF m \in D THEN <<>> ELSE g[m]
  BY <1>11, <1>12, WithoutIs
<1>14. g0[c] = h[c] /\ g0[b] = s
  BY <1>4, <1>7, <1>11, <1>13
<1>15. PICK w : w = [v EXCEPT !.size = n - 1]
  OBVIOUS
<1>16. w \in Values
  BY <1>4, <1>5, <1>6, <1>15 DEF Values
<1>17. PICK h1 : h1 = Put(g0, <<c, i>>, w)
  OBVIOUS
<1>18. /\ h1 \in Heaps /\ \A m \in Nodes \ {c} : h1[m] = g0[m]
       /\ Changed(g0, h1, c, i, Cell(g0[c][i].key, w))
  BY <1>4, <1>13, <1>14, <1>16, <1>17, PutIs
<1>19. Changed(h, h1, c, i, Cell(h[c][i].key, w))
  BY <1>14, <1>18 DEF Changed
<1>20. /\ \A m \in Nodes : m \in D => h1[m] = <<>>
       /\ \A m \in Nodes : m \notin D /\ m # b /\ m # c => h1[m] = h[m]
       /\ h1[b] = s
  BY <1>4, <1>7, <1>11, <1>13, <1>14, <1>18
<1>21. Changed(h, h1, c, i, Cell(h[c][i].key, [h[c][i].v EXCEPT !.size = n - 1]))
  BY <1>1, <1>15, <1>19
<1>22. Deletes(h, h1, c, i, b, k, D, n)
  <2>1. h1[b] = Shifted(h[b], k, n) /\ n = h[c][i].v.size
    BY <1>1, <1>2, <1>8, <1>20
  <2> QED BY <2>1, <1>6, <1>18, <1>20, <1>21 DEF Deletes
<1>23. Good(h1, L \ D)
  BY <1>6, <1>7, <1>22, GoodDel
<1>24. h1 = Put(Without([h EXCEPT ![b] = Shifted(@, k, h[c][i].v.size)], CellFreed(h, b, k)),
                <<c, i>>, [h[c][i].v EXCEPT !.size = @ - 1])
  <2>1. [h EXCEPT ![b] = Shifted(@, k, h[c][i].v.size)] = g
    BY <1>1, <1>2, <1>8, <1>10
  <2>2. [h[c][i].v EXCEPT !.size = @ - 1] = w
    BY <1>1, <1>2, <1>15
  <2> QED BY <2>1, <2>2, <1>3, <1>12, <1>17
<1> QED BY <1>3, <1>23, <1>24

LEMMA DelStep ==
  ASSUME TreeInv, AppDel
  PROVE  TreeInv'
<1>1. PICK p \in Places : \E k \in 1 .. At(p).size : Del(p, k)
  BY DEF AppDel
<1>2. PICK k \in 1 .. At(p).size : Del(p, k)
  BY <1>1
<1>3. PICK c \in live \cup {App} : \E i \in DOMAIN heap[c] :
         p = <<c, i>> /\ At(p) = heap[c][i].v /\ heap[c][i].v.type # "junk"
  BY PlaceIs
<1>4. PICK i \in DOMAIN heap[c] :
         p = <<c, i>> /\ At(p) = heap[c][i].v /\ heap[c][i].v.type # "junk"
  BY <1>3
<1>5. IsContainer(heap[c][i].v)
  <2>1. Fits(heap, heap[c][i])
    BY GoodFacts DEF TreeInv
  <2>2. heap[c][i].v.size # 0
    BY <1>2, <1>4
  <2> QED BY <2>1, <2>2 DEF Fits
<1>6. k \in 1 .. heap[c][i].v.size /\ heap[c][i].v.at \in Blocks
  <2>1. heap[c][i].v.size \in Nat /\ k \in 1 .. heap[c][i].v.size
    BY <1>4, <1>5, MemoryFacts
  <2>2. heap[c][i].v.size > 0
    BY <2>1
  <2> QED BY <2>1, <2>2, <1>5, MemoryFacts
<1>7. PICK b \in Blocks : b = heap[c][i].v.at
  BY <1>6
<1>8. Memory(At(p)) = heap[b] /\ k \in DOMAIN heap[b]
  <2>1. Memory(At(p)) = heap[b]
    BY <1>4, <1>7, JsonTreeAssumption DEF Memory
  <2>2. /\ heap[c][i].v.size \in Nat /\ heap[c][i].v.size <= Len(heap[b]) /\ Len(heap[b]) \in Nat
        /\ DOMAIN heap[b] = 1 .. Len(heap[b])
    <3>1. Good(heap, live) /\ c \in Nodes
      BY GoodFacts DEF TreeInv
    <3> QED BY <3>1, <1>5, <1>7, ContainerFacts
  <2> QED BY <2>1, <2>2, <1>6
<1>9. Dead(heap[b][k].v) \cup ({heap[b][k].key} \ {NULL}) = CellFreed(heap, b, k)
  <2>1. Owned(heap, live) /\ Has(heap, c, i, b)
    BY <1>7 DEF TreeInv, Good, Has
  <2>2. CellFreed(heap, b, k) = Freed(heap, b, k) \cup ({heap[b][k].key} \ {NULL})
    BY <2>1, <1>8, CellFreedFacts
  <2>3. Dead(heap[b][k].v) = Freed(heap, b, k)
    BY DeadIs
  <2> QED BY <2>2, <2>3
<1>10. /\ heap' = Put(Without([heap EXCEPT ![b] = Shifted(@, k, heap[c][i].v.size)],
                              CellFreed(heap, b, k)),
                      <<c, i>>, [heap[c][i].v EXCEPT !.size = @ - 1])
       /\ live' = live \ CellFreed(heap, b, k)
       /\ UNCHANGED fault
  BY <1>2, <1>4, <1>7, <1>8, <1>9 DEF Del
<1>11. Good(Put(Without([heap EXCEPT ![b] = Shifted(@, k, heap[c][i].v.size)],
                        CellFreed(heap, b, k)),
                <<c, i>>, [heap[c][i].v EXCEPT !.size = @ - 1]),
            live \ CellFreed(heap, b, k))
  <2>1. heap[c][i].v.at = b /\ Good(heap, live)
    BY <1>7 DEF TreeInv
  <2> QED BY <2>1, <1>5, <1>6, PutDel
<1>12. fault' \in {"none", "outside", "assert"}
  BY <1>10 DEF TreeInv
<1> QED BY <1>10, <1>11, <1>12, Keeps

LEMMA PutReplace ==
  ASSUME NEW h, NEW L, Good(h, L), NEW c \in L \cup {App}, NEW i \in DOMAIN h[c],
         IsContainer(h[c][i].v), NEW b \in Blocks, h[c][i].v.at = b, NEW k \in 1 .. h[c][i].v.size,
         NEW j \in DOMAIN h[App], c # App \/ i # j, c \notin Freed(h, App, j),
         NEW key \in {NULL} \cup (Blocks \ L), key = NULL <=> h[c][i].v.type = "array"
  PROVE  Good(Put(Without([h EXCEPT ![b][k] = Cell(key, h[App][j].v)], CellFreed(h, b, k)),
                  <<App, j>>, Plain),
              (L \ CellFreed(h, b, k)) \cup ({key} \ {NULL}))
<1>1. PICK q : q = h[App][j].v
  OBVIOUS
<1>2. PICK D : D = CellFreed(h, b, k)
  OBVIOUS
<1>3. /\ Owned(h, L) /\ h \in Heaps /\ c \in Nodes /\ b \in Nodes /\ b # App
      /\ App \in Nodes /\ q \in Values /\ L \subseteq Blocks
  BY <1>1, GoodFacts
<1>4. /\ h[c][i].v.size \in Nat /\ h[c][i].v.size <= Len(h[b]) /\ Len(h[b]) \in Nat
      /\ DOMAIN h[b] = 1 .. Len(h[b]) /\ h[b] \in Seq(Cells)
  BY <1>3, ContainerFacts DEF Heaps
<1>5. k \in DOMAIN h[b]
  BY <1>4
<1>a. Has(h, c, i, b)
  BY DEF Has
<1>6. Empties(h, b, k, D) /\ b \notin D /\ App \notin D
  BY <1>2, <1>3, <1>5, <1>a, CellFreedFacts
<1>7. PICK x : x = Cell(key, q)
  OBVIOUS
<1>8. x \in Cells
  BY <1>3, <1>7 DEF Cell, Cells
<1>9. PICK s : s = [h[b] EXCEPT ![k] = x]
  OBVIOUS
<1>10. s \in Seq(Cells) /\ Len(s) = Len(h[b]) /\ DOMAIN s = DOMAIN h[b] /\ s[k] = x
       /\ \A l \in DOMAIN h[b] : l # k => s[l] = h[b][l]
  BY <1>4, <1>5, <1>8, <1>9
<1>11. PICK g : g = [h EXCEPT ![b] = s]
  OBVIOUS
<1>12. g \in Heaps /\ g[b] = s /\ \A m \in Nodes \ {b} : g[m] = h[m]
  BY <1>3, <1>10, <1>11 DEF Heaps
<1>13. PICK g0 : g0 = Without(g, D)
  OBVIOUS
<1>14. g0 \in Heaps /\ \A m \in Nodes : g0[m] = IF m \in D THEN <<>> ELSE g[m]
  BY <1>12, <1>13, WithoutIs
<1>15. g0[App] = h[App] /\ g0[b] = s
  BY <1>3, <1>6, <1>12, <1>14
<1>16. PICK h1 : h1 = Put(g0, <<App, j>>, Plain)
  OBVIOUS
<1>17. /\ h1 \in Heaps /\ \A m \in Nodes \ {App} : h1[m] = g0[m]
       /\ Changed(g0, h1, App, j, Cell(g0[App][j].key, Plain))
  BY <1>3, <1>14, <1>15, <1>16, JunkFacts, PutIs
<1>18. Changed(h, h1, App, j, Cell(NULL, Plain))
  <2>1. h[App][j].key = NULL
    BY DEF Good, Shape
  <2> QED BY <2>1, <1>15, <1>17 DEF Changed
<1>19. h1[b] = s /\ Changed(h, h1, b, k, x)
  BY <1>3, <1>10, <1>15, <1>17 DEF Changed
<1>20. /\ \A m \in Nodes : m \in D => h1[m] = <<>>
       /\ \A m \in Nodes : m \notin D /\ m # b /\ m # App => h1[m] = h[m]
  BY <1>3, <1>6, <1>12, <1>14, <1>17
<1>21. Replaces(h, h1, c, i, b, k, j, key, D)
  <2>1. Changed(h, h1, b, k, Cell(key, h[App][j].v))
    BY <1>1, <1>7, <1>19
  <2> QED BY <2>1, <1>17, <1>18, <1>20 DEF Replaces
<1>22. c \notin Close(Graph(h), {h[App][j].v.at} \ {NULL})
  BY DEF Freed
<1>23. Good(h1, (L \ D) \cup ({key} \ {NULL}))
  BY <1>5, <1>6, <1>21, <1>22, GoodReplace
<1>24. h1 = Put(Without([h EXCEPT ![b][k] = Cell(key, h[App][j].v)], CellFreed(h, b, k)),
                <<App, j>>, Plain)
  <2>1. [h EXCEPT ![b][k] = Cell(key, h[App][j].v)] = g
    BY <1>1, <1>7, <1>9, <1>11
  <2> QED BY <2>1, <1>2, <1>13, <1>16
<1> QED BY <1>2, <1>23, <1>24

\* What a step on a container and a variable starts from.
LEMMA GiveFacts ==
  ASSUME TreeInv, NEW p \in Places, NEW q \in Variable, Gives(p, q), IsContainer(At(p))
  PROVE  \E c \in live \cup {App} : \E i \in DOMAIN heap[c] : \E j \in DOMAIN heap[App] :
           /\ p = <<c, i>> /\ At(p) = heap[c][i].v /\ IsContainer(heap[c][i].v)
           /\ q = <<App, j>> /\ At(q) = heap[App][j].v
           /\ c # App \/ i # j
           /\ c \notin Freed(heap, App, j)
<1>1. PICK c \in live \cup {App} : \E i \in DOMAIN heap[c] :
         p = <<c, i>> /\ At(p) = heap[c][i].v /\ heap[c][i].v.type # "junk"
  BY PlaceIs
<1>2. PICK i \in DOMAIN heap[c] :
         p = <<c, i>> /\ At(p) = heap[c][i].v /\ heap[c][i].v.type # "junk"
  BY <1>1
<1>3. PICK j \in DOMAIN heap[App] : q = <<App, j>> /\ At(q) = heap[App][j].v
  BY VariableIs
<1>4. c # App \/ i # j
  BY <1>2, <1>3 DEF Gives, PartOf
<1>5. c \notin Freed(heap, App, j)
  <2>1. c \notin Reach(At(q))
    BY <1>2 DEF Gives, PartOf
  <2> QED BY <2>1, <1>3, DeadIs
<1>6. IsContainer(heap[c][i].v)
  BY <1>2
<1> QED BY <1>2, <1>3, <1>4, <1>5, <1>6

LEMMA KeyFacts ==
  ASSUME TreeInv, NEW v, IsContainer(v), NEW key \in Keys(v)
  PROVE  key \in {NULL} \cup (Blocks \ live) /\ (key = NULL <=> v.type = "array")
BY JsonTreeAssumption DEF IsContainer, Keys

LEMMA SetIndexStep ==
  ASSUME TreeInv, AppSetIndex
  PROVE  TreeInv'
<1>1. PICK p \in Places, q \in Variable :
       /\ Gives(p, q)
       /\ \E k \in 1 .. At(p).size : \E key \in Keys(At(p)) : SetIndex(p, k, q, key)
  BY DEF AppSetIndex
<1>2. PICK k \in 1 .. At(p).size : \E key \in Keys(At(p)) : SetIndex(p, k, q, key)
  BY <1>1
<1>3. PICK key \in Keys(At(p)) : SetIndex(p, k, q, key)
  BY <1>2
<1>4. IsContainer(At(p))
  <2>1. PICK c \in live \cup {App} : \E i \in DOMAIN heap[c] :
           p = <<c, i>> /\ At(p) = heap[c][i].v /\ heap[c][i].v.type # "junk"
    BY PlaceIs
  <2>2. PICK i \in DOMAIN heap[c] : At(p) = heap[c][i].v
    BY <2>1
  <2>3. Fits(heap, heap[c][i])
    BY GoodFacts DEF TreeInv
  <2>4. heap[c][i].v.size # 0
    BY <1>2, <2>2
  <2> QED BY <2>2, <2>3, <2>4 DEF Fits
<1>5. PICK c \in live \cup {App} : \E i \in DOMAIN heap[c] : \E j \in DOMAIN heap[App] :
           /\ p = <<c, i>> /\ At(p) = heap[c][i].v /\ IsContainer(heap[c][i].v)
           /\ q = <<App, j>> /\ At(q) = heap[App][j].v
           /\ c # App \/ i # j
           /\ c \notin Freed(heap, App, j)
  BY <1>1, <1>4, GiveFacts
<1>6. PICK i \in DOMAIN heap[c], j \in DOMAIN heap[App] :
           /\ p = <<c, i>> /\ At(p) = heap[c][i].v /\ IsContainer(heap[c][i].v)
           /\ q = <<App, j>> /\ At(q) = heap[App][j].v
           /\ c # App \/ i # j
           /\ c \notin Freed(heap, App, j)
  BY <1>5
<1>7. k \in 1 .. heap[c][i].v.size /\ heap[c][i].v.at \in Blocks
  <2>1. heap[c][i].v.size \in Nat /\ k \in 1 .. heap[c][i].v.size
    BY <1>6, MemoryFacts
  <2>2. heap[c][i].v.size > 0
    BY <2>1
  <2> QED BY <2>1, <2>2, <1>6, MemoryFacts
<1>8. PICK b \in Blocks : b = heap[c][i].v.at
  BY <1>7
<1>9. Memory(At(p)) = heap[b] /\ k \in DOMAIN heap[b]
  <2>1. Memory(At(p)) = heap[b]
    BY <1>6, <1>8, JsonTreeAssumption DEF Memory
  <2>2. /\ heap[c][i].v.size \in Nat /\ heap[c][i].v.size <= Len(heap[b]) /\ Len(heap[b]) \in Nat
        /\ DOMAIN heap[b] = 1 .. Len(heap[b])
    <3>1. Good(heap, live) /\ c \in Nodes
      BY GoodFacts DEF TreeInv
    <3> QED BY <3>1, <1>6, <1>8, ContainerFacts
  <2> QED BY <2>1, <2>2, <1>7
<1>10. Dead(heap[b][k].v) \cup ({heap[b][k].key} \ {NULL}) = CellFreed(heap, b, k)
  <2>1. Owned(heap, live) /\ Has(heap, c, i, b)
    BY <1>8 DEF TreeInv, Good, Has
  <2>2. CellFreed(heap, b, k) = Freed(heap, b, k) \cup ({heap[b][k].key} \ {NULL})
    BY <2>1, <1>9, CellFreedFacts
  <2>3. Dead(heap[b][k].v) = Freed(heap, b, k)
    BY DeadIs
  <2> QED BY <2>2, <2>3
<1>11. /\ heap' = Put(Without([heap EXCEPT ![b][k] = Cell(key, heap[App][j].v)], CellFreed(heap, b, k)),
                      <<App, j>>, Plain)
       /\ live' = (live \ CellFreed(heap, b, k)) \cup ({key} \ {NULL})
       /\ UNCHANGED fault
  BY <1>3, <1>6, <1>8, <1>9, <1>10 DEF SetIndex
<1>12. Good(Put(Without([heap EXCEPT ![b][k] = Cell(key, heap[App][j].v)], CellFreed(heap, b, k)),
                <<App, j>>, Plain),
            (live \ CellFreed(heap, b, k)) \cup ({key} \ {NULL}))
  <2>1. heap[c][i].v.at = b /\ Good(heap, live)
    BY <1>8 DEF TreeInv
  <2>2. key \in {NULL} \cup (Blocks \ live) /\ (key = NULL <=> heap[c][i].v.type = "array")
    BY <1>3, <1>4, <1>6, KeyFacts
  <2> QED BY <2>1, <2>2, <1>6, <1>7, PutReplace
<1>13. fault' \in {"none", "outside", "assert"}
  BY <1>11 DEF TreeInv
<1> QED BY <1>11, <1>12, <1>13, Keeps

\* The block b of the container at <<c, i>> gets the cells s, and k is the first free.
Opens(h, L, c, i, b, s, w, k) ==
  /\ \/ Enlarges(h, c, i, b, s, w)
     \/ b \notin L /\ h[c][i].v.at = NULL /\ Unowning(s) /\ Suits(w, b, s)
  /\ w \in Values /\ w.type = h[c][i].v.type /\ w.at = b /\ k = w.size + 1
  /\ s \in Seq(Cells) /\ k \in DOMAIN s

LEMMA PutAdd ==
  ASSUME NEW h, NEW L, Good(h, L), NEW c \in L \cup {App}, NEW i \in DOMAIN h[c],
         IsContainer(h[c][i].v), NEW b \in Blocks, NEW s, NEW w, NEW k,
         Opens(h, L, c, i, b, s, w, k),
         NEW j \in DOMAIN h[App], c # App \/ i # j, c \notin Freed(h, App, j),
         NEW key \in {NULL} \cup (Blocks \ (L \cup {b})), key = NULL <=> h[c][i].v.type = "array"
  PROVE  Good(Put(Put([h EXCEPT ![b] = [s EXCEPT ![k] = Cell(key, h[App][j].v)]], <<App, j>>, Plain),
                  <<c, i>>, [w EXCEPT !.size = k]),
              (L \cup {b}) \cup ({key} \ {NULL}))
<1>1. /\ Owned(h, L) /\ h \in Heaps /\ c \in Nodes /\ b \in Nodes /\ b # App /\ b # NULL
      /\ App \in Nodes /\ L \subseteq Blocks /\ NULL \notin Blocks /\ App \notin Blocks
      /\ h[c][i].v.type # "junk" /\ h[App][j].v \in Values /\ h[App][j].v.at \in L \cup {NULL}
  <2>1. h[c][i].v.type # "junk"
    BY DEF IsContainer
  <2> QED BY <2>1, GoodFacts
<1>2. PICK q : q = h[App][j].v
  OBVIOUS
<1>3. /\ w \in Values /\ w.type = h[c][i].v.type /\ w.at = b /\ s \in Seq(Cells) /\ k \in DOMAIN s
      /\ DOMAIN s = 1 .. Len(s) /\ Len(s) \in Nat /\ IsContainer(w)
  BY DEF Opens, IsContainer
<1>4. c # b
  <2>1. CASE Enlarges(h, c, i, b, s, w)
    <3>1. h[c][i].v.at = b
      BY <2>1 DEF Enlarges
    <3> QED BY <3>1, <1>1, OwnerFacts
  <2>2. CASE b \notin L
    BY <2>2, <1>1
  <2> QED BY <2>1, <2>2 DEF Opens
<1>5. PICK g : g = [h EXCEPT ![b] = s]
  OBVIOUS
<1>6. g \in Heaps /\ g[b] = s /\ \A n \in Nodes \ {b} : g[n] = h[n]
  BY <1>1, <1>3, <1>5 DEF Heaps
<1>7. PICK h0 : h0 = Put(g, <<c, i>>, w)
  OBVIOUS
<1>8. /\ h0 \in Heaps /\ \A n \in Nodes \ {c} : h0[n] = g[n]
      /\ Changed(g, h0, c, i, Cell(g[c][i].key, w))
  <2>1. g[c] = h[c]
    BY <1>1, <1>4, <1>6
  <2> QED BY <2>1, <1>1, <1>3, <1>6, <1>7, PutIs
<1>9. Changed(h, h0, c, i, Cell(h[c][i].key, w))
  <2>1. g[c] = h[c]
    BY <1>1, <1>4, <1>6
  <2> QED BY <2>1, <1>8 DEF Changed
<1>10. Boxes(h, h0, c, i, b, s, w)
  BY <1>1, <1>4, <1>6, <1>8, <1>9 DEF Boxes
<1>11. Good(h0, L \cup {b})
  <2>1. CASE Enlarges(h, c, i, b, s, w)
    <3>1. Good(h0, L)
      BY <2>1, <1>10, GoodGrow
    <3>2. h[c][i].v.at = b
      BY <2>1 DEF Enlarges
    <3>3. b \in L
      BY <3>2, <1>1, OwnerFacts
    <3>4. L \cup {b} = L
      BY <3>3
    <3> QED BY <3>1, <3>4
  <2>2. CASE b \notin L /\ h[c][i].v.at = NULL /\ Unowning(s) /\ Suits(w, b, s)
    BY <2>2, <1>1, <1>10, GoodBox
  <2> QED BY <2>1, <2>2 DEF Opens
<1>12. PICK s1 : s1 = [s EXCEPT ![k] = Cell(key, q)]
  OBVIOUS
<1>13. /\ s1 \in Seq(Cells) /\ Len(s1) = Len(s) /\ DOMAIN s1 = DOMAIN s /\ s1[k] = Cell(key, q)
       /\ \A l \in DOMAIN s : l # k => s1[l] = s[l]
  <2>1. Cell(key, q) \in Cells
    BY <1>1, <1>2 DEF Cell, Cells
  <2> QED BY <2>1, <1>3, <1>12
<1>14. PICK g1 : g1 = [h EXCEPT ![b] = s1]
  OBVIOUS
<1>15. g1 \in Heaps /\ g1[b] = s1 /\ \A n \in Nodes \ {b} : g1[n] = h[n]
  BY <1>1, <1>13, <1>14 DEF Heaps
<1>16. PICK w1 : w1 = [w EXCEPT !.size = k]
  OBVIOUS
<1>17. w1 \in Values
  BY <1>3, <1>16 DEF Values
<1>18. PICK h1 : h1 = Put(Put(g1, <<App, j>>, Plain), <<c, i>>, w1)
  OBVIOUS
<1>19. TwoPut(g1, h1, App, j, Plain, c, i, w1)
  <2>1. g1[c] = h[c] /\ g1[App] = h[App]
    BY <1>1, <1>4, <1>15
  <2> QED BY <2>1, <1>1, <1>15, <1>17, <1>18, JunkFacts, TwoPutIs
<1>20. /\ \A n \in Nodes : DOMAIN h0[n] = DOMAIN g1[n] /\ Len(h0[n]) = Len(g1[n])
       /\ \A n \in Nodes : \A l \in DOMAIN g1[n] :
            (n # c \/ l # i) /\ (n # b \/ l # k) => h0[n][l] = g1[n][l]
       /\ h0[App][j] = h[App][j] /\ h0[c][i] = Cell(h[c][i].key, w)
  <2>1. ASSUME NEW n \in Nodes
        PROVE  /\ DOMAIN h0[n] = DOMAIN g1[n] /\ Len(h0[n]) = Len(g1[n])
               /\ \A l \in DOMAIN g1[n] :
                    (n # c \/ l # i) /\ (n # b \/ l # k) => h0[n][l] = g1[n][l]
    <3>1. CASE n = b
      <4>1. h0[n] = s /\ g1[n] = s1
        BY <3>1, <1>4, <1>6, <1>8, <1>15
      <4> QED BY <3>1, <4>1, <1>13
    <3>2. CASE n = c
      <4>1. g1[n] = h[n]
        BY <3>2, <1>4, <1>15
      <4> QED BY <3>2, <4>1, <1>9 DEF Changed
    <3>3. CASE n # b /\ n # c
      BY <3>3, <1>6, <1>8, <1>15
    <3> QED BY <3>1, <3>2, <3>3
  <2>2. h0[App][j] = h[App][j]
    <3>1. CASE c = App
      BY <3>1, <1>9 DEF Changed
    <3>2. CASE c # App
      BY <3>2, <1>1, <1>6, <1>8
    <3> QED BY <3>1, <3>2
  <2>3. h0[c][i] = Cell(h[c][i].key, w)
    BY <1>9 DEF Changed
  <2> QED BY <2>1, <2>2, <2>3
<1>21. h0[c][i].v = w /\ h0[c][i].key = h[c][i].key /\ i \in DOMAIN h0[c] /\ j \in DOMAIN h0[App]
       /\ k \in DOMAIN h0[b]
  <2>1. /\ g1[c] = h[c] /\ g1[App] = h[App] /\ g1[b] = s1
    BY <1>1, <1>4, <1>15
  <2>2. DOMAIN h0[c] = DOMAIN g1[c] /\ DOMAIN h0[App] = DOMAIN g1[App] /\ DOMAIN h0[b] = DOMAIN g1[b]
    BY <1>1, <1>20
  <2> QED BY <2>1, <2>2, <1>3, <1>13, <1>20 DEF Cell
<1>22. GivesLast(h0, h1, c, i, b, k, j, key)
  <2>1. h1[b][k] = Cell(key, h0[App][j].v)
    <3>1. h1[b][k] = g1[b][k]
      <4>1. k \in DOMAIN g1[b]
        BY <1>3, <1>13, <1>15
      <4> QED BY <4>1, <1>1, <1>4, <1>19 DEF TwoPut
    <3> QED BY <3>1, <1>2, <1>13, <1>15, <1>20
  <2>2. h1[App][j] = Cell(NULL, Plain)
    <3>1. h[App][j].key = NULL /\ g1[App] = h[App]
      BY <1>1, <1>15 DEF Good, Shape
    <3> QED BY <3>1, <1>19 DEF TwoPut
  <2>3. h1[c][i] = Cell(h0[c][i].key, [h0[c][i].v EXCEPT !.size = k])
    <3>1. g1[c] = h[c]
      BY <1>1, <1>4, <1>15
    <3> QED BY <3>1, <1>16, <1>19, <1>21 DEF TwoPut
  <2>4. \A n \in Nodes : DOMAIN h1[n] = DOMAIN h0[n] /\ Len(h1[n]) = Len(h0[n])
    BY <1>19, <1>20 DEF TwoPut
  <2>5. ASSUME NEW n \in Nodes, NEW m \in DOMAIN h0[n], n # b \/ m # k, n # App \/ m # j,
               n # c \/ m # i
        PROVE  h1[n][m] = h0[n][m]
    <3>1. m \in DOMAIN g1[n]
      BY <1>20
    <3>2. h1[n][m] = g1[n][m]
      BY <2>5, <3>1, <1>19 DEF TwoPut
    <3>3. h0[n][m] = g1[n][m]
      BY <2>5, <3>1, <1>20
    <3> QED BY <3>2, <3>3
  <2>6. /\ IsContainer(h0[c][i].v) /\ h0[c][i].v.at = b /\ k = h0[c][i].v.size + 1
        /\ key = NULL <=> h0[c][i].v.type = "array"
    <3>1. k = w.size + 1
      BY DEF Opens
    <3> QED BY <3>1, <1>3, <1>21
  <2>7. h1 \in Heaps
    BY <1>19 DEF TwoPut
  <2> QED BY <2>1, <2>2, <2>3, <2>4, <2>5, <2>6, <2>7 DEF GivesLast
<1>23. c \notin Close(Graph(h0), {h0[App][j].v.at} \ {NULL})
  <2>1. PICK Y : Y = {h[App][j].v.at} \ {NULL}
    OBVIOUS
  <2>2. Y \subseteq Blocks /\ Graph(h) \in Graphs /\ Graph(h0) \in Graphs
    BY <2>1, <1>1, GraphType
  <2>3. c \notin Close(Graph(h), Y)
    BY <2>1 DEF Freed
  <2>4. ASSUME NEW n \in Nodes, n # c, NEW x \in Graph(h0)[n]
        PROVE  x \in Graph(h)[n]
    <3>1. x \in Blocks
      BY <2>2 DEF Graphs
    <3>2. PICK l \in DOMAIN h0[n] : Points(h0[n][l], x)
      BY <3>1, GraphType
    <3>3. CASE n # b
      <4>1. h0[n] = h[n]
        BY <2>4, <3>3, <1>6, <1>8
      <4> QED BY <4>1, <3>1, <3>2, GraphType
    <3>4. CASE n = b
      <4>1. h0[n] = s
        BY <3>4, <1>4, <1>6, <1>8
      <4>2. s[l].key # NULL \/ s[l].v.at # NULL
        BY <4>1, <3>1, <3>2, <1>1 DEF Points
      <4>3. CASE Unowning(s)
        BY <4>1, <4>2, <4>3, UnowningFits
      <4>4. CASE Enlarges(h, c, i, b, s, w)
        <5>1. l <= h[c][i].v.size /\ s[l] = h[b][l]
          BY <4>1, <4>2, <4>4, JunkFacts DEF Enlarges
        <5>2. l \in DOMAIN h[b]
          <6>1. h[c][i].v.at = b
            BY <4>4 DEF Enlarges
          <6>2. h[c][i].v.size \in Nat /\ h[c][i].v.size <= Len(h[b]) /\ Len(h[b]) \in Nat
                /\ DOMAIN h[b] = 1 .. Len(h[b])
            BY <6>1, <1>1, ContainerFacts
          <6>3. l \in 1 .. Len(s)
            BY <4>1, <1>3
          <6> QED BY <6>2, <6>3, <5>1, <1>3
        <5> QED BY <5>1, <5>2, <4>1, <3>1, <3>2, <3>4, GraphType
      <4> QED BY <4>3, <4>4 DEF Opens
    <3> QED BY <3>3, <3>4
  <2>5. Close(Graph(h0), Y) \subseteq Close(Graph(h), Y)
    <3>1. Close(Graph(h), Y) \subseteq Nodes
      BY DEF Close, Nodes
    <3>2. \A n \in Close(Graph(h), Y) : Graph(h0)[n] \subseteq Graph(h)[n]
      BY <3>1, <2>3, <2>4
    <3> QED BY <3>2, <2>2, CloseMono
  <2> QED BY <2>1, <2>3, <2>5, <1>20
<1>24. Good(h1, (L \cup {b}) \cup ({key} \ {NULL}))
  BY <1>11, <1>21, <1>22, <1>23, GoodGive
<1> QED BY <1>2, <1>12, <1>14, <1>16, <1>18, <1>24

\* The memory of a container that is added to: the elements, then junk.
LEMMA ResizedFacts ==
  ASSUME NEW v \in Values, IsContainer(v), NEW M \in Seq(Cells), Filled(v, M),
         \A l \in DOMAIN M : l > v.size => M[l] = Junk, M = Memory(v)
  PROVE  /\ Capacity(v) \in Nat
         /\ Resized(v, Capacity(v)) \in Seq(Cells)
         /\ Resizes(v) => Len(Resized(v, Capacity(v))) = Capacity(v)
         /\ ~Resizes(v) => Resized(v, Capacity(v)) = M /\ Capacity(v) = v.capacity
         /\ \A l \in DOMAIN Resized(v, Capacity(v)) :
              Resized(v, Capacity(v))[l] = IF l <= v.size THEN M[l] ELSE Junk
<1>1. /\ v.size \in Nat /\ v.capacity \in Nat /\ v.size <= Len(M) /\ Len(M) \in Nat
      /\ DOMAIN M = 1 .. Len(M)
  BY DEF Values, Filled
<1>2. Capacity(v) \in Nat
  <2>1. (v.size * 3) \div 2 \in Nat /\ v.size \div 2 \in Nat
    BY <1>1
  <2>2. Greater(Min, (v.size * 3) \div 2) \in Nat /\ Greater(Min, v.size \div 2) \in Nat
    BY <2>1, JsonTreeAssumption DEF Greater
  <2> QED BY <2>2, <1>1 DEF Capacity
<1>3. PICK n : n = Capacity(v)
  OBVIOUS
<1>4. CASE Resizes(v)
  <2>1. Resized(v, n) = [l \in 1 .. n |-> IF l <= Len(M) THEN M[l] ELSE Junk]
    BY <1>4 DEF Resized
  <2>2. \A l \in 1 .. n : (IF l <= Len(M) THEN M[l] ELSE Junk) \in Cells
    BY <1>1, <1>2, <1>3, JunkFacts
  <2>3. /\ Resized(v, n) \in Seq(Cells) /\ Len(Resized(v, n)) = n /\ DOMAIN Resized(v, n) = 1 .. n
        /\ \A l \in 1 .. n : Resized(v, n)[l] = IF l <= Len(M) THEN M[l] ELSE Junk
    BY <1>2, <1>3, <2>1, <2>2
  <2>4. \A l \in 1 .. n : Resized(v, n)[l] = IF l <= v.size THEN M[l] ELSE Junk
    BY <2>3, <1>1, <1>2, <1>3
  <2> QED BY <1>2, <1>3, <1>4, <2>3, <2>4
<1>5. CASE ~Resizes(v)
  <2>1. Resized(v, n) = M
    BY <1>5 DEF Resized
  <2>2. n = v.capacity
    BY <1>3, <1>5 DEF Capacity, Resizes
  <2>3. \A l \in DOMAIN M : M[l] = IF l <= v.size THEN M[l] ELSE Junk
    BY <1>1
  <2> QED BY <1>2, <1>3, <1>5, <2>1, <2>2, <2>3
<1> QED BY <1>4, <1>5

LEMMA GrownFacts ==
  ASSUME NEW v \in Values, NEW b \in Blocks, NEW n \in Nat, Capacity(v) \in Nat
  PROVE  /\ Grown(v, b, n) \in Values
         /\ Grown(v, b, n).type = v.type /\ Grown(v, b, n).at = b /\ Grown(v, b, n).size = n
         /\ Grown(v, b, n).capacity = Capacity(v)
         /\ ~Grown(v, b, n).raw <=> ~v.raw \/ Resizes(v)
         /\ \A m : Grown(v, b, m) = [Grown(v, b, n) EXCEPT !.size = m]
<1>1. (v.raw /\ ~Resizes(v)) \in BOOLEAN
  OBVIOUS
<1>2. PICK r : r = (v.raw /\ ~Resizes(v))
  OBVIOUS
<1>3. \A m : Grown(v, b, m) = [type |-> v.type, at |-> b, size |-> m, capacity |-> Capacity(v), raw |-> r]
  <2>1. \A m : Grown(v, b, m) = [v EXCEPT !.at = b, !.size = m, !.capacity = Capacity(v),
                                          !.raw = (v.raw /\ ~Resizes(v))]
    BY Zenon DEF Grown
  <2>2. \A m : Grown(v, b, m) = [v EXCEPT !.at = b, !.size = m, !.capacity = Capacity(v), !.raw = r]
    BY <1>2, <2>1, Zenon
  <2> QED BY <2>2 DEF Values
<1>4. r \in BOOLEAN /\ v.type \in Types
  BY <1>1, <1>2 DEF Values
<1>5. ~r <=> ~v.raw \/ Resizes(v)
  BY <1>2
<1>6. PICK w : w = Grown(v, b, n)
  OBVIOUS
<1>7. w = [type |-> v.type, at |-> b, size |-> n, capacity |-> Capacity(v), raw |-> r]
  BY <1>3, <1>6
<1>8. \A m : [w EXCEPT !.size = m] = [type |-> v.type, at |-> b, size |-> m, capacity |-> Capacity(v), raw |-> r]
  BY <1>7
<1>9. w \in Values
  BY <1>4, <1>7 DEF Values
<1> QED BY <1>3, <1>5, <1>6, <1>7, <1>8, <1>9

LEMMA AddStep ==
  ASSUME TreeInv, AppAdd
  PROVE  TreeInv'
<1>1. PICK p \in Places, q \in Variable :
       /\ IsContainer(At(p)) /\ Gives(p, q) /\ \E key \in Keys(At(p)) : Add(p, q, key)
  BY DEF AppAdd
<1>2. PICK key \in Keys(At(p)) : Add(p, q, key)
  BY <1>1
<1>3. PICK c \in live \cup {App} : \E i \in DOMAIN heap[c] : \E j \in DOMAIN heap[App] :
           /\ p = <<c, i>> /\ At(p) = heap[c][i].v /\ IsContainer(heap[c][i].v)
           /\ q = <<App, j>> /\ At(q) = heap[App][j].v
           /\ c # App \/ i # j
           /\ c \notin Freed(heap, App, j)
  BY <1>1, GiveFacts
<1>4. PICK i \in DOMAIN heap[c], j \in DOMAIN heap[App] :
           /\ p = <<c, i>> /\ At(p) = heap[c][i].v /\ IsContainer(heap[c][i].v)
           /\ q = <<App, j>> /\ At(q) = heap[App][j].v
           /\ c # App \/ i # j
           /\ c \notin Freed(heap, App, j)
  BY <1>3
<1>5. PICK v : v = At(p)
  OBVIOUS
<1>6. v = heap[c][i].v /\ IsContainer(v)
  BY <1>4, <1>5
<1>7. key \in {NULL} \cup (Blocks \ live) /\ (key = NULL <=> v.type = "array")
  BY <1>1, <1>2, <1>5, KeyFacts
<1>8. Good(heap, live) /\ fault \in {"none", "outside", "assert"} /\ c \in Nodes /\ heap \in Heaps
      /\ NULL \notin Blocks /\ live \subseteq Blocks
  BY GoodFacts DEF TreeInv
<1>9. PICK M : M = Memory(v)
  OBVIOUS
<1>10. /\ v \in Values /\ v.size \in Nat /\ v.capacity \in Nat /\ v.at \in Blocks \cup {NULL}
       /\ Filled(v, M)
  BY <1>4, <1>6, <1>9, MemoryFacts
<1>11. M \in Seq(Cells) /\ \A l \in DOMAIN M : l > v.size => M[l] = Junk
  <2>1. CASE v.at = NULL
    BY <2>1, <1>9 DEF Memory
  <2>2. CASE v.at # NULL
    <3>1. M = heap[v.at] /\ v.at \in Nodes
      BY <2>2, <1>9, <1>10 DEF Memory, Nodes
    <3>2. M \in Seq(Cells)
      BY <3>1, <1>8 DEF Heaps
    <3>3. \A l \in DOMAIN M : Fits(heap, M[l])
      BY <3>1, <1>8, GoodFacts
    <3> QED BY <3>2, <3>3, <1>10 DEF Filled, Fits
  <2> QED BY <2>1, <2>2
<1>12. PICK s : s = Resized(v, Capacity(v))
  OBVIOUS
<1>13. /\ Capacity(v) \in Nat /\ s \in Seq(Cells)
       /\ Resizes(v) => Len(s) = Capacity(v)
       /\ ~Resizes(v) => s = M /\ Capacity(v) = v.capacity
       /\ \A l \in DOMAIN s : s[l] = IF l <= v.size THEN M[l] ELSE Junk
  BY <1>6, <1>9, <1>10, <1>11, <1>12, ResizedFacts
<1>14. Len(s) \in Nat /\ DOMAIN s = 1 .. Len(s) /\ Len(M) \in Nat /\ v.size <= Len(M)
  BY <1>10, <1>11, <1>13 DEF Filled
<1>15. PICK b \in BlockFor(v) :
       /\ b = NULL \/ b # key
       /\ IF v.size < Len(s)
           THEN /\ heap' = Put(Put([heap EXCEPT ![b] = [s EXCEPT ![v.size + 1] = Cell(key, At(q))]],
                                   q, Plain),
                               p, Grown(v, b, v.size + 1))
                /\ live' = live \cup ({b, key} \ {NULL})
                /\ UNCHANGED fault
           ELSE fault' = "outside" /\ UNCHANGED <<heap, live>>
  BY <1>2, <1>5, <1>12 DEF Add
<1>16. CASE ~(v.size < Len(s))
  <2>1. fault' = "outside" /\ heap' = heap /\ live' = live
    BY <1>15, <1>16
  <2> QED BY <2>1, <1>8, Keeps
<1>17. CASE v.size < Len(s)
  <2>1. b \in Blocks /\ (v.at = b \/ (v.at = NULL /\ b \notin live /\ Resizes(v)))
    <3>0. b \in BlockFor(v)
      BY <1>15
    <3>1. CASE v.at # NULL
      BY <3>0, <3>1, <1>10 DEF BlockFor
    <3>2. CASE v.at = NULL /\ Resizes(v)
      BY <3>0, <3>2 DEF BlockFor
    <3>3. CASE v.at = NULL /\ ~Resizes(v)
      <4>1. s = <<>>
        BY <3>3, <1>9, <1>13 DEF Memory
      <4> QED BY <4>1, <1>10, <1>17
    <3> QED BY <3>1, <3>2, <3>3
  <2>2. PICK w : w = Grown(v, b, v.size)
    OBVIOUS
  <2>3. PICK k : k = v.size + 1
    OBVIOUS
  <2>4. /\ w \in Values /\ w.type = v.type /\ w.at = b /\ w.size = v.size /\ w.capacity = Capacity(v)
        /\ ~w.raw <=> ~v.raw \/ Resizes(v)
        /\ Grown(v, b, k) = [w EXCEPT !.size = k]
    BY <2>1, <2>2, <1>10, <1>13, GrownFacts
  <2>5. k \in DOMAIN s /\ k = w.size + 1
    BY <2>3, <2>4, <1>10, <1>14, <1>17
  <2>6. ~w.raw => w.capacity = Len(s)
    <3>1. CASE Resizes(v)
      BY <3>1, <2>4, <1>13
    <3>2. CASE ~Resizes(v)
      BY <3>2, <2>4, <1>10, <1>13 DEF Filled
    <3> QED BY <3>1, <3>2
  <2>7. Enlarges(heap, c, i, b, s, w)
        \/ (b \notin live /\ v.at = NULL /\ Unowning(s) /\ Suits(w, b, s))
    <3>1. CASE v.at = b
      <4>1. M = heap[b]
        BY <3>1, <2>1, <1>8, <1>9 DEF Memory
      <4>2. v.size <= Len(s)
        BY <1>10, <1>14, <1>17
      <4>3. \A l \in DOMAIN s : s[l] = IF l <= v.size THEN heap[b][l] ELSE Junk
        BY <4>1, <1>13
      <4>4. /\ IsContainer(heap[c][i].v) /\ heap[c][i].v.at = b
            /\ heap[c][i].v.size <= Len(s)
            /\ \A l \in DOMAIN s : s[l] = IF l <= heap[c][i].v.size THEN heap[b][l] ELSE Junk
            /\ w.type = heap[c][i].v.type /\ w.size = heap[c][i].v.size
        BY <3>1, <4>2, <4>3, <2>4, <1>6
      <4> QED BY <4>4, <2>4, <2>6, <1>13 DEF Enlarges
    <3>2. CASE v.at = NULL /\ b \notin live /\ Resizes(v)
      <4>1. M = <<>> /\ v.size = 0
        <5>1. M = <<>> /\ Len(M) = 0
          BY <3>2, <1>9 DEF Memory
        <5> QED BY <5>1, <1>10, <1>14
      <4>2. \A l \in 1 .. Len(s) : s[l] = Junk
        BY <4>1, <1>13, <1>14
      <4>3. Unowning(s)
        BY <4>2, <1>13, <1>14 DEF Unowning
      <4>4. Filled(w, s)
        BY <4>1, <4>2, <2>4, <2>6, <1>14, JunkFacts DEF Filled
      <4>5. Suits(w, b, s)
        BY <4>1, <4>4, <2>4, <1>6 DEF Suits, IsContainer
      <4> QED BY <3>2, <4>3, <4>5
    <3> QED BY <2>1, <3>1, <3>2
  <2>8. Opens(heap, live, c, i, b, s, w, k)
    BY <2>4, <2>5, <2>7, <1>6, <1>13 DEF Opens
  <2>9. key \in {NULL} \cup (Blocks \ (live \cup {b})) /\ (key = NULL <=> heap[c][i].v.type = "array")
    BY <2>1, <1>6, <1>7, <1>8, <1>15
  <2>10. Good(Put(Put([heap EXCEPT ![b] = [s EXCEPT ![k] = Cell(key, heap[App][j].v)]], <<App, j>>, Plain),
                  <<c, i>>, [w EXCEPT !.size = k]),
              (live \cup {b}) \cup ({key} \ {NULL}))
    BY <2>1, <2>8, <2>9, <1>4, <1>8, PutAdd
  <2>11. /\ heap' = Put(Put([heap EXCEPT ![b] = [s EXCEPT ![k] = Cell(key, heap[App][j].v)]], <<App, j>>, Plain),
                        <<c, i>>, [w EXCEPT !.size = k])
         /\ live' = live \cup ({b, key} \ {NULL})
         /\ UNCHANGED fault
    BY <2>3, <2>4, <1>4, <1>15, <1>17
  <2>12. live \cup ({b, key} \ {NULL}) = (live \cup {b}) \cup ({key} \ {NULL})
    BY <2>1, <1>8
  <2> QED BY <2>10, <2>11, <2>12, <1>8, Keeps
<1> QED BY <1>16, <1>17

LEMMA TreeInit ==
  ASSUME Init
  PROVE  TreeInv
<1> USE JsonTreeAssumption
<1>1. PICK s : s = [i \in 1 .. Variables |-> Cell(NULL, Plain)]
  OBVIOUS
<1>2. s \in Seq(Cells) /\ Len(s) = Variables /\ DOMAIN s = 1 .. Variables
      /\ \A i \in 1 .. Variables : s[i] = Cell(NULL, Plain)
  BY <1>1, JunkFacts
<1>3. /\ \A n \in Nodes : heap[n] = IF n = App THEN s ELSE <<>>
      /\ heap = [n \in Nodes |-> IF n = App THEN s ELSE <<>>]
      /\ live = {} /\ fault = "none"
  BY <1>1 DEF Init, Nodes
<1>4. heap \in Heaps
  <2>1. \A n \in Nodes : (IF n = App THEN s ELSE <<>>) \in Seq(Cells)
    BY <1>2
  <2> QED BY <2>1, <1>3 DEF Heaps
<1>5. ASSUME NEW n \in Nodes, NEW i \in DOMAIN heap[n]
      PROVE  n = App /\ heap[n][i] = Cell(NULL, Plain)
  <2>1. n = App
    BY <1>3, NoCells
  <2> QED BY <2>1, <1>2, <1>3
<1>6. \A b \in Blocks : ~Points(Cell(NULL, Plain), b)
  BY DEF Points, Cell, Plain, Value
<1>7. /\ Graph(heap) \in Graphs
      /\ \A n \in Nodes : Graph(heap)[n] = {}
  <2>1. Graph(heap) \in Graphs
    BY GraphType
  <2>2. \A n \in Nodes, b \in Blocks : b \notin Graph(heap)[n]
    BY <1>5, <1>6, GraphType
  <2>3. \A n \in Nodes : Graph(heap)[n] \subseteq Blocks
    BY <2>1 DEF Graphs
  <2> QED BY <2>1, <2>2, <2>3
<1>8. Forest(Graph(heap), live)
  <2>1. App \in Nodes /\ Blocks \subseteq Nodes
    BY DEF Nodes
  <2>2. Close(Graph(heap), {}) \subseteq {}
    <3>1. Closed(Graph(heap), {})
      BY DEF Closed
    <3> QED BY <3>1, CloseLeast
  <2>3. Graph(heap)[App] = {}
    BY <1>7, <2>1
  <2>4. live = Close(Graph(heap), Graph(heap)[App])
    BY <1>3, <2>2, <2>3
  <2>5. Sole(Graph(heap))
    BY <1>7 DEF Sole
  <2>6. \A n \in Blocks \ live : Graph(heap)[n] = {}
    BY <1>7, <2>1
  <2> QED BY <1>7, <2>4, <2>5, <2>6 DEF Forest
<1>9. \A n \in Nodes : Distinct(heap[n])
  BY <1>5, <1>6 DEF Distinct, Cell
<1>10. \A b \in Blocks \ live : heap[b] = <<>>
  BY <1>3 DEF Nodes
<1>11. Leaves(heap)
  BY <1>5 DEF Leaves, Cell
<1>12. Owned(heap, live)
  BY <1>4, <1>8, <1>9, <1>10, <1>11 DEF Owned
<1>13. Shape(heap)
  <2>1. \A n \in Nodes : \A i \in DOMAIN heap[n] : Fits(heap, heap[n][i])
    BY <1>5, JunkFacts, BareFits
  <2>2. Len(heap[App]) = Variables
        /\ \A i \in DOMAIN heap[App] : heap[App][i].key = NULL /\ heap[App][i].v.type # "junk"
    BY <1>2, <1>3 DEF Nodes, Cell, Plain, Value
  <2> QED BY <2>1, <2>2 DEF Shape
<1> QED BY <1>3, <1>12, <1>13 DEF TreeInv, Good

LEMMA TreeNext ==
  ASSUME TreeInv, [Next]_vars
  PROVE  TreeInv'
<1>1. CASE UNCHANGED vars
  BY <1>1, Keeps DEF vars, TreeInv
<1>2. CASE AppSet
  BY <1>2, SetStep
<1>3. CASE AppAdd
  BY <1>3, AddStep
<1>4. CASE AppDel
  BY <1>4, DelStep
<1>5. CASE AppSetIndex
  BY <1>5, SetIndexStep
<1>6. CASE AppClear
  BY <1>6, ClearStep
<1>7. CASE AppObjectClear
  BY <1>7, ObjectClearStep
<1>8. CASE AppCopy
  BY <1>8, CopyStep
<1>9. CASE AppMove
  BY <1>9, MoveStep
<1>10. CASE AppDecode
  BY <1>10, DecodeStep
<1> QED BY <1>1, <1>2, <1>3, <1>4, <1>5, <1>6, <1>7, <1>8, <1>9, <1>10 DEF Next

-----------------------------------------------------------------------------
(* What the invariant says of the values.                                   *)

LEMMA TypesHold ==
  ASSUME TreeInv
  PROVE  TypeOK
<1>1. live \subseteq Blocks /\ fault \in {"none", "outside", "assert"}
  BY GoodFacts DEF TreeInv
<1>2. ASSUME NEW p \in Places
      PROVE  LET v == At(p) IN
             /\ v.type \in {"plain", "string", "array", "object"}
             /\ IsContainer(v) =>
                  /\ \A i \in DOMAIN Memory(v) : Memory(v)[i].v.type = "junk" <=> i > v.size
                  /\ v.size <= Len(Memory(v))
                  /\ ~v.raw => v.capacity = Len(Memory(v))
                  /\ \A i \in 1..v.size : Memory(v)[i].key # NULL <=> v.type = "object"
  <2>1. PICK c \in live \cup {App} : \E i \in DOMAIN heap[c] :
           p = <<c, i>> /\ At(p) = heap[c][i].v /\ heap[c][i].v.type # "junk"
    BY PlaceIs
  <2>2. PICK i \in DOMAIN heap[c] : At(p) = heap[c][i].v /\ heap[c][i].v.type # "junk"
    BY <2>1
  <2>3. heap[c][i].v \in Values
    BY GoodFacts DEF TreeInv
  <2>4. At(p).type \in {"plain", "string", "array", "object"}
    BY <2>2, <2>3 DEF Values, Types
  <2>5. IsContainer(At(p)) => Filled(At(p), Memory(At(p)))
    BY <2>2, MemoryFacts
  <2> QED BY <2>4, <2>5 DEF Filled
<1> QED BY <1>1, <1>2 DEF TypeOK

LEMMA OneReference ==
  ASSUME TreeInv
  PROVE  /\ \A b \in live : Cardinality(References(b)) = 1
         /\ \A b \in Blocks \ live : References(b) = {}
<1>1. /\ Owned(heap, live) /\ heap \in Heaps /\ live \subseteq Blocks /\ App \in Nodes
      /\ live \cup {App} \subseteq Nodes /\ Graph(heap) \in Graphs /\ DOMAIN heap = Nodes
      /\ Forest(Graph(heap), live)
  BY GoodFacts, GraphType DEF TreeInv, Heaps, Owned
<1>2. ASSUME NEW b \in Blocks, NEW x
      PROVE  x \in References(b) <=>
               \E c \in Nodes : \E i \in DOMAIN heap[c] : x = <<c, i>> /\ Points(heap[c][i], b)
  <2>1. ASSUME x \in References(b)
        PROVE  \E c \in Nodes : \E i \in DOMAIN heap[c] : x = <<c, i>> /\ Points(heap[c][i], b)
    <3>1. x \in UNION {{c} \X DOMAIN heap[c] : c \in DOMAIN heap}
          /\ (heap[x[1]][x[2]].key = b \/ At(x).at = b)
      BY <2>1, Zenon DEF References
    <3>2. PICK c \in DOMAIN heap : x \in {c} \X DOMAIN heap[c]
      BY <3>1, Zenon
    <3>3. PICK i \in DOMAIN heap[c] : x = <<c, i>>
      BY <3>2
    <3>4. Points(heap[c][i], b)
      BY <3>1, <3>3 DEF Points, At
    <3> QED BY <3>2, <3>3, <3>4, <1>1
  <2>2. ASSUME NEW c \in Nodes, NEW i \in DOMAIN heap[c], x = <<c, i>>, Points(heap[c][i], b)
        PROVE  x \in References(b)
    <3>1. x \in {c} \X DOMAIN heap[c] /\ c \in DOMAIN heap
      BY <2>2, <1>1
    <3>2. x \in UNION {{d} \X DOMAIN heap[d] : d \in DOMAIN heap}
      BY <3>1, Zenon
    <3>3. heap[x[1]][x[2]].key = b \/ At(x).at = b
      BY <2>2 DEF Points, At
    <3> QED BY <3>2, <3>3, Zenon DEF References
  <2> QED BY <2>1, <2>2
<1>3. ASSUME NEW b \in live
      PROVE  Cardinality(References(b)) = 1
  <2>1. b \in Close(Graph(heap), Graph(heap)[App])
    BY <1>1, ForestFacts
  <2>2. Graph(heap)[App] \subseteq Blocks
    BY <1>1 DEF Graphs
  <2>3. \E c \in Nodes : b \in Graph(heap)[c]
    <3>1. b \in Graph(heap)[App] \/ \E c \in Close(Graph(heap), Graph(heap)[App]) : b \in Graph(heap)[c]
      BY <2>1, <2>2, <1>1, CloseStep
    <3>2. Close(Graph(heap), Graph(heap)[App]) \subseteq Nodes
      BY DEF Close, Nodes
    <3> QED BY <3>1, <3>2, <1>1
  <2>4. PICK c \in Nodes : b \in Graph(heap)[c]
    BY <2>3
  <2>5. b \in Blocks
    BY <1>1
  <2>6. PICK i \in DOMAIN heap[c] : Points(heap[c][i], b)
    BY <2>4, <2>5, GraphType
  <2>7. \A d \in Nodes : \A j \in DOMAIN heap[d] : Points(heap[d][j], b) => d = c /\ j = i
    BY <2>5, <2>6, <1>1, OneRef
  <2>8. \A x : x \in References(b) <=> x = <<c, i>>
    BY <2>5, <2>6, <2>7, <1>2
  <2>9. References(b) = {<<c, i>>}
    BY <2>8
  <2> QED BY <2>9, FS_Singleton
<1>4. ASSUME NEW b \in Blocks \ live
      PROVE  References(b) = {}
  <2>1. ASSUME NEW c \in Nodes, NEW i \in DOMAIN heap[c]
        PROVE  ~Points(heap[c][i], b)
    <3>1. c \in live \cup {App}
      BY <1>1, OwnedFacts, NoCells
    <3> QED BY <3>1, <1>1, OwnedFacts
  <2>2. \A x : x \notin References(b)
    BY <2>1, <1>2
  <2> QED BY <2>2
<1> QED BY <1>3, <1>4

LEMMA LiveIsReached ==
  ASSUME TreeInv
  PROVE  live = UNION {Reach(At(p)) : p \in Variable}
<1>1. /\ Owned(heap, live) /\ live \subseteq Blocks /\ App \in Nodes /\ Graph(heap) \in Graphs
      /\ Forest(Graph(heap), live) /\ NULL \notin Blocks /\ heap \in Heaps
      /\ DOMAIN heap[App] = 1 .. Variables
      /\ live = Close(Graph(heap), Graph(heap)[App])
  BY GoodFacts, GraphType, ForestFacts DEF TreeInv, Good, Owned, Shape
<1>2. \A j \in DOMAIN heap[App] : Reach(At(<<App, j>>)) = Freed(heap, App, j) /\ <<App, j>> \in Variable
  BY <1>1, DeadIs DEF At, Variable
<1>3. PICK U : U = UNION {Reach(At(p)) : p \in Variable}
  OBVIOUS
<1>4. ASSUME NEW p \in Variable
      PROVE  Reach(At(p)) \subseteq live
  <2>1. PICK j \in DOMAIN heap[App] : p = <<App, j>>
    BY VariableIs
  <2>2. Freed(heap, App, j) \subseteq live
    BY <1>1, FreedFacts
  <2> QED BY <2>1, <2>2, <1>2
<1>5. \A x : x \in U <=> \E p \in Variable : x \in Reach(At(p))
  BY <1>3, Zenon
<1>6. U \subseteq live
  BY <1>4, <1>5
<1>7. live \subseteq U
  <2>1. ASSUME NEW x \in Graph(heap)[App]
        PROVE  x \in U
    <3>1. x \in Blocks
      BY <1>1 DEF Graphs
    <3>2. PICK j \in DOMAIN heap[App] : Points(heap[App][j], x)
      BY <3>1, <1>1, GraphType
    <3>3. heap[App][j].v.at = x
      BY <3>1, <3>2, <1>1 DEF Points, TreeInv, Good, Shape
    <3>4. PICK X : X = {heap[App][j].v.at} \ {NULL}
      OBVIOUS
    <3>5. X \subseteq Blocks /\ x \in X
      BY <3>1, <3>3, <3>4, <1>1
    <3>6. x \in Close(Graph(heap), X)
      BY <3>5, <1>1, CloseClosed
    <3>7. x \in Reach(At(<<App, j>>))
      BY <3>4, <3>6, <1>2 DEF Freed
    <3> QED BY <3>7, <1>2, <1>5
  <2>2. ASSUME NEW c \in U, NEW x \in Graph(heap)[c]
        PROVE  x \in U
    <3>1. PICK p \in Variable : c \in Reach(At(p))
      BY <1>5
    <3>2. PICK j \in DOMAIN heap[App] : p = <<App, j>>
      BY VariableIs
    <3>3. PICK X : X = {heap[App][j].v.at} \ {NULL}
      OBVIOUS
    <3>4. X \subseteq Blocks
      BY <3>3, <1>1, CellOf
    <3>5. Closed(Graph(heap), Close(Graph(heap), X))
      BY <3>4, <1>1, CloseClosed
    <3>6. Reach(At(p)) = Close(Graph(heap), X)
      BY <3>2, <3>3, <1>2 DEF Freed
    <3>7. x \in Reach(At(p))
      BY <3>1, <3>5, <3>6 DEF Closed
    <3> QED BY <3>7, <1>5
  <2>3. Graph(heap)[App] \subseteq U /\ Closed(Graph(heap), U) /\ U \subseteq Blocks
    BY <2>1, <2>2, <1>1, <1>6 DEF Closed
  <2>4. Close(Graph(heap), Graph(heap)[App]) \subseteq U
    BY <2>3, CloseLeast
  <2> QED BY <2>4, <1>1
<1> QED BY <1>3, <1>6, <1>7

\* json.h: strings, arrays, objects and keys form a tree that the application's variables
\* reach: no block has two owners, none is lost and none is pointed at after json_free.
THEOREM TreeCorrect == Spec => []OneOwner
<1>1. TreeInv => OneOwner
  BY TypesHold, OneReference, LiveIsReached DEF OneOwner
<1> QED BY <1>1, TreeInit, TreeNext, PTL DEF Spec

\* _json_array_check_resize and _json_object_check_resize: an element is written outside
\* its block only after the block was shrunk to half the size, or when the capacity was
\* never set because the container was decoded.
THEOREM OutsideCorrect == Spec => OutsideOnly
<1>1. ASSUME TreeInv, Next, fault = "none", fault' = "outside"
      PROVE  \E p \in Places : LET v == At(p) IN
               IsContainer(v) /\ (v.raw \/ v.size \in Min..((v.capacity \div 2) - 1))
  <2>1. AppAdd
    BY <1>1 DEF Next, AppSet, AppDel, AppSetIndex, AppClear, AppObjectClear, AppCopy, AppMove,
             AppDecode, SetPlain, json_set_string, json_set_container, SetBlock, Del, SetIndex,
             Clear, Move, vars
  <2>2. PICK p \in Places, q \in Variable :
         /\ IsContainer(At(p)) /\ \E key \in Keys(At(p)) : Add(p, q, key)
    BY <2>1 DEF AppAdd
  <2>3. PICK v : v = At(p)
    OBVIOUS
  <2>4. IsContainer(v) /\ ~(v.size < Len(Resized(v, Capacity(v))))
    <3>1. PICK key \in Keys(At(p)) : Add(p, q, key)
      BY <2>2
    <3>2. ~(v.size < Len(Resized(v, Capacity(v))))
      BY <3>1, <2>3, <1>1 DEF Add
    <3> QED BY <2>2, <2>3, <3>2
  <2>5. PICK c \in live \cup {App} : \E i \in DOMAIN heap[c] :
           p = <<c, i>> /\ At(p) = heap[c][i].v /\ heap[c][i].v.type # "junk"
    BY <1>1, PlaceIs
  <2>6. PICK i \in DOMAIN heap[c] : At(p) = heap[c][i].v
    BY <2>5
  <2>7. PICK M : M = Memory(v)
    OBVIOUS
  <2>8. v \in Values /\ v.size \in Nat /\ v.capacity \in Nat /\ Filled(v, M)
        /\ v.at \in Blocks \cup {NULL}
    BY <1>1, <2>3, <2>4, <2>6, <2>7, MemoryFacts
  <2>9. M \in Seq(Cells) /\ \A l \in DOMAIN M : l > v.size => M[l] = Junk
    <3>1. CASE v.at = NULL
      BY <3>1, <2>7 DEF Memory
    <3>2. CASE v.at # NULL
      <4>1. M = heap[v.at] /\ v.at \in Nodes /\ heap \in Heaps
        BY <1>1, <3>2, <2>7, <2>8, GoodFacts DEF Memory, Nodes, TreeInv
      <4>2. M \in Seq(Cells)
        BY <4>1 DEF Heaps
      <4>3. \A l \in DOMAIN M : Fits(heap, M[l])
        BY <1>1, <4>1, GoodFacts DEF TreeInv
      <4> QED BY <4>2, <4>3, <2>8 DEF Filled, Fits
    <3> QED BY <3>1, <3>2
  <2>10. PICK n : n = Len(Resized(v, Capacity(v)))
    OBVIOUS
  <2>11. /\ Capacity(v) \in Nat
         /\ Resizes(v) => n = Capacity(v)
         /\ ~Resizes(v) => n = Len(M)
    BY <2>4, <2>7, <2>8, <2>9, <2>10, ResizedFacts
  <2>12. Len(M) \in Nat /\ v.size <= Len(M) /\ (~v.raw => v.capacity = Len(M)) /\ ~(v.size < n)
    BY <2>4, <2>8, <2>9, <2>10 DEF Filled
  <2>13. ASSUME ~v.raw PROVE v.size \in Min..((v.capacity \div 2) - 1)
    <3>1. v.capacity = Len(M)
      BY <2>12, <2>13
    <3>2. CASE v.size >= v.capacity
      <4>1. n = Greater(Min, (v.size * 3) \div 2)
        BY <3>2, <2>11 DEF Resizes, Capacity
      <4>2. n >= Min /\ n >= (v.size * 3) \div 2
        <5>1. (v.size * 3) \div 2 \in Int
          BY <2>8
        <5> QED BY <4>1, <5>1, JsonTreeAssumption DEF Greater
      <4>3. v.size >= 2
        BY <4>2, <2>8, <2>11, <2>12, <3>2, JsonTreeAssumption DEF Resizes
      <4>4. (v.size * 3) \div 2 > v.size
        BY <4>3, <2>8
      <4> QED BY <4>2, <4>4, <2>8, <2>11, <2>12, <3>2 DEF Resizes
    <3>3. CASE ~(v.size >= v.capacity) /\ v.size < v.capacity \div 2
      <4>1. n = Greater(Min, v.size \div 2)
        BY <3>3, <2>11 DEF Resizes, Capacity
      <4>2. v.size \div 2 \in Int /\ v.capacity \div 2 \in Int
        BY <2>8
      <4>3. n >= Min
        BY <4>1, <4>2, JsonTreeAssumption DEF Greater
      <4>4. v.size >= Min
        BY <4>3, <2>8, <2>11, <2>12, <3>3, JsonTreeAssumption DEF Resizes
      <4> QED BY <4>2, <4>4, <3>3, <2>8, JsonTreeAssumption
    <3>4. CASE ~Resizes(v)
      BY <3>1, <3>4, <2>8, <2>11, <2>12 DEF Resizes
    <3> QED BY <3>2, <3>3, <3>4 DEF Resizes
  <2> QED BY <2>2, <2>3, <2>4, <2>13
<1>2. TreeInv /\ [Next]_vars =>
        [fault = "none" /\ fault' = "outside" =>
           \E p \in Places : LET v == At(p) IN
             IsContainer(v) /\ (v.raw \/ v.size \in Min..((v.capacity \div 2) - 1))]_vars
  BY <1>1
<1>3. TreeInv /\ [Next]_vars => TreeInv'
  BY TreeNext
<1> QED BY <1>2, <1>3, TreeInit, PTL DEF Spec, OutsideOnly

=============================================================================
