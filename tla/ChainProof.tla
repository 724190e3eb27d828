------------------------------ MODULE ChainProof ------------------------------
(***************************************************************************)
(* Proofs about Chain, for every set of objects, chains and blocks: the      *)
(* pointers of every chain stay a doubly linked list, size counts its        *)
(* blocks, and the reference counts account for every reference, so that no  *)
(* object is freed while a retaining chain holds it.                         *)
(*                                                                           *)
(* The links alone do not say that a chain is one list: a ring of blocks     *)
(* apart from head and tail would satisfy them.  The strengthening is that   *)
(* the blocks of a chain can be numbered: next counts up by one, no number   *)
(* occurs twice, and head and tail have the least and the greatest.          *)
(*                                                                           *)
(* From the numbering the list is read as a sequence, and the handlers with  *)
(* their loops are shown to implement the abstract Deque.                    *)
(***************************************************************************)
EXTENDS ChainDeque, ListLemmas

Numbered(p, c) ==
  /\ \A b \in Own(c) : next[b] # NULL => p[next[b]] = p[b] + 1
  /\ \A x, y \in Own(c) : p[x] = p[y] => x = y
  /\ head[c] \in Own(c) => \A b \in Own(c) : p[head[c]] <= p[b]
  /\ tail[c] \in Own(c) => \A b \in Own(c) : p[b] <= p[tail[c]]

Listed == \E p \in [Blocks -> Int] : \A c \in alive : Numbered(p, c)

Shape == LinksInverse /\ (\A c \in alive : Sides(c)) /\ Listed

\* The types of the heap alone.
HeapType ==
  /\ alive \subseteq Chains
  /\ head \in [Chains -> Blocks \cup {NULL}]
  /\ tail \in [Chains -> Blocks \cup {NULL}]
  /\ live \subseteq Blocks
  /\ next \in [Blocks -> Blocks \cup {NULL}]
  /\ last \in [Blocks -> Blocks \cup {NULL}]
  /\ owner \in [Blocks -> Chains \cup {NULL}]

-----------------------------------------------------------------------------
(* The four ways a handler changes a list keep its shape.                   *)

\* A block b added to the chain c at its head (Chain_push_to_head).
AtHead(c, b) ==
  /\ c \in alive /\ b \in Blocks \ live
  /\ Anchored(c, head[c]) /\ Anchored(c, tail[c])
  /\ alive' = alive /\ live' = live \cup {b} /\ owner' = [owner EXCEPT ![b] = c]
  /\ next' = [next EXCEPT ![b] = head[c]]
  /\ last' = IF head[c] # NULL THEN [last EXCEPT ![head[c]] = b, ![b] = NULL]
                               ELSE [last EXCEPT ![b] = NULL]
  /\ head' = [head EXCEPT ![c] = b]
  /\ tail' = IF head[c] # NULL THEN tail ELSE [tail EXCEPT ![c] = b]

LEMMA AddHead ==
  ASSUME HeapType, Shape, NEW c, NEW b, AtHead(c, b)
  PROVE  /\ HeapType' /\ Shape'
         /\ \A x \in alive : Own(x)' = IF x = c THEN Own(x) \cup {b} ELSE Own(x)
<1>1. HeapType'
  BY ChainAssumption DEF HeapType, AtHead
<1>2. /\ c \in alive /\ c \in Chains /\ b \in Blocks /\ b # NULL /\ b \notin live
      /\ alive' = alive
      /\ head[c] \in Blocks \cup {NULL} /\ NULL \notin Blocks
      /\ \A y \in live : y \in Blocks
  BY ChainAssumption DEF HeapType, AtHead
<1>3. \A x \in alive : Own(x)' = IF x = c THEN Own(x) \cup {b} ELSE Own(x)
  BY DEF HeapType, AtHead, Own
<1>4. /\ head[c] = NULL => Own(c) = {}
      /\ head[c] # NULL => head[c] \in Own(c) /\ tail'[c] = tail[c] /\ tail[c] \in Own(c)
      /\ head[c] = NULL => tail'[c] = b
      /\ head'[c] = b
      /\ \A x \in alive : x # c => head'[x] = head[x] /\ tail'[x] = tail[x]
  BY <1>2 DEF HeapType, AtHead, Anchored, Own
<1>5. /\ next'[b] = head[c]
      /\ \A y \in live : next'[y] = next[y]
      /\ last'[b] = NULL
      /\ \A y \in live : last'[y] = IF y = head[c] THEN b ELSE last[y]
  BY <1>2, <1>4 DEF HeapType, AtHead
<1>6. /\ live' = live \cup {b} /\ owner'[b] = c
      /\ \A y \in live : owner'[y] = owner[y]
  BY <1>2 DEF HeapType, AtHead
<1>7. LinksInverse'
  BY <1>2, <1>3, <1>4, <1>5, <1>6 DEF LinksInverse, Shape, Sides, Own
<1>8. \A x \in alive : Sides(x)'
  BY <1>2, <1>3, <1>4, <1>5 DEF Shape, Sides, LinksInverse, Own
<1>9. Listed'
  <2>1. PICK p \in [Blocks -> Int] : \A x \in alive : Numbered(p, x)
    BY DEF Shape, Listed
  <2>2. PICK n \in Int : head[c] # NULL => n = p[head[c]] - 1
    BY <1>2
  <2>3. PICK q \in [Blocks -> Int] : q = [p EXCEPT ![b] = n]
    OBVIOUS
  <2>4. /\ q[b] = n
        /\ \A y \in live : q[y] = p[y] /\ p[y] \in Int
    BY <1>2, <2>3
  <2>5. \A x \in alive : \A y \in Own(x) : y \in live /\ (next[y] # NULL => next[y] \in Own(x))
    BY DEF Own, Shape, LinksInverse
  <2>6. ASSUME NEW x \in alive, x # c
        PROVE  Numbered(q, x)'
    BY <2>1, <2>4, <2>5, <2>6, <1>3, <1>4, <1>5 DEF Numbered
  <2>7. \A y \in Own(c) : p[y] > n
    BY <2>1, <2>2, <2>4, <2>5, <1>2, <1>4 DEF Numbered
  <2>8. Numbered(q, c)'
    BY <2>1, <2>2, <2>4, <2>5, <2>7, <1>2, <1>3, <1>4, <1>5 DEF Numbered
  <2> QED BY <2>6, <2>8, <1>2 DEF Listed
<1> QED BY <1>1, <1>2, <1>3, <1>7, <1>8, <1>9 DEF Shape

\* A block b added to the chain c at its tail (Chain_push_to_tail).
AtTail(c, b) ==
  /\ c \in alive /\ b \in Blocks \ live
  /\ Anchored(c, tail[c]) /\ Anchored(c, head[c])
  /\ alive' = alive /\ live' = live \cup {b} /\ owner' = [owner EXCEPT ![b] = c]
  /\ last' = [last EXCEPT ![b] = tail[c]]
  /\ next' = IF tail[c] # NULL THEN [next EXCEPT ![tail[c]] = b, ![b] = NULL]
                               ELSE [next EXCEPT ![b] = NULL]
  /\ tail' = [tail EXCEPT ![c] = b]
  /\ head' = IF tail[c] # NULL THEN head ELSE [head EXCEPT ![c] = b]

LEMMA AddTail ==
  ASSUME HeapType, Shape, NEW c, NEW b, AtTail(c, b)
  PROVE  /\ HeapType' /\ Shape'
         /\ \A x \in alive : Own(x)' = IF x = c THEN Own(x) \cup {b} ELSE Own(x)
<1>1. HeapType'
  BY ChainAssumption DEF HeapType, AtTail
<1>2. /\ c \in alive /\ c \in Chains /\ b \in Blocks /\ b # NULL /\ b \notin live
      /\ alive' = alive
      /\ tail[c] \in Blocks \cup {NULL} /\ NULL \notin Blocks
      /\ \A y \in live : y \in Blocks
  BY ChainAssumption DEF HeapType, AtTail
<1>3. \A x \in alive : Own(x)' = IF x = c THEN Own(x) \cup {b} ELSE Own(x)
  BY DEF HeapType, AtTail, Own
<1>4. /\ tail[c] = NULL => Own(c) = {}
      /\ tail[c] # NULL => tail[c] \in Own(c) /\ head'[c] = head[c] /\ head[c] \in Own(c)
      /\ tail[c] = NULL => head'[c] = b
      /\ tail'[c] = b
      /\ \A x \in alive : x # c => tail'[x] = tail[x] /\ head'[x] = head[x]
  BY <1>2 DEF HeapType, AtTail, Anchored, Own
<1>5. /\ last'[b] = tail[c]
      /\ \A y \in live : last'[y] = last[y]
      /\ next'[b] = NULL
      /\ \A y \in live : next'[y] = IF y = tail[c] THEN b ELSE next[y]
  BY <1>2, <1>4 DEF HeapType, AtTail
<1>6. /\ live' = live \cup {b} /\ owner'[b] = c
      /\ \A y \in live : owner'[y] = owner[y]
  BY <1>2 DEF HeapType, AtTail
<1>7. LinksInverse'
  BY <1>2, <1>3, <1>4, <1>5, <1>6 DEF LinksInverse, Shape, Sides, Own
<1>8. \A x \in alive : Sides(x)'
  BY <1>2, <1>3, <1>4, <1>5 DEF Shape, Sides, LinksInverse, Own
<1>9. Listed'
  <2>1. PICK p \in [Blocks -> Int] : \A x \in alive : Numbered(p, x)
    BY DEF Shape, Listed
  <2>2. PICK n \in Int : tail[c] # NULL => n = p[tail[c]] + 1
    BY <1>2
  <2>3. PICK q \in [Blocks -> Int] : q = [p EXCEPT ![b] = n]
    OBVIOUS
  <2>4. /\ q[b] = n
        /\ \A y \in live : q[y] = p[y] /\ p[y] \in Int
    BY <1>2, <2>3
  <2>5. \A x \in alive : \A y \in Own(x) : y \in live /\ (next[y] # NULL => next[y] \in Own(x))
    BY DEF Own, Shape, LinksInverse
  <2>6. ASSUME NEW x \in alive, x # c
        PROVE  Numbered(q, x)'
    <3>1. \A y \in Own(x) : next'[y] = next[y]
      BY <2>5, <2>6, <1>2, <1>4, <1>5 DEF Own
    <3>2. Own(x)' = Own(x) /\ head'[x] = head[x] /\ tail'[x] = tail[x]
      BY <2>6, <1>3, <1>4
    <3> QED BY <2>1, <2>4, <2>5, <3>1, <3>2 DEF Numbered
  <2>7. \A y \in Own(c) : p[y] < n
    BY <2>1, <2>2, <2>4, <2>5, <1>2, <1>4 DEF Numbered
  <2>8. Numbered(q, c)'
    BY <2>1, <2>2, <2>4, <2>5, <2>7, <1>2, <1>3, <1>4, <1>5 DEF Numbered
  <2> QED BY <2>6, <2>8, <1>2 DEF Listed
<1> QED BY <1>1, <1>2, <1>3, <1>7, <1>8, <1>9 DEF Shape

\* The first block b of the chain c taken off and freed (Chain_pop_from_head,
\* Chain_free_from_head).
OffHead(c, b) ==
  /\ c \in alive /\ b = head[c] /\ b \in Own(c)
  /\ alive' = alive /\ live' = live \ {b} /\ owner' = [owner EXCEPT ![b] = NULL]
  /\ HeapType'
  /\ \A y \in live \ {b} : next'[y] = next[y] /\ last'[y] = IF y = next[b] THEN NULL ELSE last[y]
  /\ head' = [head EXCEPT ![c] = next[b]]
  /\ \A x \in alive : tail'[x] # tail[x] => x = c /\ b = tail[c]

LEMMA RemoveHead ==
  ASSUME HeapType, Shape, NEW c, NEW b, OffHead(c, b)
  PROVE  /\ Shape'
         /\ \A x \in alive : Own(x)' = IF x = c THEN Own(x) \ {b} ELSE Own(x)
         /\ IF next[b] = NULL THEN Own(c) = {b} ELSE next[b] \in Own(c)'
<1>1. /\ c \in alive /\ c \in Chains /\ b \in Blocks /\ b # NULL /\ b \in live /\ b \in Own(c)
      /\ alive' = alive /\ live' = live \ {b} /\ b = head[c] /\ owner[b] = c
      /\ NULL \notin Blocks /\ NULL \notin Chains
      /\ \A y \in live : y \in Blocks
  BY ChainAssumption DEF HeapType, OffHead, Own
<1>2. \A x \in alive : Own(x)' = IF x = c THEN Own(x) \ {b} ELSE Own(x)
  BY <1>1, ChainAssumption DEF HeapType, OffHead, Own
<1>3. /\ \A y \in live \ {b} : next'[y] = next[y] /\ last'[y] = IF y = next[b] THEN NULL ELSE last[y]
      /\ head'[c] = next[b]
      /\ \A x \in alive : x # c => head'[x] = head[x] /\ tail'[x] = tail[x]
      /\ tail'[c] # tail[c] => b = tail[c]
      /\ \A y \in live \ {b} : owner'[y] = owner[y]
  BY <1>1 DEF HeapType, OffHead
<1>4. /\ \A x \in alive : \A y \in Own(x) : y \in live /\ (next[y] # NULL => next[y] \in Own(x))
      /\ \A x, y \in alive : x # y => Own(x) \cap Own(y) = {}
      /\ next[b] # b
      /\ last[b] = NULL
      /\ next[b] = NULL <=> b = tail[c]
      /\ \A y \in live : owner[y] \in alive => y \in Own(owner[y])
  BY <1>1 DEF Own, Shape, LinksInverse, Sides
<1>5. PICK p \in [Blocks -> Int] : \A x \in alive : Numbered(p, x)
  BY DEF Shape, Listed
<1>6. \A x \in live : p[x] \in Int
  BY <1>1
<1>7. ASSUME next[b] = NULL PROVE Own(c) = {b}
  <2>1. \A y \in Own(c) : p[y] <= p[b] /\ p[b] <= p[y]
    BY <1>1, <1>4, <1>5, <1>7 DEF Numbered
  <2>2. \A y \in Own(c) : p[y] = p[b]
    BY <2>1, <1>1, <1>4, <1>6
  <2> QED BY <2>2, <1>1, <1>5 DEF Numbered
<1>8. next[b] # NULL => next[b] \in Own(c)'
  BY <1>1, <1>2, <1>4
<1>9. LinksInverse'
  BY <1>1, <1>2, <1>3, <1>4 DEF LinksInverse, Shape, Own
<1>10. \A x \in alive : Sides(x)'
  <2>1. ASSUME NEW x \in alive, NEW y \in Own(x)'
        PROVE  /\ last'[y] = NULL <=> y = head'[x]
               /\ next'[y] = NULL <=> y = tail'[x]
    <3>1. CASE x # c
      BY <3>1, <2>1, <1>1, <1>2, <1>3, <1>4 DEF Shape, Sides
    <3>2. CASE x = c
      <4>1. y \in Own(c) /\ y # b /\ next[b] # NULL /\ tail'[c] = tail[c]
        BY <3>2, <2>1, <1>2, <1>1, <1>3, <1>4, <1>7
      <4>2. last[y] # NULL /\ (next[y] = NULL <=> y = tail[c])
        BY <4>1, <1>1 DEF Shape, Sides
      <4>3. y = next[b] <=> last'[y] = NULL
        BY <4>1, <4>2, <1>1, <1>3, <1>4
      <4> QED BY <3>2, <4>1, <4>2, <4>3, <1>3, <1>4
    <3> QED BY <3>1, <3>2
  <2> QED BY <2>1 DEF Sides
<1>11. Listed'
  <2>1. ASSUME NEW x \in alive, x # c
        PROVE  Numbered(p, x)'
    BY <2>1, <1>1, <1>2, <1>3, <1>4, <1>5 DEF Numbered
  <2>2. Numbered(p, c)'
    <3>1. CASE next[b] = NULL
      BY <3>1, <1>1, <1>2, <1>7 DEF Numbered
    <3>2. CASE next[b] # NULL
      <4>1. /\ Own(c)' = Own(c) \ {b} /\ head'[c] = next[b] /\ tail'[c] = tail[c]
            /\ p[next[b]] = p[b] + 1 /\ next[b] \in Own(c)
        BY <3>2, <1>1, <1>2, <1>3, <1>4, <1>5 DEF Numbered
      <4>2. \A y \in Own(c) \ {b} : p[y] # p[b] /\ p[b] <= p[y]
        BY <1>1, <1>5 DEF Numbered
      <4>3. \A y \in Own(c) \ {b} : p[next[b]] <= p[y]
        BY <4>1, <4>2, <1>1, <1>4, <1>6
      <4>4. \A y \in Own(c) \ {b} : next'[y] = next[y]
        BY <1>3, <1>4, <1>1
      <4> QED BY <4>1, <4>3, <4>4, <1>1, <1>5 DEF Numbered
    <3> QED BY <3>1, <3>2
  <2> QED BY <2>1, <2>2, <1>1, <1>5 DEF Listed
<1> QED BY <1>1, <1>2, <1>7, <1>8, <1>9, <1>10, <1>11 DEF Shape

\* The final block b of the chain c taken off and freed (Chain_pop_from_tail,
\* Chain_free_from_tail).
OffTail(c, b) ==
  /\ c \in alive /\ b = tail[c] /\ b \in Own(c)
  /\ alive' = alive /\ live' = live \ {b} /\ owner' = [owner EXCEPT ![b] = NULL]
  /\ HeapType'
  /\ \A y \in live \ {b} : last'[y] = last[y] /\ next'[y] = IF y = last[b] THEN NULL ELSE next[y]
  /\ tail' = [tail EXCEPT ![c] = last[b]]
  /\ \A x \in alive : head'[x] # head[x] => x = c /\ b = head[c]

LEMMA RemoveTail ==
  ASSUME HeapType, Shape, NEW c, NEW b, OffTail(c, b)
  PROVE  /\ Shape'
         /\ \A x \in alive : Own(x)' = IF x = c THEN Own(x) \ {b} ELSE Own(x)
         /\ IF last[b] = NULL THEN Own(c) = {b} ELSE last[b] \in Own(c)'
<1>1. /\ c \in alive /\ c \in Chains /\ b \in Blocks /\ b # NULL /\ b \in live /\ b \in Own(c)
      /\ alive' = alive /\ live' = live \ {b} /\ b = tail[c] /\ owner[b] = c
      /\ NULL \notin Blocks /\ NULL \notin Chains
      /\ \A y \in live : y \in Blocks
  BY ChainAssumption DEF HeapType, OffTail, Own
<1>2. \A x \in alive : Own(x)' = IF x = c THEN Own(x) \ {b} ELSE Own(x)
  BY <1>1, ChainAssumption DEF HeapType, OffTail, Own
<1>3. /\ \A y \in live \ {b} : last'[y] = last[y] /\ next'[y] = IF y = last[b] THEN NULL ELSE next[y]
      /\ tail'[c] = last[b]
      /\ \A x \in alive : x # c => tail'[x] = tail[x] /\ head'[x] = head[x]
      /\ head'[c] # head[c] => b = head[c]
      /\ \A y \in live \ {b} : owner'[y] = owner[y]
  BY <1>1 DEF HeapType, OffTail
<1>4. /\ \A x \in alive : \A y \in Own(x) : y \in live /\ (last[y] # NULL => last[y] \in Own(x))
      /\ \A x, y \in alive : x # y => Own(x) \cap Own(y) = {}
      /\ last[b] # b
      /\ next[b] = NULL
      /\ last[b] = NULL <=> b = head[c]
      /\ \A y \in live : owner[y] \in alive => y \in Own(owner[y])
  BY <1>1 DEF Own, Shape, LinksInverse, Sides
<1>5. PICK p \in [Blocks -> Int] : \A x \in alive : Numbered(p, x)
  BY DEF Shape, Listed
<1>6. \A x \in live : p[x] \in Int
  BY <1>1
<1>7. ASSUME last[b] = NULL PROVE Own(c) = {b}
  <2>1. \A y \in Own(c) : p[y] <= p[b] /\ p[b] <= p[y]
    BY <1>1, <1>4, <1>5, <1>7 DEF Numbered
  <2>2. \A y \in Own(c) : p[y] = p[b]
    BY <2>1, <1>1, <1>4, <1>6
  <2> QED BY <2>2, <1>1, <1>5 DEF Numbered
<1>8. last[b] # NULL => last[b] \in Own(c)'
  BY <1>1, <1>2, <1>4
<1>9. LinksInverse'
  BY <1>1, <1>2, <1>3, <1>4 DEF LinksInverse, Shape, Own
<1>10. \A x \in alive : Sides(x)'
  <2>1. ASSUME NEW x \in alive, NEW y \in Own(x)'
        PROVE  /\ next'[y] = NULL <=> y = tail'[x]
               /\ last'[y] = NULL <=> y = head'[x]
    <3>1. CASE x # c
      BY <3>1, <2>1, <1>1, <1>2, <1>3, <1>4 DEF Shape, Sides
    <3>2. CASE x = c
      <4>1. y \in Own(c) /\ y # b /\ last[b] # NULL /\ head'[c] = head[c]
        BY <3>2, <2>1, <1>2, <1>1, <1>3, <1>4, <1>7
      <4>2. next[y] # NULL /\ (last[y] = NULL <=> y = head[c])
        BY <4>1, <1>1 DEF Shape, Sides
      <4>3. y = last[b] <=> next'[y] = NULL
        BY <4>1, <4>2, <1>1, <1>3, <1>4
      <4> QED BY <3>2, <4>1, <4>2, <4>3, <1>3, <1>4
    <3> QED BY <3>1, <3>2
  <2> QED BY <2>1 DEF Sides
<1>11. Listed'
  <2>1. ASSUME NEW x \in alive, x # c
        PROVE  Numbered(p, x)'
    <3>1. \A y \in Own(x) : next'[y] = next[y]
      BY <2>1, <1>1, <1>3, <1>4
    <3>2. Own(x)' = Own(x) /\ head'[x] = head[x] /\ tail'[x] = tail[x]
      BY <2>1, <1>2, <1>3
    <3> QED BY <3>1, <3>2, <1>5 DEF Numbered
  <2>2. Numbered(p, c)'
    <3>1. CASE last[b] = NULL
      BY <3>1, <1>1, <1>2, <1>7 DEF Numbered
    <3>2. CASE last[b] # NULL
      <4>1. /\ Own(c)' = Own(c) \ {b} /\ tail'[c] = last[b] /\ head'[c] = head[c]
            /\ last[b] \in Own(c) /\ next[last[b]] = b
        BY <3>2, <1>1, <1>2, <1>3, <1>4 DEF Shape, LinksInverse
      <4>2. \A y \in Own(c) \ {b} : p[y] # p[b] /\ p[y] <= p[b]
        BY <1>1, <1>5 DEF Numbered
      <4>3. \A y \in Own(c) \ {b} : p[y] <= p[last[b]]
        <5>1. p[b] = p[last[b]] + 1
          BY <4>1, <1>1, <1>5 DEF Numbered
        <5> QED BY <5>1, <4>1, <4>2, <1>1, <1>4, <1>6
      <4>4. \A y \in Own(c) \ {b} : next'[y] # NULL => next'[y] = next[y]
        BY <1>3, <1>4, <1>1
      <4> QED BY <4>1, <4>3, <4>4, <1>1, <1>5 DEF Numbered
    <3> QED BY <3>1, <3>2
  <2> QED BY <2>1, <2>2, <1>1, <1>5 DEF Listed
<1> QED BY <1>1, <1>2, <1>7, <1>8, <1>9, <1>10, <1>11 DEF Shape

-----------------------------------------------------------------------------
(* The inductive invariant.                                                 *)

Cloning == {"clone", "reverse", "reverse_clear", "reverse_push", "reverse_release"}
FreeLoops == {"free_from_head", "free_from_tail"}

\* A running handler works on allocated chains; the clone retains as its source
\* does until Chain_reverse clears its flag.
CallOK ==
  /\ call.pc \in Loops => call.this \in alive
  /\ call.pc \in Cloning => call.that \in alive /\ call.that # call.this
  /\ call.pc \in {"clone", "reverse"} => retain[call.that] = retain[call.this]
  /\ call.pc \in Cloning \ {"clone", "reverse"} => ~retain[call.that]
  /\ call.pc \in FreeLoops /\ call.that # NULL => ~retain[call.this]

\* The clone of a reverse, once its retain flag is cleared.
Temporary(c) == \/ call.pc \in Cloning \ {"clone", "reverse"} /\ c = call.that
                \/ call.pc \in FreeLoops /\ c = call.this /\ call.that # NULL

\* A live block belongs to an allocated chain or to none, and it retained its
\* payload exactly if its chain retains; those of a temporary clone did if the
\* chain that is being reversed retains.
BlocksOK ==
  \A b \in live :
    /\ owner[b] \in alive \cup {NULL}
    /\ counted[b] => data[b] \in Objs
    /\ owner[b] \in alive /\ ~Temporary(owner[b]) => counted[b] = retain[owner[b]]
    /\ call.pc \in {"reverse_clear", "reverse_push"} /\ owner[b] = call.that =>
         counted[b] = retain[call.this]

\* The loops that push what a cursor finds have it on a block of its chain.
CursorsOK ==
  /\ call.pc \in {"clone", "reverse"} => cursor[call.this] \in Own(call.this) \cup {NULL}
  /\ call.pc = "reverse_push" => cursor[call.that] \in Own(call.that) \cup {NULL}

IInv == /\ TypeOK /\ CallOK /\ LinksInverse /\ EndsOK /\ Listed /\ SizeCounts
        /\ BlocksOK /\ CursorsOK /\ RefCounts

LEMMA InvShape ==
  ASSUME IInv
  PROVE  HeapType /\ Shape
BY DEF IInv, TypeOK, HeapType, Shape, EndsOK

-----------------------------------------------------------------------------
(* Counting.                                                                *)

LEMMA FiniteParts ==
  ASSUME TypeOK
  PROVE  /\ \A c : IsFiniteSet(Own(c)) /\ Cardinality(Own(c)) \in Nat
         /\ \A o : IsFiniteSet(Counting(o)) /\ Cardinality(Counting(o)) \in Nat
<1>1. IsFiniteSet(live)
  BY ChainAssumption, FS_Subset DEF TypeOK
<1>2. ASSUME NEW S \in SUBSET live PROVE IsFiniteSet(S) /\ Cardinality(S) \in Nat
  BY <1>1, FS_Subset, FS_CardinalityType
<1>3. \A c : Own(c) \in SUBSET live
  BY DEF Own
<1>4. \A o : Counting(o) \in SUBSET live
  BY DEF Counting
<1> QED BY <1>2, <1>3, <1>4

\* What a push leaves: the block b is new and everything else is as it was.
Pushed(c, d, b) ==
  /\ b \in Blocks \ live /\ live' = live \cup {b}
  /\ owner' = [owner EXCEPT ![b] = c]
  /\ data' = [data EXCEPT ![b] = d]
  /\ counted' = [counted EXCEPT ![b] = retain[c]]
  /\ size' = [size EXCEPT ![c] = @ + 1]
  /\ gcCount' = IF retain[c] THEN [gcCount EXCEPT ![d] = @ + 1] ELSE gcCount
  /\ head' \in [Chains -> Blocks \cup {NULL}]
  /\ tail' \in [Chains -> Blocks \cup {NULL}]
  /\ next' \in [Blocks -> Blocks \cup {NULL}]
  /\ last' \in [Blocks -> Blocks \cup {NULL}]

\* Both pushes keep the list, its size and the reference counts.
LEMMA PushStep ==
  ASSUME IInv, NEW c \in alive, NEW d \in Payloads, retain[c] => d \in Objs,
         call.pc \notin FreeLoops, call' = call,
         UNCHANGED <<held, chainVars, leaked>>,
         Chain_push_to_head(c, d) \/ Chain_push_to_tail(c, d)
  PROVE  /\ LinksInverse' /\ EndsOK' /\ Listed' /\ SizeCounts' /\ RefCounts'
         /\ \E b \in Blocks : Pushed(c, d, b)
<1> USE ChainAssumption
<1>1. HeapType /\ Shape
  BY InvShape
<1>2. /\ Anchored(c, head[c]) /\ Anchored(c, tail[c])
      /\ c \in Chains
  BY DEF IInv, EndsOK, Freeing, FreeLoops, TypeOK
<1>3. (head[c] = NULL <=> Own(c) = {}) /\ (tail[c] = NULL <=> Own(c) = {})
  BY <1>2 DEF Anchored, Own, IInv, TypeOK
<1>4. PICK b \in Blocks : (AtHead(c, b) \/ AtTail(c, b)) /\ Pushed(c, d, b)
  <2>1. CASE Chain_push_to_head(c, d)
    <3>1. PICK b \in Blocks \ live : Chain_push_to_head(c, d)!(b)
      BY <2>1 DEF Chain_push_to_head
    <3>2. AtHead(c, b)
      BY <3>1, <1>2, <1>3 DEF Block_new, AtHead, chainVars
    <3>3. /\ head' \in [Chains -> Blocks \cup {NULL}] /\ tail' \in [Chains -> Blocks \cup {NULL}]
          /\ next' \in [Blocks -> Blocks \cup {NULL}] /\ last' \in [Blocks -> Blocks \cup {NULL}]
      BY <1>1, <3>2, AddHead DEF HeapType
    <3> QED BY <3>1, <3>2, <3>3 DEF Block_new, Pushed, Object_retain
  <2>2. CASE Chain_push_to_tail(c, d)
    <3>1. PICK b \in Blocks \ live : Chain_push_to_tail(c, d)!(b)
      BY <2>2 DEF Chain_push_to_tail
    <3>2. AtTail(c, b)
      BY <3>1, <1>2, <1>3 DEF Block_new, AtTail, chainVars
    <3>3. /\ head' \in [Chains -> Blocks \cup {NULL}] /\ tail' \in [Chains -> Blocks \cup {NULL}]
          /\ next' \in [Blocks -> Blocks \cup {NULL}] /\ last' \in [Blocks -> Blocks \cup {NULL}]
      BY <1>1, <3>2, AddTail DEF HeapType
    <3> QED BY <3>1, <3>2, <3>3 DEF Block_new, Pushed, Object_retain
  <2> QED BY <2>1, <2>2
<1>5. /\ Shape' /\ HeapType'
      /\ \A x \in alive : Own(x)' = IF x = c THEN Own(x) \cup {b} ELSE Own(x)
  BY <1>1, <1>4, AddHead, AddTail
<1>6. alive' = alive /\ b \notin live /\ retain' = retain
  BY <1>4 DEF Pushed, chainVars
<1>7. EndsOK'
  <2>1. Anchored(c, head[c])' /\ Anchored(c, tail[c])'
    BY <1>2, <1>3, <1>4, <1>5 DEF AtHead, AtTail, Anchored, IInv, TypeOK
  <2>2. ASSUME NEW x \in alive, x # c
        PROVE  head'[x] = head[x] /\ tail'[x] = tail[x] /\ Own(x)' = Own(x)
    BY <2>2, <1>2, <1>4, <1>5 DEF AtHead, AtTail, IInv, TypeOK
  <2> QED BY <2>1, <2>2, <1>5, <1>6 DEF EndsOK, Shape, IInv, Anchored, Freeing, FreeLoops
<1>8. SizeCounts'
  <2>1. b \notin Own(c) /\ IsFiniteSet(Own(c)) /\ Cardinality(Own(c)) \in Nat
    BY <1>6, FiniteParts DEF Own, IInv
  <2>2. Cardinality(Own(c)') = Cardinality(Own(c)) + 1
    BY <2>1, <1>5, FS_AddElement
  <2>3. size'[c] = size[c] + 1 /\ \A x \in alive : x # c => size'[x] = size[x]
    BY <1>2, <1>4 DEF Pushed, IInv, TypeOK
  <2>4. size[c] = Cardinality(Own(c)) /\ \A x : ~Freeing(x) /\ ~Freeing(x)'
    BY DEF IInv, SizeCounts, Freeing, FreeLoops
  <2> QED BY <2>2, <2>3, <2>4, <1>5, <1>6 DEF SizeCounts, IInv
<1>9. RefCounts'
  <2>1. ASSUME NEW o \in Objs
        PROVE  gcCount'[o] = held'[o] + leaked'[o] + Cardinality(Counting(o)')
    <3>1. IsFiniteSet(Counting(o)) /\ Cardinality(Counting(o)) \in Nat /\ b \notin Counting(o)
      BY <1>6, FiniteParts DEF Counting, IInv
    <3>2. /\ gcCount[o] = held[o] + leaked[o] + Cardinality(Counting(o))
          /\ held[o] \in Nat /\ leaked[o] \in Nat /\ held' = held /\ leaked' = leaked
      BY DEF RefCounts, IInv, TypeOK, ObjectTypeOK
    <3>3. CASE retain[c] /\ o = d
      <4>1. Counting(o)' = Counting(o) \cup {b} /\ gcCount'[o] = gcCount[o] + 1
        BY <3>3, <1>4 DEF Counting, Pushed, IInv, TypeOK, ObjectTypeOK
      <4>2. Cardinality(Counting(o) \cup {b}) = Cardinality(Counting(o)) + 1
        BY <3>1, FS_AddElement
      <4> QED BY <4>1, <4>2, <3>1, <3>2
    <3>4. CASE ~(retain[c] /\ o = d)
      <4>1. counted'[b] => data'[b] # o
        <5>1. counted'[b] = retain[c] /\ data'[b] = d
          BY <1>4 DEF Pushed, IInv, TypeOK
        <5> QED BY <3>4, <5>1
      <4>2. \A x \in live : counted'[x] = counted[x] /\ data'[x] = data[x]
        BY <1>4, <1>6 DEF Pushed, IInv, TypeOK
      <4>3. Counting(o)' = Counting(o)
        BY <4>1, <4>2, <1>4 DEF Counting, Pushed
      <4>4. gcCount'[o] = gcCount[o]
        BY <3>4, <1>4 DEF Pushed, IInv, TypeOK, ObjectTypeOK
      <4> QED BY <4>3, <4>4, <3>2
    <3> QED BY <3>3, <3>4
  <2> QED BY <2>1 DEF RefCounts
<1> QED BY <1>4, <1>5, <1>7, <1>8, <1>9 DEF Shape

\* What freeing the block b of the chain c leaves.
Dropped(c, b) ==
  /\ b \in Own(c) /\ live' = live \ {b}
  /\ owner' = [owner EXCEPT ![b] = NULL]
  /\ data' = [data EXCEPT ![b] = NULL]
  /\ counted' = [counted EXCEPT ![b] = FALSE]
  /\ ReleaseData(c, b)

\* A block is freed with the release its push calls for, or what it held is
\* accounted as leaked; the latter happens to temporary clones only.
LEMMA ReleaseStep ==
  ASSUME IInv, NEW c \in alive, NEW b, Dropped(c, b), held' = held
  PROVE  /\ RefCounts' /\ ObjectTypeOK' /\ leaked' \in [Objs -> Nat]
         /\ ~Temporary(c) => leaked' = leaked
<1> USE ChainAssumption
<1>1. /\ b \in live /\ b \in Blocks /\ owner[b] = c /\ c \in Chains
      /\ gcCount \in [Objs -> Nat] /\ held \in [Objs -> Nat] /\ leaked \in [Objs -> Nat]
      /\ counted \in [Blocks -> BOOLEAN] /\ retain \in [Chains -> BOOLEAN]
      /\ data \in [Blocks -> Objs \cup {NULL}]
  BY DEF IInv, TypeOK, ObjectTypeOK, Dropped, Own
<1>2. /\ counted[b] => data[b] \in Objs
      /\ ~Temporary(c) => counted[b] = retain[c]
  BY <1>1 DEF IInv, BlocksOK
<1>3. Temporary(c) => ~retain[c]
  BY DEF IInv, CallOK, Temporary
<1>4. retain[c] => counted[b]
  BY <1>1, <1>2, <1>3
<1>5. /\ gcCount' = IF retain[c] THEN [gcCount EXCEPT ![data[b]] = @ - 1] ELSE gcCount
      /\ leaked' = IF counted[b] /\ ~retain[c] THEN [leaked EXCEPT ![data[b]] = @ + 1] ELSE leaked
  BY DEF Dropped, ReleaseData, Object_release
<1>6. ASSUME NEW o \in Objs
      PROVE  /\ gcCount'[o] = held'[o] + leaked'[o] + Cardinality(Counting(o)')
             /\ gcCount'[o] \in Nat
  <2>1. IsFiniteSet(Counting(o)) /\ Cardinality(Counting(o)) \in Nat
    BY FiniteParts DEF IInv
  <2>2. gcCount[o] = held[o] + leaked[o] + Cardinality(Counting(o)) /\ held[o] \in Nat /\ leaked[o] \in Nat
    BY <1>1 DEF RefCounts, IInv
  <2>3. Counting(o)' = Counting(o) \ {b}
    BY <1>1 DEF Counting, Dropped
  <2>4. /\ Cardinality(Counting(o) \ {b}) =
             IF b \in Counting(o) THEN Cardinality(Counting(o)) - 1 ELSE Cardinality(Counting(o))
        /\ Cardinality(Counting(o) \ {b}) \in Nat
    BY <2>1, FS_RemoveElement, FS_CardinalityType
  <2>5. b \in Counting(o) <=> counted[b] /\ data[b] = o
    BY <1>1 DEF Counting
  <2> DEFINE n == Cardinality(Counting(o))
             m == Cardinality(Counting(o)')
  <2>6. CASE b \in Counting(o) /\ retain[c]
    <3>1. gcCount'[o] = gcCount[o] - 1 /\ leaked'[o] = leaked[o]
      BY <2>5, <2>6, <1>1, <1>5
    <3>2. m = n - 1 /\ m \in Nat
      BY <2>3, <2>4, <2>6
    <3> HIDE DEF n, m
    <3>3. gcCount[o] = held[o] + leaked[o] + n /\ n \in Nat
      BY <2>1, <2>2 DEF n
    <3> QED BY <3>1, <3>2, <3>3, <2>2 DEF m
  <2>7. CASE b \in Counting(o) /\ ~retain[c]
    <3>1. gcCount'[o] = gcCount[o] /\ leaked'[o] = leaked[o] + 1
      BY <2>5, <2>7, <1>1, <1>5
    <3>2. m = n - 1 /\ m \in Nat
      BY <2>3, <2>4, <2>7
    <3> HIDE DEF n, m
    <3>3. gcCount[o] = held[o] + leaked[o] + n /\ n \in Nat
      BY <2>1, <2>2 DEF n
    <3> QED BY <3>1, <3>2, <3>3, <2>2 DEF m
  <2>8. CASE b \notin Counting(o)
    <3>1. counted[b] => data[b] # o
      BY <2>5, <2>8
    <3>2. gcCount'[o] = gcCount[o] /\ leaked'[o] = leaked[o]
      BY <3>1, <1>1, <1>4, <1>5
    <3> QED BY <3>2, <2>2, <2>3, <2>4, <2>8
  <2> QED BY <2>6, <2>7, <2>8
<1>7. leaked' \in [Objs -> Nat]
  BY <1>1, <1>2, <1>5
<1>8. gcCount' \in [Objs -> Nat]
  <2>1. gcCount' \in [Objs -> Int]
    BY <1>1, <1>2, <1>4, <1>5
  <2> QED BY <2>1, <1>6
<1>9. ~Temporary(c) => leaked' = leaked
  BY <1>1, <1>2, <1>5
<1> QED BY <1>1, <1>6, <1>7, <1>8, <1>9 DEF RefCounts, ObjectTypeOK

LEMMA PopHead ==
  ASSUME IInv, NEW c \in alive, head[c] # NULL, call.pc \notin FreeLoops,
         UNCHANGED chainVars, Chain_pop_from_head(c)
  PROVE  OffHead(c, head[c]) /\ Dropped(c, head[c])
         /\ size' = [size EXCEPT ![c] = IF next[head[c]] = NULL THEN 0 ELSE @ - 1]
         /\ tail' = IF next[head[c]] = NULL THEN [tail EXCEPT ![c] = NULL] ELSE tail
<1> DEFINE b == head[c]
<1>1. /\ Anchored(c, head[c]) /\ Anchored(c, tail[c]) /\ Sides(c)
      /\ c \in Chains
  BY DEF IInv, EndsOK, Freeing, FreeLoops, TypeOK
<1>2. b \in Own(c) /\ b \in Blocks /\ b \in live /\ b # NULL /\ owner[b] = c
  BY <1>1, ChainAssumption DEF Anchored, Own, IInv, TypeOK
<1>3. /\ last[b] = NULL /\ (next[b] = NULL <=> b = tail[c])
      /\ next[b] # NULL => next[b] \in live /\ next[b] # b
  BY <1>1, <1>2 DEF Sides, IInv, LinksInverse, Own
<1>4. HeapType
  BY InvShape
<1>5. /\ head' = [head EXCEPT ![c] = next[b]]
      /\ tail' = [tail EXCEPT ![c] = IF b = tail[c] THEN NULL ELSE @]
      /\ size' = [size EXCEPT ![c] = IF b = tail[c] THEN 0 ELSE @ - 1]
      /\ ReleaseData(c, b)
  BY <1>1, <1>2, <1>3, <1>4 DEF Chain_pop_from_head, HeapType, IInv, TypeOK
<1>6. \/ Block_free(b, next, last) /\ next[b] = NULL
      \/ Block_free(b, next, [last EXCEPT ![next[b]] = NULL]) /\ next[b] # NULL
  BY <1>2, <1>3 DEF Chain_pop_from_head
<1>7. /\ live' = live \ {b}
      /\ data' = [data EXCEPT ![b] = NULL]
      /\ owner' = [owner EXCEPT ![b] = NULL]
      /\ counted' = [counted EXCEPT ![b] = FALSE]
  BY <1>6 DEF Block_free
<1>8. /\ next' \in [Blocks -> Blocks \cup {NULL}] /\ last' \in [Blocks -> Blocks \cup {NULL}]
      /\ \A y \in live \ {b} : next'[y] = next[y] /\ last'[y] = IF y = next[b] THEN NULL ELSE last[y]
  BY <1>2, <1>3, <1>4, <1>6, ChainAssumption DEF Block_free, HeapType
<1>9. Dropped(c, b)
  BY <1>2, <1>5, <1>7 DEF Dropped
<1>10. HeapType'
  BY <1>1, <1>2, <1>3, <1>4, <1>5, <1>7, <1>8, ChainAssumption DEF HeapType, chainVars
<1>11. OffHead(c, b)
  BY <1>1, <1>2, <1>3, <1>4, <1>5, <1>7, <1>8, <1>10 DEF OffHead, chainVars, HeapType
<1> QED BY <1>3, <1>4, <1>5, <1>9, <1>11 DEF HeapType, IInv, TypeOK

LEMMA PopTail ==
  ASSUME IInv, NEW c \in alive, tail[c] # NULL, call.pc \notin FreeLoops,
         UNCHANGED chainVars, Chain_pop_from_tail(c)
  PROVE  OffTail(c, tail[c]) /\ Dropped(c, tail[c])
         /\ size' = [size EXCEPT ![c] = IF last[tail[c]] = NULL THEN 0 ELSE @ - 1]
         /\ head' = IF last[tail[c]] = NULL THEN [head EXCEPT ![c] = NULL] ELSE head
<1> DEFINE b == tail[c]
<1>1. /\ Anchored(c, head[c]) /\ Anchored(c, tail[c]) /\ Sides(c)
      /\ c \in Chains
  BY DEF IInv, EndsOK, Freeing, FreeLoops, TypeOK
<1>2. b \in Own(c) /\ b \in Blocks /\ b \in live /\ b # NULL /\ owner[b] = c
  BY <1>1, ChainAssumption DEF Anchored, Own, IInv, TypeOK
<1>3. /\ next[b] = NULL /\ (last[b] = NULL <=> b = head[c])
      /\ last[b] # NULL => last[b] \in live /\ last[b] # b
  BY <1>1, <1>2 DEF Sides, IInv, LinksInverse, Own
<1>4. HeapType
  BY InvShape
<1>5. /\ head' = [head EXCEPT ![c] = IF b = head[c] THEN NULL ELSE @]
      /\ tail' = [tail EXCEPT ![c] = last[b]]
      /\ size' = [size EXCEPT ![c] = IF b = head[c] THEN 0 ELSE @ - 1]
      /\ ReleaseData(c, b)
  BY <1>1, <1>2, <1>3, <1>4 DEF Chain_pop_from_tail, HeapType, IInv, TypeOK
<1>6. \/ Block_free(b, next, last) /\ last[b] = NULL
      \/ Block_free(b, [next EXCEPT ![last[b]] = NULL], last) /\ last[b] # NULL
  BY <1>2, <1>3 DEF Chain_pop_from_tail
<1>7. /\ live' = live \ {b}
      /\ data' = [data EXCEPT ![b] = NULL]
      /\ owner' = [owner EXCEPT ![b] = NULL]
      /\ counted' = [counted EXCEPT ![b] = FALSE]
  BY <1>6 DEF Block_free
<1>8. /\ last' \in [Blocks -> Blocks \cup {NULL}] /\ next' \in [Blocks -> Blocks \cup {NULL}]
      /\ \A y \in live \ {b} : last'[y] = last[y] /\ next'[y] = IF y = last[b] THEN NULL ELSE next[y]
  BY <1>2, <1>3, <1>4, <1>6, ChainAssumption DEF Block_free, HeapType
<1>9. Dropped(c, b)
  BY <1>2, <1>5, <1>7 DEF Dropped
<1>10. HeapType'
  BY <1>1, <1>2, <1>3, <1>4, <1>5, <1>7, <1>8, ChainAssumption DEF HeapType, chainVars
<1>11. OffTail(c, b)
  BY <1>1, <1>2, <1>3, <1>4, <1>5, <1>7, <1>8, <1>10 DEF OffTail, chainVars, HeapType
<1> QED BY <1>3, <1>4, <1>5, <1>9, <1>11 DEF HeapType, IInv, TypeOK

\* A pop keeps the list, its size and the reference counts; on an empty chain
\* it changes nothing.
LEMMA PopStep ==
  ASSUME IInv, NEW c \in alive, ~Temporary(c),
         call.pc \notin FreeLoops, call'.pc \notin FreeLoops,
         UNCHANGED <<held, chainVars>>,
         Chain_pop_from_head(c) \/ Chain_pop_from_tail(c)
  PROVE  /\ LinksInverse' /\ EndsOK' /\ Listed' /\ SizeCounts' /\ RefCounts'
         /\ HeapType' /\ ObjectTypeOK' /\ size' \in [Chains -> Nat]
         /\ leaked' = leaked
         /\ \/ UNCHANGED <<gcCount, blockVars, head, tail>>
            \/ \E b \in Own(c) : Dropped(c, b)
<1> USE ChainAssumption
<1>1. HeapType /\ Shape
  BY InvShape
<1>2. /\ Anchored(c, head[c]) /\ Anchored(c, tail[c]) /\ Sides(c)
      /\ c \in Chains /\ alive' = alive /\ held' = held
      /\ \A x : ~Freeing(x) /\ ~Freeing(x)'
  BY DEF IInv, EndsOK, Freeing, FreeLoops, TypeOK, chainVars
<1>3. CASE (Chain_pop_from_head(c) /\ head[c] = NULL) \/ (Chain_pop_from_tail(c) /\ tail[c] = NULL)
  <2>1. PopNothing(c) /\ Own(c) = {}
    BY <1>2, <1>3 DEF Chain_pop_from_head, Chain_pop_from_tail, Anchored, Own, IInv, TypeOK
  <2>2. /\ UNCHANGED <<gcCount, blockVars, head, tail>> /\ leaked' = leaked
        /\ size' = [size EXCEPT ![c] = 0]
    BY <2>1 DEF PopNothing
  <2>3. \A x : Own(x)' = Own(x)
    BY <2>2 DEF Own, blockVars
  <2>4. LinksInverse' /\ HeapType' /\ ObjectTypeOK'
    BY <1>1, <1>2, <2>2 DEF LinksInverse, Own, HeapType, ObjectTypeOK, IInv, TypeOK, Shape, blockVars
  <2>9. EndsOK'
    BY <1>2, <2>2, <2>3 DEF EndsOK, Sides, Anchored, IInv, blockVars
  <2>10. Listed'
    BY <1>2, <2>2, <2>3 DEF Listed, Numbered, IInv, blockVars
  <2>5. RefCounts'
    BY <1>2, <2>2 DEF RefCounts, Counting, IInv, blockVars
  <2>6. SizeCounts' /\ size' \in [Chains -> Nat]
    BY <1>2, <2>1, <2>2, <2>3, FS_EmptySet DEF SizeCounts, IInv, TypeOK
  <2> QED BY <2>2, <2>4, <2>5, <2>6, <2>9, <2>10
<1>4. ASSUME NEW b, NEW e, Dropped(c, b), HeapType', Shape',
             \A x \in alive : Own(x)' = IF x = c THEN Own(x) \ {b} ELSE Own(x),
             \A x \in alive : x # c => head'[x] = head[x] /\ tail'[x] = tail[x],
             Anchored(c, head[c])', Anchored(c, tail[c])',
             Own(c) = {b} <=> e = NULL,
             size' = [size EXCEPT ![c] = IF e = NULL THEN 0 ELSE @ - 1]
      PROVE  /\ LinksInverse' /\ EndsOK' /\ Listed' /\ SizeCounts' /\ RefCounts'
             /\ HeapType' /\ ObjectTypeOK' /\ size' \in [Chains -> Nat]
             /\ leaked' = leaked
             /\ \E x \in Own(c) : Dropped(c, x)
  <2>1. RefCounts' /\ ObjectTypeOK' /\ leaked' = leaked
    BY <1>2, <1>4, ReleaseStep
  <2>2. EndsOK'
    BY <1>2, <1>4 DEF EndsOK, Shape, Anchored, IInv
  <2>3. IsFiniteSet(Own(c)) /\ Cardinality(Own(c)) \in Nat /\ b \in Own(c)
    BY <1>4, FiniteParts DEF IInv, Dropped
  <2>4. /\ Cardinality(Own(c) \ {b}) = Cardinality(Own(c)) - 1
        /\ Cardinality(Own(c) \ {b}) \in Nat
    BY <2>3, FS_RemoveElement, FS_CardinalityType
  <2>5. size[c] = Cardinality(Own(c))
    BY <1>2 DEF SizeCounts, IInv
  <2>6. size'[c] = Cardinality(Own(c)') /\ size'[c] \in Nat
    <3>1. CASE e = NULL
      <4>1. Own(c)' = {} /\ size'[c] = 0
        BY <3>1, <1>2, <1>4 DEF IInv, TypeOK
      <4> QED BY <4>1, FS_EmptySet
    <3>2. CASE e # NULL
      <4>1. Own(c)' = Own(c) \ {b} /\ size'[c] = size[c] - 1
        BY <3>2, <1>2, <1>4 DEF IInv, TypeOK
      <4> QED BY <4>1, <2>4, <2>5
    <3> QED BY <3>1, <3>2
  <2>7. SizeCounts'
    <3>1. ASSUME NEW x \in alive, x # c
          PROVE  size'[x] = Cardinality(Own(x)')
      BY <3>1, <1>2, <1>4 DEF SizeCounts, IInv, TypeOK
    <3> QED BY <3>1, <2>6, <1>2 DEF SizeCounts
  <2>8. size' \in [Chains -> Nat]
    BY <2>6, <1>2, <1>4 DEF IInv, TypeOK
  <2> QED BY <1>4, <2>1, <2>2, <2>3, <2>7, <2>8 DEF Shape
<1>5. CASE Chain_pop_from_head(c) /\ head[c] # NULL
  <2>0. PICK b, e : b = head[c] /\ e = next[b]
    OBVIOUS
  <2>1. /\ OffHead(c, b) /\ Dropped(c, b)
        /\ size' = [size EXCEPT ![c] = IF e = NULL THEN 0 ELSE @ - 1]
        /\ tail' = IF e = NULL THEN [tail EXCEPT ![c] = NULL] ELSE tail
    BY <1>5, <2>0, PopHead
  <2>2. /\ Shape' /\ HeapType'
        /\ \A x \in alive : Own(x)' = IF x = c THEN Own(x) \ {b} ELSE Own(x)
        /\ IF next[b] = NULL THEN Own(c) = {b} ELSE next[b] \in Own(c)'
    <3>1. HeapType'
      BY <2>1 DEF OffHead
    <3>2. HeapType /\ Shape /\ OffHead(c, b)
      BY <1>1, <2>1
    <3> HIDE <2>0
    <3> QED BY <3>1, <3>2, RemoveHead
  <2>3. \A x \in alive : x # c => head'[x] = head[x] /\ tail'[x] = tail[x]
    BY <1>2, <2>1 DEF OffHead, HeapType
  <2>4. b \in Own(c) /\ b \in Blocks /\ head'[c] = e
    BY <1>1, <1>2, <2>0, <2>1 DEF OffHead, HeapType, Own
  <2>5. Own(c) = {b} <=> e = NULL
    BY <2>0, <2>2, <2>4, <1>2
  <2>6. Anchored(c, head[c])' /\ Anchored(c, tail[c])'
    <3>1. CASE e = NULL
      <4>1. Own(c)' = {} /\ tail'[c] = NULL
        BY <3>1, <2>0, <2>1, <2>2, <1>1, <1>2 DEF HeapType
      <4> QED BY <4>1, <3>1, <2>4 DEF Anchored
    <3>2. CASE e # NULL
      <4>1. tail[c] \in Own(c) /\ tail[c] # b /\ tail'[c] = tail[c]
        BY <3>2, <2>0, <2>1, <2>4, <1>2 DEF Anchored, Sides
      <4>2. e \in Own(c)' /\ Own(c)' = Own(c) \ {b}
        BY <3>2, <2>0, <2>2
      <4> QED BY <4>1, <4>2, <2>4 DEF Anchored
    <3> QED BY <3>1, <3>2
  <2> QED BY <1>4, <2>1, <2>2, <2>3, <2>5, <2>6
<1>6. CASE Chain_pop_from_tail(c) /\ tail[c] # NULL
  <2>0. PICK b, e : b = tail[c] /\ e = last[b]
    OBVIOUS
  <2>1. /\ OffTail(c, b) /\ Dropped(c, b)
        /\ size' = [size EXCEPT ![c] = IF e = NULL THEN 0 ELSE @ - 1]
        /\ head' = IF e = NULL THEN [head EXCEPT ![c] = NULL] ELSE head
    BY <1>6, <2>0, PopTail
  <2>2. /\ Shape' /\ HeapType'
        /\ \A x \in alive : Own(x)' = IF x = c THEN Own(x) \ {b} ELSE Own(x)
        /\ IF last[b] = NULL THEN Own(c) = {b} ELSE last[b] \in Own(c)'
    <3>1. HeapType'
      BY <2>1 DEF OffTail
    <3>2. HeapType /\ Shape /\ OffTail(c, b)
      BY <1>1, <2>1
    <3> HIDE <2>0
    <3> QED BY <3>1, <3>2, RemoveTail
  <2>3. \A x \in alive : x # c => head'[x] = head[x] /\ tail'[x] = tail[x]
    BY <1>2, <2>1 DEF OffTail, HeapType
  <2>4. b \in Own(c) /\ b \in Blocks /\ tail'[c] = e
    BY <1>1, <1>2, <2>0, <2>1 DEF OffTail, HeapType, Own
  <2>5. Own(c) = {b} <=> e = NULL
    BY <2>0, <2>2, <2>4, <1>2
  <2>6. Anchored(c, tail[c])' /\ Anchored(c, head[c])'
    <3>1. CASE e = NULL
      <4>1. Own(c)' = {} /\ head'[c] = NULL
        BY <3>1, <2>0, <2>1, <2>2, <1>1, <1>2 DEF HeapType
      <4> QED BY <4>1, <3>1, <2>4 DEF Anchored
    <3>2. CASE e # NULL
      <4>1. head[c] \in Own(c) /\ head[c] # b /\ head'[c] = head[c]
        BY <3>2, <2>0, <2>1, <2>4, <1>2 DEF Anchored, Sides
      <4>2. e \in Own(c)' /\ Own(c)' = Own(c) \ {b}
        BY <3>2, <2>0, <2>2
      <4> QED BY <4>1, <4>2, <2>4 DEF Anchored
    <3> QED BY <3>1, <3>2
  <2> QED BY <1>4, <2>1, <2>2, <2>3, <2>5, <2>6
<1> QED BY <1>3, <1>5, <1>6

\* Steps that touch no list and no block.
LEMMA SameHeap ==
  ASSUME IInv, call.pc \notin FreeLoops, UNCHANGED <<alive, listVars, blockVars>>
  PROVE  /\ LinksInverse' /\ EndsOK' /\ Listed' /\ SizeCounts'
         /\ \A c : Own(c)' = Own(c)
         /\ \A o : Counting(o)' = Counting(o)
<1>1. \A c : Own(c)' = Own(c)
  BY DEF Own, blockVars
<1>2. \A o : Counting(o)' = Counting(o)
  BY DEF Counting, blockVars
<1>3. \A c \in alive : ~Freeing(c) /\ Anchored(c, head[c]) /\ Anchored(c, tail[c]) /\ Sides(c)
  BY DEF IInv, EndsOK, Freeing, FreeLoops
<1>4. LinksInverse'
  BY <1>1 DEF LinksInverse, IInv, blockVars
<1>5. EndsOK'
  BY <1>1, <1>3 DEF EndsOK, Sides, Anchored, blockVars, listVars
<1>6. Listed'
  BY <1>1 DEF Listed, Numbered, IInv, blockVars, listVars
<1>7. SizeCounts'
  BY <1>1, <1>3 DEF SizeCounts, IInv, listVars
<1> QED BY <1>1, <1>2, <1>4, <1>5, <1>6, <1>7

\* A new chain has no block.
LEMMA NewChain ==
  ASSUME IInv, call.pc \notin FreeLoops, NEW c, NEW k, NEW r \in BOOLEAN,
         k \in {"chain", "queue", "stack"}, _Chain_new(c, k, r), UNCHANGED blockVars
  PROVE  /\ LinksInverse' /\ EndsOK' /\ Listed' /\ SizeCounts' /\ HeapType'
         /\ kind' \in [Chains -> {"chain", "queue", "stack"}]
         /\ retain' \in [Chains -> BOOLEAN] /\ size' \in [Chains -> Nat]
         /\ c \in Chains \ alive /\ alive' = alive \cup {c}
         /\ retain'[c] = r /\ (\A x \in alive : retain'[x] = retain[x])
         /\ Own(c) = {} /\ (\A x : Own(x)' = Own(x))
         /\ \A o : Counting(o)' = Counting(o)
<1> USE ChainAssumption
<1>1. /\ c \in Chains \ alive /\ alive' = alive \cup {c}
      /\ kind' \in [Chains -> {"chain", "queue", "stack"}]
      /\ retain' \in [Chains -> BOOLEAN] /\ size' \in [Chains -> Nat]
      /\ retain'[c] = r /\ (\A x \in alive : retain'[x] = retain[x])
      /\ size'[c] = 0 /\ head'[c] = NULL /\ tail'[c] = NULL
      /\ \A x \in alive : size'[x] = size[x] /\ head'[x] = head[x] /\ tail'[x] = tail[x]
      /\ HeapType'
  BY DEF _Chain_new, IInv, TypeOK, HeapType, blockVars
<1>2. (\A x : Own(x)' = Own(x)) /\ (\A o : Counting(o)' = Counting(o))
  BY DEF Own, Counting, blockVars
<1>3. Own(c) = {}
  BY <1>1 DEF Own, IInv, BlocksOK
<1>4. \A x \in alive : ~Freeing(x) /\ Anchored(x, head[x]) /\ Anchored(x, tail[x]) /\ Sides(x)
  BY DEF IInv, EndsOK, Freeing, FreeLoops
<1>5. LinksInverse'
  BY <1>1, <1>2, <1>3 DEF LinksInverse, IInv, blockVars, Own
<1>6. EndsOK'
  BY <1>1, <1>2, <1>3, <1>4 DEF EndsOK, Sides, Anchored, blockVars
<1>7. Listed'
  <2>1. PICK p \in [Blocks -> Int] : \A x \in alive : Numbered(p, x)
    BY DEF IInv, Listed
  <2>2. \A x \in alive' : Numbered(p, x)'
    BY <1>1, <1>2, <1>3, <2>1 DEF Numbered, blockVars
  <2> QED BY <2>2 DEF Listed
<1>8. SizeCounts'
  BY <1>1, <1>2, <1>3, <1>4, FS_EmptySet DEF SizeCounts, IInv
<1> QED BY <1>1, <1>2, <1>3, <1>5, <1>6, <1>7, <1>8

\* One iteration of a free: the list loses its block at that end.
LEMMA FreeBlock ==
  ASSUME IInv, FreeStep, alive' = alive, call' = call
  PROVE  /\ LinksInverse' /\ EndsOK' /\ Listed' /\ SizeCounts' /\ RefCounts'
         /\ HeapType' /\ ObjectTypeOK' /\ leaked' \in [Objs -> Nat]
         /\ ~Temporary(call.this) => leaked' = leaked
         /\ \E b \in Own(call.this) :
              Dropped(call.this, b) /\ (OffHead(call.this, b) \/ OffTail(call.this, b))
<1> USE ChainAssumption
<1> DEFINE c == call.this
<1>1. c \in alive /\ c \in Chains /\ call.pc \in FreeLoops /\ call # Idle /\ held' = held
  BY DEF IInv, CallOK, FreeStep, Loops, FreeLoops, TypeOK, Idle
<1>2. HeapType /\ Shape
  BY InvShape
<1>3. CASE call.pc = "free_from_head"
  <2>0. PICK b : b = head[c]
    OBVIOUS
  <2>1. Anchored(c, b) /\ Sides(c) /\ (\A x \in alive : x # c => ~Freeing(x))
    BY <1>1, <1>3, <2>0 DEF IInv, EndsOK, Freeing
  <2>2. b # NULL /\ b \in Own(c) /\ b \in Blocks /\ last[b] = NULL
    BY <1>1, <1>3, <2>0, <2>1 DEF FreeStep, Object_free, Return, Idle, Anchored, Sides, Own, IInv, TypeOK
  <2>3. /\ head' = [head EXCEPT ![c] = next[b]] /\ tail' = tail /\ size' = size
        /\ ReleaseData(c, b) /\ Block_free(b, next, last)
    BY <1>1, <1>3, <2>0, <2>2 DEF FreeStep, Toward
  <2>4. Dropped(c, b)
    BY <2>2, <2>3 DEF Dropped, Block_free
  <2>5. HeapType'
    BY <1>1, <1>2, <2>2, <2>3 DEF HeapType, Block_free
  <2>6. OffHead(c, b)
    BY <1>1, <1>2, <2>0, <2>2, <2>3, <2>5 DEF OffHead, Block_free, HeapType, Own
  <2>7. /\ Shape'
        /\ \A x \in alive : Own(x)' = IF x = c THEN Own(x) \ {b} ELSE Own(x)
        /\ IF next[b] = NULL THEN Own(c) = {b} ELSE next[b] \in Own(c)'
    BY <1>2, <2>6, RemoveHead
  <2>8. Anchored(c, head[c])'
    BY <2>3, <2>7, <1>1, <1>2 DEF Anchored, HeapType
  <2>9. EndsOK'
    BY <1>1, <1>2, <1>3, <2>1, <2>3, <2>7, <2>8 DEF EndsOK, Shape, IInv, Freeing, Anchored, HeapType
  <2>10. SizeCounts'
    BY <1>1, <2>1, <2>3, <2>7 DEF SizeCounts, IInv, Freeing, FreeLoops
  <2> QED BY <1>1, <2>2, <2>4, <2>5, <2>6, <2>7, <2>9, <2>10, ReleaseStep DEF Shape
<1>4. CASE call.pc = "free_from_tail"
  <2>0. PICK b : b = tail[c]
    OBVIOUS
  <2>1. Anchored(c, b) /\ Sides(c) /\ (\A x \in alive : x # c => ~Freeing(x))
    BY <1>1, <1>4, <2>0 DEF IInv, EndsOK, Freeing
  <2>2. b # NULL /\ b \in Own(c) /\ b \in Blocks /\ next[b] = NULL
    BY <1>1, <1>4, <2>0, <2>1 DEF FreeStep, Object_free, Return, Idle, Anchored, Sides, Own, IInv, TypeOK
  <2>3. /\ tail' = [tail EXCEPT ![c] = last[b]] /\ head' = head /\ size' = size
        /\ ReleaseData(c, b) /\ Block_free(b, next, last)
    BY <1>1, <1>4, <2>0, <2>2 DEF FreeStep, Toward
  <2>4. Dropped(c, b)
    BY <2>2, <2>3 DEF Dropped, Block_free
  <2>5. HeapType'
    BY <1>1, <1>2, <2>2, <2>3 DEF HeapType, Block_free
  <2>6. OffTail(c, b)
    BY <1>1, <1>2, <2>0, <2>2, <2>3, <2>5 DEF OffTail, Block_free, HeapType, Own
  <2>7. /\ Shape'
        /\ \A x \in alive : Own(x)' = IF x = c THEN Own(x) \ {b} ELSE Own(x)
        /\ IF last[b] = NULL THEN Own(c) = {b} ELSE last[b] \in Own(c)'
    BY <1>2, <2>6, RemoveTail
  <2>8. Anchored(c, tail[c])'
    BY <2>3, <2>7, <1>1, <1>2 DEF Anchored, HeapType
  <2>9. EndsOK'
    BY <1>1, <1>2, <1>4, <2>1, <2>3, <2>7, <2>8 DEF EndsOK, Shape, IInv, Freeing, Anchored, HeapType
  <2>10. SizeCounts'
    BY <1>1, <2>1, <2>3, <2>7 DEF SizeCounts, IInv, Freeing, FreeLoops
  <2> QED BY <1>1, <2>2, <2>4, <2>5, <2>6, <2>7, <2>9, <2>10, ReleaseStep DEF Shape
<1> QED BY <1>1, <1>3, <1>4 DEF FreeLoops

-----------------------------------------------------------------------------
(* Every step keeps the invariant.                                          *)

LEMMA InitOK == Init => IInv
<1> SUFFICES ASSUME Init PROVE IInv
  OBVIOUS
<1> USE ChainAssumption DEF Init, ObjectInit
<1>1. TypeOK
  BY DEF TypeOK, ObjectTypeOK
<1>2. CallOK
  BY DEF CallOK, Idle, Loops, Cloning, FreeLoops
<1>3. LinksInverse /\ EndsOK /\ SizeCounts /\ BlocksOK
  BY DEF LinksInverse, EndsOK, SizeCounts, BlocksOK
<1>4. Listed
  <2>1. [b \in Blocks |-> 0] \in [Blocks -> Int]
    OBVIOUS
  <2>2. \A c \in alive : FALSE
    OBVIOUS
  <2> HIDE DEF Init
  <2> QED BY <2>1, <2>2 DEF Listed
<1>5. CursorsOK
  BY DEF CursorsOK, Idle
<1>6. RefCounts
  <2>1. \A o : Counting(o) = {}
    BY DEF Counting
  <2>2. Cardinality({}) = 0
    BY FS_EmptySet
  <2> SUFFICES ASSUME NEW o \in Objs
               PROVE  gcCount[o] = held[o] + leaked[o] + Cardinality(Counting(o))
    BY DEF RefCounts
  <2>3. gcCount[o] = 0 /\ held[o] = 0 /\ leaked[o] = 0
    OBVIOUS
  <2>4. Cardinality(Counting(o)) = 0
    BY <2>1, <2>2
  <2> HIDE DEF Init, ObjectInit
  <2> QED BY <2>3, <2>4
<1> QED BY <1>1, <1>2, <1>3, <1>4, <1>5, <1>6 DEF IInv

\* A push or a pop keeps what is said of the blocks and their types.
LEMMA PushedFacts ==
  ASSUME IInv, NEW c \in alive, NEW d \in Payloads, NEW b \in Blocks, Pushed(c, d, b),
         retain[c] => d \in Objs, ~Temporary(c), call' = call,
         UNCHANGED <<held, chainVars, leaked>>, iter' \in Blocks \cup {NULL},
         cursor' \in [Chains -> Blocks \cup {NULL}]
  PROVE  TypeOK' /\ CallOK' /\ BlocksOK' /\ \A x \in alive : Own(x) \subseteq Own(x)'
<1> USE ChainAssumption
<1>1. TypeOK'
  <2>1. ObjectTypeOK'
    BY DEF Pushed, IInv, TypeOK, ObjectTypeOK
  <2>2. /\ owner' \in [Blocks -> Chains \cup {NULL}]
        /\ data' \in [Blocks -> Objs \cup {NULL}]
        /\ counted' \in [Blocks -> BOOLEAN]
        /\ size' \in [Chains -> Nat] /\ live' \subseteq Blocks
    BY DEF Pushed, IInv, TypeOK, Payloads
  <2> QED BY <2>1, <2>2 DEF Pushed, IInv, TypeOK, chainVars, Loops, Idle
<1>2. CallOK'
  BY DEF CallOK, IInv, chainVars
<1>3. c \in Chains /\ b \notin live /\ alive' = alive /\ retain' = retain
  BY DEF Pushed, IInv, TypeOK, chainVars
<1>4. /\ owner'[b] = c /\ data'[b] = d /\ counted'[b] = retain[c] /\ live' = live \cup {b}
      /\ \A y \in live : owner'[y] = owner[y] /\ data'[y] = data[y] /\ counted'[y] = counted[y]
  BY <1>3 DEF Pushed, IInv, TypeOK
<1>5. \A x : Temporary(x)' = Temporary(x)
  BY DEF Temporary
<1>6. call.pc \in {"reverse_clear", "reverse_push"} => c # call.that
  BY DEF Temporary, Cloning
<1>7. BlocksOK'
  BY <1>3, <1>4, <1>5, <1>6 DEF BlocksOK, IInv
<1>8. \A x \in alive : Own(x) \subseteq Own(x)'
  BY <1>4 DEF Own
<1> QED BY <1>1, <1>2, <1>7, <1>8

LEMMA DroppedFacts ==
  ASSUME IInv, NEW c \in alive, NEW b, Dropped(c, b), UNCHANGED <<held, chainVars>>,
         HeapType', ObjectTypeOK', size' \in [Chains -> Nat], leaked' \in [Objs -> Nat],
         iter' \in Blocks \cup {NULL}, cursor' \in [Chains -> Blocks \cup {NULL}],
         \A x \in alive : Temporary(x) => Temporary(x)',
         call'.pc \in {"reverse_clear", "reverse_push"} =>
           /\ call.pc \in {"reverse_clear", "reverse_push"}
           /\ call'.this = call.this /\ call'.that = call.that,
         call' = Idle \/ call' \in [pc : Loops, this : Chains, that : Chains \cup {NULL}]
  PROVE  TypeOK' /\ BlocksOK'
<1> USE ChainAssumption
<1>1. TypeOK'
  BY DEF Dropped, IInv, TypeOK, HeapType, chainVars
<1>2. b \in live /\ alive' = alive /\ retain' = retain /\ live' = live \ {b}
  BY DEF Dropped, Own, chainVars
<1>3. \A y \in live' : owner'[y] = owner[y] /\ data'[y] = data[y] /\ counted'[y] = counted[y]
  BY <1>2 DEF Dropped, IInv, TypeOK
<1>4. BlocksOK'
  BY <1>2, <1>3 DEF BlocksOK, IInv
<1> QED BY <1>1, <1>4

LEMMA StepObject == IInv /\ AppObject => IInv'
<1> SUFFICES ASSUME IInv, AppObject PROVE IInv'
  OBVIOUS
<1> USE ChainAssumption
<1>1. /\ call' = call /\ call = Idle /\ UNCHANGED <<chainVars, listVars, cursor, blockVars, iter, leaked>>
      /\ call.pc = "idle"
  BY DEF AppObject, Idle
<1>2. PICK o \in Objs : Object_new(o) \/ App_retain(o) \/ App_release(o)
  BY DEF AppObject
<1>3. /\ LinksInverse' /\ EndsOK' /\ Listed' /\ SizeCounts'
      /\ \A c : Own(c)' = Own(c)
      /\ \A x : Counting(x)' = Counting(x)
  BY <1>1, SameHeap DEF FreeLoops, chainVars
<1>4. \A x \in Objs : Cardinality(Counting(x)) \in Nat
  BY FiniteParts DEF IInv
<1>5. ObjectTypeOK' /\ \A x \in Objs : gcCount'[x] - held'[x] = gcCount[x] - held[x]
  <2>1. gcCount[o] = held[o] + leaked[o] + Cardinality(Counting(o))
    BY DEF IInv, RefCounts
  <2>2. gcCount[o] \in Nat /\ held[o] \in Nat /\ leaked[o] \in Nat
    BY DEF IInv, TypeOK, ObjectTypeOK
  <2>3. CASE Object_new(o)
    <3>1. gcCount[o] = 0
      BY <2>3, <2>2 DEF Object_new, Allocated
    <3>2. held[o] = 0
      BY <3>1, <2>1, <2>2, <1>4
    <3> QED BY <2>3, <3>1, <3>2 DEF Object_new, IInv, TypeOK, ObjectTypeOK
  <2>4. CASE App_retain(o)
    BY <2>4 DEF App_retain, Object_retain, IInv, TypeOK, ObjectTypeOK
  <2>5. CASE App_release(o)
    <3>1. gcCount[o] > 0 /\ held[o] > 0
      BY <2>5, <2>1, <2>2, <1>4 DEF App_release
    <3> QED BY <2>5, <3>1 DEF App_release, Object_release, IInv, TypeOK, ObjectTypeOK
  <2> QED BY <1>2, <2>3, <2>4, <2>5
<1>6. TypeOK'
  BY <1>1, <1>5 DEF IInv, TypeOK, chainVars, listVars, blockVars
<1>7. CallOK' /\ BlocksOK' /\ CursorsOK'
  BY <1>1, <1>3 DEF IInv, CallOK, BlocksOK, CursorsOK, Temporary, chainVars, blockVars
<1>8. RefCounts'
  <2>1. ASSUME NEW x \in Objs
        PROVE  gcCount'[x] = held'[x] + leaked'[x] + Cardinality(Counting(x)')
    <3>1. gcCount[x] = held[x] + leaked[x] + Cardinality(Counting(x))
      BY DEF IInv, RefCounts
    <3>2. /\ gcCount[x] \in Nat /\ held[x] \in Nat /\ leaked[x] \in Nat
          /\ gcCount'[x] \in Nat /\ held'[x] \in Nat
      BY <1>5 DEF IInv, TypeOK, ObjectTypeOK
    <3> QED BY <3>1, <3>2, <1>1, <1>3, <1>4, <1>5
  <2> QED BY <2>1 DEF RefCounts
<1> QED BY <1>3, <1>6, <1>7, <1>8 DEF IInv

LEMMA StepNew == IInv /\ AppNew => IInv'
<1> SUFFICES ASSUME IInv, AppNew PROVE IInv'
  OBVIOUS
<1> USE ChainAssumption
<1>1. PICK c \in Chains, k \in Kinds, r \in BOOLEAN :
         _Chain_new(c, k, r) /\ cursor' = [cursor EXCEPT ![c] = NULL]
  BY DEF AppNew
<1>2. /\ call' = call /\ call = Idle /\ call.pc = "idle"
      /\ UNCHANGED <<objVars, blockVars, iter, leaked>>
  BY DEF AppNew, Idle
<1>3. /\ LinksInverse' /\ EndsOK' /\ Listed' /\ SizeCounts' /\ HeapType'
      /\ kind' \in [Chains -> {"chain", "queue", "stack"}]
      /\ retain' \in [Chains -> BOOLEAN] /\ size' \in [Chains -> Nat]
      /\ c \in Chains \ alive /\ alive' = alive \cup {c}
      /\ (\A x \in alive : retain'[x] = retain[x])
      /\ Own(c) = {} /\ (\A x : Own(x)' = Own(x))
      /\ \A o : Counting(o)' = Counting(o)
  BY <1>1, <1>2, NewChain DEF FreeLoops
<1>4. TypeOK'
  BY <1>1, <1>2, <1>3 DEF IInv, TypeOK, HeapType, ObjectTypeOK, objVars, blockVars
<1>5. CallOK' /\ CursorsOK'
  BY <1>2 DEF CallOK, CursorsOK, Loops, Cloning, FreeLoops
<1>6. BlocksOK'
  BY <1>2, <1>3 DEF IInv, BlocksOK, Temporary, blockVars, Own, Cloning, FreeLoops
<1>7. RefCounts'
  BY <1>2, <1>3 DEF IInv, RefCounts, objVars
<1> QED BY <1>3, <1>4, <1>5, <1>6, <1>7 DEF IInv

LEMMA StepPush == IInv /\ AppPush => IInv'
<1> SUFFICES ASSUME IInv, AppPush PROVE IInv'
  OBVIOUS
<1>1. PICK c \in Chains, d \in Payloads :
         /\ Calling(c) /\ MayPush(c, d)
         /\ Chain_push_to_head(c, d) \/ Chain_push_to_tail(c, d)
  BY DEF AppPush, Queue_push, Stack_push
<1>2. /\ UNCHANGED <<held, chainVars, cursor, call, iter, leaked>>
      /\ c \in alive /\ call.pc = "idle" /\ (retain[c] => d \in Objs)
  BY <1>1 DEF AppPush, Calling, Idle, MayPush
<1>3. LinksInverse' /\ EndsOK' /\ Listed' /\ SizeCounts' /\ RefCounts' /\ \E b \in Blocks : Pushed(c, d, b)
  BY <1>1, <1>2, PushStep DEF FreeLoops
<1>4. ~Temporary(c) /\ iter' \in Blocks \cup {NULL} /\ cursor' \in [Chains -> Blocks \cup {NULL}]
  BY <1>2 DEF Temporary, Cloning, FreeLoops, IInv, TypeOK
<1>5. TypeOK' /\ CallOK' /\ BlocksOK'
  BY <1>2, <1>3, <1>4, PushedFacts
<1>6. CursorsOK'
  BY <1>2 DEF CursorsOK
<1> QED BY <1>3, <1>5, <1>6 DEF IInv

LEMMA StepPop == IInv /\ AppPop => IInv'
<1> SUFFICES ASSUME IInv, AppPop PROVE IInv'
  OBVIOUS
<1>1. PICK c \in Chains : Calling(c) /\ (Chain_pop_from_head(c) \/ Chain_pop_from_tail(c))
  BY DEF AppPop, Queue_pop, Stack_pop
<1>2. /\ UNCHANGED <<held, chainVars, cursor, call, iter>>
      /\ c \in alive /\ call.pc = "idle" /\ call'.pc = "idle" /\ ~Temporary(c)
      /\ call = Idle
  BY <1>1 DEF AppPop, Calling, Idle, Temporary, Cloning, FreeLoops
<1>3. /\ LinksInverse' /\ EndsOK' /\ Listed' /\ SizeCounts' /\ RefCounts'
      /\ HeapType' /\ ObjectTypeOK' /\ size' \in [Chains -> Nat]
      /\ leaked' = leaked
      /\ \/ UNCHANGED <<gcCount, blockVars, head, tail>>
         \/ \E b \in Own(c) : Dropped(c, b)
  BY <1>1, <1>2, PopStep DEF FreeLoops
<1>4. CallOK' /\ CursorsOK'
  BY <1>2 DEF CallOK, CursorsOK, Loops, Cloning, FreeLoops
<1>5. TypeOK' /\ BlocksOK'
  <2>1. CASE UNCHANGED <<gcCount, blockVars, head, tail>>
    BY <2>1, <1>2, <1>3 DEF IInv, TypeOK, BlocksOK, Temporary, chainVars, blockVars
  <2>2. ASSUME NEW b \in Own(c), Dropped(c, b) PROVE TypeOK' /\ BlocksOK'
    <3>1. iter' \in Blocks \cup {NULL} /\ cursor' \in [Chains -> Blocks \cup {NULL}] /\ leaked' \in [Objs -> Nat]
      BY <1>2, <1>3 DEF IInv, TypeOK
    <3>2. \A x \in alive : Temporary(x) => Temporary(x)'
      BY <1>2 DEF Temporary
    <3> QED BY <2>2, <3>1, <3>2, <1>2, <1>3, DroppedFacts
  <2> QED BY <2>1, <2>2, <1>3
<1> QED BY <1>3, <1>4, <1>5 DEF IInv

\* Entering a loop or moving the internal cursor, from Idle.
LEMMA StepEnter == IInv /\ (AppCursor \/ AppClear \/ AppFree \/ AppForeach) => IInv'
<1> SUFFICES ASSUME IInv, AppCursor \/ AppClear \/ AppFree \/ AppForeach PROVE IInv'
  OBVIOUS
<1> USE ChainAssumption
<1>1. call = Idle /\ UNCHANGED <<objVars, chainVars, listVars, blockVars, leaked>>
  BY DEF AppCursor, AppClear, AppFree, AppForeach, Calling
<1>2. /\ cursor' \in [Chains -> Blocks \cup {NULL}] /\ iter' \in Blocks \cup {NULL}
      /\ \/ call' = Idle
         \/ /\ call' \in [pc : Loops \ Cloning, this : Chains, that : Chains \cup {NULL}]
            /\ call'.this \in alive /\ call'.that = NULL
  <2>1. CASE AppCursor
    BY <2>1, <1>1 DEF AppCursor, Queue_RESTE, Stack_RESTE, Chain_RESTE_TO_HEAD, Chain_RESTE_TO_TAIL,
                      Chain_NEXT, Chain_LAST, IInv, TypeOK
  <2>2. CASE AppClear \/ AppFree
    BY <2>2 DEF AppClear, AppFree, Calling, Enter, Loops, Cloning, IInv, TypeOK
  <2>3. CASE AppForeach
    BY <2>3 DEF AppForeach, Calling, Enter, Loops, Cloning, IInv, TypeOK
  <2> QED BY <2>1, <2>2, <2>3
<1>3. /\ LinksInverse' /\ EndsOK' /\ Listed' /\ SizeCounts'
      /\ \A c : Own(c)' = Own(c)
      /\ \A x : Counting(x)' = Counting(x)
  BY <1>1, SameHeap DEF FreeLoops, Idle, chainVars
<1>4. TypeOK'
  <2>1. call' = Idle \/ call' \in [pc : Loops, this : Chains, that : Chains \cup {NULL}]
    BY <1>2
  <2> QED BY <1>1, <1>2, <2>1 DEF IInv, TypeOK, ObjectTypeOK, objVars, chainVars, listVars, blockVars
<1>5. CallOK' /\ CursorsOK'
  BY <1>1, <1>2 DEF CallOK, CursorsOK, Idle, Loops, Cloning, FreeLoops, chainVars
<1>6. BlocksOK'
  <2>1. \A x : ~Temporary(x) /\ ~Temporary(x)'
    BY <1>1, <1>2 DEF Temporary, Idle, Cloning, FreeLoops
  <2>2. call'.pc \notin {"reverse_clear", "reverse_push"}
    BY <1>2 DEF Idle, Cloning
  <2> QED BY <1>1, <2>1, <2>2 DEF IInv, BlocksOK, chainVars, blockVars
<1>7. RefCounts'
  BY <1>1, <1>3 DEF IInv, RefCounts, objVars
<1> QED BY <1>3, <1>4, <1>5, <1>6, <1>7 DEF IInv

LEMMA StepClone == IInv /\ AppClone => IInv'
<1> SUFFICES ASSUME IInv, AppClone PROVE IInv'
  OBVIOUS
<1> USE ChainAssumption
<1>1. PICK c \in Chains, d \in Chains :
        /\ Calling(c) /\ _Chain_new(d, kind[c], retain[c])
        /\ cursor' = [cursor EXCEPT ![c] = head[c], ![d] = NULL]
        /\ Enter("clone", c, d) \/ Enter("reverse", c, d)
  BY DEF AppClone, CloneStruct
<1>2. /\ UNCHANGED <<objVars, blockVars, iter, leaked>>
      /\ call = Idle /\ call.pc = "idle" /\ c \in alive
      /\ call'.pc \in {"clone", "reverse"} /\ call'.this = c /\ call'.that = d
      /\ call' \in [pc : Loops, this : Chains, that : Chains \cup {NULL}]
  BY <1>1 DEF AppClone, Calling, Idle, Enter, Loops
<1>3. retain[c] \in BOOLEAN /\ kind[c] \in {"chain", "queue", "stack"}
  BY DEF IInv, TypeOK
<1>4. /\ LinksInverse' /\ EndsOK' /\ Listed' /\ SizeCounts' /\ HeapType'
      /\ kind' \in [Chains -> {"chain", "queue", "stack"}]
      /\ retain' \in [Chains -> BOOLEAN] /\ size' \in [Chains -> Nat]
      /\ d \in Chains \ alive /\ alive' = alive \cup {d}
      /\ retain'[d] = retain[c] /\ (\A x \in alive : retain'[x] = retain[x])
      /\ Own(d) = {} /\ (\A x : Own(x)' = Own(x))
      /\ \A o : Counting(o)' = Counting(o)
  BY <1>1, <1>2, <1>3, NewChain DEF FreeLoops
<1>5. Anchored(c, head[c]) /\ c # d
  BY <1>2, <1>4 DEF IInv, EndsOK, Freeing, FreeLoops
<1>6. TypeOK'
  BY <1>1, <1>2, <1>4 DEF IInv, TypeOK, HeapType, ObjectTypeOK, objVars, blockVars
<1>7. CallOK'
  BY <1>2, <1>4, <1>5 DEF CallOK, Cloning, FreeLoops
<1>8. CursorsOK'
  <2>1. cursor'[c] = head[c]
    BY <1>1, <1>5 DEF IInv, TypeOK
  <2>2. head[c] \in Own(c) \cup {NULL}
    BY <1>5 DEF Anchored
  <2> QED BY <1>2, <1>4, <2>1, <2>2 DEF CursorsOK
<1>9. BlocksOK'
  <2>1. \A x : ~Temporary(x) /\ ~Temporary(x)'
    BY <1>2 DEF Temporary, Cloning, FreeLoops
  <2>2. call'.pc \notin {"reverse_clear", "reverse_push"}
    BY <1>2
  <2> QED BY <1>2, <1>4, <2>1, <2>2 DEF IInv, BlocksOK, blockVars, Own
<1>10. RefCounts'
  BY <1>2, <1>4 DEF IInv, RefCounts, objVars
<1> QED BY <1>4, <1>6, <1>7, <1>8, <1>9, <1>10 DEF IInv
LEMMA StepSync == IInv /\ SyncStep => IInv'
<1> SUFFICES ASSUME IInv, SyncStep PROVE IInv'
  OBVIOUS
<1> USE ChainAssumption
<1>1. PICK c, d, p : c = call.this /\ d = call.that /\ p = Cursor_data(c)
  OBVIOUS
<1>2. /\ call.pc \in {"clone", "reverse"} /\ call.pc \notin FreeLoops
      /\ c \in alive /\ d \in alive /\ c # d /\ c \in Chains /\ d \in Chains
      /\ retain[d] = retain[c] /\ cursor[c] \in Own(c) \cup {NULL}
      /\ \A x : ~Temporary(x)
      /\ UNCHANGED <<held, iter, leaked>>
  BY <1>1 DEF SyncStep, IInv, CallOK, CursorsOK, Loops, Cloning, FreeLoops, TypeOK, Temporary
<1>3. cursor' = IF cursor[c] = NULL THEN cursor ELSE [cursor EXCEPT ![c] = next[cursor[c]]]
  BY <1>1 DEF SyncStep, Chain_NEXT
<1>4. cursor' \in [Chains -> Blocks \cup {NULL}]
  BY <1>2, <1>3 DEF IInv, TypeOK
<1>5. CASE p # NULL
  <2>1. Chain_push_to_tail(d, p) /\ UNCHANGED <<chainVars, call>>
    BY <1>1, <1>5 DEF SyncStep
  <2>2. PICK b : b = cursor[c] /\ b \in Own(c) /\ b \in live /\ owner[b] = c /\ p = data[b]
    BY <1>1, <1>2, <1>5 DEF Cursor_data, Own
  <2>3. p \in Payloads /\ (retain[d] => p \in Objs)
    BY <1>2, <2>2 DEF IInv, BlocksOK, TypeOK, Payloads
  <2>4. LinksInverse' /\ EndsOK' /\ Listed' /\ SizeCounts' /\ RefCounts' /\ \E x \in Blocks : Pushed(d, p, x)
    BY <1>2, <2>1, <2>3, PushStep
  <2>5. iter' \in Blocks \cup {NULL}
    BY <1>2 DEF IInv, TypeOK
  <2>6. TypeOK' /\ CallOK' /\ BlocksOK' /\ \A x \in alive : Own(x) \subseteq Own(x)'
    BY <1>2, <1>4, <2>1, <2>3, <2>4, <2>5, PushedFacts
  <2>7. cursor'[c] = next[b] /\ next[b] \in Own(c) \cup {NULL}
    BY <1>2, <1>3, <2>2 DEF IInv, LinksInverse, TypeOK, Own
  <2>8. CursorsOK'
    BY <1>1, <1>2, <2>1, <2>6, <2>7 DEF CursorsOK
  <2> QED BY <2>4, <2>6, <2>8 DEF IInv
<1>6. CASE p = NULL
  <2>1. /\ UNCHANGED <<gcCount, alive, kind, listVars, blockVars>>
        /\ \/ call.pc = "clone" /\ call' = Idle /\ retain' = retain
           \/ /\ call.pc = "reverse" /\ retain' = [retain EXCEPT ![d] = FALSE]
              /\ call' = [pc |-> "reverse_clear", this |-> c, that |-> d]
    BY <1>1, <1>2, <1>6 DEF SyncStep, Return, Enter
  <2>2. /\ LinksInverse' /\ EndsOK' /\ Listed' /\ SizeCounts'
        /\ \A x : Own(x)' = Own(x)
        /\ \A o : Counting(o)' = Counting(o)
    BY <1>2, <2>1, SameHeap
  <2>3. RefCounts'
    BY <1>2, <2>1, <2>2 DEF IInv, RefCounts
  <2>4. TypeOK'
    <3>1. call' = Idle \/ call' \in [pc : Loops, this : Chains, that : Chains \cup {NULL}]
      BY <1>2, <2>1 DEF Loops
    <3>2. retain' \in [Chains -> BOOLEAN]
      BY <2>1 DEF IInv, TypeOK
    <3> QED BY <1>2, <1>4, <2>1, <3>1, <3>2 DEF IInv, TypeOK, ObjectTypeOK, listVars, blockVars
  <2>5. CallOK' /\ CursorsOK'
    BY <1>2, <2>1 DEF CallOK, CursorsOK, Idle, Loops, Cloning, FreeLoops, IInv, TypeOK
  <2>6. BlocksOK'
    <3>1. CASE call' = Idle /\ retain' = retain
      BY <3>1, <1>2, <2>1 DEF IInv, BlocksOK, Temporary, Idle, Cloning, FreeLoops, blockVars
    <3>2. CASE retain' = [retain EXCEPT ![d] = FALSE] /\ call' = [pc |-> "reverse_clear", this |-> c, that |-> d]
      <4>1. /\ retain'[c] = retain[c] /\ \A x \in alive : x # d => retain'[x] = retain[x]
            /\ Temporary(d)' /\ call'.this = c /\ call'.that = d
        BY <3>2, <1>2 DEF IInv, TypeOK, Temporary, Cloning
      <4>2. \A b \in live : owner[b] \in alive => counted[b] = retain[owner[b]]
        BY <1>2 DEF IInv, BlocksOK
      <4> QED BY <4>1, <4>2, <1>2, <2>1 DEF IInv, BlocksOK, blockVars
    <3> QED BY <2>1, <3>1, <3>2
  <2> QED BY <2>2, <2>3, <2>4, <2>5, <2>6 DEF IInv
<1> QED BY <1>5, <1>6

LEMMA StepClear == IInv /\ ClearStep => IInv'
<1> SUFFICES ASSUME IInv, ClearStep PROVE IInv'
  OBVIOUS
<1> USE ChainAssumption
<1>1. PICK c, d : c = call.this /\ d = call.that
  OBVIOUS
<1>2. /\ call.pc \in {"clear_from_head", "clear_from_tail", "reverse_clear"}
      /\ UNCHANGED <<held, chainVars, iter>>
      /\ Chain_pop_from_head(c) \/ Chain_pop_from_tail(c)
      /\ \/ call' = call /\ cursor' = cursor
         \/ /\ call.pc = "reverse_clear" /\ call' = [pc |-> "reverse_push", this |-> c, that |-> d]
            /\ cursor' = [cursor EXCEPT ![d] = tail[d]]
         \/ call.pc # "reverse_clear" /\ call' = Idle /\ cursor' = cursor
  BY <1>1 DEF ClearStep, Enter, Return, Chain_RESTE_TO_TAIL
<1>3. /\ c \in alive /\ c \in Chains /\ ~Temporary(c)
      /\ call.pc \notin FreeLoops /\ call'.pc \notin FreeLoops
      /\ call \in [pc : Loops, this : Chains, that : Chains \cup {NULL}]
      /\ call.pc = "reverse_clear" => d \in alive /\ d \in Chains /\ d # c /\ ~retain[d]
  BY <1>1, <1>2 DEF IInv, CallOK, Loops, Cloning, FreeLoops, TypeOK, Temporary, Idle
<1>4. /\ LinksInverse' /\ EndsOK' /\ Listed' /\ SizeCounts' /\ RefCounts'
      /\ HeapType' /\ ObjectTypeOK' /\ size' \in [Chains -> Nat]
      /\ leaked' = leaked
      /\ \/ UNCHANGED <<gcCount, blockVars, head, tail>>
         \/ \E b \in Own(c) : Dropped(c, b)
  BY <1>2, <1>3, PopStep
<1>5. CallOK'
  BY <1>1, <1>2, <1>3 DEF IInv, CallOK, Loops, Cloning, FreeLoops, Idle, chainVars
<1>6. /\ cursor' \in [Chains -> Blocks \cup {NULL}] /\ iter' \in Blocks \cup {NULL}
      /\ leaked' \in [Objs -> Nat]
      /\ call' = Idle \/ call' \in [pc : Loops, this : Chains, that : Chains \cup {NULL}]
      /\ \A x \in alive : Temporary(x) => Temporary(x)'
      /\ call'.pc \in {"reverse_clear", "reverse_push"} =>
           /\ call.pc \in {"reverse_clear", "reverse_push"}
           /\ call'.this = call.this /\ call'.that = call.that
  <2>1. cursor' \in [Chains -> Blocks \cup {NULL}] /\ iter' \in Blocks \cup {NULL} /\ leaked' \in [Objs -> Nat]
    BY <1>2, <1>4 DEF IInv, TypeOK
  <2>2. call' = Idle \/ call' \in [pc : Loops, this : Chains, that : Chains \cup {NULL}]
    BY <1>2, <1>3 DEF Loops
  <2>3. /\ \A x \in alive : Temporary(x) => Temporary(x)'
        /\ call'.pc \in {"reverse_clear", "reverse_push"} =>
             /\ call.pc \in {"reverse_clear", "reverse_push"}
             /\ call'.this = call.this /\ call'.that = call.that
    BY <1>1, <1>2 DEF Temporary, Cloning, FreeLoops, Idle
  <2> QED BY <2>1, <2>2, <2>3
<1>7. TypeOK' /\ BlocksOK'
  <2>1. CASE UNCHANGED <<gcCount, blockVars, head, tail>>
    <3>1. TypeOK'
      BY <2>1, <1>2, <1>4, <1>6 DEF IInv, TypeOK, chainVars, blockVars
    <3>2. BlocksOK'
      BY <2>1, <1>2, <1>6 DEF IInv, BlocksOK, chainVars, blockVars
    <3> QED BY <3>1, <3>2
  <2>2. ASSUME NEW b \in Own(c), Dropped(c, b) PROVE TypeOK' /\ BlocksOK'
    BY <2>2, <1>2, <1>3, <1>4, <1>6, DroppedFacts
  <2> QED BY <2>1, <2>2, <1>4
<1>8. CursorsOK'
  <2>1. CASE call'.pc = "reverse_push"
    <3>1. call.pc = "reverse_clear" /\ call'.that = d /\ cursor' = [cursor EXCEPT ![d] = tail[d]]
      BY <2>1, <1>2 DEF Idle
    <3>2. tail[d] \in Own(d) \cup {NULL}
      BY <3>1, <1>3 DEF IInv, EndsOK, Freeing, FreeLoops, Anchored
    <3>3. Own(d) \subseteq Own(d)'
      BY <3>1, <1>3, <1>4 DEF Own, Dropped, blockVars, IInv, TypeOK
    <3> QED BY <2>1, <3>1, <3>2, <3>3, <1>3 DEF CursorsOK, IInv, TypeOK
  <2>2. CASE call'.pc # "reverse_push"
    BY <2>2, <1>2 DEF CursorsOK, Idle
  <2> QED BY <2>1, <2>2
<1> QED BY <1>4, <1>5, <1>7, <1>8 DEF IInv

LEMMA StepReversePush == IInv /\ ReversePush => IInv'
<1> SUFFICES ASSUME IInv, ReversePush PROVE IInv'
  OBVIOUS
<1> USE ChainAssumption
<1>1. PICK c, d, p : c = call.this /\ d = call.that /\ p = Cursor_data(d)
  OBVIOUS
<1>2. /\ call.pc = "reverse_push" /\ call.pc \notin FreeLoops
      /\ c \in alive /\ d \in alive /\ c # d /\ c \in Chains /\ d \in Chains
      /\ ~retain[d] /\ cursor[d] \in Own(d) \cup {NULL} /\ ~Temporary(c)
      /\ UNCHANGED <<held, chainVars, iter, leaked>>
  BY <1>1 DEF ReversePush, IInv, CallOK, CursorsOK, Loops, Cloning, FreeLoops, TypeOK, Temporary
<1>3. CASE p # NULL
  <2>1. Chain_push_to_tail(c, p) /\ UNCHANGED call /\ Chain_LAST(d)
    BY <1>1, <1>3 DEF ReversePush
  <2>2. PICK b : b = cursor[d] /\ b \in Own(d) /\ b \in live /\ owner[b] = d /\ p = data[b]
    BY <1>1, <1>2, <1>3 DEF Cursor_data, Own
  <2>3. cursor' = [cursor EXCEPT ![d] = last[b]] /\ last[b] \in Own(d) \cup {NULL}
    BY <1>2, <2>1, <2>2 DEF Chain_LAST, IInv, LinksInverse, Own, TypeOK
  <2>4. p \in Payloads /\ (retain[c] => p \in Objs)
    BY <1>1, <1>2, <2>2 DEF IInv, BlocksOK, TypeOK, Payloads
  <2>5. LinksInverse' /\ EndsOK' /\ Listed' /\ SizeCounts' /\ RefCounts' /\ \E x \in Blocks : Pushed(c, p, x)
    BY <1>2, <2>1, <2>4, PushStep
  <2>6. iter' \in Blocks \cup {NULL} /\ cursor' \in [Chains -> Blocks \cup {NULL}]
    BY <1>2, <2>3 DEF IInv, TypeOK, Own
  <2>7. TypeOK' /\ CallOK' /\ BlocksOK' /\ \A x \in alive : Own(x) \subseteq Own(x)'
    BY <1>2, <2>1, <2>4, <2>5, <2>6, PushedFacts
  <2>8. CursorsOK'
    BY <1>1, <1>2, <2>1, <2>3, <2>7 DEF CursorsOK, IInv, TypeOK
  <2> QED BY <2>5, <2>7, <2>8 DEF IInv
<1>4. CASE p = NULL
  <2>1. /\ UNCHANGED <<gcCount, listVars, blockVars>>
        /\ cursor' = [cursor EXCEPT ![d] = head[d]]
        /\ call' = [pc |-> "reverse_release", this |-> c, that |-> d]
    BY <1>1, <1>4 DEF ReversePush, Enter, Chain_RESTE_TO_HEAD
  <2>2. /\ LinksInverse' /\ EndsOK' /\ Listed' /\ SizeCounts'
        /\ \A o : Counting(o)' = Counting(o)
    BY <1>2, <2>1, SameHeap DEF chainVars
  <2>3. RefCounts'
    BY <1>2, <2>1, <2>2 DEF IInv, RefCounts
  <2>4. TypeOK'
    <3>1. call' \in [pc : Loops, this : Chains, that : Chains \cup {NULL}]
      BY <1>2, <2>1 DEF Loops
    <3> QED BY <1>2, <2>1, <3>1 DEF IInv, TypeOK, ObjectTypeOK, listVars, blockVars, chainVars
  <2>5. CallOK' /\ CursorsOK'
    BY <1>2, <2>1 DEF CallOK, CursorsOK, Loops, Cloning, FreeLoops, chainVars
  <2>6. BlocksOK'
    <3>1. \A x : Temporary(x)' <=> Temporary(x)
      BY <1>1, <1>2, <2>1 DEF Temporary, Cloning, FreeLoops
    <3> QED BY <3>1, <1>2, <2>1 DEF IInv, BlocksOK, chainVars, blockVars
  <2> QED BY <2>2, <2>3, <2>4, <2>5, <2>6 DEF IInv
<1> QED BY <1>3, <1>4

\* A chain d leaves the heap; its blocks that stay belong to no chain.
LEMMA DropChain ==
  ASSUME IInv, NEW d \in alive, Object_free(d), call' = Idle,
         live' \subseteq live, \A y \in live \ live' : owner[y] = d,
         \A y \in live' : /\ next'[y] = next[y] /\ last'[y] = last[y]
                          /\ data'[y] = data[y] /\ counted'[y] = counted[y]
                          /\ owner'[y] = IF owner[y] = d THEN NULL ELSE owner[y],
         \A x \in alive : x # d => ~Freeing(x) /\ ~Temporary(x)
  PROVE  /\ LinksInverse' /\ EndsOK' /\ Listed' /\ SizeCounts' /\ BlocksOK' /\ CallOK' /\ CursorsOK'
         /\ kind' \in [Chains -> {"chain", "queue", "stack"}] /\ retain' \in [Chains -> BOOLEAN]
         /\ size' \in [Chains -> Nat] /\ alive' \subseteq Chains
         /\ head' \in [Chains -> Blocks \cup {NULL}] /\ tail' \in [Chains -> Blocks \cup {NULL}]
         /\ cursor' \in [Chains -> Blocks \cup {NULL}]
<1> USE ChainAssumption
<1>1. alive' = alive \ {d} /\ d \in Chains /\ (\A x \in alive : x \in Chains /\ x # NULL)
  BY DEF Object_free, IInv, TypeOK
<1>2. \A x \in alive' : /\ head'[x] = head[x] /\ tail'[x] = tail[x] /\ size'[x] = size[x]
                        /\ retain'[x] = retain[x]
  BY <1>1 DEF Object_free, IInv, TypeOK
<1>3. \A x \in alive' : Own(x)' = Own(x)
  BY <1>1 DEF Own
<1>4. \A x \in alive' : \A y \in Own(x) : y \in live' /\ next'[y] = next[y] /\ last'[y] = last[y]
  BY <1>1 DEF Own
<1>5. LinksInverse'
  <2>1. ASSUME NEW b \in live', owner'[b] \in alive'
        PROVE  /\ owner[b] = owner'[b] /\ next'[b] = next[b] /\ last'[b] = last[b]
               /\ next[b] # NULL => next[b] \in Own(owner[b]) /\ last[next[b]] = b
               /\ last[b] # NULL => last[b] \in Own(owner[b]) /\ next[last[b]] = b
    BY <2>1, <1>1 DEF LinksInverse, IInv
  <2> QED BY <2>1, <1>3, <1>4 DEF LinksInverse
<1>6. EndsOK'
  <2>1. \A x \in alive' : /\ Sides(x) /\ Anchored(x, head[x]) /\ Anchored(x, tail[x])
    BY <1>1 DEF IInv, EndsOK, Freeing
  <2>2. \A x \in alive' : Sides(x)'
    BY <2>1, <1>2, <1>3, <1>4 DEF Sides
  <2>3. \A x \in alive' : Anchored(x, head[x])' /\ Anchored(x, tail[x])'
    BY <2>1, <1>2, <1>3 DEF Anchored
  <2> QED BY <2>2, <2>3 DEF EndsOK
<1>7. Listed'
  <2>1. PICK p \in [Blocks -> Int] : \A x \in alive : Numbered(p, x)
    BY DEF IInv, Listed
  <2>2. \A x \in alive' : Numbered(p, x)'
    BY <1>1, <1>2, <1>3, <1>4, <2>1 DEF Numbered
  <2> QED BY <2>2 DEF Listed
<1>8. SizeCounts'
  BY <1>1, <1>2, <1>3 DEF SizeCounts, IInv
<1>9. \A x : ~Temporary(x)' /\ call'.pc = "idle"
  BY DEF Temporary, Idle, Cloning, FreeLoops
<1>10. BlocksOK'
  BY <1>1, <1>2, <1>9 DEF BlocksOK, IInv
<1>11. CallOK' /\ CursorsOK'
  BY <1>9 DEF CallOK, CursorsOK, Loops, Cloning, FreeLoops
<1>12. /\ kind' \in [Chains -> {"chain", "queue", "stack"}] /\ retain' \in [Chains -> BOOLEAN]
       /\ size' \in [Chains -> Nat] /\ alive' \subseteq Chains
       /\ head' \in [Chains -> Blocks \cup {NULL}] /\ tail' \in [Chains -> Blocks \cup {NULL}]
       /\ cursor' \in [Chains -> Blocks \cup {NULL}]
  BY DEF Object_free, IInv, TypeOK
<1> QED BY <1>5, <1>6, <1>7, <1>8, <1>10, <1>11, <1>12

\* A block freed without a release: its reference is leaked.
LEMMA ForgetBlock ==
  ASSUME IInv, NEW b \in live, live' = live \ {b},
         data' = [data EXCEPT ![b] = NULL], counted' = [counted EXCEPT ![b] = FALSE],
         UNCHANGED <<gcCount, held>>,
         leaked' = IF counted[b] THEN [leaked EXCEPT ![data[b]] = @ + 1] ELSE leaked
  PROVE  RefCounts' /\ leaked' \in [Objs -> Nat]
<1>1. /\ b \in Blocks /\ (counted[b] => data[b] \in Objs)
      /\ leaked \in [Objs -> Nat] /\ held \in [Objs -> Nat]
      /\ counted \in [Blocks -> BOOLEAN] /\ data \in [Blocks -> Objs \cup {NULL}]
  BY DEF IInv, TypeOK, ObjectTypeOK, BlocksOK
<1>2. leaked' \in [Objs -> Nat]
  BY <1>1
<1>3. ASSUME NEW o \in Objs
      PROVE  gcCount'[o] = held'[o] + leaked'[o] + Cardinality(Counting(o)')
  <2>1. /\ IsFiniteSet(Counting(o)) /\ Cardinality(Counting(o)) \in Nat
        /\ gcCount[o] = held[o] + leaked[o] + Cardinality(Counting(o))
        /\ held[o] \in Nat /\ leaked[o] \in Nat
    BY <1>1, FiniteParts DEF IInv, RefCounts
  <2>2. Counting(o)' = Counting(o) \ {b}
    BY <1>1 DEF Counting
  <2>3. /\ Cardinality(Counting(o) \ {b}) =
             IF b \in Counting(o) THEN Cardinality(Counting(o)) - 1 ELSE Cardinality(Counting(o))
        /\ Cardinality(Counting(o) \ {b}) \in Nat
    BY <2>1, FS_RemoveElement, FS_CardinalityType
  <2>4. leaked'[o] = IF b \in Counting(o) THEN leaked[o] + 1 ELSE leaked[o]
    <3>1. b \in Counting(o) <=> counted[b] /\ data[b] = o
      BY <1>1 DEF Counting
    <3> QED BY <3>1, <1>1
  <2> DEFINE n == Cardinality(Counting(o))
             m == Cardinality(Counting(o)')
  <2>5. n \in Nat /\ m \in Nat /\ m = IF b \in Counting(o) THEN n - 1 ELSE n
    BY <2>1, <2>2, <2>3
  <2>6. gcCount[o] = held[o] + leaked[o] + n
    BY <2>1
  <2> HIDE DEF n, m
  <2>7. gcCount[o] = held[o] + leaked'[o] + m
    BY <2>1, <2>4, <2>5, <2>6
  <2> QED BY <2>7 DEF m
<1> QED BY <1>2, <1>3 DEF RefCounts
LEMMA StepReverseRelease == IInv /\ ReverseRelease => IInv'
<1> SUFFICES ASSUME IInv, ReverseRelease PROVE IInv'
  OBVIOUS
<1> USE ChainAssumption
<1>1. PICK c, d : c = call.this /\ d = call.that
  OBVIOUS
<1>2. /\ call.pc = "reverse_release" /\ call.pc \notin FreeLoops
      /\ c \in alive /\ d \in alive /\ c \in Chains /\ d \in Chains /\ c # NULL /\ ~retain[d]
      /\ \A x : x # d => ~Temporary(x)
      /\ \A x : ~Freeing(x)
      /\ UNCHANGED <<objVars, iter>>
  BY <1>1 DEF ReverseRelease, IInv, CallOK, Loops, Cloning, FreeLoops, TypeOK, Temporary, Freeing
<1>3. CASE ~TakenForString(d)
  <2>1. /\ UNCHANGED <<chainVars, listVars, cursor, blockVars, leaked>>
        /\ call' \in [pc : FreeLoops, this : {d}, that : {c}]
    BY <1>1, <1>3 DEF ReverseRelease, Enter, FreeLoops
  <2>2. /\ LinksInverse' /\ EndsOK' /\ Listed' /\ SizeCounts'
        /\ \A o : Counting(o)' = Counting(o)
    BY <1>2, <2>1, SameHeap DEF chainVars
  <2>3. RefCounts'
    BY <1>2, <2>1, <2>2 DEF IInv, RefCounts, objVars
  <2>4. TypeOK'
    <3>1. call' \in [pc : Loops, this : Chains, that : Chains \cup {NULL}]
      BY <1>2, <2>1 DEF Loops, FreeLoops
    <3> QED BY <1>2, <2>1, <3>1 DEF IInv, TypeOK, ObjectTypeOK, objVars, listVars, blockVars, chainVars
  <2>5. CallOK' /\ CursorsOK'
    BY <1>2, <2>1 DEF CallOK, CursorsOK, Loops, Cloning, FreeLoops, chainVars
  <2>6. BlocksOK'
    <3>1. \A x : Temporary(x)' <=> Temporary(x)
      BY <1>1, <1>2, <2>1 DEF Temporary, Cloning, FreeLoops
    <3>2. call'.pc \notin {"reverse_clear", "reverse_push"}
      BY <2>1 DEF FreeLoops
    <3> QED BY <3>1, <3>2, <1>2, <2>1 DEF IInv, BlocksOK, chainVars, blockVars
  <2> QED BY <2>2, <2>3, <2>4, <2>5, <2>6 DEF IInv
<1>4. CASE TakenForString(d)
  <2>1. PICK b : b = head[d]
    OBVIOUS
  <2>2. /\ Object_free(d) /\ call' = Idle
        /\ owner' = [x \in Blocks |-> IF owner[x] = d THEN NULL ELSE owner[x]]
        /\ \/ b = NULL /\ UNCHANGED <<live, data, next, last, counted, leaked>>
           \/ /\ b # NULL /\ live' = live \ {b}
              /\ data' = [data EXCEPT ![b] = NULL]
              /\ next' = [next EXCEPT ![b] = NULL]
              /\ last' = [last EXCEPT ![b] = NULL]
              /\ counted' = [counted EXCEPT ![b] = FALSE]
              /\ leaked' = IF counted[b] THEN [leaked EXCEPT ![data[b]] = @ + 1] ELSE leaked
    BY <1>1, <1>4, <2>1 DEF ReverseRelease, String_free, Return
  <2>3. b # NULL => b \in live /\ b \in Blocks /\ owner[b] = d
    BY <1>2, <2>1 DEF IInv, EndsOK, Anchored, Own, TypeOK, FreeLoops, Freeing
  <2>4. live' \subseteq live /\ \A y \in live \ live' : owner[y] = d
    BY <2>2, <2>3
  <2>5. \A y \in live' : /\ next'[y] = next[y] /\ last'[y] = last[y]
                         /\ data'[y] = data[y] /\ counted'[y] = counted[y]
                         /\ owner'[y] = IF owner[y] = d THEN NULL ELSE owner[y]
    BY <2>2, <2>4 DEF IInv, TypeOK
  <2>6. /\ LinksInverse' /\ EndsOK' /\ Listed' /\ SizeCounts' /\ BlocksOK' /\ CallOK' /\ CursorsOK'
        /\ kind' \in [Chains -> {"chain", "queue", "stack"}] /\ retain' \in [Chains -> BOOLEAN]
        /\ size' \in [Chains -> Nat] /\ alive' \subseteq Chains
        /\ head' \in [Chains -> Blocks \cup {NULL}] /\ tail' \in [Chains -> Blocks \cup {NULL}]
        /\ cursor' \in [Chains -> Blocks \cup {NULL}]
    BY <1>2, <2>2, <2>4, <2>5, DropChain
  <2>7. RefCounts' /\ leaked' \in [Objs -> Nat]
    <3>1. CASE b = NULL
      BY <3>1, <1>2, <2>2 DEF IInv, TypeOK, RefCounts, Counting, objVars
    <3>2. CASE b # NULL
      BY <3>2, <1>2, <2>2, <2>3, ForgetBlock DEF objVars
    <3> QED BY <3>1, <3>2
  <2>8. TypeOK'
    <3>1. /\ live' \subseteq Blocks /\ data' \in [Blocks -> Objs \cup {NULL}]
          /\ next' \in [Blocks -> Blocks \cup {NULL}] /\ last' \in [Blocks -> Blocks \cup {NULL}]
          /\ owner' \in [Blocks -> Chains \cup {NULL}] /\ counted' \in [Blocks -> BOOLEAN]
      <4>1. /\ live \subseteq Blocks /\ data \in [Blocks -> Objs \cup {NULL}]
            /\ next \in [Blocks -> Blocks \cup {NULL}] /\ last \in [Blocks -> Blocks \cup {NULL}]
            /\ owner \in [Blocks -> Chains \cup {NULL}] /\ counted \in [Blocks -> BOOLEAN]
        BY DEF IInv, TypeOK
      <4>2. owner' \in [Blocks -> Chains \cup {NULL}]
        BY <2>2, <4>1
      <4>3. CASE b = NULL
        BY <4>1, <4>2, <4>3, <2>2
      <4>4. CASE b # NULL
        BY <4>1, <4>2, <4>4, <2>2
      <4> QED BY <4>3, <4>4
    <3> QED BY <3>1, <1>2, <2>2, <2>6, <2>7 DEF IInv, TypeOK, ObjectTypeOK, objVars
  <2> QED BY <2>6, <2>7, <2>8 DEF IInv
<1> QED BY <1>3, <1>4

LEMMA StepFree == IInv /\ FreeStep => IInv'
<1> SUFFICES ASSUME IInv, FreeStep PROVE IInv'
  OBVIOUS
<1> USE ChainAssumption
<1>1. PICK c : c = call.this
  OBVIOUS
<1>2. /\ call.pc \in FreeLoops /\ c \in alive /\ c \in Chains /\ UNCHANGED <<held, iter>>
      /\ call \in [pc : Loops, this : Chains, that : Chains \cup {NULL}]
  BY <1>1 DEF IInv, CallOK, FreeStep, Loops, FreeLoops, TypeOK, Idle
<1>3. CASE UNCHANGED <<chainVars, size, cursor, call>>
  <2>1. /\ LinksInverse' /\ EndsOK' /\ Listed' /\ SizeCounts' /\ RefCounts'
        /\ HeapType' /\ ObjectTypeOK' /\ leaked' \in [Objs -> Nat]
        /\ \E b \in Own(c) : Dropped(c, b)
    BY <1>1, <1>3, FreeBlock DEF chainVars
  <2>2. CallOK' /\ CursorsOK'
    BY <1>2, <1>3 DEF IInv, CallOK, CursorsOK, FreeLoops, chainVars
  <2>3. /\ \A x \in alive : Temporary(x) => Temporary(x)'
        /\ call'.pc \notin {"reverse_clear", "reverse_push"}
        /\ call' \in [pc : Loops, this : Chains, that : Chains \cup {NULL}]
        /\ size' \in [Chains -> Nat] /\ iter' \in Blocks \cup {NULL}
        /\ cursor' \in [Chains -> Blocks \cup {NULL}]
    BY <1>2, <1>3 DEF Temporary, FreeLoops, IInv, TypeOK
  <2>4. TypeOK' /\ BlocksOK'
    BY <1>2, <1>3, <2>1, <2>3, DroppedFacts
  <2> QED BY <2>1, <2>2, <2>4 DEF IInv
<1>4. CASE /\ Object_free(c) /\ call' = Idle /\ UNCHANGED <<gcCount, blockVars, leaked>>
           /\ head[c] = NULL \/ tail[c] = NULL
           /\ Own(c) = {}
  <2>1. \A x \in alive : x # c => ~Freeing(x) /\ ~Temporary(x)
    BY <1>1, <1>2 DEF Freeing, Temporary, FreeLoops, Cloning
  <2>2. /\ live' \subseteq live /\ \A y \in live \ live' : owner[y] = c
        /\ \A y \in live' : /\ next'[y] = next[y] /\ last'[y] = last[y]
                            /\ data'[y] = data[y] /\ counted'[y] = counted[y]
                            /\ owner'[y] = IF owner[y] = c THEN NULL ELSE owner[y]
    BY <1>4 DEF blockVars, Own
  <2>3. /\ LinksInverse' /\ EndsOK' /\ Listed' /\ SizeCounts' /\ BlocksOK' /\ CallOK' /\ CursorsOK'
        /\ kind' \in [Chains -> {"chain", "queue", "stack"}] /\ retain' \in [Chains -> BOOLEAN]
        /\ size' \in [Chains -> Nat] /\ alive' \subseteq Chains
        /\ head' \in [Chains -> Blocks \cup {NULL}] /\ tail' \in [Chains -> Blocks \cup {NULL}]
        /\ cursor' \in [Chains -> Blocks \cup {NULL}]
    BY <1>2, <1>4, <2>1, <2>2, DropChain
  <2>4. RefCounts'
    BY <1>2, <1>4 DEF IInv, RefCounts, Counting, blockVars
  <2>5. TypeOK'
    BY <1>2, <1>4, <2>3 DEF IInv, TypeOK, ObjectTypeOK, blockVars
  <2> QED BY <2>3, <2>4, <2>5 DEF IInv
<1>5. \/ UNCHANGED <<chainVars, size, cursor, call>>
      \/ /\ Object_free(c) /\ call' = Idle /\ UNCHANGED <<gcCount, blockVars, leaked>>
         /\ head[c] = NULL \/ tail[c] = NULL
         /\ Own(c) = {}
  <2>1. CASE call.pc = "free_from_head"
    <3>1. Anchored(c, head[c])
      BY <2>1, <1>2 DEF IInv, EndsOK
    <3>2. head[c] = NULL => Own(c) = {}
      BY <3>1 DEF Anchored, Own, IInv, TypeOK
    <3> QED BY <2>1, <1>1, <3>2 DEF FreeStep, Return
  <2>2. CASE call.pc = "free_from_tail"
    <3>1. Anchored(c, tail[c])
      BY <2>2, <1>2 DEF IInv, EndsOK
    <3>2. tail[c] = NULL => Own(c) = {}
      BY <3>1 DEF Anchored, Own, IInv, TypeOK
    <3> QED BY <2>2, <1>1, <3>2 DEF FreeStep, Return
  <2> QED BY <2>1, <2>2, <1>2 DEF FreeLoops
<1> QED BY <1>3, <1>4, <1>5

LEMMA StepForeach == IInv /\ ForeachStep => IInv'
<1> SUFFICES ASSUME IInv, ForeachStep PROVE IInv'
  OBVIOUS
<1> USE ChainAssumption
<1>1. PICK c : c = call.this
  OBVIOUS
<1>2. /\ call.pc \in {"foreach_from_head", "foreach_from_tail"}
      /\ c \in alive /\ c \in Chains /\ call.pc \notin FreeLoops
      /\ \A x : ~Temporary(x)
      /\ call \in [pc : Loops, this : Chains, that : Chains \cup {NULL}]
      /\ UNCHANGED <<held, chainVars, cursor>>
      /\ call' = call \/ call' = Idle
      /\ call'.pc \notin FreeLoops \cup Cloning
  BY <1>1 DEF ForeachStep, Return, IInv, CallOK, TypeOK, Loops, FreeLoops, Cloning, Temporary, Idle
<1>3. iter' \in Blocks \cup {NULL} /\ cursor' \in [Chains -> Blocks \cup {NULL}]
  BY <1>2 DEF ForeachStep, Toward, IInv, TypeOK
<1>4. CallOK' /\ CursorsOK' /\ (\A x : ~Temporary(x)')
  BY <1>2 DEF IInv, CallOK, CursorsOK, Temporary, Loops, FreeLoops, Cloning, Idle, chainVars
<1>5. \/ UNCHANGED <<gcCount, listVars, blockVars, leaked>>
      \/ Chain_pop_from_head(c) \/ Chain_pop_from_tail(c)
      \/ /\ call' = call /\ UNCHANGED leaked
         /\ \E d \in Payloads : MayPush(c, d) /\ Chain_push_to_tail(c, d)
  BY <1>1 DEF ForeachStep
<1>6. CASE UNCHANGED <<gcCount, listVars, blockVars, leaked>>
  <2>1. /\ LinksInverse' /\ EndsOK' /\ Listed' /\ SizeCounts'
        /\ \A o : Counting(o)' = Counting(o)
    BY <1>2, <1>6, SameHeap DEF chainVars
  <2>2. RefCounts'
    BY <1>2, <1>6, <2>1 DEF IInv, RefCounts
  <2>3. TypeOK'
    BY <1>2, <1>3, <1>6 DEF IInv, TypeOK, ObjectTypeOK, chainVars, listVars, blockVars
  <2>4. BlocksOK'
    BY <1>2, <1>4, <1>6 DEF IInv, BlocksOK, chainVars, blockVars, Cloning
  <2> QED BY <1>4, <2>1, <2>2, <2>3, <2>4 DEF IInv
<1>7. CASE Chain_pop_from_head(c) \/ Chain_pop_from_tail(c)
  <2>1. /\ LinksInverse' /\ EndsOK' /\ Listed' /\ SizeCounts' /\ RefCounts'
        /\ HeapType' /\ ObjectTypeOK' /\ size' \in [Chains -> Nat]
        /\ leaked' = leaked
        /\ \/ UNCHANGED <<gcCount, blockVars, head, tail>>
           \/ \E b \in Own(c) : Dropped(c, b)
    BY <1>2, <1>7, PopStep
  <2>2. leaked' \in [Objs -> Nat]
    BY <2>1 DEF IInv, TypeOK
  <2>3. CASE UNCHANGED <<gcCount, blockVars, head, tail>>
    <3>1. TypeOK'
      BY <1>2, <1>3, <2>1, <2>3 DEF IInv, TypeOK, chainVars, blockVars
    <3>2. BlocksOK'
      BY <1>2, <1>4, <2>3 DEF IInv, BlocksOK, chainVars, blockVars, Cloning
    <3> QED BY <1>4, <2>1, <3>1, <3>2 DEF IInv
  <2>4. ASSUME NEW b \in Own(c), Dropped(c, b) PROVE TypeOK' /\ BlocksOK'
    <3>1. call'.pc \notin {"reverse_clear", "reverse_push"}
      BY <1>2 DEF Cloning
    <3>2. call' = Idle \/ call' \in [pc : Loops, this : Chains, that : Chains \cup {NULL}]
      BY <1>2
    <3> QED BY <1>2, <1>3, <2>1, <2>2, <2>4, <3>1, <3>2, DroppedFacts
  <2> QED BY <1>4, <2>1, <2>3, <2>4 DEF IInv
<1>8. CASE /\ call' = call /\ UNCHANGED leaked
           /\ \E d \in Payloads : MayPush(c, d) /\ Chain_push_to_tail(c, d)
  <2>1. PICK d \in Payloads : MayPush(c, d) /\ Chain_push_to_tail(c, d)
    BY <1>8
  <2>2. retain[c] => d \in Objs
    BY <2>1 DEF MayPush
  <2>3. LinksInverse' /\ EndsOK' /\ Listed' /\ SizeCounts' /\ RefCounts' /\ \E b \in Blocks : Pushed(c, d, b)
    BY <1>2, <1>8, <2>1, <2>2, PushStep
  <2>4. TypeOK' /\ BlocksOK'
    BY <1>2, <1>3, <1>8, <2>2, <2>3, PushedFacts
  <2> QED BY <1>4, <2>3, <2>4 DEF IInv
<1> QED BY <1>5, <1>6, <1>7, <1>8

LEMMA StepStutter == IInv /\ UNCHANGED vars => IInv'
<1> SUFFICES ASSUME IInv, UNCHANGED vars PROVE IInv'
  OBVIOUS
<1>1. (\A c : Own(c)' = Own(c)) /\ (\A o : Counting(o)' = Counting(o))
  BY DEF vars, Own, Counting
<1>2. TypeOK' /\ RefCounts'
  BY <1>1 DEF vars, IInv, TypeOK, ObjectTypeOK, RefCounts
<1>3. LinksInverse' /\ SizeCounts' /\ EndsOK'
  BY <1>1 DEF vars, IInv, LinksInverse, SizeCounts, EndsOK, Sides, Anchored, Freeing
<1>4. Listed' /\ CallOK' /\ BlocksOK' /\ CursorsOK'
  BY <1>1 DEF vars, IInv, Listed, Numbered, CallOK, BlocksOK, CursorsOK, Temporary
<1> QED BY <1>2, <1>3, <1>4 DEF IInv

-----------------------------------------------------------------------------
(* The theorems.                                                            *)

\* The inductive invariant holds in every reachable state of chain.h's handlers
\* and the calls an application makes of them.
THEOREM Invariant == Spec => []IInv
<1>1. IInv /\ [Next]_vars => IInv'
  <2> SUFFICES ASSUME IInv, [Next]_vars PROVE IInv'
    OBVIOUS
  <2> QED BY StepObject, StepNew, StepPush, StepPop, StepEnter, StepClone, StepSync, StepClear,
             StepReversePush, StepReverseRelease, StepFree, StepForeach, StepStutter
          DEF Next, App, Handler
<1> QED BY InitOK, <1>1, PTL DEF Spec

\* Every variable keeps its type; no reference count goes below zero
\* (Object_release, object.h).
THEOREM TypeCorrect == Spec => []TypeOK
BY Invariant, PTL DEF IInv

\* gcCount of every object is the references the application holds, those of the
\* blocks that retained it and those that were leaked, through every pop, clear,
\* clone, reverse and free of chain.h.
THEOREM RefCountsCorrect == Spec => []RefCounts
BY Invariant, PTL DEF IInv

\* Every chain is a doubly linked list between its head and its tail, and its cached
\* size counts its blocks.
THEOREM LinksCorrect == Spec => []WellLinked
BY Invariant, PTL DEF IInv, WellLinked

-----------------------------------------------------------------------------
(* What a step may do to the references, from the same invariant.           *)

\* A pop outside a free is of a chain that is no temporary clone.
LEMMA PopIsPlain ==
  ASSUME IInv, AppPop \/ ClearStep \/ ForeachStep
  PROVE  \/ UNCHANGED leaked /\ gcCount' = gcCount
         \/ /\ ForeachStep /\ UNCHANGED leaked
            /\ \E d \in Payloads : MayPush(call.this, d) /\ Chain_push_to_tail(call.this, d)
         \/ /\ call.pc \notin FreeLoops /\ call'.pc \notin FreeLoops
            /\ UNCHANGED <<held, chainVars>>
            /\ \E c \in alive : ~Temporary(c) /\ (Chain_pop_from_head(c) \/ Chain_pop_from_tail(c))
<1>1. CASE AppPop
  BY <1>1 DEF AppPop, Queue_pop, Stack_pop, Calling, Temporary, Idle, FreeLoops, Cloning
<1>2. CASE ClearStep
  <2>1. call.this \in alive /\ ~Temporary(call.this) /\ call.pc \notin FreeLoops
    BY <1>2 DEF ClearStep, IInv, CallOK, Loops, Temporary, FreeLoops, Cloning
  <2>2. call'.pc \notin FreeLoops
    BY <1>2, <2>1 DEF ClearStep, Enter, Return, Idle, FreeLoops
  <2> QED BY <1>2, <2>1, <2>2 DEF ClearStep
<1>3. CASE ForeachStep
  <2>1. call.this \in alive /\ ~Temporary(call.this) /\ call.pc \notin FreeLoops
    BY <1>3 DEF ForeachStep, IInv, CallOK, Loops, Temporary, FreeLoops, Cloning
  <2>2. call'.pc \notin FreeLoops
    BY <1>3, <2>1 DEF ForeachStep, Return, Idle, FreeLoops
  <2>3. \/ UNCHANGED leaked /\ gcCount' = gcCount
        \/ Chain_pop_from_head(call.this) \/ Chain_pop_from_tail(call.this)
        \/ /\ UNCHANGED leaked
           /\ \E d \in Payloads : MayPush(call.this, d) /\ Chain_push_to_tail(call.this, d)
    BY <1>3 DEF ForeachStep
  <2>4. UNCHANGED <<held, chainVars>>
    BY <1>3 DEF ForeachStep
  <2> QED BY <1>3, <2>1, <2>2, <2>3, <2>4
<1> QED BY <1>1, <1>2, <1>3

\* References are lost only when the temporary clone of a Chain_reverse is freed.
LEMMA ReferencesLost ==
  ASSUME IInv, [Next]_vars, leaked' # leaked
  PROVE  call.pc \in {"free_from_head", "free_from_tail", "reverse_release"} /\ call.that # NULL
<1>1. \/ AppPop \/ ClearStep \/ ForeachStep \/ FreeStep \/ ReverseRelease
  BY DEF Next, App, Handler, vars, AppObject, AppNew, AppPush, AppCursor, AppClear, AppFree,
         AppClone, AppForeach, SyncStep, ReversePush
<1>2. ~(AppPop \/ ClearStep \/ ForeachStep)
  BY PopIsPlain, PopStep
<1>3. CASE FreeStep
  <2>1. call.pc \in FreeLoops /\ call.this \in alive
    BY <1>3 DEF FreeStep, FreeLoops, IInv, CallOK, Loops
  <2>2. alive' = alive /\ call' = call
    BY <1>3 DEF FreeStep, chainVars
  <2>3. Temporary(call.this)
    BY <1>3, <2>2, FreeBlock
  <2> QED BY <2>1, <2>3 DEF Temporary, FreeLoops, Cloning
<1>4. CASE ReverseRelease
  BY <1>4, ChainAssumption DEF ReverseRelease, IInv, CallOK, Cloning, TypeOK
<1> QED BY <1>1, <1>2, <1>3, <1>4

\* A block that stays allocated stays with its chain, and its chain stays allocated,
\* in every step but the release of a stack's clone.
LEMMA BlocksStay ==
  ASSUME IInv, [Next]_vars, NEW b \in live \cap live', owner[b] \in alive,
         ~(ReverseRelease /\ TakenForString(call.that))
  PROVE  owner'[b] \in alive'
<1>1. owner \in [Blocks -> Chains \cup {NULL}] /\ b \in Blocks /\ b \in live /\ b \in live'
  BY DEF IInv, TypeOK
<1>2. CASE UNCHANGED owner /\ alive \subseteq alive'
  BY <1>2
<1>3. ASSUME alive' = alive, NEW c, NEW d, Chain_push_to_head(c, d) \/ Chain_push_to_tail(c, d)
      PROVE  owner'[b] = owner[b]
  BY <1>1, <1>3 DEF Chain_push_to_head, Chain_push_to_tail, Block_new
<1>4. ASSUME NEW c, Chain_pop_from_head(c) \/ Chain_pop_from_tail(c)
      PROVE  owner'[b] = owner[b]
  BY <1>1, <1>4 DEF Chain_pop_from_head, Chain_pop_from_tail, PopNothing, Block_free, blockVars
<1>5. CASE AppPush
  BY <1>3, <1>5 DEF AppPush, Queue_push, Stack_push, chainVars
<1>6. CASE AppPop
  BY <1>4, <1>6 DEF AppPop, Queue_pop, Stack_pop, chainVars
<1>7. CASE SyncStep
  BY <1>2, <1>3, <1>7 DEF SyncStep, blockVars, chainVars
<1>8. CASE ClearStep
  BY <1>4, <1>8 DEF ClearStep, chainVars
<1>9. CASE ReversePush
  BY <1>2, <1>3, <1>9 DEF ReversePush, blockVars, chainVars
<1>10. CASE ForeachStep
  BY <1>2, <1>3, <1>4, <1>10 DEF ForeachStep, blockVars, chainVars
<1>11. CASE FreeStep
  <2>1. PICK c : c = call.this
    OBVIOUS
  <2>2. call.pc \in FreeLoops /\ c \in alive
    BY <1>11, <2>1 DEF FreeStep, FreeLoops, IInv, CallOK, Loops
  <2>3. CASE alive' = alive /\ \E e : Block_free(e, next, last)
    BY <1>1, <2>3 DEF Block_free
  <2>4. CASE /\ alive' = alive \ {c} /\ owner' = owner
             /\ IF call.pc = "free_from_head" THEN head[c] = NULL ELSE tail[c] = NULL
    <3>1. Own(c) = {}
      BY <2>2, <2>4, ChainAssumption
      DEF IInv, EndsOK, Anchored, Own, TypeOK, FreeLoops
    <3> QED BY <1>1, <2>4, <3>1 DEF Own
  <2>5. \/ alive' = alive /\ \E e : Block_free(e, next, last)
        \/ /\ alive' = alive \ {c} /\ owner' = owner
           /\ IF call.pc = "free_from_head" THEN head[c] = NULL ELSE tail[c] = NULL
    BY <1>11, <2>1 DEF FreeStep, Object_free, blockVars, chainVars
  <2> QED BY <2>3, <2>4, <2>5
<1>12. CASE ReverseRelease
  BY <1>2, <1>12 DEF ReverseRelease, chainVars, blockVars
<1>13. CASE AppObject \/ AppNew \/ AppCursor \/ AppClear \/ AppFree \/ AppClone \/ AppForeach \/ UNCHANGED vars
  BY <1>2, <1>13 DEF AppObject, AppNew, AppCursor, AppClear, AppFree, AppClone, AppForeach, vars,
                     CloneStruct, _Chain_new, chainVars, blockVars
<1> QED BY <1>5, <1>6, <1>7, <1>8, <1>9, <1>10, <1>11, <1>12, <1>13 DEF Next, App, Handler

\* Only reverse loses anything: references with the clone it frees, and blocks where
\* that clone is a Stack, which pct_object_free takes for a String.
THEOREM LossesCorrect == Spec => LossesOnlyInReverse
<1>1. ASSUME IInv, [Next]_vars, NEW b \in live \cap live', owner[b] \in alive, owner'[b] \notin alive'
      PROVE  call.pc = "reverse_release" /\ kind[owner[b]] = "stack"
  <2>1. PICK d : d = call.that
    OBVIOUS
  <2>2. ReverseRelease /\ TakenForString(d)
    BY <1>1, <2>1, BlocksStay
  <2>3. owner \in [Blocks -> Chains \cup {NULL}] /\ b \in Blocks
    BY <1>1 DEF IInv, TypeOK
  <2>4. alive' = alive \ {d} /\ owner' = [x \in Blocks |-> IF owner[x] = d THEN NULL ELSE owner[x]]
    BY <2>1, <2>2 DEF ReverseRelease, String_free, Object_free
  <2>5. owner[b] = d
    BY <1>1, <2>3, <2>4
  <2> QED BY <2>2, <2>5 DEF ReverseRelease, TakenForString
<1>2. IInv /\ [Next]_vars =>
        [/\ leaked' # leaked => /\ call.pc \in {"free_from_head", "free_from_tail", "reverse_release"}
                                /\ call.that # NULL
         /\ \A b \in live \cap live' : owner[b] \in alive /\ owner'[b] \notin alive' =>
              call.pc = "reverse_release" /\ kind[owner[b]] = "stack"]_vars
  BY <1>1, ReferencesLost
<1> QED BY Invariant, <1>2, PTL DEF Spec, LossesOnlyInReverse

\* A push of the library finds its payload in a block that retained it.
LEMMA PayloadAllocated ==
  ASSUME IInv, NEW b \in live, counted[b]
  PROVE  data[b] \in Objs /\ gcCount[data[b]] > 0
<1>1. PICK o : o = data[b]
  OBVIOUS
<1>2. o \in Objs /\ held[o] \in Nat /\ leaked[o] \in Nat
  BY <1>1 DEF IInv, BlocksOK, TypeOK, ObjectTypeOK
<1>3. IsFiniteSet(Counting(o)) /\ Cardinality(Counting(o)) \in Nat /\ b \in Counting(o)
  BY <1>1, FiniteParts DEF IInv, Counting
<1>4. Cardinality(Counting(o)) # 0
  BY <1>3, FS_EmptySet
<1>5. gcCount[o] = held[o] + leaked[o] + Cardinality(Counting(o))
  BY <1>2 DEF IInv, RefCounts
<1> QED BY <1>1, <1>2, <1>3, <1>4, <1>5

\* An object that a retaining chain holds is allocated: no handler frees it under
\* the chain.
THEOREM HeldObjectsLive == Spec => [](\A b \in live : counted[b] => gcCount[data[b]] > 0)
<1>1. IInv => \A b \in live : counted[b] => gcCount[data[b]] > 0
  BY PayloadAllocated
<1> QED BY Invariant, <1>1, PTL

\* A freed object is never retained back to life: Chain_reverse relies on the
\* retains of its clone while the chain is empty.
THEOREM NoResurrectionCorrect == Spec => NoResurrection
<1>1. ASSUME IInv, [Next]_vars, NEW o \in Objs, ~Allocated(o), Allocated(o)'
      PROVE  held'[o] > held[o]
  <2>1. gcCount[o] = 0 /\ gcCount'[o] > 0
    BY <1>1 DEF Allocated, IInv, TypeOK, ObjectTypeOK
  <2>2. ASSUME NEW c \in Chains, NEW d \in Payloads, retain[c] => d \in Objs /\ gcCount[d] > 0,
               Chain_push_to_head(c, d) \/ Chain_push_to_tail(c, d)
        PROVE  FALSE
    BY <1>1, <2>1, <2>2 DEF Chain_push_to_head, Chain_push_to_tail, Block_new, Object_retain,
                            IInv, TypeOK, ObjectTypeOK
  <2>3. ASSUME NEW c \in alive, Chain_pop_from_head(c) \/ Chain_pop_from_tail(c)
        PROVE  gcCount' = gcCount \/ \E x : gcCount' = [gcCount EXCEPT ![x] = @ - 1]
    BY <2>3 DEF Chain_pop_from_head, Chain_pop_from_tail, PopNothing, ReleaseData, Object_release
  <2>4. gcCount' # gcCount /\ \A x : gcCount' # [gcCount EXCEPT ![x] = @ - 1]
    BY <1>1, <2>1 DEF IInv, TypeOK, ObjectTypeOK
  <2>5. CASE AppObject
    <3>1. PICK x \in Objs : Object_new(x) \/ App_retain(x) \/ App_release(x)
      BY <2>5 DEF AppObject
    <3>2. x = o
      BY <1>1, <2>1, <3>1 DEF Object_new, App_retain, App_release, Object_retain, Object_release,
                              IInv, TypeOK, ObjectTypeOK
    <3>3. held'[o] = held[o] + 1 \/ (Object_new(o) /\ held'[o] = 1)
      BY <1>1, <2>1, <3>1, <3>2 DEF Object_new, App_retain, App_release, Object_release,
                              IInv, TypeOK, ObjectTypeOK
    <3>4. held[o] = 0
      <4>1. Cardinality(Counting(o)) \in Nat /\ held[o] \in Nat /\ leaked[o] \in Nat
        BY <1>1, FiniteParts DEF IInv, TypeOK, ObjectTypeOK
      <4>2. gcCount[o] = held[o] + leaked[o] + Cardinality(Counting(o))
        BY <1>1 DEF IInv, RefCounts
      <4> QED BY <2>1, <4>1, <4>2
    <3> QED BY <3>3, <3>4
  <2>6. CASE AppPush
    <3>1. PICK c \in Chains, d \in Payloads :
            MayPush(c, d) /\ (Chain_push_to_head(c, d) \/ Chain_push_to_tail(c, d))
      BY <2>6 DEF AppPush, Queue_push, Stack_push
    <3> QED BY <2>2, <3>1 DEF MayPush, Allocated
  <2>7. CASE SyncStep
    <3>1. PICK c, d, p, b : c = call.this /\ d = call.that /\ p = Cursor_data(c) /\ b = cursor[c]
      OBVIOUS
    <3>2. p # NULL /\ Chain_push_to_tail(d, p) /\ call.pc \in {"clone", "reverse"}
      BY <2>4, <2>7, <3>1 DEF SyncStep
    <3>3. /\ b \in live /\ owner[b] = c /\ c \in alive /\ p = data[b] /\ ~Temporary(c)
          /\ retain[d] = retain[c] /\ d \in alive
      BY <1>1, <3>1, <3>2 DEF Cursor_data, IInv, CallOK, CursorsOK, Own, Loops, Cloning, FreeLoops, Temporary
    <3>4. retain[d] => counted[b]
      BY <1>1, <3>3 DEF IInv, BlocksOK
    <3>5. d \in Chains /\ p \in Payloads
      BY <1>1, <3>3 DEF IInv, TypeOK, Payloads
    <3> QED BY <1>1, <2>2, <3>2, <3>3, <3>4, <3>5, PayloadAllocated
  <2>8. CASE ReversePush
    <3>1. PICK c, d, p, b : c = call.this /\ d = call.that /\ p = Cursor_data(d) /\ b = cursor[d]
      OBVIOUS
    <3>2. p # NULL /\ Chain_push_to_tail(c, p) /\ call.pc = "reverse_push"
      BY <2>4, <2>8, <3>1 DEF ReversePush
    <3>3. b \in live /\ owner[b] = d /\ p = data[b] /\ c \in alive
      BY <1>1, <3>1, <3>2 DEF Cursor_data, IInv, CallOK, CursorsOK, Own, Loops, Cloning, FreeLoops
    <3>4. retain[c] => counted[b]
      BY <1>1, <3>1, <3>2, <3>3 DEF IInv, BlocksOK
    <3>5. c \in Chains /\ p \in Payloads
      BY <1>1, <3>3 DEF IInv, TypeOK, Payloads
    <3> QED BY <1>1, <2>2, <3>2, <3>3, <3>4, <3>5, PayloadAllocated
  <2>9. CASE AppPop \/ ClearStep \/ ForeachStep
    <3>1. CASE \E c \in alive : Chain_pop_from_head(c) \/ Chain_pop_from_tail(c)
      BY <2>3, <2>4, <3>1
    <3>2. CASE \E d \in Payloads : ForeachStep /\ MayPush(call.this, d) /\ Chain_push_to_tail(call.this, d)
      <4>1. call.this \in Chains
        BY <1>1, <3>2 DEF ForeachStep, IInv, TypeOK, Idle
      <4> QED BY <2>2, <3>2, <4>1 DEF MayPush, Allocated
    <3> QED BY <1>1, <2>4, <2>9, <3>1, <3>2, PopIsPlain
  <2>10. CASE FreeStep
    BY <2>4, <2>10 DEF FreeStep, ReleaseData, Object_release
  <2>11. \/ AppObject \/ AppPush \/ SyncStep \/ ReversePush \/ AppPop \/ ClearStep \/ ForeachStep \/ FreeStep
    BY <1>1, <2>4 DEF Next, App, Handler, vars, AppNew, AppCursor, AppClear, AppFree,
                AppClone, AppForeach, ReverseRelease, objVars
  <2> QED BY <2>5, <2>6, <2>7, <2>8, <2>9, <2>10, <2>11
<1>2. IInv /\ [Next]_vars => [\A o \in Objs : ~Allocated(o) /\ Allocated(o)' => held'[o] > held[o]]_vars
  BY <1>1
<1> QED BY Invariant, <1>2, PTL DEF Spec, NoResurrection

-----------------------------------------------------------------------------
(* The cursor of a foreach.                                                 *)

LEMMA IterStep ==
  ASSUME IInv, LoopCursorsOK, [Next]_vars,
         call'.pc \in {"foreach_from_head", "foreach_from_tail"}
  PROVE  iter' \in Own(call.this)' \cup {NULL}
<1> USE ChainAssumption
<1>1. CASE AppForeach
  <2>1. PICK c \in Chains : /\ Calling(c) /\ call'.this = c
                            /\ iter' = head[c] \/ iter' = tail[c]
    BY <1>1 DEF AppForeach, Enter
  <2>2. Anchored(c, head[c]) /\ Anchored(c, tail[c])
    BY <2>1 DEF IInv, EndsOK, Calling, Idle, Freeing, FreeLoops
  <2>3. Own(c)' = Own(c)
    BY <1>1 DEF AppForeach, blockVars, Own
  <2> QED BY <2>1, <2>2, <2>3 DEF Anchored
<1>2. CASE UNCHANGED vars
  BY <1>2 DEF vars, LoopCursorsOK, Own
<1>3. CASE ForeachStep
  <2>1. PICK c, x : c = call.this /\ x = iter
    OBVIOUS
  <2>2. /\ call' = call /\ x # NULL /\ UNCHANGED <<chainVars, held>>
        /\ x \in Own(c) /\ c \in alive /\ x \in live /\ owner[x] = c
        /\ Anchored(c, head[c]) /\ Anchored(c, tail[c]) /\ Sides(c)
        /\ call.pc \notin FreeLoops /\ call'.pc \notin FreeLoops /\ ~Temporary(c)
    BY <1>3, <2>1 DEF ForeachStep, Return, Idle, LoopCursorsOK, IInv, CallOK, Loops, Own, EndsOK,
                      Freeing, FreeLoops, Temporary, Cloning
  <2>3. CASE UNCHANGED blockVars
    <3>1. iter' \in Own(c) \cup {NULL}
      BY <1>3, <2>1, <2>2 DEF ForeachStep, Toward, IInv, LinksInverse
    <3>2. Own(c)' = Own(c)
      BY <2>3 DEF Own, blockVars
    <3> QED BY <2>1, <2>2, <3>1, <3>2
  <2>4. CASE \E d \in Payloads : MayPush(c, d) /\ Chain_push_to_tail(c, d) /\ UNCHANGED leaked
    <3>1. iter' \in Own(c) \cup {NULL}
      BY <1>3, <2>1, <2>2 DEF ForeachStep, Toward, IInv, LinksInverse
    <3>2. Own(c) \subseteq Own(c)'
      BY <2>4 DEF Chain_push_to_tail, Block_new, Own, IInv, TypeOK
    <3> QED BY <2>1, <2>2, <3>1, <3>2
  <2>5. CASE call.pc = "foreach_from_head" /\ Chain_pop_from_head(c) /\ ~UNCHANGED blockVars
    <3>1. iter' = next[x] /\ (next[x] # NULL => next[x] \in Own(c) /\ last[next[x]] = x)
      BY <1>3, <2>1, <2>2, <2>5 DEF ForeachStep, Toward, IInv, LinksInverse
    <3>2. head[c] # NULL
      BY <2>5 DEF Chain_pop_from_head, PopNothing
    <3>3. PICK h : h = head[c]
      OBVIOUS
    <3>4. Dropped(c, h) /\ h # next[x]
      <4>1. Dropped(c, h)
        BY <2>2, <2>5, <3>2, <3>3, PopHead
      <4>2. last[h] = NULL
        BY <2>2, <3>2, <3>3 DEF Anchored, Sides
      <4> QED BY <4>1, <4>2, <2>2, <3>1, <3>2, <3>3
    <3>5. Own(c)' = Own(c) \ {h}
      BY <3>4, <2>2 DEF Dropped, Own, IInv, TypeOK
    <3> QED BY <2>1, <2>2, <3>1, <3>4, <3>5
  <2>6. CASE call.pc = "foreach_from_tail" /\ Chain_pop_from_tail(c) /\ ~UNCHANGED blockVars
    <3>1. iter' = last[x] /\ (last[x] # NULL => last[x] \in Own(c) /\ next[last[x]] = x)
      BY <1>3, <2>1, <2>2, <2>6 DEF ForeachStep, Toward, IInv, LinksInverse
    <3>2. tail[c] # NULL
      BY <2>6 DEF Chain_pop_from_tail, PopNothing
    <3>3. PICK t : t = tail[c]
      OBVIOUS
    <3>4. Dropped(c, t) /\ t # last[x]
      <4>1. Dropped(c, t)
        BY <2>2, <2>6, <3>2, <3>3, PopTail
      <4>2. next[t] = NULL
        BY <2>2, <3>2, <3>3 DEF Anchored, Sides
      <4> QED BY <4>1, <4>2, <2>2, <3>1, <3>2, <3>3
    <3>5. Own(c)' = Own(c) \ {t}
      BY <3>4, <2>2 DEF Dropped, Own, IInv, TypeOK
    <3> QED BY <2>1, <2>2, <3>1, <3>4, <3>5
  <2> QED BY <1>3, <2>1, <2>2, <2>3, <2>4, <2>5, <2>6 DEF ForeachStep
<1>4. AppForeach \/ UNCHANGED vars \/ ForeachStep
  <2>1. ~(AppObject \/ AppNew \/ AppPush \/ AppPop \/ AppCursor)
    BY DEF AppObject, AppNew, AppPush, AppPop, AppCursor, Calling, Idle
  <2>2. ~(AppClear \/ AppFree \/ AppClone)
    BY DEF AppClear, AppFree, AppClone, Enter
  <2>3. ~(SyncStep \/ ClearStep)
    BY DEF SyncStep, ClearStep, Enter, Return, Idle
  <2>4. ~(ReversePush \/ FreeStep)
    <3>1. ReversePush => call'.pc \in {"reverse_push", "reverse_release"}
      BY DEF ReversePush, Enter
    <3>2. FreeStep => call'.pc \in {"idle", "free_from_head", "free_from_tail"}
      <4>1. FreeStep => call.pc \in FreeLoops /\ (call' = call \/ call' = Idle)
        BY DEF FreeStep, Return, FreeLoops
      <4>2. call' = Idle => call'.pc = "idle"
        BY DEF Idle
      <4> QED BY <4>1, <4>2 DEF FreeLoops
    <3> QED BY <3>1, <3>2
  <2>5. ~ReverseRelease
    <3>1. ReverseRelease => call'.pc \in {"idle", "free_from_head", "free_from_tail"}
      BY DEF ReverseRelease, String_free, Enter, Return, Idle
    <3> QED BY <3>1
  <2> QED BY <2>1, <2>2, <2>3, <2>4, <2>5 DEF Next, App, Handler
<1> QED BY <1>1, <1>2, <1>3, <1>4

\* No loop of the library steps through a freed block, and neither does a foreach
\* whose callback pops at most one element a turn from the end the loop began at.
THEOREM LoopCursorsCorrect == Spec => []LoopCursorsOK
<1>1. Init => LoopCursorsOK
  BY DEF Init, LoopCursorsOK, Idle
<1>2. ASSUME IInv, IInv', LoopCursorsOK, [Next]_vars PROVE LoopCursorsOK'
  BY <1>2, IterStep DEF IInv, CursorsOK, LoopCursorsOK
<1> QED BY Invariant, <1>1, <1>2, PTL DEF Spec

-----------------------------------------------------------------------------
(* A list read from its head: the payloads along the links, and what a push
   or a pop at either end makes of them. *)

\* s is the list Q from hd along nx, each element once.
Listing(s, Q, hd, nx, nil) ==
  /\ IsFiniteSet(Q) /\ s \in [1 .. Cardinality(Q) -> Q]
  /\ Walk(s, Cardinality(Q), hd, nx, nil)
  /\ Once(s, Cardinality(Q))

\* The payloads on the way.
Reads(v, s, n, dt, P) ==
  /\ v \in Seq(P) /\ Len(v) = n
  /\ \A i \in 1 .. n : v[i] = dt[s[i]]

\* Two ways of writing down the payloads give one sequence.
LEMMA PayloadOf ==
  ASSUME NEW Q, NEW hd, NEW nx, NEW dt, NEW P, NEW n \in Nat, NEW s \in [1 .. n -> Q],
         Order(Q, hd, nx) = s, \A x \in Q : dt[x] \in P
  PROVE  Reads(Payload(Q, hd, nx, dt), s, n, dt, P)
<1>1. PICK v : v = [i \in 1 .. n |-> dt[s[i]]]
  OBVIOUS
<1>2. Payload(Q, hd, nx, dt) = v
  BY <1>1 DEF Payload
<1>3. v = [i \in 1 .. n |-> v[i]] /\ \A i \in 1 .. n : v[i] = dt[s[i]] /\ v[i] \in P
  BY <1>1
<1>4. v \in Seq(P) /\ Len(v) = n
  BY <1>3, FunctionIsSeq
<1> QED BY <1>2, <1>3, <1>4 DEF Reads

\* A listing is the order along the links.
LEMMA ListingFacts ==
  ASSUME NEW s, NEW Q, NEW hd, NEW nx, NEW nil, Listing(s, Q, hd, nx, nil)
  PROVE  /\ Order(Q, hd, nx) = s /\ Cardinality(Q) \in Nat /\ s \in [1 .. Cardinality(Q) -> Q]
         /\ Q = {} <=> Cardinality(Q) = 0
         /\ Q # {} => s[1] = hd
         /\ Q # {} => nx[s[Cardinality(Q)]] = nil
         /\ \A i \in 1 .. Cardinality(Q) : i # Cardinality(Q) => nx[s[i]] = s[i + 1]
<1>1. Cardinality(Q) \in Nat /\ (Q = {} <=> Cardinality(Q) = 0)
  BY FS_CardinalityType, FS_EmptySet DEF Listing
<1>2. Order(Q, hd, nx) = s
  BY OrderIs DEF Listing
<1> QED BY <1>1, <1>2 DEF Listing, Walk

\* The payloads of one listing are one sequence.
LEMMA ReadsTwice ==
  ASSUME NEW v, NEW w, NEW s, NEW t, NEW n \in Nat, NEW dt, NEW dt2, NEW P,
         Reads(v, s, n, dt, P), Reads(w, t, n, dt2, P),
         \A i \in 1 .. n : dt[s[i]] = dt2[t[i]]
  PROVE  v = w
BY SeqEqual DEF Reads

\* A change elsewhere leaves the list alone.
LEMMA PayloadFrame ==
  ASSUME NEW s, NEW Q, NEW hd, NEW nx, NEW nil, Listing(s, Q, hd, nx, nil),
         NEW dt, NEW P, \A x \in Q : dt[x] \in P,
         NEW nx2, NEW dt2, \A x \in Q : nx2[x] = nx[x] /\ dt2[x] = dt[x]
  PROVE  Order(Q, hd, nx2) = Order(Q, hd, nx) /\ Payload(Q, hd, nx2, dt2) = Payload(Q, hd, nx, dt)
<1>1. PICK n : n = Cardinality(Q)
  OBVIOUS
<1>2. n \in Nat /\ s \in [1 .. n -> Q] /\ Order(Q, hd, nx) = s
  BY <1>1, ListingFacts
<1>3. Listing(s, Q, hd, nx2, nil)
  BY <1>1, <1>2 DEF Listing, Walk
<1>4. Order(Q, hd, nx2) = s
  BY <1>3, ListingFacts
<1>5. Reads(Payload(Q, hd, nx, dt), s, n, dt, P)
  BY <1>2, PayloadOf
<1>6. \A x \in Q : dt2[x] \in P
  OBVIOUS
<1>7. Reads(Payload(Q, hd, nx2, dt2), s, n, dt2, P)
  BY <1>2, <1>4, <1>6, PayloadOf
<1>8. Payload(Q, hd, nx2, dt2) = Payload(Q, hd, nx, dt)
  BY <1>2, <1>5, <1>7, ReadsTwice
<1> QED BY <1>2, <1>4, <1>8

\* w is v with d in front, and with d behind it.
Prepended(w, v, d) == w = <<d>> \o v
Appended(w, v, d)  == w = Append(v, d)

\* v has d in front, and behind, and w is v without it.
Rest(w, v, d)  == v # <<>> /\ v[1] = d /\ w = Tail(v)
Start(w, v, d) == v # <<>> /\ v[Len(v)] = d /\ w = Front(v)

\* An element in front.
InFront(Q, hd, nx, dt, t, d, nx2, dt2, nil, P) ==
  /\ t \notin Q /\ d \in P /\ (Q = {} => hd = nil) /\ nx2[t] = hd /\ dt2[t] = d
  /\ \A x \in Q : dt[x] \in P /\ nx2[x] = nx[x] /\ dt2[x] = dt[x]

\* An element linked in front puts its payload in front.
LEMMA PayloadPushHead ==
  ASSUME NEW s, NEW Q, NEW hd, NEW nx, NEW nil, Listing(s, Q, hd, nx, nil),
         NEW dt, NEW P, NEW t, NEW d, NEW nx2, NEW dt2,
         InFront(Q, hd, nx, dt, t, d, nx2, dt2, nil, P)
  PROVE  Prepended(Payload(Q \cup {t}, t, nx2, dt2), Payload(Q, hd, nx, dt), d)
<1>0. /\ t \notin Q /\ d \in P /\ (Q = {} => hd = nil) /\ nx2[t] = hd /\ dt2[t] = d
      /\ \A x \in Q : dt[x] \in P /\ nx2[x] = nx[x] /\ dt2[x] = dt[x]
  BY DEF InFront
<1>1. PICK n : n = Cardinality(Q)
  OBVIOUS
<1>2. n \in Nat /\ s \in [1 .. n -> Q] /\ Order(Q, hd, nx) = s /\ (Q = {} <=> n = 0) /\ (Q # {} => s[1] = hd)
  BY <1>1, ListingFacts
<1>3. Splices(s, Q, hd, nx, t, nx2, nil, t, 0)
  <2>1. nx2[t] = IF 0 = n THEN nil ELSE s[0 + 1]
    BY <1>0, <1>2
  <2>2. \A i \in 1 .. n : i # 0 => nx2[s[i]] = nx[s[i]]
    BY <1>0, <1>2
  <2> QED BY <2>1, <2>2, <1>1 DEF Splices
<1>4. /\ IsFiniteSet(Q) /\ Walk(s, Cardinality(Q), hd, nx, nil)
      /\ 0 \in 0 .. Cardinality(Q) /\ s \in [1 .. Cardinality(Q) -> Q]
  BY <1>1, <1>2 DEF Listing
<1>21. /\ Cardinality(Q \cup {t}) = Cardinality(Q) + 1
       /\ Spliced(Order(Q \cup {t}, t, nx2), s, Cardinality(Q), 0, t)
  BY <1>0, <1>3, <1>4, OrderInsert
<1>5. Cardinality(Q \cup {t}) = n + 1 /\ Spliced(Order(Q \cup {t}, t, nx2), s, n, 0, t)
  BY <1>1, <1>21
<1>6. PICK o : o = Order(Q \cup {t}, t, nx2)
  OBVIOUS
<1>7. o = [i \in 1 .. n + 1 |-> IF i <= 0 THEN s[i] ELSE IF i = 0 + 1 THEN t ELSE s[i - 1]]
  BY <1>5, <1>6 DEF Spliced
<1>8. /\ o \in [1 .. n + 1 -> Q \cup {t}]
      /\ o[1] = t /\ \A i \in 2 .. n + 1 : o[i] = s[i - 1] /\ s[i - 1] \in Q
  BY <1>2, <1>7
<1>9. \A x \in Q \cup {t} : dt2[x] \in P
  BY <1>0
<1>10. n + 1 \in Nat
  BY <1>2
<1>11. PICK v, w : v = Payload(Q, hd, nx, dt) /\ w = Payload(Q \cup {t}, t, nx2, dt2)
  OBVIOUS
<1>12. Reads(v, s, n, dt, P)
  BY <1>0, <1>2, <1>11, PayloadOf
<1>13. Reads(w, o, n + 1, dt2, P)
  BY <1>6, <1>8, <1>9, <1>10, <1>11, PayloadOf
<1>14. <<d>> \in Seq(P) /\ Len(<<d>>) = 1 /\ <<d>>[1] = d
  BY <1>0
<1>15. PICK e \in Seq(P) : e = <<d>>
  BY <1>14
<1>16. PICK u : u = e \o v
  OBVIOUS
<1>17. /\ u \in Seq(P) /\ Len(u) = Len(e) + Len(v)
       /\ \A i \in 1 .. Len(e) + Len(v) : u[i] = IF i <= Len(e) THEN e[i] ELSE v[i - Len(e)]
  BY <1>12, <1>16, ConcatProperties DEF Reads
<1>18. Len(u) = n + 1 /\ u[1] = d /\ \A i \in 2 .. n + 1 : u[i] = v[i - 1] /\ i - 1 \in 1 .. n
  BY <1>2, <1>12, <1>14, <1>15, <1>17 DEF Reads
<1>19. ASSUME NEW i \in 1 .. n + 1 PROVE w[i] = u[i]
  <2>1. CASE i = 1
    BY <2>1, <1>0, <1>2, <1>8, <1>13, <1>18 DEF Reads
  <2>2. CASE i # 1
    <3>1. i \in 2 .. n + 1
      BY <2>2, <1>2
    <3>2. w[i] = dt2[s[i - 1]] /\ u[i] = dt[s[i - 1]]
      BY <3>1, <1>8, <1>12, <1>13, <1>18 DEF Reads
    <3> QED BY <3>1, <3>2, <1>0, <1>8
  <2> QED BY <2>1, <2>2
<1>20. w = u
  BY <1>13, <1>17, <1>18, <1>19, SeqEqual DEF Reads
<1> QED BY <1>11, <1>15, <1>16, <1>20 DEF Prepended

\* An element behind the final one.
LEMMA SplicesLast ==
  ASSUME NEW s, NEW Q, NEW hd, NEW nx, NEW nil, Listing(s, Q, hd, nx, nil),
         NEW t, NEW hd2, NEW nx2,
         hd2 = IF Q = {} THEN t ELSE hd, nx2[t] = nil,
         Q # {} => nx2[s[Cardinality(Q)]] = t,
         \A x \in Q : x # s[Cardinality(Q)] => nx2[x] = nx[x]
  PROVE  Splices(s, Q, hd, nx, hd2, nx2, nil, t, Cardinality(Q))
<1>1. PICK n : n = Cardinality(Q)
  OBVIOUS
<1>2. n \in Nat /\ s \in [1 .. n -> Q] /\ (Q = {} <=> n = 0)
  BY <1>1, ListingFacts
<1>3. hd2 = IF n = 0 THEN t ELSE hd
  BY <1>2
<1>4. n # 0 => nx2[s[n]] = t
  BY <1>1, <1>2
<1>5. ASSUME NEW i \in 1 .. n, i # n PROVE nx2[s[i]] = nx[s[i]]
  <2>1. s[i] # s[n]
    <3>1. n \in 1 .. n
      BY <1>2, <1>5
    <3>2. Once(s, n)
      BY <1>1 DEF Listing
    <3> QED BY <3>1, <3>2, <1>5 DEF Once
  <2> QED BY <2>1, <1>1, <1>2
<1> QED BY <1>3, <1>4, <1>5, <1>1 DEF Splices

\* An element linked in behind the final one ends the order.
LEMMA OrderPushTail ==
  ASSUME NEW s, NEW Q, NEW hd, NEW nx, NEW nil, Listing(s, Q, hd, nx, nil),
         NEW t, t \notin Q, NEW hd2, NEW nx2,
         Splices(s, Q, hd, nx, hd2, nx2, nil, t, Cardinality(Q))
  PROVE  /\ Cardinality(Q \cup {t}) = Cardinality(Q) + 1
         /\ Spliced(Order(Q \cup {t}, hd2, nx2), s, Cardinality(Q), Cardinality(Q), t)
<1>1. Cardinality(Q) \in 0 .. Cardinality(Q)
  BY ListingFacts
<1>2. IsFiniteSet(Q) /\ Walk(s, Cardinality(Q), hd, nx, nil) /\ s \in [1 .. Cardinality(Q) -> Q]
  BY DEF Listing
<1> QED BY <1>1, <1>2, OrderInsert, Zenon

\* An element t with payload d joins the list.
InBack(Q, dt, t, d, dt2, P) ==
  /\ t \notin Q /\ d \in P /\ dt2[t] = d
  /\ \A x \in Q : dt[x] \in P /\ dt2[x] = dt[x]

\* An element linked in behind puts its payload behind.
LEMMA PayloadPushTail ==
  ASSUME NEW s, NEW Q, NEW hd, NEW nx, NEW nil, Listing(s, Q, hd, nx, nil),
         NEW dt, NEW P, NEW t, NEW d, NEW hd2, NEW nx2, NEW dt2,
         Splices(s, Q, hd, nx, hd2, nx2, nil, t, Cardinality(Q)), InBack(Q, dt, t, d, dt2, P)
  PROVE  Appended(Payload(Q \cup {t}, hd2, nx2, dt2), Payload(Q, hd, nx, dt), d)
<1>0. /\ t \notin Q /\ d \in P /\ dt2[t] = d
      /\ \A x \in Q : dt[x] \in P /\ dt2[x] = dt[x]
  BY DEF InBack
<1>1. PICK n : n = Cardinality(Q)
  OBVIOUS
<1>2. n \in Nat /\ s \in [1 .. n -> Q] /\ Order(Q, hd, nx) = s
  BY <1>1, ListingFacts
<1>3. /\ Cardinality(Q \cup {t}) = Cardinality(Q) + 1
      /\ Spliced(Order(Q \cup {t}, hd2, nx2), s, Cardinality(Q), Cardinality(Q), t)
  BY <1>0, OrderPushTail, Zenon
<1>5. Cardinality(Q \cup {t}) = n + 1 /\ Spliced(Order(Q \cup {t}, hd2, nx2), s, n, n, t)
  BY <1>1, <1>3
<1>6. PICK o : o = Order(Q \cup {t}, hd2, nx2)
  OBVIOUS
<1>7. o = [i \in 1 .. n + 1 |-> IF i <= n THEN s[i] ELSE IF i = n + 1 THEN t ELSE s[i - 1]]
  BY <1>5, <1>6 DEF Spliced
<1>8. /\ o \in [1 .. n + 1 -> Q \cup {t}]
      /\ o[n + 1] = t /\ \A i \in 1 .. n : o[i] = s[i] /\ s[i] \in Q
  BY <1>2, <1>7
<1>9. \A x \in Q \cup {t} : dt2[x] \in P
  BY <1>0
<1>10. n + 1 \in Nat
  BY <1>2
<1>11. PICK v, w : v = Payload(Q, hd, nx, dt) /\ w = Payload(Q \cup {t}, hd2, nx2, dt2)
  OBVIOUS
<1>12. Reads(v, s, n, dt, P)
  BY <1>0, <1>2, <1>11, PayloadOf
<1>13. Reads(w, o, n + 1, dt2, P)
  BY <1>6, <1>8, <1>9, <1>10, <1>11, PayloadOf
<1>14. PICK u : u = Append(v, d)
  OBVIOUS
<1>15. /\ u \in Seq(P) /\ Len(u) = Len(v) + 1
       /\ \A i \in 1 .. Len(v) : u[i] = v[i]
       /\ u[Len(v) + 1] = d
  BY <1>0, <1>12, <1>14, AppendProperties DEF Reads
<1>16. ASSUME NEW i \in 1 .. n + 1 PROVE w[i] = u[i]
  <2>1. CASE i = n + 1
    BY <2>1, <1>0, <1>8, <1>12, <1>13, <1>15 DEF Reads
  <2>2. CASE i # n + 1
    <3>1. i \in 1 .. n
      BY <2>2, <1>2
    <3>2. w[i] = dt2[s[i]] /\ u[i] = dt[s[i]]
      BY <3>1, <1>8, <1>12, <1>13, <1>15 DEF Reads
    <3> QED BY <3>1, <3>2, <1>0, <1>8
  <2> QED BY <2>1, <2>2
<1>17. w = u
  BY <1>12, <1>13, <1>15, <1>16, SeqEqual DEF Reads
<1> QED BY <1>11, <1>14, <1>17 DEF Appended

\* The first element unlinked.
OffFront(Q, hd, nx, dt, nx2, dt2, P) ==
  /\ hd \in Q
  /\ \A x \in Q : dt[x] \in P /\ (x # hd => nx2[x] = nx[x] /\ dt2[x] = dt[x])

\* Without its first element a list reads as the tail of what it read.
LEMMA PayloadPopHead ==
  ASSUME NEW s, NEW Q, NEW hd, NEW nx, NEW nil, Listing(s, Q, hd, nx, nil),
         NEW dt, NEW P, NEW nx2, NEW dt2, OffFront(Q, hd, nx, dt, nx2, dt2, P)
  PROVE  Rest(Payload(Q \ {hd}, nx[hd], nx2, dt2), Payload(Q, hd, nx, dt), dt[hd])
<1>0. hd \in Q /\ \A x \in Q : dt[x] \in P /\ (x # hd => nx2[x] = nx[x] /\ dt2[x] = dt[x])
  BY DEF OffFront
<1>1. PICK n : n = Cardinality(Q)
  OBVIOUS
<1>2. n \in Nat /\ s \in [1 .. n -> Q] /\ Order(Q, hd, nx) = s /\ n # 0 /\ s[1] = hd
  BY <1>0, <1>1, ListingFacts
<1>3. IsFiniteSet(Q) /\ Walk(s, n, hd, nx, nil) /\ Once(s, n) /\ n >= 1
  BY <1>1, <1>2 DEF Listing
<1>4. \A x \in Q : x # hd => nx2[x] = nx[x]
  BY <1>0
<1>5. Cardinality(Q \ {hd}) = n - 1 /\ Behind(Order(Q \ {hd}, nx[hd], nx2), s, n)
  BY <1>0, <1>1, <1>2, <1>3, <1>4, OrderRemove
<1>6. PICK o : o = Order(Q \ {hd}, nx[hd], nx2)
  OBVIOUS
<1>7. PICK m \in Nat : n = m + 1
  <2>1. n - 1 \in Nat /\ n = (n - 1) + 1
    BY <1>2
  <2> QED BY <2>1
<1>8. n - 1 = m
  BY <1>7
<1>9. o = [i \in 1 .. m |-> s[i + 1]]
  BY <1>5, <1>6, <1>8 DEF Behind
<1>10. \A i \in 1 .. m : i + 1 \in 1 .. n /\ 1 \in 1 .. n /\ i + 1 # 1
  BY <1>7
<1>11. \A i \in 1 .. m : s[i + 1] \in Q /\ s[i + 1] # hd
  BY <1>2, <1>3, <1>10 DEF Once
<1>12. o \in [1 .. m -> Q \ {hd}] /\ \A i \in 1 .. m : o[i] = s[i + 1]
  BY <1>9, <1>11
<1>13. PICK v, w : v = Payload(Q, hd, nx, dt) /\ w = Payload(Q \ {hd}, nx[hd], nx2, dt2)
  OBVIOUS
<1>14. Reads(v, s, n, dt, P)
  BY <1>0, <1>2, <1>13, PayloadOf
<1>15. \A x \in Q \ {hd} : dt2[x] \in P
  BY <1>0
<1>16. Reads(w, o, m, dt2, P)
  BY <1>6, <1>12, <1>13, <1>15, PayloadOf
<1>17. v # <<>> /\ v[1] = dt[hd]
  BY <1>2, <1>3, <1>14, EmptySeq DEF Reads
<1>18. PICK u : u = Tail(v)
  OBVIOUS
<1>19. u \in Seq(P) /\ Len(u) = m /\ \A i \in 1 .. m : u[i] = v[i + 1]
  <2>1. Tail(v) \in Seq(P) /\ Len(Tail(v)) = Len(v) - 1 /\ \A i \in 1 .. Len(Tail(v)) : Tail(v)[i] = v[i + 1]
    BY <1>14, <1>17, HeadTailProperties DEF Reads
  <2> QED BY <2>1, <1>8, <1>14, <1>18 DEF Reads
<1>20. ASSUME NEW i \in 1 .. m PROVE w[i] = u[i]
  <2>1. w[i] = dt2[s[i + 1]] /\ u[i] = dt[s[i + 1]]
    BY <1>10, <1>12, <1>14, <1>16, <1>19 DEF Reads
  <2> QED BY <2>1, <1>0, <1>11
<1>21. w = u
  BY <1>16, <1>19, <1>20, SeqEqual DEF Reads
<1> QED BY <1>13, <1>17, <1>18, <1>21 DEF Rest

\* All but the final element of a sequence.
LEMMA FrontOfSeq ==
  ASSUME NEW S, NEW s \in Seq(S), s # <<>>
  PROVE  /\ Front(s) \in Seq(S) /\ Len(Front(s)) = Len(s) - 1 /\ Len(s) \in Nat \ {0}
         /\ \A i \in 1 .. (Len(s) - 1) : Front(s)[i] = s[i]
<1>1. Len(s) \in Nat \ {0}
  BY EmptySeq
<1>2. Len(s) \in 1 .. Len(s) + 1
  BY <1>1
<1> QED BY <1>1, <1>2, Prefix DEF Front

\* The final element unlinked.
OffBack(s, Q, hd, nx, dt, tl, hd2, nx2, dt2, nil, P) ==
  /\ Q # {} /\ tl = s[Cardinality(Q)] /\ (hd # tl => hd2 = hd)
  /\ \A x \in Q : /\ dt[x] \in P
                  /\ x # tl => nx2[x] = (IF nx[x] = tl THEN nil ELSE nx[x]) /\ dt2[x] = dt[x]

\* Without its final element a list reads as the front of what it read.
LEMMA PayloadPopTail ==
  ASSUME NEW s, NEW Q, NEW hd, NEW nx, NEW nil, Listing(s, Q, hd, nx, nil),
         NEW dt, NEW P, NEW tl, NEW hd2, NEW nx2, NEW dt2,
         OffBack(s, Q, hd, nx, dt, tl, hd2, nx2, dt2, nil, P)
  PROVE  Start(Payload(Q \ {tl}, hd2, nx2, dt2), Payload(Q, hd, nx, dt), dt[tl])
<1>0. /\ Q # {} /\ tl = s[Cardinality(Q)] /\ (hd # tl => hd2 = hd)
      /\ \A x \in Q : /\ dt[x] \in P
                      /\ x # tl => nx2[x] = (IF nx[x] = tl THEN nil ELSE nx[x]) /\ dt2[x] = dt[x]
  BY DEF OffBack
<1>1. PICK n : n = Cardinality(Q)
  OBVIOUS
<1>2. /\ n \in Nat /\ s \in [1 .. n -> Q] /\ Order(Q, hd, nx) = s /\ n # 0 /\ s[1] = hd /\ s[n] = tl
      /\ \A i \in 1 .. n : i # n => nx[s[i]] = s[i + 1]
  BY <1>0, <1>1, ListingFacts
<1>3. PICK m \in Nat : n = m + 1
  <2>1. n - 1 \in Nat /\ n = (n - 1) + 1
    BY <1>2
  <2> QED BY <2>1
<1>4. IsFiniteSet(Q) /\ Walk(s, m + 1, hd, nx, nil) /\ Once(s, m + 1) /\ s \in [1 .. m + 1 -> Q]
      /\ Cardinality(Q) = m + 1 /\ s[m + 1] = tl
  BY <1>1, <1>2, <1>3 DEF Listing
<1>5. \A i \in 1 .. m : i \in 1 .. m + 1 /\ m + 1 \in 1 .. m + 1 /\ i # m + 1
  OBVIOUS
<1>6. \A i \in 1 .. m : s[i] \in Q /\ s[i] # tl
  BY <1>4, <1>5 DEF Once
<1>7. m # 0 => hd2 = hd
  <2>1. m # 0 => 1 \in 1 .. m
    OBVIOUS
  <2> QED BY <2>1, <1>0, <1>2, <1>6
<1>8. m # 0 => nx2[s[m]] = nil
  <2>1. m # 0 => m \in 1 .. m /\ m # n /\ m \in 1 .. n
    BY <1>3
  <2>2. m # 0 => nx[s[m]] = tl
    BY <2>1, <1>2, <1>3
  <2> QED BY <2>1, <2>2, <1>0, <1>6
<1>9. ASSUME NEW i \in 1 .. m, i # m PROVE nx2[s[i]] = nx[s[i]]
  <2>1. i \in 1 .. n /\ i # n /\ i + 1 \in 1 .. m
    BY <1>3, <1>9
  <2>2. nx[s[i]] = s[i + 1] /\ s[i + 1] # tl
    BY <2>1, <1>2, <1>6
  <2> QED BY <2>2, <1>0, <1>6
<1>22. Unlinks(s, m, hd, nx, hd2, nx2, nil)
  BY <1>7, <1>8, <1>9 DEF Unlinks
<1>10. Cardinality(Q \ {tl}) = m /\ Shortened(Order(Q \ {tl}, hd2, nx2), s, m)
  BY <1>4, <1>22, OrderRemoveLast
<1>11. PICK o : o = Order(Q \ {tl}, hd2, nx2) /\ o = [i \in 1 .. m |-> s[i]]
  BY <1>10 DEF Shortened
<1>12. o \in [1 .. m -> Q \ {tl}] /\ \A i \in 1 .. m : o[i] = s[i]
  BY <1>6, <1>11
<1>13. PICK v, w : v = Payload(Q, hd, nx, dt) /\ w = Payload(Q \ {tl}, hd2, nx2, dt2)
  OBVIOUS
<1>14. Reads(v, s, n, dt, P)
  BY <1>0, <1>2, <1>13, PayloadOf
<1>15. \A x \in Q \ {tl} : dt2[x] \in P
  BY <1>0
<1>16. Reads(w, o, m, dt2, P)
  BY <1>10, <1>11, <1>12, <1>13, <1>15, PayloadOf
<1>17. v # <<>> /\ v[Len(v)] = dt[tl]
  <2>1. n \in 1 .. n
    BY <1>2
  <2> QED BY <2>1, <1>2, <1>14, EmptySeq DEF Reads
<1>18. PICK u : u = Front(v)
  OBVIOUS
<1>19. u \in Seq(P) /\ Len(u) = m /\ \A i \in 1 .. m : u[i] = v[i]
  <2>1. Front(v) \in Seq(P) /\ Len(Front(v)) = Len(v) - 1 /\ \A i \in 1 .. (Len(v) - 1) : Front(v)[i] = v[i]
    BY <1>14, <1>17, FrontOfSeq DEF Reads
  <2>2. Len(v) - 1 = m
    BY <1>3, <1>14 DEF Reads
  <2> QED BY <2>1, <2>2, <1>18
<1>20. ASSUME NEW i \in 1 .. m PROVE w[i] = u[i]
  <2>1. w[i] = dt2[s[i]] /\ u[i] = dt[s[i]]
    BY <1>5, <1>3, <1>12, <1>14, <1>16, <1>19 DEF Reads
  <2> QED BY <2>1, <1>0, <1>6
<1>21. w = u
  BY <1>16, <1>19, <1>20, SeqEqual DEF Reads
<1> QED BY <1>13, <1>17, <1>18, <1>21 DEF Start

\* No element.
LEMMA PayloadNone ==
  ASSUME NEW hd, NEW nx, NEW dt
  PROVE  Payload({}, hd, nx, dt) = <<>>
<1>1. PICK s : s = Order({}, hd, nx)
  OBVIOUS
<1>2. Cardinality({}) = 0 /\ IsFiniteSet({})
  BY FS_EmptySet
<1>3. PICK t : t = [i \in 1 .. 0 |-> 0]
  OBVIOUS
<1>4. t \in [1 .. Cardinality({}) -> {}] /\ Walk(t, Cardinality({}), hd, nx, 0)
  BY <1>2, <1>3 DEF Walk
<1>5. Order({}, hd, nx) = t
  BY <1>2, <1>4, OrderIs
<1>6. 0 \in Nat /\ t \in [1 .. 0 -> {}] /\ \A x \in {} : dt[x] \in {}
  BY <1>3
<1>7. Reads(Payload({}, hd, nx, dt), t, 0, dt, {})
  BY <1>5, <1>6, PayloadOf
<1> QED BY <1>7, EmptySeq DEF Reads

-----------------------------------------------------------------------------
(* The blocks of a chain, in the order of its links, are one sequence. *)

(* A numbering that counts up by one from the least to the greatest has no  *)
(* gap, so the distance from the least is one.                               *)
CountsFrom(p, Q, hd, tl, nx, nil) ==
  /\ \A x \in Q : p[x] \in Int /\ p[hd] <= p[x] /\ p[x] <= p[tl]
  /\ \A x, y \in Q : p[x] = p[y] => x = y
  /\ \A x \in Q : IF x = tl THEN nx[x] = nil ELSE nx[x] \in Q /\ p[nx[x]] = p[x] + 1

\* So the numbers are those of a sequence.
LEMMA NoGap ==
  ASSUME NEW Q, IsFiniteSet(Q), NEW p, NEW hd \in Q, NEW tl \in Q, NEW nx, NEW nil,
         CountsFrom(p, Q, hd, tl, nx, nil)
  PROVE  \E q : CountsAlong(q, Q, hd, nx, nil) /\ q[tl] = Cardinality(Q)
<1>1. /\ \A x \in Q : p[x] \in Int /\ p[hd] <= p[x] /\ p[x] <= p[tl]
      /\ \A x, y \in Q : p[x] = p[y] => x = y
      /\ \A x \in Q : IF x = tl THEN nx[x] = nil ELSE nx[x] \in Q /\ p[nx[x]] = p[x] + 1
  BY DEF CountsFrom
<1>2. PICK m \in Nat \ {0} : m = (p[tl] - p[hd]) + 1
  <2>1. p[tl] \in Int /\ p[hd] \in Int /\ p[hd] <= p[tl]
    BY <1>1
  <2> QED BY <2>1
<1>3. PICK q : q = [x \in Q |-> (p[x] - p[hd]) + 1]
  OBVIOUS
<1>4. \A x \in Q : q[x] \in 1 .. m
  <2>1. ASSUME NEW x \in Q PROVE q[x] \in 1 .. m
    <3>1. p[x] \in Int /\ p[tl] \in Int /\ p[hd] \in Int /\ p[hd] <= p[x] /\ p[x] <= p[tl]
      BY <1>1
    <3> QED BY <3>1, <1>2, <1>3
  <2> QED BY <2>1
<1>5. q[hd] = 1 /\ q[tl] = m
  <2>1. p[hd] \in Int /\ p[tl] \in Int
    BY <1>1
  <2> QED BY <2>1, <1>2, <1>3
<1>6. \A x, y \in Q : q[x] = q[y] => x = y
  <2>1. ASSUME NEW x \in Q, NEW y \in Q, q[x] = q[y] PROVE x = y
    <3>1. p[x] \in Int /\ p[y] \in Int /\ p[hd] \in Int
      BY <1>1
    <3>2. p[x] = p[y]
      BY <3>1, <2>1, <1>3
    <3> QED BY <3>2, <1>1
  <2> QED BY <2>1
<1>7. \A x \in Q : x = tl <=> q[x] = m
  BY <1>5, <1>6
<1>8. \A x \in Q : x # tl => nx[x] \in Q /\ q[nx[x]] = q[x] + 1
  <2>1. ASSUME NEW x \in Q, x # tl PROVE nx[x] \in Q /\ q[nx[x]] = q[x] + 1
    <3>1. /\ nx[x] \in Q /\ p[nx[x]] = p[x] + 1
          /\ p[x] \in Int /\ p[hd] \in Int
      BY <2>1, <1>1
    <3> QED BY <3>1, <1>3
  <2> QED BY <2>1
<1>9. \A i \in 1 .. m : \E x \in Q : q[x] = i
  <2> SUFFICES ASSUME \E i \in 1 .. m : \A x \in Q : q[x] # i PROVE FALSE
    OBVIOUS
  <2> DEFINE N == {i \in 1 .. m : \A x \in Q : q[x] # i}
  <2>1. N # {} /\ N \in SUBSET Nat
    OBVIOUS
  <2>2. PICK i \in N : \A j \in N : i <= j
    BY <2>1, Least
  <2>3. i \in 1 .. m /\ \A x \in Q : q[x] # i
    OBVIOUS
  <2>4. i # 1
    BY <1>5, <2>3
  <2>5. i - 1 \in 1 .. m /\ ~(i <= i - 1)
    BY <2>3, <2>4
  <2>6. PICK x \in Q : q[x] = i - 1
    BY <2>2, <2>5
  <2>7. x # tl
    BY <2>3, <2>6, <1>2, <1>5
  <2>8. nx[x] \in Q /\ q[nx[x]] = i
    <3>1. nx[x] \in Q /\ q[nx[x]] = (i - 1) + 1
      BY <2>6, <2>7, <1>8
    <3> QED BY <3>1, <2>3
  <2> QED BY <2>3, <2>8
<1>10. q \in [Q -> 1 .. m]
  BY <1>3, <1>4
<1>11. q \in Bijection(Q, 1 .. m)
  BY <1>6, <1>9, <1>10 DEF Bijection, Injection, Surjection, IsInjective
<1>12. ExistsBijection(Q, 1 .. m)
  BY <1>11 DEF ExistsBijection
<1>13. Cardinality(1 .. m) = m
  BY FS_Interval, <1>2
<1>14. Cardinality(Q) = m
  BY <1>12, <1>13, FS_Bijection
<1>15. \A x \in Q : IF q[x] = m THEN nx[x] = nil ELSE nx[x] \in Q /\ q[nx[x]] = q[x] + 1
  BY <1>1, <1>7, <1>8
<1>16. CountsAlong(q, Q, hd, nx, nil)
  BY <1>5, <1>6, <1>10, <1>14, <1>15 DEF CountsAlong
<1> QED BY <1>5, <1>14, <1>16

-----------------------------------------------------------------------------
\* The blocks of c in their order.
Enumerates(c, s) ==
  /\ Listing(s, Own(c), head[c], next, NULL)
  /\ \A b \in Own(c) : \E i \in 1 .. Cardinality(Own(c)) : s[i] = b
  /\ Own(c) # {} => s[Cardinality(Own(c))] = tail[c]
  /\ \A i \in 1 .. Cardinality(Own(c)) : last[s[i]] = IF i = 1 THEN NULL ELSE s[i - 1]

\* The numbering of the blocks (Listed) makes the links of c one sequence of
\* all its blocks: the order from the head enumerates them.
LEMMA LinkedOrder ==
  ASSUME IInv, NEW c \in alive, ~Freeing(c)
  PROVE  \E s : Enumerates(c, s)
<1>1. IsFiniteSet(Own(c))
  BY FiniteParts DEF IInv
<1>2. Anchored(c, head[c]) /\ Anchored(c, tail[c]) /\ Sides(c)
  BY DEF IInv, EndsOK
<1>3. CASE Own(c) = {}
  <2>1. PICK t : t = [i \in 1 .. 0 |-> 0]
    OBVIOUS
  <2>2. Cardinality(Own(c)) = 0
    BY <1>3, FS_EmptySet
  <2>3. t \in [1 .. 0 -> Own(c)] /\ Walk(t, 0, head[c], next, NULL) /\ Once(t, 0)
    BY <2>1 DEF Walk, Once
  <2>4. Listing(t, Own(c), head[c], next, NULL)
    BY <1>1, <2>2, <2>3 DEF Listing
  <2>5. Enumerates(c, t)
    BY <1>3, <2>2, <2>4 DEF Enumerates
  <2> QED BY <2>5
<1>4. CASE Own(c) # {}
  <2>1. head[c] \in Own(c) /\ tail[c] \in Own(c)
    BY <1>2, <1>4 DEF Anchored
  <2>2. PICK p \in [Blocks -> Int] : Numbered(p, c)
    BY DEF IInv, Listed
  <2>3. \A b \in Own(c) : /\ b \in Blocks /\ b \in live /\ owner[b] = c /\ owner[b] \in alive
                          /\ next[b] \in Blocks \cup {NULL}
    BY DEF Own, IInv, TypeOK
  <2>4. \A b \in Own(c) : IF b = tail[c] THEN next[b] = NULL
                          ELSE next[b] \in Own(c) /\ last[next[b]] = b /\ p[next[b]] = p[b] + 1
    BY <1>2, <2>2, <2>3 DEF Sides, Numbered, IInv, LinksInverse
  <2>5. CountsFrom(p, Own(c), head[c], tail[c], next, NULL)
    BY <2>1, <2>2, <2>3, <2>4 DEF CountsFrom, Numbered
  <2>6. PICK q : CountsAlong(q, Own(c), head[c], next, NULL) /\ q[tail[c]] = Cardinality(Own(c))
    BY <1>1, <2>1, <2>5, NoGap
  <2>7. PICK n : n = Cardinality(Own(c))
    OBVIOUS
  <2>8. PICK s \in [1 .. n -> Own(c)] :
          /\ Walk(s, n, head[c], next, NULL)
          /\ \A x \in Own(c) : s[q[x]] = x
          /\ \A i \in 1 .. n : q[s[i]] = i
    BY <1>1, <2>6, <2>7, WalkExists
  <2>9. n \in Nat
    BY <1>1, <2>7, FS_CardinalityType
  <2>10. Once(s, n)
    BY <2>8 DEF Once
  <2>11. Listing(s, Own(c), head[c], next, NULL)
    BY <1>1, <2>7, <2>8, <2>10 DEF Listing
  <2>12. \A b \in Own(c) : \E i \in 1 .. n : s[i] = b
    <3>1. \A b \in Own(c) : q[b] \in 1 .. n
      BY <2>6, <2>7 DEF CountsAlong
    <3> QED BY <3>1, <2>8
  <2>13. s[n] = tail[c]
    BY <2>1, <2>6, <2>7, <2>8
  <2>14. ASSUME NEW i \in 1 .. n PROVE last[s[i]] = IF i = 1 THEN NULL ELSE s[i - 1]
    <3>1. CASE i = 1
      <4>1. s[i] = head[c]
        BY <3>1, <2>8 DEF Walk
      <4> QED BY <4>1, <3>1, <1>2, <2>1 DEF Sides
    <3>2. CASE i # 1
      <4>1. i - 1 \in 1 .. n /\ i - 1 # n /\ (i - 1) + 1 = i
        BY <3>2, <2>9
      <4>2. next[s[i - 1]] = s[i]
        BY <4>1, <2>8 DEF Walk
      <4>3. s[i - 1] \in Own(c) /\ s[i] \in Own(c)
        BY <4>1, <2>8
      <4>4. s[i - 1] # tail[c]
        BY <4>1, <2>1, <2>8, <2>13, <2>9, <2>10 DEF Once
      <4>5. last[s[i]] = s[i - 1]
        BY <4>2, <4>3, <4>4, <2>4
      <4> QED BY <3>2, <4>5
    <3> QED BY <3>1, <3>2
  <2>15. Enumerates(c, s)
    BY <2>7, <2>11, <2>12, <2>13, <2>14 DEF Enumerates
  <2> QED BY <2>15
<1> QED BY <1>3, <1>4

-----------------------------------------------------------------------------
(* Items(c) are the payloads of that sequence: what a push makes of them. *)

\* The blocks of c, from its head.
Chained(c) == Order(Own(c), head[c], next)

\* The blocks of c, their order and their payloads stay.
Kept(c) == Own(c)' = Own(c) /\ Chained(c)' = Chained(c) /\ Items(c)' = Items(c)

\* The items are the payloads of the blocks in their order.
LEMMA ItemsOf ==
  ASSUME IInv, NEW c, NEW s, Enumerates(c, s)
  PROVE  /\ Chained(c) = s
         /\ Reads(Items(c), s, Cardinality(Own(c)), data, Payloads)
         /\ \A x \in Own(c) : data[x] \in Payloads
<1>1. PICK Q, hd, nx, dt : Q = Own(c) /\ hd = head[c] /\ nx = next /\ dt = data
  OBVIOUS
<1>2. \A x \in Q : dt[x] \in Payloads
  BY <1>1 DEF Own, IInv, TypeOK, Payloads
<1>3. Listing(s, Q, hd, nx, NULL)
  BY <1>1 DEF Enumerates
<1>4. Order(Q, hd, nx) = s /\ Cardinality(Q) \in Nat /\ s \in [1 .. Cardinality(Q) -> Q]
  BY <1>3, ListingFacts
<1>5. Reads(Payload(Q, hd, nx, dt), s, Cardinality(Q), dt, Payloads)
  BY <1>2, <1>4, PayloadOf
<1> QED BY <1>1, <1>2, <1>4, <1>5 DEF Items, Chained

\* They are a sequence of payloads.
LEMMA ItemsType ==
  ASSUME IInv, NEW c \in alive, ~Freeing(c)
  PROVE  Items(c) \in Seq(Payloads) /\ Len(Items(c)) = Cardinality(Own(c))
<1>1. PICK s : Enumerates(c, s)
  BY LinkedOrder
<1> QED BY <1>1, ItemsOf DEF Reads

\* A step that leaves the links and payloads of the blocks of c alone keeps c.
LEMMA ItemsFrame ==
  ASSUME IInv, NEW c \in alive, ~Freeing(c), Own(c)' = Own(c), head'[c] = head[c],
         \A b \in Own(c) : next'[b] = next[b] /\ data'[b] = data[b]
  PROVE  Kept(c)
<1>1. PICK s : Enumerates(c, s)
  BY LinkedOrder
<1>2. PICK Q, hd, nx, dt, nx2, dt2 :
        Q = Own(c) /\ hd = head[c] /\ nx = next /\ dt = data /\ nx2 = next' /\ dt2 = data'
  OBVIOUS
<1>3. Listing(s, Q, hd, nx, NULL) /\ \A x \in Q : dt[x] \in Payloads
  BY <1>1, <1>2, ItemsOf DEF Enumerates
<1>4. \A x \in Q : nx2[x] = nx[x] /\ dt2[x] = dt[x]
  BY <1>2
<1>5. Order(Q, hd, nx2) = Order(Q, hd, nx) /\ Payload(Q, hd, nx2, dt2) = Payload(Q, hd, nx, dt)
  BY <1>3, <1>4, PayloadFrame
<1>6. Items(c) = Payload(Q, hd, nx, dt) /\ Chained(c) = Order(Q, hd, nx)
  BY <1>2 DEF Items, Chained
<1>7. Items(c)' = Payload(Q, hd, nx2, dt2) /\ Chained(c)' = Order(Q, hd, nx2)
  BY <1>2 DEF Items, Chained
<1> QED BY <1>5, <1>6, <1>7 DEF Kept

-----------------------------------------------------------------------------
(* What the pushes do to the items.                                         *)

\* Chain_push_to_head adds a fresh block as AddHead describes.
LEMMA PushHeadIs ==
  ASSUME IInv, NEW c \in alive, NEW d \in Payloads, call.pc \notin FreeLoops,
         UNCHANGED chainVars, Chain_push_to_head(c, d)
  PROVE  \E b \in Blocks : AtHead(c, b) /\ Pushed(c, d, b)
<1> USE ChainAssumption
<1>1. HeapType /\ Shape
  BY InvShape
<1>2. Anchored(c, head[c]) /\ Anchored(c, tail[c]) /\ c \in Chains
  BY DEF IInv, EndsOK, Freeing, FreeLoops, TypeOK
<1>3. (head[c] = NULL <=> Own(c) = {}) /\ (tail[c] = NULL <=> Own(c) = {})
  BY <1>2 DEF Anchored, Own, IInv, TypeOK
<1>4. PICK b \in Blocks \ live : Chain_push_to_head(c, d)!(b)
  BY DEF Chain_push_to_head
<1>5. AtHead(c, b)
  BY <1>2, <1>3, <1>4 DEF Block_new, AtHead, chainVars
<1>6. /\ head' \in [Chains -> Blocks \cup {NULL}] /\ tail' \in [Chains -> Blocks \cup {NULL}]
      /\ next' \in [Blocks -> Blocks \cup {NULL}] /\ last' \in [Blocks -> Blocks \cup {NULL}]
  BY <1>1, <1>5, AddHead DEF HeapType
<1> QED BY <1>4, <1>5, <1>6 DEF Block_new, Pushed, Object_retain

\* Chain_push_to_tail does so as AddTail describes.
LEMMA PushTailIs ==
  ASSUME IInv, NEW c \in alive, NEW d \in Payloads, call.pc \notin FreeLoops,
         UNCHANGED chainVars, Chain_push_to_tail(c, d)
  PROVE  \E b \in Blocks : AtTail(c, b) /\ Pushed(c, d, b)
<1> USE ChainAssumption
<1>1. HeapType /\ Shape
  BY InvShape
<1>2. Anchored(c, head[c]) /\ Anchored(c, tail[c]) /\ c \in Chains
  BY DEF IInv, EndsOK, Freeing, FreeLoops, TypeOK
<1>3. (head[c] = NULL <=> Own(c) = {}) /\ (tail[c] = NULL <=> Own(c) = {})
  BY <1>2 DEF Anchored, Own, IInv, TypeOK
<1>4. PICK b \in Blocks \ live : Chain_push_to_tail(c, d)!(b)
  BY DEF Chain_push_to_tail
<1>5. AtTail(c, b)
  BY <1>2, <1>3, <1>4 DEF Block_new, AtTail, chainVars
<1>6. /\ head' \in [Chains -> Blocks \cup {NULL}] /\ tail' \in [Chains -> Blocks \cup {NULL}]
      /\ next' \in [Blocks -> Blocks \cup {NULL}] /\ last' \in [Blocks -> Blocks \cup {NULL}]
  BY <1>1, <1>5, AddTail DEF HeapType
<1> QED BY <1>4, <1>5, <1>6 DEF Block_new, Pushed, Object_retain

\* Outside the freeing loops no chain is being freed.
LEMMA NotFreeing ==
  ASSUME call.pc \notin FreeLoops
  PROVE  \A x : ~Freeing(x)
BY DEF Freeing, FreeLoops

\* A push to the head prepends to its chain and keeps every other.
LEMMA PushHeadItems ==
  ASSUME IInv, NEW c \in alive, NEW d \in Payloads, call.pc \notin FreeLoops,
         UNCHANGED chainVars, Chain_push_to_head(c, d)
  PROVE  /\ Prepended(Items(c)', Items(c), d)
         /\ \A x \in alive : x # c => Kept(x)
<1> USE ChainAssumption
<1>1. PICK b \in Blocks : AtHead(c, b) /\ Pushed(c, d, b)
  BY PushHeadIs
<1>2. HeapType /\ Shape
  BY InvShape
<1>3. \A x \in alive : Own(x)' = IF x = c THEN Own(x) \cup {b} ELSE Own(x)
  BY <1>1, <1>2, AddHead
<1>4. /\ b \notin live /\ c \in Chains
      /\ \A y \in live : next'[y] = next[y] /\ data'[y] = data[y]
      /\ next'[b] = head[c] /\ data'[b] = d
      /\ head'[c] = b /\ \A x \in alive : x # c => head'[x] = head[x]
  BY <1>1 DEF AtHead, Pushed, IInv, TypeOK
<1>5. \A x : \A y \in Own(x) : y \in live
  BY DEF Own
<1>6. ASSUME NEW x \in alive, x # c PROVE Kept(x)
  <2>1. ~Freeing(x)
    BY NotFreeing
  <2>2. Own(x)' = Own(x) /\ head'[x] = head[x]
    BY <1>3, <1>4, <1>6
  <2>3. \A y \in Own(x) : next'[y] = next[y] /\ data'[y] = data[y]
    BY <1>4, <1>5
  <2> QED BY <2>1, <2>2, <2>3, ItemsFrame
<1>7. ~Freeing(c)
  BY NotFreeing
<1>8. PICK s : Enumerates(c, s)
  BY <1>7, LinkedOrder
<1>9. PICK Q, hd, nx, dt, nx2, dt2 :
        Q = Own(c) /\ hd = head[c] /\ nx = next /\ dt = data /\ nx2 = next' /\ dt2 = data'
  OBVIOUS
<1>10. Listing(s, Q, hd, nx, NULL) /\ \A x \in Q : dt[x] \in Payloads
  BY <1>8, <1>9, ItemsOf DEF Enumerates
<1>11. b \notin Q /\ (Q = {} => hd = NULL) /\ nx2[b] = hd /\ dt2[b] = d
  <2>1. Anchored(c, head[c])
    BY <1>7 DEF IInv, EndsOK
  <2> QED BY <2>1, <1>4, <1>5, <1>9 DEF Anchored
<1>12. \A x \in Q : nx2[x] = nx[x] /\ dt2[x] = dt[x]
  BY <1>4, <1>5, <1>9
<1>16. InFront(Q, hd, nx, dt, b, d, nx2, dt2, NULL, Payloads)
  BY <1>10, <1>11, <1>12 DEF InFront
<1>13. Prepended(Payload(Q \cup {b}, b, nx2, dt2), Payload(Q, hd, nx, dt), d)
  BY <1>10, <1>16, PayloadPushHead
<1>14. Items(c) = Payload(Q, hd, nx, dt)
  BY <1>9 DEF Items
<1>15. Items(c)' = Payload(Q \cup {b}, b, nx2, dt2)
  <2>1. Own(c)' = Q \cup {b} /\ head'[c] = b
    BY <1>3, <1>4, <1>9
  <2> QED BY <2>1, <1>9 DEF Items
<1> QED BY <1>6, <1>13, <1>14, <1>15

\* A push to the tail appends to its chain and keeps every other.
LEMMA PushTailItems ==
  ASSUME IInv, NEW c \in alive, NEW d \in Payloads, call.pc \notin FreeLoops,
         UNCHANGED chainVars, Chain_push_to_tail(c, d)
  PROVE  /\ Appended(Items(c)', Items(c), d)
         /\ \A x \in alive : x # c => Kept(x)
<1> USE ChainAssumption
<1>1. PICK b \in Blocks : AtTail(c, b) /\ Pushed(c, d, b)
  BY PushTailIs
<1>2. HeapType /\ Shape
  BY InvShape
<1>3. \A x \in alive : Own(x)' = IF x = c THEN Own(x) \cup {b} ELSE Own(x)
  BY <1>1, <1>2, AddTail
<1>4. ~Freeing(c)
  BY NotFreeing
<1>5. Anchored(c, head[c]) /\ Anchored(c, tail[c])
  BY <1>4 DEF IInv, EndsOK
<1>6. /\ Own(c) = {} => tail[c] = NULL
      /\ Own(c) # {} => tail[c] \in Own(c)
      /\ NULL \notin Own(c)
  BY <1>5 DEF Anchored, Own, IInv, TypeOK
<1>7. \A x : \A y \in Own(x) : y \in live /\ y \in Blocks /\ owner[y] = x
  BY DEF Own, IInv, TypeOK
<1>8. /\ b \notin live /\ c \in Chains
      /\ \A y \in live : data'[y] = data[y] /\ (y # tail[c] => next'[y] = next[y])
      /\ Own(c) # {} => next'[tail[c]] = b
      /\ next'[b] = NULL /\ data'[b] = d
      /\ head'[c] = IF Own(c) = {} THEN b ELSE head[c]
      /\ \A x \in alive : x # c => head'[x] = head[x]
  BY <1>1, <1>6, <1>7 DEF AtTail, Pushed, IInv, TypeOK
<1>9. ASSUME NEW x \in alive, x # c PROVE Kept(x)
  <2>1. ~Freeing(x)
    BY NotFreeing
  <2>2. Own(x)' = Own(x) /\ head'[x] = head[x]
    BY <1>3, <1>8, <1>9
  <2>3. \A y \in Own(x) : y # tail[c]
    BY <1>6, <1>7, <1>9
  <2>4. \A y \in Own(x) : next'[y] = next[y] /\ data'[y] = data[y]
    BY <2>3, <1>7, <1>8
  <2> QED BY <2>1, <2>2, <2>4, ItemsFrame
<1>10. PICK s : Enumerates(c, s)
  BY <1>4, LinkedOrder
<1>11. PICK Q, hd, nx, dt, hd2, nx2, dt2 :
         /\ Q = Own(c) /\ hd = head[c] /\ nx = next /\ dt = data
         /\ hd2 = head'[c] /\ nx2 = next' /\ dt2 = data'
  OBVIOUS
<1>12. Listing(s, Q, hd, nx, NULL) /\ \A x \in Q : dt[x] \in Payloads
  BY <1>10, <1>11, ItemsOf DEF Enumerates
<1>13. Q # {} => s[Cardinality(Q)] = tail[c]
  BY <1>10, <1>11 DEF Enumerates
<1>14. /\ b \notin Q /\ hd2 = (IF Q = {} THEN b ELSE hd) /\ nx2[b] = NULL /\ dt2[b] = d
       /\ Q # {} => nx2[s[Cardinality(Q)]] = b
  BY <1>7, <1>8, <1>11, <1>13
<1>15. \A x \in Q : x # s[Cardinality(Q)] => nx2[x] = nx[x]
  BY <1>7, <1>8, <1>11, <1>13
<1>16. \A x \in Q : dt2[x] = dt[x]
  BY <1>7, <1>8, <1>11
<1>17. Splices(s, Q, hd, nx, hd2, nx2, NULL, b, Cardinality(Q))
  BY <1>12, <1>14, <1>15, SplicesLast, Zenon
<1>21. InBack(Q, dt, b, d, dt2, Payloads)
  BY <1>12, <1>14, <1>16 DEF InBack
<1>18. Appended(Payload(Q \cup {b}, hd2, nx2, dt2), Payload(Q, hd, nx, dt), d)
  BY <1>12, <1>17, <1>21, PayloadPushTail, Zenon
<1>19. Items(c) = Payload(Q, hd, nx, dt)
  BY <1>11 DEF Items
<1>20. Items(c)' = Payload(Q \cup {b}, hd2, nx2, dt2)
  <2>1. Own(c)' = Q \cup {b}
    BY <1>3, <1>11
  <2> QED BY <2>1, <1>11 DEF Items
<1> QED BY <1>9, <1>18, <1>19, <1>20

-----------------------------------------------------------------------------
(* What a pop and one iteration of a freeing loop make of the items. *)

\* A step that leaves the heap alone keeps every chain.
LEMMA SameItems ==
  ASSUME UNCHANGED <<head, live, owner, next, data>>
  PROVE  \A x : Kept(x)
<1>1. \A x : Own(x)' = Own(x)
  BY DEF Own
<1>2. ASSUME NEW x PROVE Chained(x)' = Chained(x)
  BY <1>1 DEF Chained
<1>3. ASSUME NEW x PROVE Items(x)' = Items(x)
  BY <1>1 DEF Items
<1> QED BY <1>1, <1>2, <1>3 DEF Kept

\* A chain without blocks has no items.
LEMMA NoItems ==
  ASSUME NEW c, Own(c) = {}
  PROVE  Items(c) = <<>>
BY PayloadNone DEF Items

\* The other chains do not see the head of c go.
LEMMA DropHeadOthers ==
  ASSUME IInv, NEW c, NEW b, OffHead(c, b), Dropped(c, b)
  PROVE  \A x \in alive : x # c /\ ~Freeing(x) => Kept(x)
<1>1. HeapType /\ Shape
  BY InvShape
<1>2. \A x \in alive : Own(x)' = IF x = c THEN Own(x) \ {b} ELSE Own(x)
  BY <1>1, RemoveHead
<1>3. /\ owner[b] = c /\ b \in Blocks
      /\ \A x \in alive : x # c => head'[x] = head[x]
      /\ \A y \in live \ {b} : next'[y] = next[y] /\ data'[y] = data[y]
  BY DEF OffHead, Dropped, IInv, TypeOK, Own
<1>4. ASSUME NEW x \in alive, x # c, ~Freeing(x) PROVE Kept(x)
  <2>1. Own(x)' = Own(x) /\ head'[x] = head[x]
    BY <1>2, <1>3, <1>4
  <2>2. \A y \in Own(x) : next'[y] = next[y] /\ data'[y] = data[y]
    BY <1>3, <1>4 DEF Own
  <2> QED BY <1>4, <2>1, <2>2, ItemsFrame
<1> QED BY <1>4

\* Without its head block c has the tail of its items.
LEMMA DropHeadItems ==
  ASSUME IInv, NEW c, NEW b, OffHead(c, b), Dropped(c, b), ~Freeing(c)
  PROVE  Rest(Items(c)', Items(c), data[b])
<1>1. HeapType /\ Shape
  BY InvShape
<1>2. c \in alive /\ c \in Chains /\ b = head[c] /\ b \in Own(c)
  BY <1>1 DEF OffHead, HeapType
<1>3. Own(c)' = Own(c) \ {b} /\ head'[c] = next[b]
  BY <1>1, <1>2, RemoveHead DEF OffHead, HeapType
<1>4. \A y \in live \ {b} : next'[y] = next[y] /\ data'[y] = data[y]
  BY DEF OffHead, Dropped, IInv, TypeOK, Own
<1>5. PICK s : Enumerates(c, s)
  BY <1>2, LinkedOrder
<1>6. PICK Q, hd, nx, dt, nx2, dt2 :
        Q = Own(c) /\ hd = head[c] /\ nx = next /\ dt = data /\ nx2 = next' /\ dt2 = data'
  OBVIOUS
<1>7. Listing(s, Q, hd, nx, NULL) /\ \A x \in Q : dt[x] \in Payloads
  BY <1>5, <1>6, ItemsOf DEF Enumerates
<1>8. hd \in Q /\ \A x \in Q : x # hd => nx2[x] = nx[x] /\ dt2[x] = dt[x]
  BY <1>2, <1>4, <1>6 DEF Own
<1>9. OffFront(Q, hd, nx, dt, nx2, dt2, Payloads)
  BY <1>7, <1>8 DEF OffFront
<1>10. Rest(Payload(Q \ {hd}, nx[hd], nx2, dt2), Payload(Q, hd, nx, dt), dt[hd])
  BY <1>7, <1>9, PayloadPopHead
<1>11. Items(c) = Payload(Q, hd, nx, dt) /\ data[b] = dt[hd]
  BY <1>2, <1>6 DEF Items
<1>12. Items(c)' = Payload(Q \ {hd}, nx[hd], nx2, dt2)
  BY <1>2, <1>3, <1>6 DEF Items
<1> QED BY <1>10, <1>11, <1>12

\* The other chains do not see the tail of c go.
LEMMA DropTailOthers ==
  ASSUME IInv, NEW c, NEW b, OffTail(c, b), Dropped(c, b)
  PROVE  \A x \in alive : x # c /\ ~Freeing(x) => Kept(x)
<1>1. HeapType /\ Shape
  BY InvShape
<1>2. \A x \in alive : Own(x)' = IF x = c THEN Own(x) \ {b} ELSE Own(x)
  BY <1>1, RemoveTail
<1>3. /\ owner[b] = c /\ b \in Blocks /\ c \in alive /\ b \in live
      /\ \A x \in alive : x # c => head'[x] = head[x]
      /\ \A y \in live \ {b} : data'[y] = data[y] /\ (y # last[b] => next'[y] = next[y])
  BY DEF OffTail, Dropped, IInv, TypeOK, Own
<1>4. last[b] # NULL => owner[last[b]] = c
  BY <1>1, <1>3 DEF Shape, LinksInverse, Own
<1>5. NULL \notin live
  BY <1>1, ChainAssumption DEF HeapType
<1>6. ASSUME NEW x \in alive, x # c, ~Freeing(x) PROVE Kept(x)
  <2>1. Own(x)' = Own(x) /\ head'[x] = head[x]
    BY <1>2, <1>3, <1>6
  <2>2. \A y \in Own(x) : next'[y] = next[y] /\ data'[y] = data[y]
    BY <1>3, <1>4, <1>5, <1>6 DEF Own
  <2> QED BY <1>6, <2>1, <2>2, ItemsFrame
<1> QED BY <1>6

\* Without its tail block c has the front of its items.
LEMMA DropTailItems ==
  ASSUME IInv, NEW c, NEW b, OffTail(c, b), Dropped(c, b), ~Freeing(c)
  PROVE  Start(Items(c)', Items(c), data[b])
<1>1. HeapType /\ Shape
  BY InvShape
<1>2. c \in alive /\ c \in Chains /\ b = tail[c] /\ b \in Own(c) /\ owner[b] = c
  BY <1>1 DEF OffTail, HeapType, Own
<1>3. Own(c)' = Own(c) \ {b} /\ (head[c] # b => head'[c] = head[c])
  <2>1. \A x \in alive : Own(x)' = IF x = c THEN Own(x) \ {b} ELSE Own(x)
    BY <1>1, RemoveTail
  <2> QED BY <2>1, <1>2 DEF OffTail
<1>4. \A y \in live \ {b} : next'[y] = (IF y = last[b] THEN NULL ELSE next[y]) /\ data'[y] = data[y]
  BY DEF OffTail, Dropped, IInv, TypeOK, Own
<1>5. \A y \in Own(c) : y # b => (next[y] = b <=> y = last[b])
  BY <1>1, <1>2, ChainAssumption DEF Shape, LinksInverse, Own, HeapType
<1>6. PICK s : Enumerates(c, s)
  BY <1>2, LinkedOrder
<1>7. PICK Q, hd, nx, dt, tl, hd2, nx2, dt2 :
        /\ Q = Own(c) /\ hd = head[c] /\ nx = next /\ dt = data /\ tl = b
        /\ hd2 = head'[c] /\ nx2 = next' /\ dt2 = data'
  OBVIOUS
<1>8. Listing(s, Q, hd, nx, NULL) /\ \A x \in Q : dt[x] \in Payloads
  BY <1>6, <1>7, ItemsOf DEF Enumerates
<1>9. Q # {} /\ tl = s[Cardinality(Q)] /\ (hd # tl => hd2 = hd)
  BY <1>2, <1>3, <1>6, <1>7 DEF Enumerates
<1>10. \A x \in Q : x # tl => nx2[x] = (IF nx[x] = tl THEN NULL ELSE nx[x]) /\ dt2[x] = dt[x]
  BY <1>2, <1>4, <1>5, <1>7 DEF Own
<1>11. OffBack(s, Q, hd, nx, dt, tl, hd2, nx2, dt2, NULL, Payloads)
  BY <1>8, <1>9, <1>10 DEF OffBack
<1>12. Start(Payload(Q \ {tl}, hd2, nx2, dt2), Payload(Q, hd, nx, dt), dt[tl])
  BY <1>8, <1>11, PayloadPopTail
<1>13. Items(c) = Payload(Q, hd, nx, dt) /\ data[b] = dt[tl]
  BY <1>7 DEF Items
<1>14. Items(c)' = Payload(Q \ {tl}, hd2, nx2, dt2)
  BY <1>2, <1>3, <1>7 DEF Items
<1> QED BY <1>12, <1>13, <1>14

\* Chain_pop_from_head takes the first item, and keeps every other chain.
LEMMA PopFromHead ==
  ASSUME IInv, NEW c \in alive, call.pc \notin FreeLoops,
         UNCHANGED chainVars, Chain_pop_from_head(c)
  PROVE  /\ \A x \in alive : x # c => Kept(x)
         /\ head[c] = NULL => Items(c) = <<>> /\ Kept(c)
         /\ head[c] # NULL => Rest(Items(c)', Items(c), data[head[c]])
<1>1. \A x : ~Freeing(x)
  BY NotFreeing
<1>2. CASE head[c] = NULL
  <2>1. Own(c) = {}
    BY <1>1, <1>2, ChainAssumption DEF IInv, EndsOK, Anchored, Own, TypeOK
  <2>2. UNCHANGED <<head, live, owner, next, data>>
    BY <1>2 DEF Chain_pop_from_head, PopNothing, blockVars
  <2> QED BY <1>2, <2>1, <2>2, NoItems, SameItems
<1>3. CASE head[c] # NULL
  <2>1. PICK b : b = head[c] /\ OffHead(c, b) /\ Dropped(c, b)
    BY <1>3, PopHead
  <2>2. \A x \in alive : x # c => Kept(x)
    BY <1>1, <2>1, DropHeadOthers
  <2>3. Rest(Items(c)', Items(c), data[b])
    BY <1>1, <2>1, DropHeadItems
  <2> QED BY <1>3, <2>1, <2>2, <2>3
<1> QED BY <1>2, <1>3

\* Chain_pop_from_tail takes the final item, and keeps every other chain.
LEMMA PopFromTail ==
  ASSUME IInv, NEW c \in alive, call.pc \notin FreeLoops,
         UNCHANGED chainVars, Chain_pop_from_tail(c)
  PROVE  /\ \A x \in alive : x # c => Kept(x)
         /\ tail[c] = NULL => Items(c) = <<>> /\ Kept(c)
         /\ tail[c] # NULL => Start(Items(c)', Items(c), data[tail[c]])
<1>1. \A x : ~Freeing(x)
  BY NotFreeing
<1>2. CASE tail[c] = NULL
  <2>1. Own(c) = {}
    BY <1>1, <1>2, ChainAssumption DEF IInv, EndsOK, Anchored, Own, TypeOK
  <2>2. UNCHANGED <<head, live, owner, next, data>>
    BY <1>2 DEF Chain_pop_from_tail, PopNothing, blockVars
  <2> QED BY <1>2, <2>1, <2>2, NoItems, SameItems
<1>3. CASE tail[c] # NULL
  <2>1. PICK b : b = tail[c] /\ OffTail(c, b) /\ Dropped(c, b)
    BY <1>3, PopTail
  <2>2. \A x \in alive : x # c => Kept(x)
    BY <1>1, <2>1, DropTailOthers
  <2>3. Start(Items(c)', Items(c), data[b])
    BY <1>1, <2>1, DropTailItems
  <2> QED BY <1>3, <2>1, <2>2, <2>3
<1> QED BY <1>2, <1>3

-----------------------------------------------------------------------------
(* Sequences of payloads: what comes before and after the first NULL, and a
   sequence read backwards. *)

\* k is the place of the first NULL of s, or the one past its end.
FirstAt(s, k) ==
  /\ k \in 1 .. Len(s) + 1
  /\ k <= Len(s) => s[k] = NULL
  /\ \A j \in 1 .. (k - 1) : s[j] # NULL

\* FirstNull is the place FirstAt describes.
LEMMA FirstNullIs ==
  ASSUME NEW s \in Seq(Payloads), NEW k, FirstAt(s, k)
  PROVE  /\ k \in 1 .. Len(s) + 1
         /\ D!Before(s) = SubSeq(s, 1, k - 1)
         /\ D!After(s) = SubSeq(s, k + 1, Len(s))
<1> DEFINE P(i) == /\ i <= Len(s) => s[i] = NULL
                   /\ \A j \in 1 .. (i - 1) : s[j] # NULL
<1>1. Len(s) \in Nat
  BY LenProperties
<1>2. k \in 1 .. Len(s) + 1 /\ P(k)
  BY DEF FirstAt
<1>3. PICK i : i = CHOOSE x \in 1 .. (Len(s) + 1) : P(x)
  OBVIOUS
<1>4. i \in 1 .. (Len(s) + 1) /\ P(i)
  BY <1>2, <1>3
<1>5. i = k
  <2>1. ~(i < k)
    <3>1. i < k => i <= Len(s) /\ i \in 1 .. (k - 1)
      BY <1>1, <1>2, <1>4
    <3> QED BY <3>1, <1>2, <1>4
  <2>2. ~(k < i)
    <3>1. k < i => k <= Len(s) /\ k \in 1 .. (i - 1)
      BY <1>1, <1>2, <1>4
    <3> QED BY <3>1, <1>2, <1>4
  <2> QED BY <2>1, <2>2, <1>1, <1>2, <1>4
<1>6. D!FirstNull(s) = k
  BY <1>3, <1>5 DEF D!FirstNull
<1> QED BY <1>2, <1>6 DEF D!Before, D!After

\* Every sequence of payloads has such a place.
LEMMA FirstNullExists ==
  ASSUME NEW s \in Seq(Payloads)
  PROVE  \E k : FirstAt(s, k)
<1> DEFINE N == {i \in 1 .. Len(s) : s[i] = NULL}
<1>1. Len(s) \in Nat
  BY LenProperties
<1>2. CASE N = {}
  <2>1. FirstAt(s, Len(s) + 1)
    BY <1>1, <1>2 DEF FirstAt
  <2> QED BY <2>1
<1>3. CASE N # {}
  <2>1. N \in SUBSET Nat
    OBVIOUS
  <2>2. PICK k \in N : \A j \in N : k <= j
    BY <1>3, <2>1, Least
  <2>3. ASSUME NEW j \in 1 .. (k - 1) PROVE s[j] # NULL
    <3>1. j \in 1 .. Len(s) /\ ~(k <= j)
      BY <1>1, <2>2
    <3> QED BY <2>2, <3>1
  <2>4. FirstAt(s, k)
    BY <1>1, <2>2, <2>3 DEF FirstAt
  <2> QED BY <2>4
<1> QED BY <1>2, <1>3

\* The three ways a clear can find its chain.
LEMMA AfterSteps ==
  ASSUME NEW s \in Seq(Payloads)
  PROVE  /\ D!Before(s) \in Seq(Payloads) /\ D!After(s) \in Seq(Payloads)
         /\ s = <<>> => D!After(s) = <<>>
         /\ s # <<>> /\ s[1] = NULL => D!After(s) = Tail(s)
         /\ s # <<>> /\ s[1] # NULL => D!After(Tail(s)) = D!After(s)
<1>1. PICK k : FirstAt(s, k)
  BY FirstNullExists
<1>2. /\ k \in 1 .. Len(s) + 1
      /\ D!Before(s) = SubSeq(s, 1, k - 1) /\ D!After(s) = SubSeq(s, k + 1, Len(s))
  BY <1>1, FirstNullIs
<1>3. Len(s) \in Nat /\ \A i \in 1 .. Len(s) : s[i] \in Payloads
  BY LenProperties, ElementOfSeq
<1>4. D!Before(s) \in Seq(Payloads)
  BY <1>2, Prefix
<1>5. PICK a : a = SubSeq(s, k + 1, Len(s))
  OBVIOUS
<1>6. /\ a \in Seq(Payloads) /\ Len(a) = IF k + 1 <= Len(s) THEN Len(s) - (k + 1) + 1 ELSE 0
      /\ \A i \in 1 .. Len(s) - (k + 1) + 1 : a[i] = s[k + 1 + i - 1]
  <2>1. \A i \in (k + 1) .. Len(s) : s[i] \in Payloads
    BY <1>2, <1>3
  <2>2. k + 1 \in Int /\ Len(s) \in Int
    BY <1>2, <1>3
  <2>3. /\ SubSeq(s, k + 1, Len(s)) \in Seq(Payloads)
        /\ Len(SubSeq(s, k + 1, Len(s))) = IF k + 1 <= Len(s) THEN Len(s) - (k + 1) + 1 ELSE 0
        /\ \A i \in 1 .. Len(s) - (k + 1) + 1 : SubSeq(s, k + 1, Len(s))[i] = s[k + 1 + i - 1]
    BY <2>1, <2>2, SubSeqProperties
  <2> QED BY <2>3, <1>5
<1>7. s = <<>> => a = <<>>
  <2>1. s = <<>> => Len(s) < k + 1
    BY <1>2, <1>3
  <2> QED BY <2>1, <1>2, <1>3, <1>5, SubSeqEmpty
<1>8. ASSUME s # <<>>, s[1] = NULL PROVE a = Tail(s)
  <2>1. Len(s) >= 1
    BY <1>3, <1>8, EmptySeq
  <2>2. ~(1 \in 1 .. (k - 1))
    BY <1>1, <1>8 DEF FirstAt
  <2>3. k = 1
    BY <1>2, <2>2
  <2> QED BY <1>5, <1>8, <2>3, TailIsSubSeq
<1>9. ASSUME s # <<>>, s[1] # NULL PROVE D!After(Tail(s)) = a
  <2>1. Len(s) >= 1
    BY <1>3, <1>9, EmptySeq
  <2>2. k # 1
    BY <1>1, <1>9, <2>1 DEF FirstAt
  <2>3. PICK t \in Seq(Payloads) : t = Tail(s)
    BY <1>9, HeadTailProperties
  <2>4. Len(t) = Len(s) - 1 /\ \A i \in 1 .. Len(t) : t[i] = s[i + 1]
    BY <2>3, <1>9, HeadTailProperties
  <2>5. PICK m : m = k - 1
    OBVIOUS
  <2>6. FirstAt(t, m)
    <3>1. m \in 1 .. Len(t) + 1
      BY <1>2, <1>3, <2>2, <2>4, <2>5
    <3>2. m <= Len(t) => t[m] = NULL
      <4>1. m <= Len(t) => m \in 1 .. Len(t) /\ m + 1 = k /\ k <= Len(s)
        BY <1>2, <1>3, <2>4, <2>5, <3>1
      <4>2. k <= Len(s) => s[k] = NULL
        BY <1>1 DEF FirstAt
      <4> QED BY <4>1, <4>2, <2>4
    <3>3. ASSUME NEW j \in 1 .. (m - 1) PROVE t[j] # NULL
      <4>1. j \in 1 .. Len(t) /\ j + 1 \in 1 .. (k - 1)
        BY <1>2, <1>3, <2>4, <2>5
      <4> QED BY <4>1, <1>1, <2>4 DEF FirstAt
    <3> QED BY <3>1, <3>2, <3>3 DEF FirstAt
  <2>7. D!After(t) = SubSeq(t, m + 1, Len(t))
    BY <2>6, FirstNullIs
  <2>8. PICK u : u = SubSeq(t, m + 1, Len(t))
    OBVIOUS
  <2>9. m \in Nat /\ k \in Nat /\ k = m + 1
    BY <1>2, <2>2, <2>5
  <2>10. /\ u \in Seq(Payloads) /\ Len(u) = IF m + 1 <= Len(t) THEN Len(t) - (m + 1) + 1 ELSE 0
         /\ \A i \in 1 .. Len(t) - (m + 1) + 1 : u[i] = t[m + 1 + i - 1]
    <3>1. \A i \in (m + 1) .. Len(t) : t[i] \in Payloads
      BY <2>9, ElementOfSeq
    <3>2. m + 1 \in Int /\ Len(t) \in Int
      BY <2>4, <2>9, <1>3
    <3>3. /\ SubSeq(t, m + 1, Len(t)) \in Seq(Payloads)
          /\ Len(SubSeq(t, m + 1, Len(t))) = IF m + 1 <= Len(t) THEN Len(t) - (m + 1) + 1 ELSE 0
          /\ \A i \in 1 .. Len(t) - (m + 1) + 1 : SubSeq(t, m + 1, Len(t))[i] = t[m + 1 + i - 1]
      BY <3>1, <3>2, SubSeqProperties
    <3> QED BY <3>3, <2>8
  <2>11. Len(u) = Len(a)
    BY <1>6, <2>4, <2>9, <2>10, <1>3
  <2>12. ASSUME NEW i \in 1 .. Len(u) PROVE u[i] = a[i]
    <3>1. /\ Len(u) \in Nat
          /\ i \in 1 .. Len(t) - (m + 1) + 1 /\ i \in 1 .. Len(s) - (k + 1) + 1
          /\ m + 1 + i - 1 = m + i /\ m + i \in 1 .. Len(t) /\ k + 1 + i - 1 = (m + i) + 1
      BY <1>3, <2>4, <2>9, <2>10
    <3>2. u[i] = t[m + i] /\ a[i] = s[(m + i) + 1]
      BY <3>1, <1>6, <2>10
    <3> QED BY <3>1, <3>2, <2>4
  <2>13. u = a
    BY <1>6, <2>10, <2>11, <2>12, SeqEqual
  <2> QED BY <2>3, <2>7, <2>8, <2>13
<1> QED BY <1>2, <1>4, <1>5, <1>6, <1>7, <1>8, <1>9

\* A sequence read backwards.
LEMMA ReverseIs ==
  ASSUME NEW S, NEW s \in Seq(S)
  PROVE  /\ Reverse(s) \in Seq(S) /\ Len(Reverse(s)) = Len(s)
         /\ \A i \in 1 .. Len(s) : Reverse(s)[i] = s[(Len(s) - i) + 1]
<1>1. Len(s) \in Nat
  BY LenProperties
<1>2. PICK r : r = [i \in 1 .. Len(s) |-> s[(Len(s) - i) + 1]]
  OBVIOUS
<1>3. ASSUME NEW i \in 1 .. Len(s) PROVE r[i] = s[(Len(s) - i) + 1] /\ r[i] \in S
  <2>1. (Len(s) - i) + 1 \in 1 .. Len(s)
    BY <1>1
  <2> QED BY <2>1, <1>2, ElementOfSeq
<1>4. r = [i \in 1 .. Len(s) |-> r[i]]
  BY <1>2
<1>5. r \in Seq(S) /\ Len(r) = Len(s)
  BY <1>1, <1>3, <1>4, FunctionIsSeq
<1> QED BY <1>2, <1>3, <1>5 DEF Reverse

\* A sequence reversed twice is the sequence.
LEMMA ReverseTwice ==
  ASSUME NEW S, NEW s \in Seq(S)
  PROVE  Reverse(Reverse(s)) = s
<1>1. PICK r \in Seq(S) : r = Reverse(s)
  BY ReverseIs
<1>2. Len(r) = Len(s) /\ \A i \in 1 .. Len(s) : r[i] = s[(Len(s) - i) + 1]
  BY <1>1, ReverseIs
<1>3. PICK q \in Seq(S) : q = Reverse(r)
  BY ReverseIs
<1>4. Len(q) = Len(r) /\ \A i \in 1 .. Len(r) : q[i] = r[(Len(r) - i) + 1]
  BY <1>3, ReverseIs
<1>5. Len(s) \in Nat
  BY LenProperties
<1>6. ASSUME NEW i \in 1 .. Len(q) PROVE q[i] = s[i]
  <2>1. PICK j : j = (Len(s) - i) + 1
    OBVIOUS
  <2>2. i \in 1 .. Len(s) /\ j \in 1 .. Len(s) /\ (Len(s) - j) + 1 = i
    BY <1>2, <1>4, <1>5, <2>1
  <2> QED BY <2>1, <2>2, <1>2, <1>4
<1>7. q = s
  BY <1>2, <1>4, <1>6, SeqEqual
<1> QED BY <1>1, <1>3, <1>7

\* Pushing the elements of s back to front: the final one, then the others.
LEMMA ReverseFront ==
  ASSUME NEW S, NEW s \in Seq(S), s # <<>>
  PROVE  /\ Reverse(s) # <<>> /\ Reverse(s)[1] = s[Len(s)]
         /\ Reverse(Front(s)) = Tail(Reverse(s))
<1>1. PICK r \in Seq(S) : r = Reverse(s)
  BY ReverseIs
<1>2. Len(r) = Len(s) /\ \A i \in 1 .. Len(s) : r[i] = s[(Len(s) - i) + 1]
  BY <1>1, ReverseIs
<1>3. PICK f \in Seq(S) : f = Front(s)
  BY FrontOfSeq
<1>4. Len(f) = Len(s) - 1 /\ Len(s) \in Nat \ {0} /\ \A i \in 1 .. (Len(s) - 1) : f[i] = s[i]
  BY <1>3, FrontOfSeq
<1>5. r # <<>> /\ r[1] = s[Len(s)]
  <2>1. 1 \in 1 .. Len(s) /\ (Len(s) - 1) + 1 = Len(s) /\ Len(r) # 0
    BY <1>2, <1>4
  <2>2. r # <<>>
    BY <2>1, EmptySeq
  <2> QED BY <2>1, <2>2, <1>2
<1>6. PICK g \in Seq(S) : g = Reverse(f)
  BY ReverseIs
<1>7. Len(g) = Len(f) /\ \A i \in 1 .. Len(f) : g[i] = f[(Len(f) - i) + 1]
  BY <1>6, ReverseIs
<1>8. PICK t \in Seq(S) : t = Tail(r)
  BY <1>5, HeadTailProperties
<1>9. Len(t) = Len(r) - 1 /\ \A i \in 1 .. Len(t) : t[i] = r[i + 1]
  BY <1>5, <1>8, HeadTailProperties
<1>10. ASSUME NEW i \in 1 .. Len(g) PROVE g[i] = t[i]
  <2>1. PICK j : j = (Len(f) - i) + 1
    OBVIOUS
  <2>2. /\ i \in 1 .. Len(f) /\ j \in 1 .. (Len(s) - 1) /\ i \in 1 .. Len(t)
        /\ i + 1 \in 1 .. Len(s) /\ (Len(s) - (i + 1)) + 1 = j
    BY <1>2, <1>4, <1>7, <1>9, <2>1
  <2>3. g[i] = s[j]
    BY <2>1, <2>2, <1>4, <1>7
  <2>4. t[i] = s[j]
    BY <2>2, <1>2, <1>9
  <2> QED BY <2>3, <2>4
<1>11. g = t
  BY <1>2, <1>4, <1>7, <1>9, <1>10, SeqEqual
<1> QED BY <1>1, <1>3, <1>5, <1>6, <1>8, <1>11

\* A prefix and the element behind it make the longer prefix.
LEMMA PrefixGrows ==
  ASSUME NEW S, NEW v \in Seq(S), NEW k \in 1 .. Len(v)
  PROVE  /\ SubSeq(v, 1, k - 1) \in Seq(S) /\ SubSeq(v, 1, k) \in Seq(S)
         /\ Len(SubSeq(v, 1, k)) = k /\ v[k] \in S
         /\ SubSeq(v, 1, k) = Append(SubSeq(v, 1, k - 1), v[k])
<1>1. Len(v) \in Nat /\ v[k] \in S
  BY LenProperties, ElementOfSeq
<1>2. SubSeq(v, 1, k - 1) \in Seq(S)
  <2>1. k \in 1 .. Len(v) + 1
    BY <1>1
  <2> QED BY <2>1, Prefix
<1>3. SubSeq(v, 1, k) \in Seq(S) /\ Len(SubSeq(v, 1, k)) = k
  <2>1. PICK m : m = k + 1
    OBVIOUS
  <2>2. m \in 1 .. Len(v) + 1 /\ m - 1 = k
    BY <2>1, <1>1
  <2> QED BY <2>2, Prefix
<1>4. SubSeq(v, 1, k) = SubSeq(v, 1, k - 1) \o <<v[k]>>
  <2>1. 1 \in 1 .. Len(v) /\ k \in 1 .. Len(v)
    BY <1>1
  <2> QED BY <2>1, SubSeqRecursiveSecond
<1> QED BY <1>1, <1>2, <1>3, <1>4, AppendIsConcat

\* An element between two sequences may be counted to either.
LEMMA Regroup ==
  ASSUME NEW S, NEW w \in Seq(S), NEW e \in S, NEW t \in Seq(S),
         NEW v, v = Append(w, e), NEW r, r = <<e>> \o t
  PROVE  v \o t = w \o r
<1>1. <<e>> \in Seq(S)
  OBVIOUS
<1>2. PICK d \in Seq(S) : d = <<e>>
  BY <1>1
<1>3. (w \o d) \o t = w \o (d \o t)
  BY ConcatAssociative
<1>4. Append(w, e) = w \o d
  BY <1>2, AppendIsConcat
<1> QED BY <1>2, <1>3, <1>4

\* A prefix backwards starts with its final element.
LEMMA PrefixBack ==
  ASSUME NEW S, NEW v \in Seq(S), NEW k \in 1 .. Len(v)
  PROVE  /\ Reverse(SubSeq(v, 1, k)) = <<v[k]>> \o Reverse(SubSeq(v, 1, k - 1))
         /\ v[k] \in S /\ Reverse(SubSeq(v, 1, k - 1)) \in Seq(S)
<1>1. PICK p \in Seq(S), q \in Seq(S), e \in S :
        p = SubSeq(v, 1, k - 1) /\ q = SubSeq(v, 1, k) /\ e = v[k]
  BY PrefixGrows
<1>2. q = Append(p, e)
  BY <1>1, PrefixGrows
<1>3. q # <<>> /\ Front(q) = p /\ q[Len(q)] = e
  <2>1. /\ Append(p, e) # <<>> /\ Append(p, e)[Len(p) + 1] = e /\ Len(Append(p, e)) = Len(p) + 1
        /\ \A i \in 1 .. Len(p) : Append(p, e)[i] = p[i]
    BY AppendProperties
  <2>2. q # <<>> /\ q[Len(p) + 1] = e /\ Len(q) = Len(p) + 1 /\ \A i \in 1 .. Len(p) : q[i] = p[i]
    BY <2>1, <1>2
  <2>3. PICK f \in Seq(S) : f = Front(q)
    BY <2>2, FrontOfSeq
  <2>4. Len(f) = Len(q) - 1 /\ \A i \in 1 .. (Len(q) - 1) : f[i] = q[i]
    BY <2>2, <2>3, FrontOfSeq
  <2>5. Len(p) \in Nat
    BY LenProperties
  <2>6. Len(f) = Len(p) /\ \A i \in 1 .. Len(f) : f[i] = p[i]
    BY <2>2, <2>4, <2>5
  <2>7. f = p
    BY <2>6, SeqEqual
  <2> QED BY <2>2, <2>3, <2>7
<1>4. PICK r \in Seq(S), t \in Seq(S) : r = Reverse(q) /\ t = Reverse(p)
  BY ReverseIs
<1>5. r # <<>> /\ r[1] = e /\ Tail(r) = t
  BY <1>3, <1>4, ReverseFront
<1>6. r = <<e>> \o t
  <2>1. Len(r) \in Nat \ {0}
    BY <1>5, EmptySeq
  <2>2. 1 \in 1 .. Len(r) /\ Len(r) \in 1 .. Len(r)
    BY <2>1
  <2>3. SubSeq(r, 1, Len(r)) = <<r[1]>> \o SubSeq(r, 1 + 1, Len(r))
    BY <2>2, SubSeqRecursiveFirst
  <2>4. SubSeq(r, 1, Len(r)) = r /\ t = SubSeq(r, 2, Len(r))
    BY <1>5, SubSeqFull, TailIsSubSeq
  <2> QED BY <2>3, <2>4, <1>5
<1> QED BY <1>1, <1>4, <1>6

\* Pushing what the cursor of the clone is on moves it from one part to the other.
LEMMA MoveOver ==
  ASSUME NEW S, NEW w \in Seq(S), NEW v \in Seq(S), NEW k \in 1 .. Len(v)
  PROVE  Append(w, v[k]) \o Reverse(SubSeq(v, 1, k - 1)) = w \o Reverse(SubSeq(v, 1, k))
<1>1. /\ Reverse(SubSeq(v, 1, k)) = <<v[k]>> \o Reverse(SubSeq(v, 1, k - 1))
      /\ v[k] \in S /\ Reverse(SubSeq(v, 1, k - 1)) \in Seq(S)
  BY PrefixBack
<1>2. PICK a, r, e, t : /\ e = v[k] /\ a = Append(w, e)
                        /\ t = Reverse(SubSeq(v, 1, k - 1)) /\ r = Reverse(SubSeq(v, 1, k))
  OBVIOUS
<1>3. r = <<e>> \o t /\ e \in S /\ t \in Seq(S)
  BY <1>1, <1>2
<1>4. a = Append(w, e)
  BY <1>2
<1>5. a \o t = w \o r
  BY <1>3, <1>4, Regroup
<1> QED BY <1>2, <1>5

-----------------------------------------------------------------------------
(* Contents and Result: the abstract value of each chain the application sees. *)

\* A chain whose blocks and head stay is kept when no link changes.
LEMMA KeptFrame ==
  ASSUME NEW x, Own(x)' = Own(x), head'[x] = head[x], next' = next, data' = data
  PROVE  Kept(x)
<1>1. Chained(x)' = Chained(x)
  BY DEF Chained
<1>2. Items(x)' = Items(x)
  BY DEF Items
<1> QED BY <1>1, <1>2 DEF Kept

\* The number of b in o, which numbers n blocks.
PlaceIn(o, n, b) == CHOOSE i \in 0 .. n : IF i = 0 THEN b = NULL ELSE b = o[i]

\* PlaceIn is the index of the block, 0 for NULL.
LEMMA PlaceInIs ==
  ASSUME NEW Q, NEW o, NEW n \in Nat, o \in [1 .. n -> Q], NULL \notin Q, Once(o, n)
  PROVE  /\ PlaceIn(o, n, NULL) = 0
         /\ \A i \in 1 .. n : PlaceIn(o, n, o[i]) = i
<1> DEFINE P(i, b) == IF i = 0 THEN b = NULL ELSE b = o[i]
<1>1. \A i \in 0 .. n : P(i, NULL) => i = 0
  OBVIOUS
<1>2. PlaceIn(o, n, NULL) = 0
  <2>1. 0 \in 0 .. n /\ P(0, NULL)
    OBVIOUS
  <2>2. PICK k : k = CHOOSE i \in 0 .. n : P(i, NULL)
    OBVIOUS
  <2>3. k \in 0 .. n /\ P(k, NULL)
    BY <2>1, <2>2
  <2>4. k = 0
    BY <1>1, <2>3
  <2> QED BY <2>2, <2>4 DEF PlaceIn
<1>3. ASSUME NEW i \in 1 .. n PROVE PlaceIn(o, n, o[i]) = i
  <2>1. i \in 0 .. n /\ P(i, o[i]) /\ o[i] # NULL
    OBVIOUS
  <2>2. PICK k : k = CHOOSE j \in 0 .. n : P(j, o[i])
    OBVIOUS
  <2>3. k \in 0 .. n /\ P(k, o[i])
    BY <2>1, <2>2
  <2>4. k # 0
    BY <2>1, <2>3
  <2>5. k \in 1 .. n /\ o[k] = o[i]
    BY <2>3, <2>4
  <2>6. k = i
    BY <2>5 DEF Once
  <2> QED BY <2>2, <2>6 DEF PlaceIn
<1> QED BY <1>2, <1>3

\* Place(c) in these terms, before a step and after it.
LEMMA PlaceIs ==
  \A c, b : Place(c, b) = PlaceIn(Chained(c), Cardinality(Own(c)), b)
BY DEF Place, PlaceIn, Chained

LEMMA PlaceNext ==
  \A c, b : Place(c, b)' = PlaceIn(Chained(c)', Cardinality(Own(c)'), b')
BY DEF Place, PlaceIn, Chained

-----------------------------------------------------------------------------
(* The Deque of the refinement.                                             *)

\* The abstract specification uses the same sequence operators.
LEMMA SameParts ==
  \A s : /\ Abstract!After(s) = D!After(s) /\ Abstract!Before(s) = D!Before(s)
         /\ Abstract!Front(s) = Front(s) /\ Abstract!Reverse(s) = Reverse(s)
BY DEF Abstract!After, Abstract!Before, Abstract!FirstNull, D!After, D!Before, D!FirstNull,
       Abstract!Front, Front, Abstract!Reverse, Reverse

\* Contents maps every visible chain to its result.
LEMMA ContentsIs ==
  DOMAIN Contents = Visible /\ \A x \in Visible : Contents[x] = Result(x)
BY DEF Contents

\* The abstract state stays when the visible chains and their results do.
LEMMA ContentsStay ==
  ASSUME Visible' = Visible, \A x \in Visible : Result(x)' = Result(x)
  PROVE  Contents' = Contents
BY DEF Contents

\* The abstract state with a new value for c.
LEMMA ContentsWith ==
  ASSUME NEW c, NEW s, Visible' = Visible \cup {c}, Result(c)' = s,
         \A x \in Visible : x # c => Result(x)' = Result(x)
  PROVE  Abstract!With(c, s)
<1>1. Contents' = [x \in Visible \cup {c} |-> Result(x)']
  BY DEF Contents
<1>2. \A x \in Visible \cup {c} : Result(x)' = IF x = c THEN s ELSE Contents[x]
  BY ContentsIs
<1>3. Abstract!Exists = Visible
  BY ContentsIs DEF Abstract!Exists
<1> QED BY <1>1, <1>2, <1>3 DEF Abstract!With

\* The abstract state without c.
LEMMA ContentsWithout ==
  ASSUME NEW c, Visible' = Visible \ {c},
         \A x \in Visible : x # c => Result(x)' = Result(x)
  PROVE  Abstract!Free(c)
<1>1. Contents' = [x \in Visible \ {c} |-> Result(x)']
  BY DEF Contents
<1>2. \A x \in Visible \ {c} : Result(x)' = Contents[x]
  BY ContentsIs
<1>3. Abstract!Exists = Visible
  BY ContentsIs DEF Abstract!Exists
<1> QED BY <1>1, <1>2, <1>3 DEF Abstract!Free

\* The loops whose chains hold something else than their items.
Promises == {"clear_from_head", "clear_from_tail", "clone",
             "reverse", "reverse_clear", "reverse_push"}

\* Outside those loops a chain holds its items.
LEMMA ResultPlain ==
  /\ call.pc \notin Promises => \A x : Result(x) = Items(x)
  /\ \A x : x # call.this /\ x # call.that => Result(x) = Items(x)
BY DEF Result, Promises

\* The same after the step.
LEMMA ResultPlainNext ==
  /\ call'.pc \notin Promises => \A x : Result(x)' = Items(x)'
  /\ \A x : x # call'.this /\ x # call'.that => Result(x)' = Items(x)'
BY DEF Result, Promises

-----------------------------------------------------------------------------
(* Every step is a step of the deque or a stutter.  Simulated is the goal of
   each lemma; DInv is the invariant the steps are taken from. *)

\* The cursor is on the block i of o, which holds the items v, and w are the
\* items before it, none of them NULL.
InStep(v, w, o, b, i) ==
  /\ i \in 1 .. Len(v) + 1
  /\ b = IF i <= Len(v) THEN o[i] ELSE NULL
  /\ w = SubSeq(v, 1, i - 1)
  /\ \A j \in 1 .. (i - 1) : v[j] # NULL

\* A sequence of stored payloads, none of them NULL.
NoNull(v) == \A j \in 1 .. Len(v) : v[j] # NULL

\* A clone has copied what the cursor of its source has passed.
Synced ==
  call.pc \in {"clone", "reverse"} =>
    \E i : InStep(Items(call.this), Items(call.that), Chained(call.this), cursor[call.this], i)

\* The clone a reverse takes apart holds no NULL.
Full == call.pc \in {"reverse_clear", "reverse_push"} => NoNull(Items(call.that))

\* The invariant of the refinement.
DInv == IInv /\ Synced /\ Full

\* A step of the deque, or none, that keeps the invariant.
Simulated == [Abstract!Next]_Contents /\ Synced' /\ Full'

\* Between operations every chain is visible.
LEMMA VisibleIdle ==
  ASSUME call = Idle
  PROVE  Visible = alive
BY DEF Visible, Freeing, Reversing, Idle

\* Outside clone and reverse there is nothing to say of cursors.
LEMMA OutOfLoop ==
  ASSUME call'.pc \notin {"clone", "reverse", "reverse_clear", "reverse_push"}
  PROVE  Synced' /\ Full'
BY DEF Synced, Full

\* A step between plain states that keeps the items is a stutter.
LEMMA PlainStutter ==
  ASSUME call.pc \notin Promises, call'.pc \notin Promises,
         Visible' = Visible, \A x \in Visible : Items(x)' = Items(x)
  PROVE  Simulated
<1>1. \A x \in Visible : Result(x)' = Result(x)
  BY ResultPlain, ResultPlainNext
<1>2. Contents' = Contents
  BY <1>1, ContentsStay
<1>3. call'.pc \notin {"clone", "reverse", "reverse_clear", "reverse_push"}
  BY DEF Promises
<1> QED BY <1>2, <1>3, OutOfLoop DEF Simulated

\* One abstract step on c.
LEMMA PlainWith ==
  ASSUME call.pc \notin Promises, call'.pc \notin Promises,
         NEW c, Visible' = Visible \cup {c}, NEW s, Items(c)' = s,
         \A x \in Visible : x # c => Items(x)' = Items(x)
  PROVE  Abstract!With(c, s) /\ Synced' /\ Full'
<1>1. Result(c)' = s /\ \A x \in Visible : x # c => Result(x)' = Result(x)
  BY ResultPlain, ResultPlainNext
<1>2. Abstract!With(c, s)
  BY <1>1, ContentsWith
<1>3. call'.pc \notin {"clone", "reverse", "reverse_clear", "reverse_push"}
  BY DEF Promises
<1> QED BY <1>2, <1>3, OutOfLoop

\* The application's own references are not part of the deque.
LEMMA SimObject == DInv /\ AppObject => Simulated
<1> SUFFICES ASSUME AppObject PROVE Simulated
  OBVIOUS
<1>1. call = Idle /\ call' = call /\ alive' = alive /\ UNCHANGED <<head, live, owner, next, data>>
  BY DEF AppObject, chainVars, listVars, blockVars
<1>2. \A x : Items(x)' = Items(x)
  BY <1>1, SameItems DEF Kept
<1>3. Visible' = Visible
  BY <1>1 DEF Visible, Freeing, Reversing
<1>4. call.pc \notin Promises /\ call'.pc \notin Promises
  BY <1>1 DEF Idle, Promises
<1> QED BY <1>2, <1>3, <1>4, PlainStutter

\* The cursor operations read a chain.
LEMMA SimCursor == DInv /\ AppCursor => Simulated
<1> SUFFICES ASSUME AppCursor PROVE Simulated
  OBVIOUS
<1>1. call = Idle /\ call' = call /\ alive' = alive /\ UNCHANGED <<head, live, owner, next, data>>
  BY DEF AppCursor, Calling, chainVars, listVars, blockVars
<1>2. \A x : Items(x)' = Items(x)
  BY <1>1, SameItems DEF Kept
<1>3. Visible' = Visible
  BY <1>1 DEF Visible, Freeing, Reversing
<1>4. call.pc \notin Promises /\ call'.pc \notin Promises
  BY <1>1 DEF Idle, Promises
<1> QED BY <1>2, <1>3, <1>4, PlainStutter

\* So does the start of a foreach.
LEMMA SimForeach == DInv /\ AppForeach => Simulated
<1> SUFFICES ASSUME AppForeach PROVE Simulated
  OBVIOUS
<1>1. /\ call = Idle /\ alive' = alive /\ UNCHANGED <<head, live, owner, next, data>>
      /\ call'.pc \in {"foreach_from_head", "foreach_from_tail"}
  BY DEF AppForeach, Calling, Enter, chainVars, listVars, blockVars
<1>2. \A x : Items(x)' = Items(x)
  BY <1>1, SameItems DEF Kept
<1>3. Visible' = Visible
  BY <1>1 DEF Visible, Freeing, Reversing, Idle
<1>4. call.pc \notin Promises /\ call'.pc \notin Promises
  BY <1>1 DEF Idle, Promises
<1> QED BY <1>2, <1>3, <1>4, PlainStutter

\* Where nothing changes, the deque does not either.
LEMMA SimStutter == DInv /\ UNCHANGED vars => Simulated
<1> SUFFICES ASSUME DInv, UNCHANGED vars PROVE Simulated
  OBVIOUS
<1>1. /\ call' = call /\ alive' = alive /\ cursor' = cursor
      /\ UNCHANGED <<head, live, owner, next, data>>
  BY DEF vars
<1>2. \A x : Kept(x)
  BY <1>1, SameItems
<1>3. Visible' = Visible
  BY <1>1 DEF Visible, Freeing, Reversing
<1>4. ASSUME NEW x \in Visible PROVE Result(x)' = Result(x)
  <2>1. PICK p, t, u, vt, vu, vx, b, k :
          /\ p = call.pc /\ t = call.this /\ u = call.that
          /\ vt = Items(t) /\ vu = Items(u) /\ vx = Items(x)
          /\ k = Backward(u)
    OBVIOUS
  <2>2. Place(u, cursor[u])' = Place(u, cursor[u])
    BY <1>1, <1>2, PlaceIs, PlaceNext DEF Kept
  <2>3. Backward(u)' = Backward(u)
    BY <2>2, <1>2 DEF Kept, Backward
  <2>4. /\ p = call'.pc /\ t = call'.this /\ u = call'.that
        /\ vt = Items(t)' /\ vu = Items(u)' /\ vx = Items(x)'
        /\ k = Backward(u)'
    BY <1>1, <1>2, <2>1, <2>3 DEF Kept
  <2> QED BY <2>1, <2>4, Zenon DEF Result
<1>5. Contents' = Contents
  BY <1>3, <1>4, ContentsStay
<1>6. Synced'
  BY <1>1, <1>2 DEF DInv, Synced, Kept
<1>7. Full'
  BY <1>1, <1>2 DEF DInv, Full, Kept
<1> QED BY <1>5, <1>6, <1>7 DEF Simulated

\* Chain_new creates an empty deque.
LEMMA SimNew == DInv /\ AppNew => Simulated
<1> SUFFICES ASSUME DInv, AppNew PROVE Simulated
  OBVIOUS
<1>1. PICK c \in Chains \ alive : /\ call = Idle /\ call' = call /\ alive' = alive \cup {c}
                                  /\ head' = [head EXCEPT ![c] = NULL]
                                  /\ UNCHANGED <<live, owner, next, data>>
  BY DEF AppNew, _Chain_new, blockVars
<1>2. \A x : Own(x)' = Own(x)
  BY <1>1 DEF Own
<1>3. Own(c) = {}
  BY <1>1, ChainAssumption DEF DInv, IInv, BlocksOK, Own
<1>4. Items(c)' = <<>>
  <2>1. Own(c)' = {}
    BY <1>2, <1>3
  <2> QED BY <2>1, PayloadNone DEF Items
<1>5. ASSUME NEW x \in alive, x # c PROVE Items(x)' = Items(x)
  <2>1. head'[x] = head[x]
    BY <1>1, <1>5 DEF DInv, IInv, TypeOK
  <2>2. Kept(x)
    BY <1>1, <1>2, <2>1, KeptFrame
  <2> QED BY <2>2 DEF Kept
<1>6. Visible = alive /\ Visible' = Visible \cup {c}
  BY <1>1 DEF Visible, Freeing, Reversing, Idle
<1>7. call.pc \notin Promises /\ call'.pc \notin Promises
  BY <1>1 DEF Idle, Promises
<1>8. Abstract!With(c, <<>>) /\ Synced' /\ Full'
  BY <1>4, <1>5, <1>6, <1>7, PlainWith
<1>9. Abstract!New(c)
  BY <1>1, <1>6, <1>8, ContentsIs DEF Abstract!New, Abstract!Exists
<1> QED BY <1>1, <1>8, <1>9 DEF Simulated, Abstract!Next

-----------------------------------------------------------------------------
(* The pushes, the pops and foreach. *)

\* A push to the head is the deque's PushHead.
LEMMA SimPushHead ==
  ASSUME DInv, NEW c \in alive, NEW d \in Payloads, c \in Visible,
         call.pc \notin Promises \cup FreeLoops, call' = call, UNCHANGED chainVars,
         Chain_push_to_head(c, d)
  PROVE  Simulated
<1>1. Prepended(Items(c)', Items(c), d) /\ \A x \in alive : x # c => Kept(x)
  BY PushHeadItems DEF DInv
<1>2. Visible' = Visible \cup {c}
  BY DEF Visible, Freeing, Reversing, chainVars
<1>3. PICK w : w = Items(c)'
  OBVIOUS
<1>4. \A x \in Visible : x # c => Items(x)' = Items(x)
  BY <1>1 DEF Kept, Visible
<1>5. Abstract!With(c, w) /\ Synced' /\ Full'
  BY <1>2, <1>3, <1>4, PlainWith
<1>6. Contents[c] = Items(c) /\ c \in Abstract!Exists
  BY ContentsIs, ResultPlain DEF Abstract!Exists
<1>7. w = <<d>> \o Contents[c]
  BY <1>1, <1>3, <1>6 DEF Prepended
<1>8. Abstract!PushHead(c, d)
  BY <1>5, <1>7, Zenon DEF Abstract!PushHead
<1>9. Abstract!Next
  BY <1>6, <1>8 DEF Abstract!Next
<1> QED BY <1>5, <1>9 DEF Simulated

\* A push to the tail is the deque's PushTail.
LEMMA SimPushTail ==
  ASSUME DInv, NEW c \in alive, NEW d \in Payloads, c \in Visible,
         call.pc \notin Promises \cup FreeLoops, call' = call, UNCHANGED chainVars,
         Chain_push_to_tail(c, d)
  PROVE  Simulated
<1>1. Appended(Items(c)', Items(c), d) /\ \A x \in alive : x # c => Kept(x)
  BY PushTailItems DEF DInv
<1>2. Visible' = Visible \cup {c}
  BY DEF Visible, Freeing, Reversing, chainVars
<1>3. PICK w : w = Items(c)'
  OBVIOUS
<1>4. \A x \in Visible : x # c => Items(x)' = Items(x)
  BY <1>1 DEF Kept, Visible
<1>5. Abstract!With(c, w) /\ Synced' /\ Full'
  BY <1>2, <1>3, <1>4, PlainWith
<1>6. Contents[c] = Items(c) /\ c \in Abstract!Exists
  BY ContentsIs, ResultPlain DEF Abstract!Exists
<1>7. w = Append(Contents[c], d)
  BY <1>1, <1>3, <1>6 DEF Appended
<1>8. Abstract!PushTail(c, d)
  BY <1>5, <1>7, Zenon DEF Abstract!PushTail
<1>9. Abstract!Next
  BY <1>6, <1>8 DEF Abstract!Next
<1> QED BY <1>5, <1>9 DEF Simulated

\* A pop is the deque's pop at that end, or nothing on an empty chain.
LEMMA SimPop ==
  ASSUME DInv, NEW c \in alive, c \in Visible,
         call.pc \notin Promises \cup FreeLoops, call' = call, UNCHANGED chainVars,
         Chain_pop_from_head(c) \/ Chain_pop_from_tail(c)
  PROVE  Simulated
<1>1. Visible' = Visible
  BY DEF Visible, Freeing, Reversing, chainVars
<1>2. ASSUME \A x \in alive : x # c => Kept(x), Kept(c)
      PROVE  Simulated
  BY <1>1, <1>2, PlainStutter DEF Kept, Visible
<1>3. PICK w : w = Items(c)'
  OBVIOUS
<1>4. ASSUME \A x \in alive : x # c => Kept(x)
      PROVE  Abstract!With(c, w) /\ Synced' /\ Full'
  <2>1. \A x \in Visible : x # c => Items(x)' = Items(x)
    BY <1>4 DEF Kept, Visible
  <2>2. Visible' = Visible \cup {c}
    BY <1>1
  <2> QED BY <1>3, <2>1, <2>2, PlainWith
<1>5. Contents[c] = Items(c) /\ c \in Abstract!Exists
  BY ContentsIs, ResultPlain DEF Abstract!Exists
<1>6. CASE Chain_pop_from_head(c)
  <2>1. /\ \A x \in alive : x # c => Kept(x)
        /\ head[c] = NULL => Kept(c)
        /\ head[c] # NULL => Rest(Items(c)', Items(c), data[head[c]])
    BY <1>6, PopFromHead DEF DInv
  <2>2. ASSUME head[c] # NULL PROVE Abstract!Next
    <3>1. Contents[c] # <<>> /\ w = Tail(Contents[c])
      BY <2>1, <2>2, <1>3, <1>5 DEF Rest
    <3>2. Abstract!PopHead(c)
      BY <3>1, <2>1, <1>4, Zenon DEF Abstract!PopHead
    <3> QED BY <3>2, <1>5 DEF Abstract!Next
  <2> QED BY <2>1, <2>2, <1>2, <1>4 DEF Simulated
<1>7. CASE Chain_pop_from_tail(c)
  <2>1. /\ \A x \in alive : x # c => Kept(x)
        /\ tail[c] = NULL => Kept(c)
        /\ tail[c] # NULL => Start(Items(c)', Items(c), data[tail[c]])
    BY <1>7, PopFromTail DEF DInv
  <2>2. ASSUME tail[c] # NULL PROVE Abstract!Next
    <3>1. Contents[c] # <<>> /\ w = Abstract!Front(Contents[c])
      BY <2>1, <2>2, <1>3, <1>5, SameParts DEF Start
    <3>2. Abstract!PopTail(c)
      BY <3>1, <2>1, <1>4, Zenon DEF Abstract!PopTail
    <3> QED BY <3>2, <1>5 DEF Abstract!Next
  <2> QED BY <2>1, <2>2, <1>2, <1>4 DEF Simulated
<1> QED BY <1>6, <1>7

\* The pushes of the application.
LEMMA StepsPush == DInv /\ AppPush => Simulated
<1> SUFFICES ASSUME DInv, AppPush PROVE Simulated
  OBVIOUS
<1>1. PICK c \in Chains, d \in Payloads :
        Calling(c) /\ (Chain_push_to_head(c, d) \/ Chain_push_to_tail(c, d))
  BY DEF AppPush, Queue_push, Stack_push
<1>2. call = Idle /\ c \in alive /\ call' = call /\ UNCHANGED chainVars
  BY <1>1 DEF AppPush, Calling
<1>3. call.pc \notin Promises \cup FreeLoops /\ c \in Visible
  BY <1>2, VisibleIdle DEF Idle, Promises, FreeLoops
<1> QED BY <1>1, <1>2, <1>3, SimPushHead, SimPushTail

\* The pops of the application.
LEMMA StepsPop == DInv /\ AppPop => Simulated
<1> SUFFICES ASSUME DInv, AppPop PROVE Simulated
  OBVIOUS
<1>1. PICK c \in Chains :
        Calling(c) /\ (Chain_pop_from_head(c) \/ Chain_pop_from_tail(c))
  BY DEF AppPop, Queue_pop, Stack_pop
<1>2. call = Idle /\ c \in alive /\ call' = call /\ UNCHANGED chainVars
  BY <1>1 DEF AppPop, Calling
<1>3. call.pc \notin Promises \cup FreeLoops /\ c \in Visible
  BY <1>2, VisibleIdle DEF Idle, Promises, FreeLoops
<1> QED BY <1>1, <1>2, <1>3, SimPop

\* An iteration of a foreach shows the deque nothing.
LEMMA StepsForeach == DInv /\ ForeachStep => Simulated
<1> SUFFICES ASSUME DInv, ForeachStep PROVE Simulated
  OBVIOUS
<1>1. PICK c : c = call.this
  OBVIOUS
<1>2. call.pc \in {"foreach_from_head", "foreach_from_tail"} /\ UNCHANGED chainVars
  BY DEF ForeachStep
<1>3. c \in alive /\ c \in Visible /\ call.pc \notin Promises \cup FreeLoops
  BY <1>1, <1>2 DEF DInv, IInv, CallOK, Visible, Freeing, Reversing, Promises, FreeLoops, Loops
<1>4. \/ call' \in {call, Idle} /\ UNCHANGED <<listVars, blockVars>>
      \/ call' = call /\ (Chain_pop_from_head(c) \/ Chain_pop_from_tail(c))
      \/ call' = call /\ \E d \in Payloads : Chain_push_to_tail(c, d)
  BY <1>1 DEF ForeachStep, Return
<1>5. CASE call' \in {call, Idle} /\ UNCHANGED <<listVars, blockVars>>
  <2>1. \A x : Items(x)' = Items(x)
    BY <1>5, SameItems DEF Kept, listVars, blockVars
  <2>2. Visible = alive /\ Visible' = Visible
    BY <1>2, <1>5 DEF Visible, Freeing, Reversing, chainVars, Idle
  <2>3. call'.pc \notin Promises
    BY <1>3, <1>5 DEF Idle, Promises
  <2> QED BY <2>1, <2>2, <2>3, <1>3, PlainStutter
<1>6. CASE call' = call /\ (Chain_pop_from_head(c) \/ Chain_pop_from_tail(c))
  BY <1>2, <1>3, <1>6, SimPop
<1>7. CASE call' = call /\ \E d \in Payloads : Chain_push_to_tail(c, d)
  BY <1>2, <1>3, <1>7, SimPushTail
<1> QED BY <1>4, <1>5, <1>6, <1>7

-----------------------------------------------------------------------------
(* Where the loops clear and free: the abstract step is the one that starts
   the loop, its iterations stutter. *)

\* A live chain is a chain and not NULL.
LEMMA AliveChains ==
  ASSUME IInv
  PROVE  \A x \in alive : x \in Chains /\ x # NULL
BY ChainAssumption DEF IInv, TypeOK

\* What the chains of a loop hold in the end.
LEMMA ResultOf ==
  ASSUME NEW t, NEW u, t = call.this, u = call.that
  PROVE
  /\ call.pc = "clear_from_head" => Result(t) = D!After(Items(t))
  /\ call.pc = "clear_from_tail" => Result(t) = Reverse(D!After(Reverse(Items(t))))
  /\ call.pc = "clone"           => Result(t) = Items(t)
  /\ call.pc = "clone" /\ t # u  => Result(u) = D!Before(Items(t))
  /\ call.pc = "reverse"         => Result(t) = D!After(Items(t)) \o Reverse(D!Before(Items(t)))
  /\ call.pc = "reverse_clear"   => Result(t) = D!After(Items(t)) \o Reverse(Items(u))
  /\ call.pc = "reverse_push"    => Result(t) = Items(t) \o Backward(u)
  /\ call.pc # "clone"           => \A x : x # t => Result(x) = Items(x)
BY DEF Result

\* The same after the step.
LEMMA ResultOfNext ==
  ASSUME NEW t, NEW u, t = call'.this, u = call'.that
  PROVE
  /\ call'.pc = "clear_from_head" => Result(t)' = D!After(Items(t)')
  /\ call'.pc = "clear_from_tail" => Result(t)' = Reverse(D!After(Reverse(Items(t)')))
  /\ call'.pc = "clone"           => Result(t)' = Items(t)'
  /\ call'.pc = "clone" /\ t # u  => Result(u)' = D!Before(Items(t)')
  /\ call'.pc = "reverse"         => Result(t)' = D!After(Items(t)') \o Reverse(D!Before(Items(t)'))
  /\ call'.pc = "reverse_clear"   => Result(t)' = D!After(Items(t)') \o Reverse(Items(u)')
  /\ call'.pc = "reverse_push"    => Result(t)' = Items(t)' \o Backward(u)'
  /\ call'.pc # "clone"           => \A x : x # t => Result(x)' = Items(x)'
BY DEF Result

\* A clear, when it is called, leaves the deque what is behind its first NULL.
LEMMA SimClear == DInv /\ AppClear => Simulated
<1> SUFFICES ASSUME DInv, AppClear PROVE Simulated
  OBVIOUS
<1>1. PICK c \in Chains :
        /\ call = Idle /\ c \in alive
        /\ call'.pc \in {"clear_from_head", "clear_from_tail"} /\ call'.this = c /\ call'.that = NULL
  BY DEF AppClear, Calling, Enter
<1>2. alive' = alive /\ UNCHANGED <<head, live, owner, next, data>>
  BY DEF AppClear, chainVars, listVars, blockVars
<1>3. \A x : Items(x)' = Items(x)
  BY <1>2, SameItems DEF Kept
<1>4. Visible = alive /\ Visible' = Visible \cup {c}
  BY <1>1, <1>2 DEF Visible, Freeing, Reversing, Idle
<1>5. \A x : Result(x) = Items(x)
  BY <1>1, ResultPlain DEF Idle, Promises
<1>6. \A x \in Visible : x # c => Result(x)' = Result(x)
  BY <1>1, <1>3, <1>5, ResultOfNext
<1>7. PICK v, w : v = Items(c) /\ w = Result(c)'
  OBVIOUS
<1>8. Abstract!With(c, w)
  BY <1>4, <1>6, <1>7, ContentsWith
<1>9. Contents[c] = v /\ c \in Abstract!Exists
  BY <1>1, <1>4, <1>5, <1>7, ContentsIs DEF Abstract!Exists
<1>10. Synced' /\ Full'
  BY <1>1, OutOfLoop
<1>11. CASE call'.pc = "clear_from_head"
  <2>1. w = D!After(v)
    BY <1>1, <1>3, <1>7, <1>11, ResultOfNext
  <2>2. w = Abstract!After(Contents[c])
    BY <2>1, <1>9, SameParts
  <2>3. Abstract!ClearHead(c)
    BY <2>2, <1>8, Zenon DEF Abstract!ClearHead
  <2> QED BY <2>3, <1>9, <1>10 DEF Abstract!Next, Simulated
<1>12. CASE call'.pc = "clear_from_tail"
  <2>1. w = Reverse(D!After(Reverse(v)))
    BY <1>1, <1>3, <1>7, <1>12, ResultOfNext
  <2>2. w = Abstract!Reverse(Abstract!After(Abstract!Reverse(Contents[c])))
    BY <2>1, <1>9, SameParts
  <2>3. Abstract!ClearTail(c)
    BY <2>2, <1>8, Zenon DEF Abstract!ClearTail
  <2> QED BY <2>3, <1>9, <1>10 DEF Abstract!Next, Simulated
<1> QED BY <1>1, <1>11, <1>12

\* A free removes the deque when it is called.
LEMMA SimFree == DInv /\ AppFree => Simulated
<1> SUFFICES ASSUME DInv, AppFree PROVE Simulated
  OBVIOUS
<1>1. PICK c \in Chains :
        /\ call = Idle /\ c \in alive
        /\ call'.pc \in {"free_from_head", "free_from_tail"} /\ call'.this = c /\ call'.that = NULL
  BY DEF AppFree, Calling, Enter
<1>2. alive' = alive /\ UNCHANGED <<head, live, owner, next, data>>
  BY DEF AppFree, chainVars, listVars, blockVars
<1>3. \A x : Items(x)' = Items(x)
  BY <1>2, SameItems DEF Kept
<1>4. Visible = alive /\ Visible' = Visible \ {c}
  BY <1>1, <1>2 DEF Visible, Freeing, Reversing, Idle
<1>5. \A x : Result(x) = Items(x) /\ Result(x)' = Items(x)'
  BY <1>1, ResultPlain, ResultPlainNext DEF Idle, Promises
<1>6. Abstract!Free(c)
  BY <1>3, <1>4, <1>5, ContentsWithout
<1>7. Abstract!Next
  BY <1>1, <1>4, <1>6, ContentsIs DEF Abstract!Next, Abstract!Exists
<1>8. Synced' /\ Full'
  BY <1>1, OutOfLoop
<1> QED BY <1>7, <1>8 DEF Simulated

\* A loop that frees a chain: what the application sees stays as it is.
LEMMA StepsFree == DInv /\ FreeStep => Simulated
<1> SUFFICES ASSUME DInv, FreeStep PROVE Simulated
  OBVIOUS
<1>1. PICK c : c = call.this
  OBVIOUS
<1>2. call.pc \in FreeLoops /\ c \in alive /\ c \in Chains
  BY <1>1 DEF DInv, IInv, CallOK, FreeStep, FreeLoops, Loops, TypeOK, Idle
<1>3. Visible = alive \ {c}
  BY <1>1, <1>2 DEF Visible, Freeing, Reversing, FreeLoops
<1>4. \/ alive' = alive /\ call' = call
      \/ /\ alive' = alive \ {c} /\ call' = Idle /\ UNCHANGED blockVars
         /\ head' = [head EXCEPT ![c] = NULL]
  BY <1>1 DEF FreeStep, chainVars, Object_free, Return
<1>5. Visible' = Visible /\ call'.pc \notin Promises /\ call.pc \notin Promises
  BY <1>1, <1>2, <1>3, <1>4 DEF Visible, Freeing, Reversing, FreeLoops, Idle, Promises
<1>6. \A x \in alive : x # c => ~Freeing(x)
  BY <1>1 DEF Freeing
<1>7. CASE alive' = alive /\ call' = call
  <2>1. PICK b : Dropped(c, b) /\ (OffHead(c, b) \/ OffTail(c, b))
    BY <1>1, <1>7, FreeBlock DEF DInv
  <2>2. \A x \in alive : x # c => Kept(x)
    BY <2>1, <1>6, DropHeadOthers, DropTailOthers DEF DInv
  <2> QED BY <2>2, <1>3, <1>5, PlainStutter DEF Kept
<1>8. CASE /\ alive' = alive \ {c} /\ call' = Idle /\ UNCHANGED blockVars
           /\ head' = [head EXCEPT ![c] = NULL]
  <2>1. \A x : Own(x)' = Own(x)
    BY <1>8 DEF Own, blockVars
  <2>2. ASSUME NEW x \in alive, x # c PROVE Kept(x)
    <3>1. head'[x] = head[x]
      BY <2>2, <1>8 DEF DInv, IInv, TypeOK
    <3> QED BY <3>1, <2>1, <1>8, KeptFrame DEF blockVars
  <2> QED BY <2>2, <1>3, <1>5, PlainStutter DEF Kept
<1> QED BY <1>4, <1>7, <1>8

\* A reverse frees its clone: the reversed chain is complete.
LEMMA StepsReverseRelease == DInv /\ ReverseRelease => Simulated
<1> SUFFICES ASSUME DInv, ReverseRelease PROVE Simulated
  OBVIOUS
<1>1. PICK c, d : c = call.this /\ d = call.that
  OBVIOUS
<1>2. call.pc = "reverse_release" /\ d \in alive /\ d \in Chains /\ d # NULL
  BY <1>1, AliveChains DEF DInv, IInv, CallOK, ReverseRelease, Cloning
<1>3. Visible = alive \ {d} /\ call.pc \notin Promises /\ \A x : ~Freeing(x)
  BY <1>1, <1>2 DEF Visible, Freeing, Reversing, Promises
<1>4. CASE ~TakenForString(d)
  <2>1. /\ call'.pc \in FreeLoops /\ call'.this = d /\ call'.pc \notin Promises
        /\ alive' = alive /\ UNCHANGED <<head, live, owner, next, data>>
    BY <1>1, <1>4 DEF ReverseRelease, Enter, FreeLoops, Promises, chainVars, listVars, blockVars
  <2>2. \A x : Items(x)' = Items(x)
    BY <2>1, SameItems DEF Kept
  <2>3. Visible' = Visible
    BY <1>3, <2>1 DEF Visible, Freeing, Reversing, FreeLoops
  <2> QED BY <2>1, <2>2, <2>3, <1>3, PlainStutter
<1>5. CASE TakenForString(d)
  <2>1. PICK b : b = head[d]
    OBVIOUS
  <2>2. /\ alive' = alive \ {d} /\ head' = [head EXCEPT ![d] = NULL] /\ call' = Idle
        /\ owner' = [x \in Blocks |-> IF owner[x] = d THEN NULL ELSE owner[x]]
        /\ \/ UNCHANGED <<live, data, next>>
           \/ /\ b # NULL /\ live' = live \ {b}
              /\ data' = [data EXCEPT ![b] = NULL]
              /\ next' = [next EXCEPT ![b] = NULL]
    BY <1>1, <1>5, <2>1 DEF ReverseRelease, String_free, Object_free, Return
  <2>3. b # NULL => b \in live /\ b \in Blocks /\ owner[b] = d
    BY <1>2, <1>3, <2>1 DEF DInv, IInv, EndsOK, Anchored, Own, TypeOK
  <2>4. ASSUME NEW x \in alive, x # d PROVE Kept(x)
    <3>1. head'[x] = head[x] /\ x \in Chains /\ x # NULL
      BY <2>2, <2>4, AliveChains DEF DInv, IInv, TypeOK
    <3>2. \A y \in Own(x) : next'[y] = next[y] /\ data'[y] = data[y]
      BY <2>2, <2>3, <2>4 DEF Own, DInv, IInv, TypeOK
    <3>3. Own(x)' = Own(x)
      BY <2>2, <2>3, <2>4, <3>1 DEF Own, DInv, IInv, TypeOK
    <3> QED BY <3>1, <3>2, <3>3, <1>3, ItemsFrame DEF DInv
  <2>5. Visible' = Visible /\ call'.pc \notin Promises
    BY <1>3, <2>2 DEF Visible, Freeing, Reversing, Idle, Promises
  <2> QED BY <2>4, <2>5, <1>3, PlainStutter DEF Kept
<1> QED BY <1>4, <1>5

-----------------------------------------------------------------------------
(* The start of a clone and of a reverse. *)

\* What the links of c say of its blocks o and its items v, n of them.
Row(c, v, o, n) ==
  /\ v \in Seq(Payloads) /\ n = Len(v) /\ n \in Nat /\ n = Cardinality(Own(c))
  /\ o \in [1 .. n -> Own(c)] /\ Once(o, n)
  /\ \A b \in Own(c) : \E i \in 1 .. n : o[i] = b
  /\ \A i \in 1 .. n : v[i] = data[o[i]]
  /\ head[c] = IF n = 0 THEN NULL ELSE o[1]
  /\ tail[c] = IF n = 0 THEN NULL ELSE o[n]
  /\ \A i \in 1 .. n : next[o[i]] = IF i = n THEN NULL ELSE o[i + 1]
  /\ \A i \in 1 .. n : last[o[i]] = IF i = 1 THEN NULL ELSE o[i - 1]

\* The invariant gives it for every chain outside a freeing loop.
LEMMA RowIs ==
  ASSUME IInv, NEW c \in alive, ~Freeing(c)
  PROVE  Row(c, Items(c), Chained(c), Len(Items(c)))
<1>1. PICK s : Enumerates(c, s)
  BY LinkedOrder
<1>2. Chained(c) = s /\ Reads(Items(c), s, Cardinality(Own(c)), data, Payloads)
  BY <1>1, ItemsOf
<1>3. PICK v, n : v = Items(c) /\ n = Cardinality(Own(c))
  OBVIOUS
<1>4. v \in Seq(Payloads) /\ n = Len(v) /\ \A i \in 1 .. n : v[i] = data[s[i]]
  BY <1>2, <1>3 DEF Reads
<1>5. Listing(s, Own(c), head[c], next, NULL)
  BY <1>1 DEF Enumerates
<1>6. n \in Nat /\ s \in [1 .. n -> Own(c)] /\ (Own(c) = {} <=> n = 0) /\ (Own(c) # {} => s[1] = head[c])
  BY <1>3, <1>5, ListingFacts
<1>7. /\ Once(s, n) /\ \A i \in 1 .. n : next[s[i]] = IF i = n THEN NULL ELSE s[i + 1]
  BY <1>3, <1>5 DEF Listing, Walk
<1>8. /\ Own(c) # {} => s[n] = tail[c]
      /\ \A i \in 1 .. n : last[s[i]] = IF i = 1 THEN NULL ELSE s[i - 1]
      /\ \A b \in Own(c) : \E i \in 1 .. n : s[i] = b
  BY <1>1, <1>3 DEF Enumerates
<1>9. Own(c) = {} => head[c] = NULL /\ tail[c] = NULL
  BY DEF IInv, EndsOK, Anchored
<1>10. Row(c, v, s, n)
  BY <1>3, <1>4, <1>6, <1>7, <1>8, <1>9 DEF Row
<1> QED BY <1>2, <1>3, <1>4, <1>10

\* The empty prefix.
LEMMA PrefixNone ==
  ASSUME NEW S, NEW v \in Seq(S)
  PROVE  SubSeq(v, 1, 0) = <<>>
<1>1. Len(v) \in Nat
  BY LenProperties
<1> QED BY <1>1, SubSeqEmpty

\* A clone, and a reverse, decide their result when they start.
LEMMA SimClone == DInv /\ AppClone => Simulated
<1> SUFFICES ASSUME DInv, AppClone PROVE Simulated
  OBVIOUS
<1>0. PICK c \in Chains, d \in Chains :
        /\ Calling(c) /\ CloneStruct(c, d) /\ (Enter("clone", c, d) \/ Enter("reverse", c, d))
        /\ cursor' = [cursor EXCEPT ![c] = head[c], ![d] = NULL]
  BY DEF AppClone
<1>1. /\ call = Idle /\ c \in alive /\ d \notin alive /\ alive' = alive \cup {d}
      /\ head' = [head EXCEPT ![d] = NULL]
      /\ cursor' = [cursor EXCEPT ![c] = head[c], ![d] = NULL]
      /\ call'.pc \in {"clone", "reverse"} /\ call'.this = c /\ call'.that = d
  BY <1>0 DEF Calling, CloneStruct, _Chain_new, Enter
<1>2. UNCHANGED <<live, owner, next, data>> /\ c # d /\ cursor'[c] = head[c]
  BY <1>1 DEF AppClone, blockVars, DInv, IInv, TypeOK
<1>3. \A x : Own(x)' = Own(x)
  BY <1>2 DEF Own
<1>4. Items(d)' = <<>>
  <2>1. Own(d) = {}
    BY <1>1, ChainAssumption DEF DInv, IInv, BlocksOK, Own
  <2>2. Own(d)' = {}
    BY <1>3, <2>1
  <2> QED BY <2>2, PayloadNone DEF Items
<1>5. ASSUME NEW x \in alive, x # d PROVE Kept(x)
  <2>1. head'[x] = head[x]
    BY <1>1, <1>5 DEF DInv, IInv, TypeOK
  <2> QED BY <1>2, <1>3, <2>1, KeptFrame
<1>6. Visible = alive /\ c \in Visible /\ (\A x : ~Freeing(x))
  BY <1>1 DEF Visible, Freeing, Reversing, Idle
<1>7. PICK v, o, n : v = Items(c) /\ o = Chained(c) /\ n = Len(v)
  OBVIOUS
<1>8. Row(c, v, o, n)
  BY <1>1, <1>6, <1>7, RowIs DEF DInv
<1>9. Items(c)' = v /\ Chained(c)' = o
  BY <1>1, <1>5, <1>7 DEF Kept
<1>10. InStep(v, <<>>, o, head[c], 1)
  <2>1. SubSeq(v, 1, 1 - 1) = <<>>
    BY <1>8, PrefixNone DEF Row
  <2>2. n \in Nat /\ n = Len(v) /\ head[c] = IF n = 0 THEN NULL ELSE o[1]
    BY <1>8 DEF Row
  <2> QED BY <2>1, <2>2 DEF InStep
<1>11. Synced' /\ Full'
  <2>1. Synced'
    BY <1>1, <1>2, <1>4, <1>9, <1>10 DEF Synced
  <2> QED BY <2>1, <1>1 DEF Full
<1>12. \A x \in Visible : x # c => Result(x)' = Result(x)
  <2>1. \A x : Result(x) = Items(x)
    BY <1>1, ResultPlain DEF Idle, Promises
  <2>2. \A x \in alive : x # c => Result(x)' = Items(x)'
    BY <1>1, ResultPlainNext
  <2> QED BY <2>1, <2>2, <1>1, <1>5, <1>6 DEF Kept
<1>13. Contents[c] = v /\ c \in Abstract!Exists /\ Abstract!Exists = alive
  BY <1>1, <1>6, <1>7, ContentsIs, ResultPlain DEF Abstract!Exists, Idle, Promises
<1>14. CASE call'.pc = "clone"
  <2>1. Visible' = Visible \cup {d}
    BY <1>1, <1>6, <1>14 DEF Visible, Freeing, Reversing
  <2>2. PICK w : w = Result(d)'
    OBVIOUS
  <2>3. w = Abstract!Before(Contents[c])
    BY <2>2, <1>1, <1>2, <1>9, <1>13, <1>14, ResultOfNext, SameParts
  <2>4. Result(c)' = Result(c)
    BY <1>1, <1>7, <1>9, <1>14, ResultOfNext, ResultPlain DEF Idle, Promises
  <2>5. Abstract!With(d, w)
    BY <2>1, <2>2, <2>4, <1>12, ContentsWith
  <2>6. Abstract!Clone(c, d)
    BY <2>3, <2>5, <1>1, <1>13, Zenon DEF Abstract!Clone
  <2> QED BY <2>6, <1>1, <1>11, <1>13 DEF Abstract!Next, Simulated
<1>15. CASE call'.pc = "reverse"
  <2>1. Visible' = Visible \cup {c}
    BY <1>1, <1>6, <1>15 DEF Visible, Freeing, Reversing
  <2>2. PICK w : w = Result(c)'
    OBVIOUS
  <2>3. PICK a, b, r : a = D!After(v) /\ b = D!Before(v) /\ r = Reverse(b)
    OBVIOUS
  <2>4. w = a \o r
    BY <2>2, <2>3, <1>1, <1>9, <1>15, ResultOfNext
  <2>5. a = Abstract!After(Contents[c]) /\ r = Abstract!Reverse(Abstract!Before(Contents[c]))
    BY <2>3, <1>13, SameParts
  <2>6. Abstract!With(c, w)
    BY <2>1, <2>2, <1>12, ContentsWith
  <2>7. Abstract!Reversal(c)
    BY <2>4, <2>5, <2>6, Zenon DEF Abstract!Reversal
  <2> QED BY <2>7, <1>11, <1>13 DEF Abstract!Next, Simulated
<1> QED BY <1>1, <1>14, <1>15

-----------------------------------------------------------------------------
(* One copy of a clone. *)

\* The two chains of a clone or a reverse.
LEMMA BothAlive ==
  ASSUME IInv, call.pc \in Cloning
  PROVE  /\ call.this \in alive /\ call.that \in alive /\ call.that # call.this
         /\ call.this \in Chains /\ call.that \in Chains
         /\ \A x : ~Freeing(x)
         /\ call.pc \notin FreeLoops
BY DEF IInv, CallOK, TypeOK, Cloning, Loops, Freeing, FreeLoops

\* One copied item moves from what is to come to what was copied.
LEMMA OneMore ==
  ASSUME NEW S, NEW v \in Seq(S), NEW o, NEW i \in 1 .. Len(v), NEW b, NEW w, NEW b2, NEW w2,
         InStep(v, w, o, b, i), v[i] # NULL, Appended(w2, w, v[i]),
         b2 = IF i = Len(v) THEN NULL ELSE o[i + 1]
  PROVE  InStep(v, w2, o, b2, i + 1)
<1>1. Len(v) \in Nat
  BY LenProperties
<1>2. SubSeq(v, 1, i) = Append(SubSeq(v, 1, i - 1), v[i])
  BY PrefixGrows
<1>3. w = SubSeq(v, 1, i - 1) /\ \A j \in 1 .. (i - 1) : v[j] # NULL
  BY DEF InStep
<1>4. PICK m, k : m = i + 1 /\ k = m - 1
  OBVIOUS
<1>5. k = i /\ m \in 1 .. Len(v) + 1
  BY <1>1, <1>4
<1>6. w2 = SubSeq(v, 1, k)
  BY <1>2, <1>3, <1>5 DEF Appended
<1>7. b2 = IF m <= Len(v) THEN o[m] ELSE NULL
  BY <1>1, <1>4
<1>8. \A j \in 1 .. k : v[j] # NULL
  <2>1. \A j \in 1 .. k : j = i \/ j \in 1 .. (i - 1)
    BY <1>5
  <2> QED BY <2>1, <1>3
<1>9. InStep(v, w2, o, b2, m)
  BY <1>4, <1>5, <1>6, <1>7, <1>8 DEF InStep
<1> QED BY <1>4, <1>9

\* An iteration of a clone keeps the result the clone was called for.
LEMMA StepsSync == DInv /\ SyncStep => Simulated
<1> SUFFICES ASSUME DInv, SyncStep PROVE Simulated
  OBVIOUS
<1>1. PICK c, d, p : c = call.this /\ d = call.that /\ p = Cursor_data(c)
  OBVIOUS
<1>2. call.pc \in {"clone", "reverse"} /\ call.pc \in Cloning
  BY DEF SyncStep, Cloning
<1>3. /\ c \in alive /\ d \in alive /\ c # d /\ c \in Chains /\ d \in Chains
      /\ (\A x : ~Freeing(x)) /\ call.pc \notin FreeLoops
  BY <1>1, <1>2, BothAlive DEF DInv
<1>4. PICK v, o, n, w : v = Items(c) /\ o = Chained(c) /\ n = Len(v) /\ w = Items(d)
  OBVIOUS
<1>5. Row(c, v, o, n)
  BY <1>3, <1>4, RowIs DEF DInv
<1>6. PICK i : InStep(v, w, o, cursor[c], i)
  BY <1>1, <1>2, <1>4 DEF DInv, Synced
<1>7. /\ v \in Seq(Payloads) /\ n \in Nat /\ n = Len(v) /\ i \in 1 .. n + 1
      /\ i <= n => cursor[c] = o[i] /\ o[i] \in Own(c)
      /\ i > n => cursor[c] = NULL
  <2>1. v \in Seq(Payloads) /\ n \in Nat /\ n = Len(v) /\ o \in [1 .. n -> Own(c)]
    BY <1>5 DEF Row
  <2>2. i \in 1 .. n + 1 /\ cursor[c] = IF i <= n THEN o[i] ELSE NULL
    BY <2>1, <1>6 DEF InStep
  <2>3. i <= n => i \in 1 .. n
    BY <2>1, <2>2
  <2>4. i \in 1 .. n => o[i] \in Own(c)
    BY <2>1
  <2>5. ~(i <= n) <=> i > n
    BY <2>1, <2>2
  <2> QED BY <2>1, <2>2, <2>3, <2>4, <2>5
<1>8. /\ i <= n => p = v[i] /\ next[cursor[c]] = (IF i = n THEN NULL ELSE o[i + 1])
      /\ i > n => p = NULL
  <2>1. i <= n => cursor[c] # NULL
    BY <1>7, ChainAssumption DEF Own, DInv, IInv, TypeOK
  <2>2. i <= n => v[i] = data[o[i]] /\ next[o[i]] = (IF i = n THEN NULL ELSE o[i + 1])
    BY <1>5, <1>7 DEF Row
  <2> QED BY <2>1, <2>2, <1>1, <1>7 DEF Cursor_data
<1>9. CASE p # NULL
  <2>1. i \in 1 .. Len(v) /\ p = v[i] /\ p \in Payloads
    <3>1. i \in 1 .. Len(v) /\ p = v[i]
      BY <1>7, <1>8, <1>9
    <3> QED BY <3>1, <1>7, ElementOfSeq
  <2>2. Chain_push_to_tail(d, p) /\ UNCHANGED chainVars /\ call' = call /\ Chain_NEXT(c)
    BY <1>1, <1>9 DEF SyncStep
  <2>3. Appended(Items(d)', w, p) /\ \A x \in alive : x # d => Kept(x)
    BY <2>1, <2>2, <1>3, <1>4, PushTailItems DEF DInv
  <2>4. Items(c)' = v /\ Chained(c)' = o
    BY <2>3, <1>3, <1>4 DEF Kept
  <2>5. cursor'[c] = IF i = Len(v) THEN NULL ELSE o[i + 1]
    <3>1. cursor[c] # NULL
      BY <1>1, <1>9 DEF Cursor_data
    <3>2. cursor'[c] = next[cursor[c]]
      BY <3>1, <2>2, <1>3 DEF Chain_NEXT, DInv, IInv, TypeOK
    <3> QED BY <3>2, <2>1, <1>7, <1>8
  <2>6. PICK w2, b2 : w2 = Items(d)' /\ b2 = cursor'[c]
    OBVIOUS
  <2>7. InStep(v, w2, o, b2, i + 1)
    BY <2>1, <2>3, <2>5, <2>6, <1>6, <1>7, <1>9, OneMore
  <2>8. Synced' /\ Full'
    BY <2>2, <2>4, <2>6, <2>7, <1>1, <1>2 DEF Synced, Full
  <2>9. Visible' = Visible
    BY <2>2 DEF Visible, Freeing, Reversing, chainVars
  <2>10. call'.pc = call.pc /\ c = call'.this /\ d = call'.that
    BY <2>2, <1>1
  <2>11. ASSUME NEW x \in Visible PROVE Result(x)' = Result(x)
    <3>1. CASE x = c
      BY <3>1, <2>4, <2>10, <1>1, <1>2, <1>4, ResultOf, ResultOfNext
    <3>2. CASE x = d
      <4>1. call.pc = "clone"
        BY <3>2, <2>11, <1>1, <1>2 DEF Visible, Reversing
      <4> QED BY <4>1, <3>2, <2>4, <2>10, <1>1, <1>3, <1>4, ResultOf, ResultOfNext
    <3>3. CASE x # c /\ x # d
      <4>1. Items(x)' = Items(x)
        BY <3>3, <2>3, <2>11 DEF Kept, Visible
      <4> QED BY <4>1, <3>3, <2>10, <1>1, ResultPlain, ResultPlainNext
    <3> QED BY <3>1, <3>2, <3>3
  <2> QED BY <2>8, <2>9, <2>11, ContentsStay DEF Simulated
<1>10. CASE p = NULL
  <2>1. FirstAt(v, i) /\ w = SubSeq(v, 1, i - 1)
    <3>1. i <= n => v[i] = NULL
      BY <1>8, <1>10
    <3> QED BY <3>1, <1>6, <1>7 DEF FirstAt, InStep
  <2>2. w = D!Before(v)
    BY <2>1, <1>7, FirstNullIs
  <2>3. alive' = alive /\ UNCHANGED <<live, owner, next, data, head>>
    BY <1>1, <1>10 DEF SyncStep, listVars, blockVars
  <2>4. \A x : Items(x)' = Items(x)
    BY <2>3, SameItems DEF Kept
  <2>5. CASE call.pc = "clone"
    <3>1. call' = Idle
      BY <2>5, <1>1, <1>10 DEF SyncStep, Return
    <3>2. Visible' = Visible
      BY <3>1, <2>3, <2>5, <1>3 DEF Visible, Freeing, Reversing, Idle
    <3>3. \A x : Result(x)' = Items(x)
      BY <3>1, <2>4, ResultPlainNext DEF Idle, Promises
    <3>4. Result(c) = Items(c) /\ Result(d) = w
      BY <2>2, <2>5, <1>1, <1>3, <1>4, ResultOf
    <3>5. \A x : Result(x) = Items(x)
      BY <3>4, <1>1, <1>4, ResultPlain
    <3>6. Synced' /\ Full'
      BY <3>1, OutOfLoop DEF Idle
    <3> QED BY <3>2, <3>3, <3>5, <3>6, ContentsStay DEF Simulated
  <2>6. CASE call.pc = "reverse"
    <3>1. call'.pc = "reverse_clear" /\ call'.this = c /\ call'.that = d
      BY <2>6, <1>1, <1>10 DEF SyncStep, Enter
    <3>2. Visible' = Visible
      BY <3>1, <2>3, <2>6, <1>1 DEF Visible, Freeing, Reversing
    <3>3. \A x : x # c => Result(x)' = Result(x)
      BY <3>1, <2>4, <2>6, <1>1, ResultOf, ResultOfNext
    <3>4. Result(c)' = Result(c)
      <4>1. PICK a, r : a = D!After(v) /\ r = Reverse(w)
        OBVIOUS
      <4>2. Result(c)' = a \o r
        BY <4>1, <3>1, <2>4, <1>4, ResultOfNext
      <4>3. Result(c) = a \o r
        BY <4>1, <2>2, <2>6, <1>1, <1>4, ResultOf
      <4> QED BY <4>2, <4>3
    <3>5. NoNull(w)
      <4>1. Len(w) = i - 1 /\ \A j \in 1 .. (i - 1) : w[j] = v[j]
        BY <2>1, <1>7, Prefix
      <4> QED BY <4>1, <2>1 DEF NoNull, FirstAt
    <3>6. Synced' /\ Full'
      BY <3>1, <3>5, <2>4, <1>4 DEF Synced, Full
    <3> QED BY <3>2, <3>3, <3>4, <3>6, ContentsStay DEF Simulated
  <2> QED BY <2>5, <2>6, <1>2
<1> QED BY <1>9, <1>10

-----------------------------------------------------------------------------
(* One iteration of a clear. *)

\* The empty sequence backwards.
LEMMA ReverseNone == Reverse(<<>>) = <<>>
<1>1. PICK e \in Seq({}) : e = <<>>
  <2>1. <<>> \in Seq({})
    BY EmptySeq
  <2> QED BY <2>1
<1>2. Len(e) = 0
  BY <1>1, EmptySeq
<1>3. PICK r \in Seq({}) : r = Reverse(e)
  BY ReverseIs
<1>4. Len(r) = 0
  BY <1>2, <1>3, ReverseIs
<1>5. r = <<>>
  BY <1>4, EmptySeq
<1> QED BY <1>1, <1>3, <1>5

\* One iteration of a clear, from the head and from the tail.
ClearsHead(v, w, done) ==
  IF done THEN w = D!After(v) ELSE D!After(w) = D!After(v)
ClearsTail(v, w, done) ==
  IF done THEN w = Reverse(D!After(Reverse(v))) ELSE D!After(Reverse(w)) = D!After(Reverse(v))

\* An iteration that takes the head: the clear ends at a NULL or an empty chain,
\* and otherwise has the same result still to reach.
LEMMA ClearHeadIs ==
  ASSUME NEW v \in Seq(Payloads), NEW w, NEW d,
         (v = <<>> /\ w = v /\ d = NULL) \/ Rest(w, v, d)
  PROVE  ClearsHead(v, w, d = NULL)
<1>1. /\ v = <<>> => D!After(v) = <<>>
      /\ v # <<>> /\ v[1] = NULL => D!After(v) = Tail(v)
      /\ v # <<>> /\ v[1] # NULL => D!After(Tail(v)) = D!After(v)
  BY AfterSteps
<1>2. PICK a, t : a = D!After(v) /\ t = Tail(v)
  OBVIOUS
<1> QED BY <1>1, <1>2 DEF ClearsHead, Rest

\* An iteration that takes the tail likewise, read backwards.
LEMMA ClearTailIs ==
  ASSUME NEW v \in Seq(Payloads), NEW w, NEW d,
         (v = <<>> /\ w = v /\ d = NULL) \/ Start(w, v, d)
  PROVE  ClearsTail(v, w, d = NULL)
<1>1. PICK r \in Seq(Payloads) : r = Reverse(v)
  BY ReverseIs
<1>2. /\ r = <<>> => D!After(r) = <<>>
      /\ r # <<>> /\ r[1] = NULL => D!After(r) = Tail(r)
      /\ r # <<>> /\ r[1] # NULL => D!After(Tail(r)) = D!After(r)
  BY AfterSteps
<1>3. CASE v = <<>> /\ w = v /\ d = NULL
  <2>1. r = <<>> /\ w = <<>>
    BY <1>1, <1>3, ReverseNone
  <2>2. PICK a : a = D!After(r)
    OBVIOUS
  <2>3. a = <<>>
    BY <2>1, <2>2, <1>2
  <2>4. Reverse(a) = w
    BY <2>1, <2>3, ReverseNone
  <2> QED BY <2>2, <2>4, <1>1, <1>3 DEF ClearsTail
<1>4. CASE Start(w, v, d)
  <2>1. v # <<>> /\ v[Len(v)] = d /\ w = Front(v)
    BY <1>4 DEF Start
  <2>2. r # <<>> /\ r[1] = v[Len(v)] /\ Reverse(Front(v)) = Tail(r)
    BY <2>1, <1>1, ReverseFront
  <2>3. w \in Seq(Payloads)
    BY <2>1, FrontOfSeq
  <2>4. Reverse(w) = Tail(r) /\ Reverse(Reverse(w)) = w /\ r[1] = d
    BY <2>1, <2>2, <2>3, ReverseTwice
  <2>5. PICK a, t, b : a = D!After(r) /\ t = Tail(r) /\ b = D!After(t)
    OBVIOUS
  <2>6. IF d = NULL THEN a = t ELSE b = a
    BY <2>2, <2>4, <2>5, <1>2
  <2>7. Reverse(w) = t /\ Reverse(t) = w
    BY <2>4, <2>5
  <2>8. d = NULL => w = Reverse(D!After(Reverse(v)))
    BY <2>5, <2>6, <2>7, <1>1
  <2>9. d # NULL => D!After(Reverse(w)) = D!After(Reverse(v))
    BY <2>5, <2>6, <2>7, <1>1
  <2> QED BY <2>8, <2>9 DEF ClearsTail
<1> QED BY <1>3, <1>4

\* The cursor of the clone when Chain_reverse pushes its first element.
LEMMA BackwardIs ==
  \A c : Backward(c) = Reverse(SubSeq(Items(c), 1, PlaceIn(Chained(c), Cardinality(Own(c)), cursor[c])))
BY PlaceIs DEF Backward

\* The same after the step.
LEMMA BackwardNext ==
  \A c : Backward(c)' = Reverse(SubSeq(Items(c)', 1, PlaceIn(Chained(c)', Cardinality(Own(c)'), cursor'[c])))
BY PlaceNext DEF Backward

\* The place of a block is its number in the row.
LEMMA PlaceRow ==
  ASSUME IInv, NEW c, NEW v, NEW o, NEW n, Row(c, v, o, n)
  PROVE  /\ PlaceIn(o, Cardinality(Own(c)), NULL) = 0
         /\ \A i \in 1 .. n : PlaceIn(o, Cardinality(Own(c)), o[i]) = i
<1>1. NULL \notin Own(c)
  BY ChainAssumption DEF Own, IInv, TypeOK
<1>2. n \in Nat /\ n = Cardinality(Own(c)) /\ o \in [1 .. n -> Own(c)] /\ Once(o, n)
  BY DEF Row
<1>3. /\ PlaceIn(o, n, NULL) = 0
      /\ \A i \in 1 .. n : PlaceIn(o, n, o[i]) = i
  BY <1>1, <1>2, PlaceInIs
<1> QED BY <1>2, <1>3

\* An iteration of a clear keeps the result the clear was called for.
LEMMA StepsClear == DInv /\ ClearStep => Simulated
<1> SUFFICES ASSUME DInv, ClearStep PROVE Simulated
  OBVIOUS
<1>1. PICK c, d : c = call.this /\ d = call.that
  OBVIOUS
<1>2. /\ call.pc \in {"clear_from_head", "clear_from_tail", "reverse_clear"}
      /\ call.pc \notin FreeLoops /\ UNCHANGED chainVars /\ alive' = alive
      /\ c \in alive /\ c \in Chains /\ \A x : ~Freeing(x)
  BY <1>1 DEF ClearStep, FreeLoops, Freeing, DInv, IInv, CallOK, Loops, TypeOK, chainVars
<1>3. PICK v, w, b, e : /\ v = Items(c) /\ w = Items(c)'
                        /\ b = (IF call.pc = "clear_from_tail" THEN tail[c] ELSE head[c])
                        /\ e = (IF b = NULL THEN NULL ELSE data[b])
  OBVIOUS
<1>4. /\ IF e # NULL THEN UNCHANGED <<call, cursor>>
         ELSE IF call.pc = "reverse_clear"
                THEN Enter("reverse_push", c, d) /\ Chain_RESTE_TO_TAIL(d)
                ELSE Return /\ UNCHANGED cursor
      /\ IF call.pc = "clear_from_tail" THEN Chain_pop_from_tail(c) ELSE Chain_pop_from_head(c)
  BY <1>1, <1>3 DEF ClearStep
<1>5. v \in Seq(Payloads)
  BY <1>2, <1>3, ItemsType DEF DInv
<1>6. \A x \in alive : x # c => Kept(x)
  BY <1>2, <1>4, PopFromHead, PopFromTail DEF DInv
<1>7. call.pc # "clear_from_tail" => ClearsHead(v, w, e = NULL)
  <2>1. ASSUME call.pc # "clear_from_tail"
        PROVE  (v = <<>> /\ w = v /\ e = NULL) \/ Rest(w, v, e)
    <3>1. /\ head[c] = NULL => Items(c) = <<>> /\ Kept(c)
          /\ head[c] # NULL => Rest(Items(c)', Items(c), data[head[c]])
      BY <2>1, <1>2, <1>4, PopFromHead DEF DInv
    <3> QED BY <3>1, <2>1, <1>3 DEF Kept
  <2> QED BY <2>1, <1>5, ClearHeadIs
<1>8. call.pc = "clear_from_tail" => ClearsTail(v, w, e = NULL)
  <2>1. ASSUME call.pc = "clear_from_tail"
        PROVE  (v = <<>> /\ w = v /\ e = NULL) \/ Start(w, v, e)
    <3>1. /\ tail[c] = NULL => Items(c) = <<>> /\ Kept(c)
          /\ tail[c] # NULL => Start(Items(c)', Items(c), data[tail[c]])
      BY <2>1, <1>2, <1>4, PopFromTail DEF DInv
    <3> QED BY <3>1, <2>1, <1>3 DEF Kept
  <2> QED BY <2>1, <1>5, ClearTailIs
<1>9. Visible' = Visible /\ Visible \subseteq alive
  BY <1>1, <1>2, <1>4 DEF Visible, Freeing, Reversing, Enter, Return, Idle
<1>10. CASE call.pc \in {"clear_from_head", "clear_from_tail"}
  <2>1. (call' = call /\ e # NULL) \/ (call' = Idle /\ e = NULL)
    BY <1>4, <1>10 DEF Return
  <2>2. Synced' /\ Full'
    BY <2>1, <1>10, OutOfLoop DEF Idle
  <2>3. \A x \in Visible : x # c => Result(x)' = Result(x)
    <3>1. \A x : x # c => Result(x) = Items(x) /\ Result(x)' = Items(x)'
      BY <2>1, <1>1, <1>10, ResultOf, ResultOfNext, ResultPlainNext DEF Idle, Promises
    <3> QED BY <3>1, <1>6, <1>9 DEF Kept
  <2>4. Result(c)' = Result(c)
    <3>1. CASE call.pc = "clear_from_head"
      <4>1. PICK a, a2 : a = D!After(v) /\ a2 = D!After(w)
        OBVIOUS
      <4>2. IF e = NULL THEN w = a ELSE a2 = a
        BY <4>1, <3>1, <1>7 DEF ClearsHead
      <4>3. Result(c) = a
        BY <4>1, <3>1, <1>1, <1>3, ResultOf
      <4>4. call' = call => Result(c)' = a2
        BY <4>1, <3>1, <1>1, <1>3, ResultOfNext
      <4>5. call' = Idle => Result(c)' = w
        BY <1>3, ResultPlainNext DEF Idle, Promises
      <4> QED BY <4>2, <4>3, <4>4, <4>5, <2>1
    <3>2. CASE call.pc = "clear_from_tail"
      <4>1. PICK a, a2 : a = D!After(Reverse(v)) /\ a2 = D!After(Reverse(w))
        OBVIOUS
      <4>2. IF e = NULL THEN w = Reverse(a) ELSE a2 = a
        BY <4>1, <3>2, <1>8 DEF ClearsTail
      <4>3. Result(c) = Reverse(a)
        BY <4>1, <3>2, <1>1, <1>3, ResultOf
      <4>4. call' = call => Result(c)' = Reverse(a2)
        BY <4>1, <3>2, <1>1, <1>3, ResultOfNext
      <4>5. call' = Idle => Result(c)' = w
        BY <1>3, ResultPlainNext DEF Idle, Promises
      <4> QED BY <4>2, <4>3, <4>4, <4>5, <2>1
    <3> QED BY <3>1, <3>2, <1>10
  <2> QED BY <2>2, <2>3, <2>4, <1>9, ContentsStay DEF Simulated
<1>11. CASE call.pc = "reverse_clear"
  <2>1. d \in alive /\ d # c /\ d \in Chains
    BY <1>1, <1>11, BothAlive DEF DInv, Cloning
  <2>2. Kept(d)
    BY <2>1, <1>6
  <2>3. PICK u, q, m : u = Items(d) /\ q = Chained(d) /\ m = Len(u)
    OBVIOUS
  <2>4. Items(d)' = u /\ NoNull(u)
    BY <2>2, <2>3, <1>1, <1>11 DEF Kept, DInv, Full
  <2>5. /\ call'.pc \in {"reverse_clear", "reverse_push"} /\ call'.this = c /\ call'.that = d
        /\ call'.pc = "reverse_clear" <=> e # NULL
    BY <1>1, <1>4, <1>11 DEF Enter
  <2>6. Synced' /\ Full'
    BY <2>4, <2>5 DEF Synced, Full
  <2>7. \A x \in Visible : x # c => Result(x)' = Result(x)
    <3>1. \A x : x # c => Result(x) = Items(x) /\ Result(x)' = Items(x)'
      BY <2>5, <1>1, <1>11, ResultOf, ResultOfNext
    <3> QED BY <3>1, <1>6, <1>9 DEF Kept
  <2>8. Result(c)' = Result(c)
    <3>1. PICK a, a2, r : a = D!After(v) /\ a2 = D!After(w) /\ r = Reverse(u)
      OBVIOUS
    <3>2. IF e = NULL THEN w = a ELSE a2 = a
      BY <3>1, <1>7, <1>11 DEF ClearsHead
    <3>3. Result(c) = a \o r
      BY <3>1, <2>3, <1>1, <1>3, <1>11, ResultOf
    <3>4. CASE e # NULL
      <4>1. Result(c)' = a2 \o r
        BY <3>1, <3>4, <2>4, <2>5, <1>3, ResultOfNext
      <4> QED BY <4>1, <3>2, <3>3, <3>4
    <3>5. CASE e = NULL
      <4>1. Result(c)' = w \o Backward(d)'
        BY <3>5, <2>5, <1>3, ResultOfNext
      <4>2. cursor'[d] = tail[d]
        BY <3>5, <2>1, <1>4, <1>11 DEF Chain_RESTE_TO_TAIL, DInv, IInv, TypeOK
      <4>3. Row(d, u, q, m)
        BY <2>1, <2>3, <1>2, RowIs DEF DInv
      <4>4. PlaceIn(q, Cardinality(Own(d)), cursor'[d]) = m
        <5>1. m \in Nat /\ tail[d] = IF m = 0 THEN NULL ELSE q[m]
          BY <4>3 DEF Row
        <5>2. m # 0 => m \in 1 .. m
          BY <5>1
        <5> QED BY <5>1, <5>2, <4>2, <4>3, PlaceRow DEF DInv
      <4>5. Backward(d)' = Reverse(SubSeq(u, 1, m))
        BY <4>4, <2>2, <2>3, BackwardNext DEF Kept
      <4>6. SubSeq(u, 1, m) = u
        BY <4>3, <2>3, SubSeqFull DEF Row
      <4>7. Backward(d)' = r
        BY <4>5, <4>6, <3>1
      <4> QED BY <4>1, <4>7, <3>2, <3>3, <3>5
    <3> QED BY <3>4, <3>5
  <2> QED BY <2>6, <2>7, <2>8, <1>9, ContentsStay DEF Simulated
<1> QED BY <1>2, <1>10, <1>11

-----------------------------------------------------------------------------
(* One push of a reverse, and the theorem. *)

\* A push of a reverse keeps the result the reverse was called for.
LEMMA StepsReversePush == DInv /\ ReversePush => Simulated
<1> SUFFICES ASSUME DInv, ReversePush PROVE Simulated
  OBVIOUS
<1>1. PICK c, d, p, y : c = call.this /\ d = call.that /\ p = Cursor_data(d) /\ y = cursor[d]
  OBVIOUS
<1>2. call.pc = "reverse_push" /\ call.pc \in Cloning
  BY DEF ReversePush, Cloning
<1>3. /\ c \in alive /\ d \in alive /\ c # d /\ c \in Chains /\ d \in Chains
      /\ (\A x : ~Freeing(x)) /\ call.pc \notin FreeLoops
  BY <1>1, <1>2, BothAlive DEF DInv
<1>4. PICK v, u, q, m : v = Items(c) /\ u = Items(d) /\ q = Chained(d) /\ m = Len(u)
  OBVIOUS
<1>5. Row(d, u, q, m) /\ v \in Seq(Payloads)
  BY <1>3, <1>4, RowIs, ItemsType DEF DInv
<1>6. u \in Seq(Payloads) /\ m \in Nat /\ NoNull(u)
  BY <1>1, <1>2, <1>4, <1>5 DEF Row, DInv, Full
<1>7. y \in Own(d) \cup {NULL} /\ NULL \notin Own(d)
  BY <1>1, <1>2, ChainAssumption DEF DInv, IInv, CursorsOK, Own, TypeOK
<1>8. p = IF y = NULL THEN NULL ELSE data[y]
  BY <1>1 DEF Cursor_data
<1>9. Result(c) = v \o Backward(d)
  BY <1>1, <1>2, <1>4, ResultOf
<1>10. /\ PlaceIn(q, Cardinality(Own(d)), NULL) = 0
       /\ \A i \in 1 .. m : PlaceIn(q, Cardinality(Own(d)), q[i]) = i
  BY <1>5, PlaceRow DEF DInv
<1>11. Visible' = Visible /\ Visible \subseteq alive
  BY <1>1, <1>2 DEF ReversePush, Visible, Freeing, Reversing, Enter, chainVars
<1>12. CASE y = NULL
  <2>1. /\ call'.pc = "reverse_release" /\ call'.this = c
        /\ UNCHANGED <<head, live, owner, next, data>>
    BY <1>1, <1>8, <1>12 DEF ReversePush, Enter, listVars, blockVars
  <2>2. \A x : Items(x)' = Items(x)
    BY <2>1, SameItems DEF Kept
  <2>3. \A x : Result(x)' = Items(x)
    BY <2>1, <2>2, ResultPlainNext DEF Promises
  <2>4. Backward(d) = <<>>
    <3>1. Backward(d) = Reverse(SubSeq(u, 1, 0))
      BY <1>1, <1>4, <1>10, <1>12, BackwardIs
    <3>2. SubSeq(u, 1, 0) = <<>>
      BY <1>6, PrefixNone
    <3> QED BY <3>1, <3>2, ReverseNone
  <2>5. Result(c) = v
    <3>1. v \o <<>> = v
      BY <1>5, ConcatEmptySeq
    <3> QED BY <3>1, <2>4, <1>9
  <2>6. \A x : Result(x) = Items(x)
    BY <2>5, <1>1, <1>2, <1>4, ResultOf
  <2>7. Synced' /\ Full'
    BY <2>1, OutOfLoop
  <2> QED BY <2>3, <2>6, <2>7, <1>11, ContentsStay DEF Simulated
<1>13. CASE y # NULL
  <2>1. PICK k \in 1 .. m : q[k] = y
    BY <1>5, <1>7, <1>13 DEF Row
  <2>2. p = u[k] /\ u[k] # NULL /\ last[y] = IF k = 1 THEN NULL ELSE q[k - 1]
    BY <2>1, <1>4, <1>5, <1>6, <1>8, <1>13 DEF Row, NoNull
  <2>3. p \in Payloads /\ k \in 1 .. Len(u)
    BY <2>1, <2>2, <1>4, <1>6, ElementOfSeq
  <2>4. Chain_push_to_tail(c, p) /\ UNCHANGED chainVars /\ call' = call /\ Chain_LAST(d)
    BY <2>2, <1>1 DEF ReversePush
  <2>5. Appended(Items(c)', v, p) /\ \A x \in alive : x # c => Kept(x)
    BY <2>3, <2>4, <1>3, <1>4, PushTailItems DEF DInv
  <2>6. Items(d)' = u /\ Chained(d)' = q /\ Own(d)' = Own(d)
    BY <2>5, <1>3, <1>4 DEF Kept
  <2>7. cursor'[d] = IF k = 1 THEN NULL ELSE q[k - 1]
    BY <2>2, <2>4, <1>1, <1>3, <1>13 DEF Chain_LAST, DInv, IInv, TypeOK
  <2>8. PlaceIn(q, Cardinality(Own(d)), cursor'[d]) = k - 1
    <3>1. k # 1 => k - 1 \in 1 .. m
      BY <1>6, <2>1
    <3> QED BY <3>1, <2>7, <1>10
  <2>9. PICK r, r2 : r = Reverse(SubSeq(u, 1, k)) /\ r2 = Reverse(SubSeq(u, 1, k - 1))
    OBVIOUS
  <2>10. Backward(d)' = r2
    BY <2>6, <2>8, <2>9, BackwardNext
  <2>11. Backward(d) = r
    BY <2>1, <2>9, <1>1, <1>4, <1>10, BackwardIs
  <2>12. PICK w : w = Items(c)'
    OBVIOUS
  <2>13. w = Append(v, u[k])
    BY <2>2, <2>5, <2>12 DEF Appended
  <2>14. w \o r2 = v \o r
    <3>1. Append(v, u[k]) \o Reverse(SubSeq(u, 1, k - 1)) = v \o Reverse(SubSeq(u, 1, k))
      BY <2>3, <1>5, <1>6, MoveOver
    <3> QED BY <3>1, <2>9, <2>13
  <2>15. Result(c)' = w \o r2
    BY <2>4, <2>10, <2>12, <1>1, <1>2, ResultOfNext
  <2>16. Result(c)' = Result(c)
    BY <2>11, <2>14, <2>15, <1>9
  <2>17. \A x \in Visible : x # c => Result(x)' = Result(x)
    <3>1. \A x : x # c => Result(x) = Items(x) /\ Result(x)' = Items(x)'
      BY <2>4, <1>1, <1>2, ResultOf, ResultOfNext
    <3> QED BY <3>1, <2>5, <1>11 DEF Kept
  <2>18. Synced' /\ Full'
    BY <2>4, <2>6, <1>1, <1>2, <1>6 DEF Synced, Full
  <2> QED BY <2>16, <2>17, <2>18, <1>11, ContentsStay DEF Simulated
<1> QED BY <1>12, <1>13

\* There is no chain, and no deque, at the start.
LEMMA DequeInit == Init => Abstract!Init
<1> SUFFICES ASSUME Init PROVE Abstract!Init
  OBVIOUS
<1>1. Visible = {}
  BY DEF Init, Visible
<1>2. Contents = [c \in {} |-> <<>>]
  BY <1>1 DEF Contents
<1> QED BY <1>2 DEF Abstract!Init

\* Every action is simulated.
LEMMA DequeStep == DInv /\ [Next]_vars => Simulated
<1> SUFFICES ASSUME DInv, [Next]_vars PROVE Simulated
  OBVIOUS
<1>1. CASE App
  BY <1>1, SimObject, SimNew, StepsPush, StepsPop, SimCursor, SimClear, SimFree, SimClone,
     SimForeach DEF App
<1>2. CASE Handler
  BY <1>2, StepsSync, StepsClear, StepsReversePush, StepsReverseRelease, StepsFree,
     StepsForeach DEF Handler
<1>3. CASE UNCHANGED vars
  BY <1>3, SimStutter
<1> QED BY <1>1, <1>2, <1>3 DEF Next

\* Chain implements the deque: with every chain read from its head, and the
\* rest of a loop counted as done the moment it is called, each step of the
\* linked lists is one operation of Deque or leaves it as it is, whatever the
\* sets of chains, blocks and objects.
THEOREM DequeImplemented == Spec => ImplementsDeque
<1>1. Init => Abstract!Init /\ Synced /\ Full
  BY DequeInit DEF Init, Idle, Synced, Full
<1>2. IInv /\ Synced /\ Full /\ [Next]_vars => Synced' /\ Full' /\ [Abstract!Next]_Contents
  BY DequeStep DEF DInv, Simulated
<1> QED BY <1>1, <1>2, Invariant, PTL DEF Spec, ImplementsDeque, Abstract!Spec

=============================================================================
