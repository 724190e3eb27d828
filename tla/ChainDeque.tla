------------------------------ MODULE ChainDeque ------------------------------
(***************************************************************************)
(* The linked list of Chain implements the Deque: each call takes its effect *)
(* when it is made, and each iteration of its loop preserves what the chain  *)
(* will hold when the call returns.  That value is the refinement mapping,   *)
(* one formula for each loop: its loop invariant.                            *)
(***************************************************************************)
EXTENDS Chain, Links, Sequences, SequencesExt

\* The payloads of the blocks of Q from hd along nx.
Payload(Q, hd, nx, dt) ==
  LET o == Order(Q, hd, nx) IN [i \in DOMAIN o |-> dt[o[i]]]

Items(c) == Payload(Own(c), head[c], next, data)

\* The number of the block b of c, which is 0 for NULL.
Place(c, b) ==
  LET o == Order(Own(c), head[c], next) IN
  CHOOSE i \in 0..Cardinality(Own(c)) : IF i = 0 THEN b = NULL ELSE b = o[i]

\* The payloads of c from its cursor back to its head.
Backward(c) == Reverse(SubSeq(Items(c), 1, Place(c, cursor[c])))

D == INSTANCE Deque WITH items <- <<>>

\* What c holds once the running handler has returned.
Result(c) ==
  IF c = call.this THEN
    CASE call.pc = "clear_from_head" -> D!After(Items(c))
      [] call.pc = "clear_from_tail" -> Reverse(D!After(Reverse(Items(c))))
      [] call.pc = "reverse"         -> D!After(Items(c)) \o Reverse(D!Before(Items(c)))
      [] call.pc = "reverse_clear"   -> D!After(Items(c)) \o Reverse(Items(call.that))
      [] call.pc = "reverse_push"    -> Items(c) \o Backward(call.that)
      [] OTHER                       -> Items(c)
  ELSE IF call.pc = "clone" /\ c = call.that THEN D!Before(Items(call.this))
  ELSE Items(c)

\* The chains the application knows of: not one being freed, nor the temporary
\* clone of a reverse.
Visible == {c \in alive : ~Freeing(c) /\ ~(Reversing /\ c = call.that)}

Contents == [c \in Visible |-> Result(c)]

Abstract == INSTANCE Deque WITH items <- Contents

\* Every behaviour of the linked list is one of the Deque.
ImplementsDeque == Abstract!Spec
=============================================================================
