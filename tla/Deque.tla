-------------------------------- MODULE Deque --------------------------------
(***************************************************************************)
(* What Chain, Queue and Stack promise: items[c] is the sequence of payloads *)
(* of the chain c, for the chains that exist; every call of the API changes  *)
(* it in one step.                                                           *)
(*                                                                           *)
(* A NULL payload is where the loops of chain.h stop, so it is part of the   *)
(* contract: a clear removes through the first NULL it meets, a clone copies *)
(* what comes before it, and a reverse moves what comes before it, reversed, *)
(* behind what comes after it.  Without a NULL they empty the chain, copy it *)
(* and reverse it.                                                           *)
(***************************************************************************)
EXTENDS Integers, Sequences, SequencesExt

CONSTANTS Chains, Payloads, NULL

VARIABLE items

Exists == DOMAIN items
With(c, s) == items' = [x \in Exists \cup {c} |-> IF x = c THEN s ELSE items[x]]

FirstNull(s) == CHOOSE i \in 1..(Len(s) + 1) :
                  /\ i <= Len(s) => s[i] = NULL
                  /\ \A j \in 1..(i - 1) : s[j] # NULL
Before(s) == SubSeq(s, 1, FirstNull(s) - 1)
After(s) == SubSeq(s, FirstNull(s) + 1, Len(s))

Init == items = [c \in {} |-> <<>>]

New(c) == c \notin Exists /\ With(c, <<>>)
PushHead(c, d) == With(c, <<d>> \o items[c])
PushTail(c, d) == With(c, Append(items[c], d))
PopHead(c) == items[c] # <<>> /\ With(c, Tail(items[c]))
PopTail(c) == items[c] # <<>> /\ With(c, Front(items[c]))
ClearHead(c) == With(c, After(items[c]))
ClearTail(c) == With(c, Reverse(After(Reverse(items[c]))))
Clone(c, d) == d \notin Exists /\ With(d, Before(items[c]))
Reversal(c) == With(c, After(items[c]) \o Reverse(Before(items[c])))
Free(c) == items' = [x \in Exists \ {c} |-> items[x]]

Next ==
  \/ \E c \in Chains : New(c)
  \/ \E c \in Exists :
       \/ \E d \in Payloads : PushHead(c, d) \/ PushTail(c, d)
       \/ PopHead(c) \/ PopTail(c) \/ ClearHead(c) \/ ClearTail(c)
       \/ \E d \in Chains : Clone(c, d)
       \/ Reversal(c)
       \/ Free(c)

Spec == Init /\ [][Next]_items
=============================================================================
