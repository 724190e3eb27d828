------------------------------- MODULE Vector -------------------------------
(***************************************************************************)
(* What an Array promises: content[a] is a sequence.  An element is put,     *)
(* inserted or removed at a place, and the others keep their order; a put    *)
(* behind the end fills the gap with the null element.                       *)
(***************************************************************************)
EXTENDS Integers, Sequences, FiniteSets

CONSTANTS Ids, Values, Null
VARIABLE content

Init == content = [a \in Ids |-> <<>>]

Put(a, i, v) == /\ i <= Len(content[a])
                /\ content' = [content EXCEPT ![a][i] = v]
Extend(a, n, v) ==
  content' = [content EXCEPT ![a] = @ \o [j \in 1..n |-> IF j = n THEN v ELSE Null]]
InsertAt(a, i, v) ==
  content' = [content EXCEPT ![a] = SubSeq(@, 1, i - 1) \o <<v>> \o SubSeq(@, i, Len(@))]
RemoveAt(a, i) ==
  content' = [content EXCEPT ![a] = SubSeq(@, 1, i - 1) \o SubSeq(@, i + 1, Len(@))]
Clear(a) == content' = [content EXCEPT ![a] = <<>>]
Reorder(a) ==
  /\ Len(content'[a]) = Len(content[a])
  /\ \A v \in Values : Cardinality({i \in DOMAIN content[a] : content[a][i] = v})
                         = Cardinality({i \in DOMAIN content[a] : content'[a][i] = v})
  /\ \A b \in Ids \ {a} : content'[b] = content[b]

Next ==
  \E a \in Ids :
    \/ Clear(a) \/ Reorder(a)
    \/ \E i \in 1..Len(content[a]) : RemoveAt(a, i)
    \/ \E v \in Values :
         \/ \E i \in 1..Len(content[a]) : Put(a, i, v)
         \/ \E i \in 1..(Len(content[a]) + 1) : InsertAt(a, i, v)
         \/ \E n \in 1..Len(content'[a]) : Extend(a, n, v)

Spec == Init /\ [][Next]_content
=============================================================================
