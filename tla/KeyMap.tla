------------------------------- MODULE KeyMap -------------------------------
(***************************************************************************)
(* What a Hashmap promises: entries[m][k] are the values of key k, the one   *)
(* get returns first.  There is one at most unless the application's check   *)
(* refused to replace it and yet accepted the new one; refused[m] are the    *)
(* keys for which it refused.  Setting a key leaves *)
(* every other key alone.  Deleting one uncovers the value beneath, and      *)
(* either leaves the other keys alone or takes those of the same hash.       *)
(***************************************************************************)
EXTENDS Integers, Sequences

CONSTANTS Ids, Keys, Values, HashOf
VARIABLES entries, refused

mvars == <<entries, refused>>

Empty == [k \in Keys |-> <<>>]

Init == entries = [m \in Ids |-> Empty] /\ refused = [m \in Ids |-> {}]

\* The values of one key become vs; the first conjunct only spares TLC the second.
Becomes(m, k, vs) ==
  /\ entries'[m][k] = vs
  /\ entries' = [entries EXCEPT ![m][k] = vs]

Set(m, k, v) ==
  /\ Becomes(m, k, <<v>> \o IF entries[m][k] = <<>> THEN <<>> ELSE Tail(entries[m][k]))
  /\ UNCHANGED refused
Refuse(m, k) ==
  /\ entries[m][k] # <<>>
  /\ refused' = [refused EXCEPT ![m] = @ \cup {k}]
  /\ \/ UNCHANGED entries
     \/ \E v \in Values : Becomes(m, k, <<v>> \o entries[m][k])
Remove(m, k) ==
  /\ entries[m][k] # <<>>
  /\ Becomes(m, k, Tail(entries[m][k]))
  /\ UNCHANGED refused
RemoveAll(m, k) ==
  /\ entries[m][k] # <<>>
  /\ entries' = [entries EXCEPT ![m] = [j \in Keys |-> IF HashOf[j] = HashOf[k] THEN <<>> ELSE @[j]]]
  /\ UNCHANGED refused
Clear(m) ==
  /\ entries' = [entries EXCEPT ![m] = Empty]
  /\ refused' = [refused EXCEPT ![m] = {}]

Next ==
  \E m \in Ids :
    \/ Clear(m)
    \/ \E k \in Keys :
         \/ Refuse(m, k) \/ Remove(m, k) \/ RemoveAll(m, k)
         \/ \E v \in Values : Set(m, k, v)

Spec == Init /\ [][Next]_mvars
=============================================================================
