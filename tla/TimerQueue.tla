----------------------------- MODULE TimerQueue -----------------------------
(***************************************************************************)
(* What the queue of timer.h promises: entries is the list of waiting timers *)
(* in the order they will be taken.  A timer goes behind those due at the    *)
(* same time; the first is taken when it is due; a cancelled one keeps its   *)
(* place.                                                                    *)
(***************************************************************************)
EXTENDS Integers, Sequences

CONSTANT Ids
VARIABLES now, entries

qvars == <<now, entries>>

Entry(id, due, on) == [id |-> id, due |-> due, on |-> on]
Waiting == {entries[i].id : i \in 1..Len(entries)}

Init == now \in Nat /\ entries = <<>>

Insert(id, due, on) ==
  /\ id \notin Waiting /\ due >= now
  /\ \E k \in 0..Len(entries) :
       /\ \A i \in 1..Len(entries) : entries[i].due <= due <=> i <= k
       /\ entries' = SubSeq(entries, 1, k) \o <<Entry(id, due, on)>>
                      \o SubSeq(entries, k + 1, Len(entries))
  /\ UNCHANGED now

Take ==
  /\ entries # <<>> /\ Head(entries).due <= now
  /\ entries' = Tail(entries)
  /\ UNCHANGED now

Cancel(id) ==
  /\ id \in Waiting
  /\ entries' = [i \in 1..Len(entries) |->
                   IF entries[i].id = id THEN Entry(id, entries[i].due, FALSE) ELSE entries[i]]
  /\ UNCHANGED now

Clean == entries' = <<>> /\ UNCHANGED now

Pass == now' \in Nat /\ UNCHANGED entries

\* The due time of a new entry is read off the entries it leads to.
Next ==
  \/ \E id \in Ids : Cancel(id) \/ \E i \in 1..Len(entries') :
       entries'[i].id = id /\ Insert(id, entries'[i].due, entries'[i].on)
  \/ Take \/ Clean \/ Pass

Spec == Init /\ [][Next]_qvars
=============================================================================
