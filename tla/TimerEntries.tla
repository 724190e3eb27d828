----------------------------- MODULE TimerEntries -----------------------------
(* The queue of Timer as its callers know it: the timers in the order in     *)
(* which they will be taken, which TimerQueue specifies.                     *)
EXTENDS Timer, Links

\* One entry for each timer, the one that will be taken next first.
entries ==
  LET s == Order(Queued, head, next) IN
  [i \in 1..Cardinality(Queued) |-> [id |-> s[i], due |-> time[s[i]], on |-> func[s[i]]]]

Abstract == INSTANCE TimerQueue WITH Ids <- Timers, now <- Now, entries <- entries

\* The linked queue implements the sorted one: timers due at the same time are
\* taken in the order in which they were queued.
ImplementsQueue == Abstract!Spec
=============================================================================
