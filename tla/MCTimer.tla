------------------------------- MODULE MCTimer -------------------------------
(* Instance of Timer for TLC, with its refinement of TimerQueue.            *)
EXTENDS TimerEntries, TLC

\* What timer_delay is asked for: a negative delay, none, and a second.
DelaysUsed == {-1, 0, 2}

Symmetry == Permutations(Timers)
=============================================================================
