-------------------------------- MODULE Timer --------------------------------
(***************************************************************************)
(* timer.h and the clock it reads (time_second, time.h): a singly linked     *)
(* queue of timers sorted by the second they are due at, polled by           *)
(* timer_check and timer_loop, which call the timer's function.              *)
(*                                                                           *)
(* Times are in half seconds.  time_second() is the number of whole seconds  *)
(* since local midnight, 2 * clock here, and it starts again at 0 after Day  *)
(* seconds.  A delay of 0 becomes 0.00001 in timer_delay: later than now and *)
(* sooner than the next second, 1 here.                                      *)
(*                                                                           *)
(* The program is single threaded, and what runs is a stack of activations:  *)
(* timer_loop calls timer_check, which calls a timer's function, which may   *)
(* call anything of timer.h again, timer_check included.  The function of    *)
(* timer_each is called with the cursor already advanced; it cancels or      *)
(* delays timers at most, and the function of timer_clean does not touch     *)
(* them (either could otherwise free the timer its caller goes on with).     *)
(*                                                                           *)
(* Auxiliary variables, read by no guard of the code:                        *)
(*   place  where a timer is: "free" (not allocated), "queue", "run" (its    *)
(*          function is running) or "lost" (allocated and in no queue)       *)
(*   left   what remains of the delay a queued timer was given               *)
(***************************************************************************)
EXTENDS Integers, Sequences, FiniteSets

CONSTANTS Timers, NULL,
          Day,       \* seconds from one midnight to the next
          Delays,    \* half seconds the application passes to timer_delay
          Returns,   \* half seconds a timer's function returns
          MaxDepth   \* bound: activations on the stack when a function calls another

ASSUME TimerAssumption ==
  /\ NULL \notin Timers /\ IsFiniteSet(Timers)
  /\ Day \in Nat \ {0}
  /\ Delays \subseteq Int /\ Returns \subseteq Int

VARIABLES clock,              \* seconds since midnight
          head,               \* _timer_queue_head
          time, next, func,   \* struct _Timer; func[t] says that func is not NULL
          stack,              \* activations, the running one last
          place, left         \* auxiliary

queueVars == <<head, time, next, func, place, left>>
vars == <<clock, queueVars, stack>>

Now == 2 * clock
Queued == {t \in Timers : place[t] = "queue"}
Allocated == {t \in Timers : place[t] # "free"}

\* pc is "loop" (timer_loop), "check" (timer_check, between two timers), "func"
\* (timer_check inside the function of the timer at) or "each" (timer_each, at
\* the next timer it will show).
Frame(pc, at) == [pc |-> pc, at |-> at]
Top == stack[Len(stack)]
Caller == SubSeq(stack, 1, Len(stack) - 1)
Running(pc) == stack # <<>> /\ Top.pc = pc
Call(pc, at) == stack' = Append(stack, Frame(pc, at))
GoOn(pc, at) == stack' = Append(Caller, Frame(pc, at))
Return == stack' = Caller

\* The application runs: outside timer.h, or in the function of a timer.
AppRuns == stack = <<>> \/ Running("func")

Init ==
  /\ clock \in 0..(Day - 1)
  /\ head = NULL
  /\ time = [t \in Timers |-> 0]
  /\ next = [t \in Timers |-> NULL]
  /\ func = [t \in Timers |-> FALSE]
  /\ stack = <<>>
  /\ place = [t \in Timers |-> "free"]
  /\ left = [t \in Timers |-> 0]

-----------------------------------------------------------------------------
(* The queue.                                                               *)

\* The walk of _timer_insert stops at pre: it is due no later, and what follows
\* it is due after the new timer.  Mutant: the new timer goes before its equals.
StopsAt_before(pre, due) ==
  /\ pre \in Queued /\ (time[pre] < due \/ pre = head)
  /\ next[pre] # NULL => due <= time[next[pre]]
StopsAt(pre, due) ==
  /\ pre \in Queued /\ time[pre] <= due
  /\ next[pre] # NULL => due < time[next[pre]]

\* Mutant of _timer_insert: a timer due before the head goes behind it.
_timer_insert_behind(t, d) ==
  LET due == Now + d IN
  /\ time' = [time EXCEPT ![t] = due]
  /\ left' = [left EXCEPT ![t] = d]
  /\ place' = [place EXCEPT ![t] = "queue"]
  /\ IF head = NULL THEN head' = t /\ UNCHANGED next
     ELSE head' = head /\ next' = [next EXCEPT ![t] = next[head], ![head] = t]

\* t is not linked when it is inserted: its next is NULL.
_timer_insert(t, d) ==
  LET due == Now + d IN
  /\ time' = [time EXCEPT ![t] = due]
  /\ left' = [left EXCEPT ![t] = d]
  /\ place' = [place EXCEPT ![t] = "queue"]
  /\ \/ head = NULL /\ head' = t /\ UNCHANGED next
     \/ head # NULL /\ due < time[head] /\ head' = t /\ next' = [next EXCEPT ![t] = head]
     \/ /\ head # NULL /\ time[head] <= due /\ UNCHANGED head
        /\ \E pre \in Timers :
             StopsAt(pre, due) /\ next' = [next EXCEPT ![t] = next[pre], ![pre] = t]

\* timer_delay on a timer malloc returns.  Mutant: a negative delay is kept.
Clamp_not(d) == IF d = 0 THEN 1 ELSE d
Clamp(d) == IF d < 0 THEN 0 ELSE IF d = 0 THEN 1 ELSE d
timer_delay(t, d) ==
  /\ t \in Timers \ Allocated
  /\ _timer_insert(t, Clamp(d))
  /\ func' = [func EXCEPT ![t] = TRUE]

timer_cancel(t) ==
  /\ t \in Allocated
  /\ func' = [func EXCEPT ![t] = FALSE]
  /\ UNCHANGED <<head, time, next, place, left>>

\* What is freed has no fields: they take their initial values.  F is a set
\* because timer_clean frees the whole queue.
Freed(F) ==
  /\ place' = [t \in Timers |-> IF t \in F THEN "free" ELSE place[t]]
  /\ next' = [t \in Timers |-> IF t \in F THEN NULL ELSE next[t]]
  /\ time' = [t \in Timers |-> IF t \in F THEN 0 ELSE time[t]]
  /\ left' = [t \in Timers |-> IF t \in F THEN 0 ELSE left[t]]
  /\ func' = [t \in Timers |-> IF t \in F THEN FALSE ELSE func[t]]

-----------------------------------------------------------------------------
(* What the application calls.  It cancels a timer only while the timer is   *)
(* allocated, which the timer itself does not tell it.                       *)

AppDelay ==
  /\ AppRuns
  /\ \E t \in Timers, d \in Delays : timer_delay(t, d)
  /\ UNCHANGED <<clock, stack>>

AppCancel ==
  /\ AppRuns
  /\ \E t \in Timers : timer_cancel(t)
  /\ UNCHANGED <<clock, stack>>

timer_clean ==
  /\ AppRuns
  /\ Freed(Queued)
  /\ head' = NULL
  /\ UNCHANGED <<clock, stack>>

\* timer_check, timer_loop and timer_each are entered.
AppEnter ==
  /\ AppRuns
  /\ Len(stack) < MaxDepth
  /\ Call("check", NULL) \/ Call("loop", NULL) \/ Call("each", head)
  /\ UNCHANGED <<clock, queueVars>>

-----------------------------------------------------------------------------
(* The activations go on.                                                   *)

\* timer_loop calls timer_check; once it has, it returns if the queue is empty.
LoopStep ==
  /\ Running("loop")
  /\ Call("check", NULL)
  /\ UNCHANGED <<clock, queueVars>>

\* A check returns; to timer_loop it reports whether the queue is empty now.
CheckReturns ==
  IF Caller # <<>> /\ Caller[Len(Caller)].pc = "loop" /\ head' = NULL
    THEN stack' = SubSeq(Caller, 1, Len(Caller) - 1)
    ELSE Return

\* _timer_execute: the head is not due.  Mutant: it is taken a second too soon.
Due_soon(t) == time[t] <= Now + 2
Due(t) == time[t] <= Now

ExecuteNone ==
  /\ Running("check")
  /\ head # NULL => ~Due(head)
  /\ UNCHANGED <<clock, queueVars>>
  /\ CheckReturns

\* _timer_execute: the head is due and leaves the queue; a cancelled timer has no
\* function, is not freed, and ends the check.
Unlink(t, where) ==
  /\ head' = next[t]
  /\ next' = [next EXCEPT ![t] = NULL]
  /\ time' = [time EXCEPT ![t] = 0]
  /\ left' = [left EXCEPT ![t] = 0]
  /\ place' = [place EXCEPT ![t] = where]
  /\ UNCHANGED <<func, clock>>

ExecuteCancelled ==
  /\ Running("check")
  /\ head # NULL /\ Due(head) /\ ~func[head]
  /\ Unlink(head, "lost")
  /\ CheckReturns

\* Mutant: the function is called before the timer is unlinked.
ExecuteDue_linked ==
  /\ Running("check")
  /\ head # NULL /\ Due(head) /\ func[head]
  /\ UNCHANGED <<clock, queueVars>>
  /\ GoOn("func", head)
ExecuteDue ==
  /\ Running("check")
  /\ head # NULL /\ Due(head) /\ func[head]
  /\ Unlink(head, "run")
  /\ GoOn("func", head)

\* Mutants: a timer that queues itself again gets its function back; it is due at once.
FuncReturns_again ==
  /\ Running("func")
  /\ \E seconds \in Returns :
       IF seconds > 0 THEN _timer_insert(Top.at, seconds) /\ func' = [func EXCEPT ![Top.at] = TRUE]
                      ELSE Freed({Top.at}) /\ UNCHANGED head
  /\ GoOn("check", NULL)
  /\ UNCHANGED clock
FuncReturns_now ==
  /\ Running("func")
  /\ \E seconds \in Returns :
       IF seconds > 0 THEN _timer_insert(Top.at, 0) /\ UNCHANGED func
                      ELSE Freed({Top.at}) /\ UNCHANGED head
  /\ GoOn("check", NULL)
  /\ UNCHANGED clock

\* The function returns: a positive number queues the timer again, cancelled or
\* not, any other frees it.
FuncReturns ==
  /\ Running("func")
  /\ \E seconds \in Returns :
       IF seconds > 0 THEN _timer_insert(Top.at, seconds) /\ UNCHANGED func
                      ELSE Freed({Top.at}) /\ UNCHANGED head
  /\ GoOn("check", NULL)
  /\ UNCHANGED clock

\* timer_each: next is read before the function is called.
EachStep ==
  /\ Running("each")
  /\ IF Top.at = NULL THEN Return /\ UNCHANGED queueVars
     ELSE /\ GoOn("each", next[Top.at])
          /\ \/ UNCHANGED queueVars
             \/ \E t \in Timers : timer_cancel(t)
             \/ \E t \in Timers, d \in Delays : timer_delay(t, d)
  /\ UNCHANGED clock

\* A second passes; at midnight time_second() starts again.
Tick ==
  /\ clock' = (clock + 1) % Day
  /\ left' = [t \in Timers |-> IF left[t] > 2 THEN left[t] - 2 ELSE 0]
  /\ UNCHANGED <<head, time, next, func, place, stack>>

-----------------------------------------------------------------------------
App == AppDelay \/ AppCancel \/ timer_clean \/ AppEnter
Step == LoopStep \/ ExecuteNone \/ ExecuteCancelled \/ ExecuteDue \/ FuncReturns \/ EachStep
Next == App \/ Step \/ Tick

Spec == Init /\ [][Next]_vars

\* timer_loop spins: it polls thousands of times a second.  The prompt program is
\* the one whose functions are quick too, so that no second ends while the loop
\* runs and a timer is due; its activations go on and its clock does.
Waiting == stack # <<>> /\ stack[1].pc = "loop" /\ head # NULL /\ Due(head)
PromptTick == ~Waiting /\ Tick
PromptSpec == Init /\ [][App \/ Step \/ PromptTick]_vars /\ WF_vars(Step) /\ WF_vars(PromptTick)

-----------------------------------------------------------------------------
(* Properties.                                                              *)

Frames == {stack[i] : i \in 1..Len(stack)}

\* Every variable has its type.
TypeOK ==
  /\ clock \in 0..(Day - 1)
  /\ head \in Timers \cup {NULL}
  /\ time \in [Timers -> Nat]
  /\ next \in [Timers -> Timers \cup {NULL}]
  /\ func \in [Timers -> BOOLEAN]
  /\ stack \in Seq([pc : {"loop", "check", "func", "each"}, at : Timers \cup {NULL}])
  /\ place \in [Timers -> {"free", "queue", "run", "lost"}]
  /\ left \in [Timers -> Nat]

\* The queue is one list from the head, sorted by due time, and holds every timer
\* that was queued and not taken: no insertion of _timer_insert (into an empty
\* queue, before the head, in the middle, at the end) and no removal loses one,
\* whatever the functions of timers do in between.
SortedList ==
  \E p \in [Queued -> 1..Cardinality(Queued)] :
    /\ head = NULL <=> Queued = {}
    /\ head # NULL => head \in Queued /\ p[head] = 1
    /\ \A x, y \in Queued : p[x] = p[y] => x = y
    /\ \A x, y \in Queued : p[x] < p[y] => time[x] <= time[y]
    /\ \A x \in Queued : IF p[x] = Cardinality(Queued) THEN next[x] = NULL
                         ELSE next[x] \in Queued /\ p[next[x]] = p[x] + 1

\* A timer that is not in the queue is not linked to it: _timer_insert relies on
\* this when the queue is empty, where it does not write next.
UnqueuedUnlinked == \A t \in Timers \ Queued : next[t] = NULL

\* A timer runs in exactly one activation, and what timer_check goes on to queue
\* or free after its function is still allocated.
RunsOnce ==
  /\ \A t \in Timers : place[t] = "run" <=> Frame("func", t) \in Frames
  /\ \A i, j \in 1..Len(stack) :
       stack[i].pc = "func" /\ stack[i] = stack[j] => i = j

\* The cursor of timer_each, saved before its function is called, is a timer of
\* the queue.
EachOnQueue == \A f \in Frames : f.pc = "each" => f.at \in Queued \cup {NULL}

\* What timer.h relies on: a sorted queue, and activations under way that hold timers
\* they may go on with.
QueueOK == TypeOK /\ SortedList /\ UnqueuedUnlinked /\ RunsOnce /\ EachOnQueue

\* A timer is taken from the queue only when the seconds of the clock it was asked
\* to wait have passed, across midnights too, where the clock its time is compared
\* with is set back.  One that is due after the last whole second of the day is never
\* taken, only cleaned: its time is past every value of time_second.
NeverEarly ==
  [][\A t \in Queued :
       /\ place'[t] \in {"run", "lost"} => left[t] = 0
       /\ time[t] > 2 * (Day - 1) => place'[t] \in {"queue", "free"}]_vars

\* timer_cancel is final: a cancelled timer never gets its function back and is
\* never run, whether it was cancelled in the queue or by its own function, which
\* queues it once more.  It is lost instead of freed.
CancelIsFinal ==
  [][\A t \in Allocated :
       /\ ~func[t] => ~func'[t] /\ (place'[t] = "run" => place[t] = "run")
       /\ place'[t] = "lost" => ~func[t]]_vars

\* Under timer_loop every timer that is due before midnight is taken or cleaned:
\* the timers that keep queueing themselves do not starve it.
DueTimersTaken ==
  \A t \in Timers :
    (t \in Queued /\ time[t] <= 2 * (Day - 1) /\ stack # <<>> /\ stack[1].pc = "loop")
      ~> (t \notin Queued)
=============================================================================
