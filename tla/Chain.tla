-------------------------------- MODULE Chain --------------------------------
(***************************************************************************)
(* chain.h, block.h, cursor.h, queue.h and stack.h: the doubly linked list  *)
(* with a head and a tail pointer, a cached size, an internal cursor and an *)
(* optional retain flag, and the Queue and the Stack that are views of it.  *)
(*                                                                          *)
(* A Chain is an identity in Chains and a Block one in Blocks; next, last,  *)
(* head, tail and cursor hold pointers, NULL among them.  Every handler     *)
(* without a loop is one action.  A handler with a loop (clear, free,       *)
(* clone, reverse, foreach) is entered by an action that sets call and then *)
(* runs one iteration per step; until it returns no other call can be made, *)
(* except by the callback of a foreach: the program is single threaded.     *)
(*                                                                          *)
(* Auxiliary variables, read by no guard of a handler:                      *)
(*   owner    the chain a block was pushed to                               *)
(*   counted  whether that push retained the payload                        *)
(*   leaked   retains whose block was freed without a release               *)
(*                                                                          *)
(* The application's contract: what it pushes to a retaining chain is an    *)
(* allocated object (a NULL payload there ends the program, tools_error),   *)
(* and it steps a cursor only while its target is a block of the chain.     *)
(***************************************************************************)
EXTENDS Object, FiniteSets

CONSTANTS Chains, Blocks, NULL,
          Kinds,     \* which of "chain", "queue" and "stack" the application makes
          MaxSize,   \* bound: blocks the application pushes to one chain
          MaxLeaked  \* bound: references to one object that reverse may lose

ASSUME ChainAssumption ==
  /\ NULL \notin Blocks /\ NULL \notin Chains /\ NULL \notin Objs
  /\ IsFiniteSet(Blocks)
  /\ Kinds \subseteq {"chain", "queue", "stack"}

VARIABLES alive,                                      \* allocated chains
          kind, retain, size, head, tail, cursor,     \* struct _Chain
          live,                                       \* allocated blocks
          data, next, last,                           \* struct _Block
          call, iter,                                 \* the handler that is running
          owner, counted, leaked                      \* auxiliary

chainVars == <<alive, kind, retain>>
listVars == <<size, head, tail>>
blockVars == <<live, data, next, last, owner, counted>>
vars == <<gcCount, held, alive, kind, retain, size, head, tail, cursor,
          live, data, next, last, call, iter, owner, counted, leaked>>

-----------------------------------------------------------------------------
(* The running handler: pc names the loop it is in, this and that the chains *)
(* it works on.  iter is the Cursor a foreach allocates.                     *)

Idle == [pc |-> "idle", this |-> NULL, that |-> NULL]
Enter(pc, this, that) == call' = [pc |-> pc, this |-> this, that |-> that]
Return == call' = Idle

Own(c) == {b \in live : owner[b] = c}
Room(n) == Cardinality(Blocks \ live) >= n
Payloads == Objs \cup {NULL}

\* What the application may push: see the contract above.
MayPush(c, d) == /\ IF retain[c] THEN d \in Objs /\ Allocated(d)
                                 ELSE d \in Payloads
                 /\ size[c] < MaxSize

Init ==
  /\ ObjectInit
  /\ alive = {}
  /\ kind = [c \in Chains |-> "chain"]
  /\ retain = [c \in Chains |-> FALSE]
  /\ size = [c \in Chains |-> 0]
  /\ head = [c \in Chains |-> NULL]
  /\ tail = [c \in Chains |-> NULL]
  /\ cursor = [c \in Chains |-> NULL]
  /\ live = {}
  /\ data = [b \in Blocks |-> NULL]
  /\ next = [b \in Blocks |-> NULL]
  /\ last = [b \in Blocks |-> NULL]
  /\ call = Idle
  /\ iter = NULL
  /\ owner = [b \in Blocks |-> NULL]
  /\ counted = [b \in Blocks |-> FALSE]
  /\ leaked = [o \in Objs |-> 0]

-----------------------------------------------------------------------------
(* _Chain_new: the struct and its cursor, empty.                            *)
_Chain_new(c, k, r) ==
  /\ c \in Chains \ alive
  /\ alive' = alive \cup {c}
  /\ kind' = [kind EXCEPT ![c] = k]
  /\ retain' = [retain EXCEPT ![c] = r]
  /\ size' = [size EXCEPT ![c] = 0]
  /\ head' = [head EXCEPT ![c] = NULL]
  /\ tail' = [tail EXCEPT ![c] = NULL]

\* Block_new on a block malloc returns, and the retain of push.
Block_new(b, c, d) ==
  /\ live' = live \cup {b}
  /\ data' = [data EXCEPT ![b] = d]
  /\ owner' = [owner EXCEPT ![b] = c]
  /\ counted' = [counted EXCEPT ![b] = retain[c]]
  /\ gcCount' = IF retain[c] THEN Object_retain(gcCount, d) ELSE gcCount

Chain_push_to_head(c, d) ==
  \E b \in Blocks \ live :
    /\ size' = [size EXCEPT ![c] = @ + 1]
    /\ Block_new(b, c, d)
    /\ next' = [next EXCEPT ![b] = head[c]]
    /\ IF head[c] # NULL
         THEN last' = [last EXCEPT ![head[c]] = b, ![b] = NULL] /\ tail' = tail
         ELSE last' = [last EXCEPT ![b] = NULL] /\ tail' = [tail EXCEPT ![c] = b]
    /\ head' = [head EXCEPT ![c] = b]

Chain_push_to_tail(c, d) ==
  \E b \in Blocks \ live :
    /\ size' = [size EXCEPT ![c] = @ + 1]
    /\ Block_new(b, c, d)
    /\ last' = [last EXCEPT ![b] = tail[c]]
    /\ IF tail[c] # NULL
         THEN next' = [next EXCEPT ![tail[c]] = b, ![b] = NULL] /\ head' = head
         ELSE next' = [next EXCEPT ![b] = NULL] /\ head' = [head EXCEPT ![c] = b]
    /\ tail' = [tail EXCEPT ![c] = b]

\* Mutant of Block_free: the neighbours keep their pointer to b.
Block_free_dangling(b, nx, ls) ==
  /\ live' = live \ {b}
  /\ data' = [data EXCEPT ![b] = NULL]
  /\ next' = [nx EXCEPT ![b] = NULL]
  /\ last' = [ls EXCEPT ![b] = NULL]
  /\ owner' = [owner EXCEPT ![b] = NULL]
  /\ counted' = [counted EXCEPT ![b] = FALSE]

\* Block_free on links nx and ls: the neighbours of b lose their pointer to it.
Block_free(b, nx, ls) ==
  /\ live' = live \ {b}
  /\ data' = [data EXCEPT ![b] = NULL]
  /\ next' = [x \in Blocks |-> IF x \in {b, ls[b]} THEN NULL ELSE nx[x]]
  /\ last' = [x \in Blocks |-> IF x \in {b, nx[b]} THEN NULL ELSE ls[x]]
  /\ owner' = [owner EXCEPT ![b] = NULL]
  /\ counted' = [counted EXCEPT ![b] = FALSE]

\* Mutants of ReleaseData: no release, and a release nobody asked for.
ReleaseData_none(c, b) ==
  /\ gcCount' = gcCount
  /\ leaked' = IF counted[b] THEN [leaked EXCEPT ![data[b]] = @ + 1] ELSE leaked
ReleaseData_always(c, b) ==
  /\ gcCount' = IF data[b] = NULL THEN gcCount ELSE Object_release(gcCount, data[b])
  /\ leaked' = leaked

\* The release that comes with freeing a block of c.
ReleaseData(c, b) ==
  /\ gcCount' = IF retain[c] THEN Object_release(gcCount, data[b]) ELSE gcCount
  /\ leaked' = IF counted[b] /\ ~retain[c]
                 THEN [leaked EXCEPT ![data[b]] = @ + 1] ELSE leaked

PopNothing(c) ==
  /\ size' = [size EXCEPT ![c] = 0]
  /\ UNCHANGED <<gcCount, leaked, head, tail, blockVars>>

Chain_pop_from_head(c) ==
  LET b == head[c] IN
  IF b = NULL THEN PopNothing(c)
  ELSE /\ IF b = tail[c]
            THEN /\ size' = [size EXCEPT ![c] = 0]
                 /\ head' = [head EXCEPT ![c] = NULL]
                 /\ tail' = [tail EXCEPT ![c] = NULL]
                 /\ Block_free(b, next, last)
            ELSE /\ size' = [size EXCEPT ![c] = @ - 1]
                 /\ head' = [head EXCEPT ![c] = next[b]]
                 /\ tail' = tail
                 /\ Block_free(b, next, [last EXCEPT ![next[b]] = NULL])
       /\ ReleaseData(c, b)

Chain_pop_from_tail(c) ==
  LET b == tail[c] IN
  IF b = NULL THEN PopNothing(c)
  ELSE /\ IF b = head[c]
            THEN /\ size' = [size EXCEPT ![c] = 0]
                 /\ head' = [head EXCEPT ![c] = NULL]
                 /\ tail' = [tail EXCEPT ![c] = NULL]
                 /\ Block_free(b, next, last)
            ELSE /\ size' = [size EXCEPT ![c] = @ - 1]
                 /\ tail' = [tail EXCEPT ![c] = last[b]]
                 /\ head' = head
                 /\ Block_free(b, [next EXCEPT ![last[b]] = NULL], last)
       /\ ReleaseData(c, b)

-----------------------------------------------------------------------------
(* The internal cursor.                                                     *)
Chain_RESTE_TO_HEAD(c) == cursor' = [cursor EXCEPT ![c] = head[c]]
Chain_RESTE_TO_TAIL(c) == cursor' = [cursor EXCEPT ![c] = tail[c]]

\* The payload NEXT and LAST return, and the step they make.  Mutant: the step is
\* made before the payload is read.
Cursor_data_late(c) ==
  IF cursor[c] = NULL \/ next[cursor[c]] = NULL THEN NULL ELSE data[next[cursor[c]]]
Cursor_data(c) == IF cursor[c] = NULL THEN NULL ELSE data[cursor[c]]
Chain_NEXT(c) ==
  cursor' = IF cursor[c] = NULL THEN cursor ELSE [cursor EXCEPT ![c] = next[cursor[c]]]
Chain_LAST(c) ==
  cursor' = IF cursor[c] = NULL THEN cursor ELSE [cursor EXCEPT ![c] = last[cursor[c]]]

\* The block a loop goes to from b: Chain_next and Chain_last on the cursor of a
\* foreach, head->next and tail->last in a free.  Mutant: it stays where it is.
Toward_stuck(b, fromHead) == b
Toward(b, fromHead) == IF fromHead THEN next[b] ELSE last[b]

\* Object_free of the struct: what is freed has no fields, and they take their
\* initial values so that equal heaps are equal states.
Object_free(c) ==
  /\ alive' = alive \ {c}
  /\ kind' = [kind EXCEPT ![c] = "chain"]
  /\ retain' = [retain EXCEPT ![c] = FALSE]
  /\ size' = [size EXCEPT ![c] = 0]
  /\ head' = [head EXCEPT ![c] = NULL]
  /\ tail' = [tail EXCEPT ![c] = NULL]
  /\ cursor' = [cursor EXCEPT ![c] = NULL]

-----------------------------------------------------------------------------
(* What the application calls.  Each kind has its own names for the same     *)
(* handlers; a plain chain has all of them.                                  *)

Calling(c) == call = Idle /\ c \in alive

AppObject ==
  /\ call = Idle
  /\ \E o \in Objs : Object_new(o) \/ App_retain(o) \/ App_release(o)
  /\ UNCHANGED <<chainVars, listVars, cursor, blockVars, call, iter, leaked>>

AppNew ==
  /\ call = Idle
  /\ \E c \in Chains, k \in Kinds, r \in BOOLEAN : _Chain_new(c, k, r) /\ cursor' = [cursor EXCEPT ![c] = NULL]
  /\ UNCHANGED <<objVars, blockVars, call, iter, leaked>>

Queue_push(c, d) == kind[c] = "queue" /\ Chain_push_to_tail(c, d)
Stack_push(c, d) == kind[c] = "stack" /\ Chain_push_to_tail(c, d)

AppPush ==
  /\ \E c \in Chains : Calling(c) /\ \E d \in Payloads :
       /\ MayPush(c, d)
       /\ \/ kind[c] = "chain" /\ (Chain_push_to_head(c, d) \/ Chain_push_to_tail(c, d))
          \/ Queue_push(c, d)
          \/ Stack_push(c, d)
  /\ UNCHANGED <<held, chainVars, cursor, call, iter, leaked>>

Queue_pop(c) == kind[c] = "queue" /\ Chain_pop_from_head(c)
Stack_pop(c) == kind[c] = "stack" /\ Chain_pop_from_tail(c)

AppPop ==
  /\ \E c \in Chains : Calling(c) /\
       \/ kind[c] = "chain" /\ (Chain_pop_from_head(c) \/ Chain_pop_from_tail(c))
       \/ Queue_pop(c)
       \/ Stack_pop(c)
  /\ UNCHANGED <<held, chainVars, cursor, call, iter>>

\* Queue_RESTE starts at the head and Stack_RESTE at the tail, and their NEXT
\* goes the other way for a stack.
Queue_RESTE(c) == kind[c] # "stack" /\ Chain_RESTE_TO_HEAD(c)
Stack_RESTE(c) == kind[c] # "queue" /\ Chain_RESTE_TO_TAIL(c)

AppCursor ==
  /\ \E c \in Chains : Calling(c) /\
       \/ Queue_RESTE(c)
       \/ Stack_RESTE(c)
       \/ cursor[c] \in Own(c) /\ (Chain_NEXT(c) \/ Chain_LAST(c))
  /\ UNCHANGED <<objVars, chainVars, listVars, blockVars, call, iter, leaked>>

\* Chain_clear_from_head / _tail are entered; their loops are ClearStep.
AppClear ==
  /\ \E c \in Chains : Calling(c) /\
       \/ kind[c] # "stack" /\ Enter("clear_from_head", c, NULL)
       \/ kind[c] # "queue" /\ Enter("clear_from_tail", c, NULL)
  /\ UNCHANGED <<objVars, chainVars, listVars, cursor, blockVars, iter, leaked>>

\* Chain_free, Queue_free and Stack_free called by name.
AppFree ==
  /\ \E c \in Chains : Calling(c) /\
       \/ kind[c] # "stack" /\ Enter("free_from_head", c, NULL)
       \/ kind[c] # "queue" /\ Enter("free_from_tail", c, NULL)
  /\ UNCHANGED <<objVars, chainVars, listVars, cursor, blockVars, iter, leaked>>

\* The chain a clone starts from.  Mutant: it does not retain.
CloneStruct_weak(c, d) == _Chain_new(d, kind[c], FALSE)
CloneStruct(c, d) == _Chain_new(d, kind[c], retain[c])

\* Chain_clone: a new chain of the same kind, then _Chain_sync from the head.
\* Chain_reverse starts with the same clone.
AppClone ==
  /\ \E c \in Chains, d \in Chains :
       /\ Calling(c) /\ Room(size[c])
       /\ CloneStruct(c, d)
       /\ cursor' = [cursor EXCEPT ![c] = head[c], ![d] = NULL]
       /\ \/ Enter("clone", c, d)
          \/ (retain[c] => \A o \in Objs : leaked[o] < MaxLeaked) /\ Enter("reverse", c, d)
  /\ UNCHANGED <<objVars, blockVars, iter, leaked>>

AppForeach ==
  /\ \E c \in Chains : Calling(c) /\
       \/ kind[c] # "stack" /\ Enter("foreach_from_head", c, NULL) /\ iter' = head[c]
       \/ kind[c] # "queue" /\ Enter("foreach_from_tail", c, NULL) /\ iter' = tail[c]
  /\ UNCHANGED <<objVars, chainVars, listVars, cursor, blockVars, leaked>>

-----------------------------------------------------------------------------
(* The loops.  Each step is one iteration, or the exit of the loop.         *)

\* _Chain_sync: NEXT on the source, push_to_tail of what it returned; a NULL
\* payload ends the loop as the end of the chain does.  A clone then returns;
\* a reverse goes on, after it has cleared the retain flag of the clone.
SyncStep ==
  LET c == call.this  d == call.that  p == Cursor_data(c) IN
  /\ call.pc \in {"clone", "reverse"}
  /\ Chain_NEXT(c)
  /\ IF p # NULL
       THEN /\ Chain_push_to_tail(d, p)
            /\ UNCHANGED <<chainVars, call>>
       ELSE /\ IF call.pc = "clone"
                 THEN Return /\ UNCHANGED retain
                 ELSE Enter("reverse_clear", c, d) /\ retain' = [retain EXCEPT ![d] = FALSE]
            /\ UNCHANGED <<gcCount, alive, kind, listVars, blockVars>>
  /\ UNCHANGED <<held, iter, leaked>>

\* Chain_clear_from_head / _tail: pop until a pop returns NULL, which an empty
\* chain and a NULL payload both do.  The clear inside a reverse is followed by
\* RESTE_TO_TAIL on the clone.
ClearStep ==
  LET c == call.this
      fromTail == call.pc = "clear_from_tail"
      b == IF fromTail THEN tail[c] ELSE head[c]
      done == b = NULL \/ data[b] = NULL
  IN
  /\ call.pc \in {"clear_from_head", "clear_from_tail", "reverse_clear"}
  /\ IF fromTail THEN Chain_pop_from_tail(c) ELSE Chain_pop_from_head(c)
  /\ IF ~done THEN UNCHANGED <<call, cursor>>
     ELSE IF call.pc = "reverse_clear"
            THEN Enter("reverse_push", c, call.that) /\ Chain_RESTE_TO_TAIL(call.that)
            ELSE Return /\ UNCHANGED cursor
  /\ UNCHANGED <<held, chainVars, iter>>

\* The second loop of Chain_reverse: LAST on the clone, push_to_tail.
ReversePush ==
  LET c == call.this  d == call.that  p == Cursor_data(d) IN
  /\ call.pc = "reverse_push"
  /\ IF p # NULL
       THEN /\ Chain_LAST(d)
            /\ Chain_push_to_tail(c, p)
            /\ UNCHANGED call
       ELSE /\ Chain_RESTE_TO_HEAD(d)
            /\ Enter("reverse_release", c, d)
            /\ UNCHANGED <<gcCount, listVars, blockVars>>
  /\ UNCHANGED <<held, chainVars, iter, leaked>>

\* pct_object_free at the end of Chain_reverse, by type code.  A chain is freed
\* from its tail and a queue from its head; a stack has the code of a String,
\* and String_free frees what lies where String.data would be (in a 64-bit build
\* the head block, without unlinking it) and the struct.
String_free(c) ==
  LET b == head[c] IN
  /\ Object_free(c)
  /\ Return
  /\ owner' = [x \in Blocks |-> IF owner[x] = c THEN NULL ELSE owner[x]]
  /\ IF b = NULL THEN UNCHANGED <<live, data, next, last, counted, leaked>>
     ELSE /\ live' = live \ {b}
          /\ data' = [data EXCEPT ![b] = NULL]
          /\ next' = [next EXCEPT ![b] = NULL]
          /\ last' = [last EXCEPT ![b] = NULL]
          /\ counted' = [counted EXCEPT ![b] = FALSE]
          /\ leaked' = IF counted[b] THEN [leaked EXCEPT ![data[b]] = @ + 1] ELSE leaked

\* The type codes: PCT_OBJ_STACK is PCT_OBJ_STRING.  Mutant: so is every code but
\* PCT_OBJ_QUEUE.
TakenForString_any(c) == kind[c] # "queue"
TakenForString(c) == kind[c] = "stack"

ReverseRelease ==
  LET d == call.that IN
  /\ call.pc = "reverse_release"
  /\ IF TakenForString(d) THEN String_free(d)
     ELSE /\ Enter(IF kind[d] = "chain" THEN "free_from_tail" ELSE "free_from_head", d, call.this)
          /\ UNCHANGED <<chainVars, listVars, cursor, blockVars, leaked>>
  /\ UNCHANGED <<objVars, iter>>

\* Chain_free_from_head / _tail: one block an iteration, then the struct.
FreeStep ==
  LET c == call.this
      fromHead == call.pc = "free_from_head"
      b == IF fromHead THEN head[c] ELSE tail[c]
  IN
  /\ call.pc \in {"free_from_head", "free_from_tail"}
  /\ IF b # NULL
       THEN /\ head' = IF fromHead THEN [head EXCEPT ![c] = Toward(b, TRUE)] ELSE head
            /\ tail' = IF fromHead THEN tail ELSE [tail EXCEPT ![c] = Toward(b, FALSE)]
            /\ ReleaseData(c, b)
            /\ Block_free(b, next, last)
            /\ UNCHANGED <<chainVars, size, cursor, call>>
       ELSE /\ Object_free(c)
            /\ Return
            /\ UNCHANGED <<gcCount, blockVars, leaked>>
  /\ UNCHANGED <<held, iter>>

\* Chain_foreach_from_head / _tail: the cursor moves on before the callback
\* runs.  The callback here pops one element from the end the loop started at,
\* pushes one, or does neither.
ForeachStep ==
  LET c == call.this
      fromHead == call.pc = "foreach_from_head"
      callback == \/ UNCHANGED <<gcCount, listVars, blockVars, leaked>>
                  \/ IF fromHead THEN Chain_pop_from_head(c) ELSE Chain_pop_from_tail(c)
                  \/ \E d \in Payloads : MayPush(c, d) /\ Chain_push_to_tail(c, d) /\ UNCHANGED leaked
  IN
  /\ call.pc \in {"foreach_from_head", "foreach_from_tail"}
  /\ IF iter # NULL /\ data[iter] # NULL
       THEN /\ iter' = Toward(iter, fromHead)
            /\ callback
            /\ UNCHANGED call
       ELSE /\ iter' = NULL
            /\ Return
            /\ UNCHANGED <<gcCount, listVars, blockVars, leaked>>
  /\ UNCHANGED <<held, chainVars, cursor>>

-----------------------------------------------------------------------------
App == \/ AppObject \/ AppNew \/ AppPush \/ AppPop \/ AppCursor
       \/ AppClear \/ AppFree \/ AppClone \/ AppForeach

\* The handler that was called runs on: nothing else can.
Handler == SyncStep \/ ClearStep \/ ReversePush \/ ReverseRelease \/ FreeStep \/ ForeachStep

Next == App \/ Handler

Spec == Init /\ [][Next]_vars
FairSpec == Spec /\ WF_vars(Handler)

-----------------------------------------------------------------------------
(* Properties.                                                              *)

Freeing(c) == call.pc \in {"free_from_head", "free_from_tail"} /\ call.this = c
Reversing == call.pc \in {"reverse", "reverse_clear", "reverse_push", "reverse_release"}

Loops == {"clear_from_head", "clear_from_tail", "free_from_head", "free_from_tail",
          "clone", "reverse", "reverse_clear", "reverse_push", "reverse_release",
          "foreach_from_head", "foreach_from_tail"}

\* Every variable has its type; in particular no count goes below zero, which a
\* release of an object that is already freed would do (object.h, Object_release).
TypeOK ==
  /\ ObjectTypeOK
  /\ alive \subseteq Chains
  /\ kind \in [Chains -> {"chain", "queue", "stack"}]
  /\ retain \in [Chains -> BOOLEAN]
  /\ size \in [Chains -> Nat]
  /\ head \in [Chains -> Blocks \cup {NULL}]
  /\ tail \in [Chains -> Blocks \cup {NULL}]
  /\ cursor \in [Chains -> Blocks \cup {NULL}]
  /\ live \subseteq Blocks
  /\ data \in [Blocks -> Objs \cup {NULL}]
  /\ next \in [Blocks -> Blocks \cup {NULL}]
  /\ last \in [Blocks -> Blocks \cup {NULL}]
  /\ iter \in Blocks \cup {NULL}
  /\ owner \in [Blocks -> Chains \cup {NULL}]
  /\ counted \in [Blocks -> BOOLEAN]
  /\ leaked \in [Objs -> Nat]
  /\ \/ call = Idle
     \/ call \in [pc : Loops, this : Chains, that : Chains \cup {NULL}]

\* The references the live blocks hold to o.
Counting(o) == {b \in live : counted[b] /\ data[b] = o}

\* Every reference is accounted for: the count of an object is what the
\* application holds, plus one for each block that retained it at its push and
\* has not been freed, plus what was leaked.  So an object in a retaining chain
\* is never freed under it, whichever way blocks are popped, cleared, cloned,
\* reversed or freed.
RefCounts == \A o \in Objs : gcCount[o] = held[o] + leaked[o] + Cardinality(Counting(o))

\* The neighbours of a block agree about it, inside its chain.
LinksInverse ==
  \A b \in live : owner[b] \in alive =>
    /\ next[b] # NULL => next[b] \in Own(owner[b]) /\ last[next[b]] = b
    /\ last[b] # NULL => last[b] \in Own(owner[b]) /\ next[last[b]] = b

Sides(c) == \A b \in Own(c) : (last[b] = NULL <=> b = head[c]) /\ (next[b] = NULL <=> b = tail[c])
Anchored(c, end) == end \in Own(c) \/ (end = NULL /\ Own(c) = {})

\* head and tail are the only blocks with no neighbour on their side, and both
\* are NULL exactly when the chain has no block; a chain that is being freed
\* keeps up only the end its loop works at.
EndsOK ==
  \A c \in alive :
    /\ Sides(c)
    /\ (Freeing(c) /\ call.pc = "free_from_tail") \/ Anchored(c, head[c])
    /\ (Freeing(c) /\ call.pc = "free_from_head") \/ Anchored(c, tail[c])

\* size, which the pops maintain by decrement or by reset to 0, is the number of
\* blocks of the chain.
SizeCounts == \A c \in alive : ~Freeing(c) => size[c] = Cardinality(Own(c))

\* Every chain is a doubly linked list between its head and its tail, and size counts
\* it: no push, pop, loop or free cuts the list, closes it on itself or forgets an end.
WellLinked == LinksInverse /\ EndsOK /\ SizeCounts

\* While a handler loops, the cursor that drives it stays on a block of its
\* chain (or is at the end): no loop of the library steps through a freed block.
\* For a foreach this holds for callbacks that pop at most one element a turn
\* from the end the loop started at.
LoopCursorsOK ==
  /\ call.pc \in {"clone", "reverse"} => cursor[call.this] \in Own(call.this) \cup {NULL}
  /\ call.pc = "reverse_push" => cursor[call.that] \in Own(call.that) \cup {NULL}
  /\ call.pc \in {"foreach_from_head", "foreach_from_tail"} => iter \in Own(call.this) \cup {NULL}

\* A freed object is never retained back to life: only Object_new, which the
\* application calls, allocates.  Chain_reverse empties the chain before it
\* pushes the elements back, so this rests on the clone's own retains.
NoResurrection == [][\A o \in Objs : ~Allocated(o) /\ Allocated(o)' => held'[o] > held[o]]_vars

\* What reverse loses, and nothing else.  References are lost only when the temporary
\* clone of a Chain_reverse is freed: it retained every element and gives none back,
\* because its retain flag is cleared first.  A block outlives its chain only where
\* that clone is a Stack, which pct_object_free takes for a String.  No other handler
\* frees a block and forgets the release, or a chain and forgets a block.
LossesOnlyInReverse ==
  [][/\ leaked' # leaked => /\ call.pc \in {"free_from_head", "free_from_tail", "reverse_release"}
                            /\ call.that # NULL
     /\ \A b \in live \cap live' : owner[b] \in alive /\ owner'[b] \notin alive' =>
          call.pc = "reverse_release" /\ kind[owner[b]] = "stack"]_vars

\* Every handler that takes no callback returns.
HandlersReturn == (call.pc \in Loops \ {"foreach_from_head", "foreach_from_tail"}) ~> (call = Idle)
=============================================================================
