------------------------------ MODULE JsonTree ------------------------------
(***************************************************************************)
(* The values of json.h: strings, arrays and objects own heap blocks, and    *)
(* are copied as structs.  size and capacity are fields of the struct, not   *)
(* of the block it points to.                                                *)
(*                                                                           *)
(* heap[b] are the cells of block b, as many as were allocated; the cells of *)
(* App are the application's variables, and a place <<b, i>> is where a      *)
(* value is stored.  The block of a string or a key has no cells.  A cell    *)
(* behind the size of its container is never read and is Junk.  Null,        *)
(* booleans and numbers own nothing: they are "plain".                       *)
(*                                                                           *)
(* json_decode leaves the capacity of what it makes uninitialized: any       *)
(* number, in a value that is marked raw until it is reallocated.            *)
(*                                                                           *)
(* The application gives what it adds away and forgets its own copy.  It     *)
(* does not add, move, swap or copy a value into what the value is part of,  *)
(* and decodes into a variable that owns nothing.                            *)
(*                                                                           *)
(* fault says how the program ended: "outside" when an element was written   *)
(* outside its block, "assert" when an assertion failed.                     *)
(***************************************************************************)
EXTENDS Integers, Sequences, FiniteSets

CONSTANTS Blocks, App, NULL,
          Variables,    \* how many variables the application has
          Min,          \* _JSON_MIN_CAPACITY
          Capacities,   \* those the application asks set_array for
          Decoded,      \* sizes of what it decodes
          Garbage,      \* capacities that uninitialized memory may hold
          MaxSize       \* bound: elements the application puts into a container

ASSUME JsonTreeAssumption ==
  /\ NULL \notin Blocks /\ App \notin Blocks /\ App # NULL /\ IsFiniteSet(Blocks)
  /\ Min \in Nat /\ Min > 1 /\ Variables \in Nat /\ MaxSize \in Nat
  /\ Capacities \subseteq Nat /\ Decoded \subseteq Nat /\ Garbage \subseteq Nat

VARIABLES heap, live, fault
vars == <<heap, live, fault>>

Value(t, at, size, capacity, raw) ==
  [type |-> t, at |-> at, size |-> size, capacity |-> capacity, raw |-> raw]
Plain == Value("plain", NULL, 0, 0, FALSE)
Cell(k, v) == [key |-> k, v |-> v]
Junk == Cell(NULL, Value("junk", NULL, 0, 0, FALSE))
Junks(n) == [i \in 1..n |-> Junk]
IsContainer(v) == v.type \in {"array", "object"}

Init ==
  /\ heap = [b \in Blocks \cup {App} |->
               IF b = App THEN [i \in 1..Variables |-> Cell(NULL, Plain)] ELSE <<>>]
  /\ live = {}
  /\ fault = "none"

At(p) == heap[p[1]][p[2]].v
Put(h, p, v) == [h EXCEPT ![p[1]][p[2]].v = v]
Memory(v) == IF v.at = NULL THEN <<>> ELSE heap[v.at]

\* The blocks the cells of b point to, and all those at or below v: they are in every
\* set that has v's block and with a block whatever its cells point to.
Holds(b) ==
  {x \in Blocks : \E i \in DOMAIN heap[b] : x \in {heap[b][i].key, heap[b][i].v.at}}
Reach(v) ==
  {b \in Blocks :
     \A S \in SUBSET Blocks : {v.at} \ {NULL} \subseteq S /\ (\A c \in S : Holds(c) \subseteq S) => b \in S}

\* Where there is a value; the application's variables; p is part of what q holds.
Places == {p \in UNION {{b} \X DOMAIN heap[b] : b \in {App} \cup live} : At(p).type # "junk"}
Variable == {App} \X (1..Variables)
PartOf(p, q) == p = q \/ p[1] \in Reach(At(q))

-----------------------------------------------------------------------------
(* json_free and the setters.                                               *)

\* The blocks json_free frees.  Mutant: what is inside an array or object stays.
Dead_shallow(v) == {v.at} \ {NULL}
Dead(v) == Reach(v)
Without(h, dead) == [b \in DOMAIN h |-> IF b \in dead THEN <<>> ELSE h[b]]

\* json_set_null, json_set_boolean, json_set_number and json_free.
SetPlain(p) ==
  /\ heap' = Put(Without(heap, Dead(At(p))), p, Plain)
  /\ live' = live \ Dead(At(p))
  /\ UNCHANGED fault

\* A value of type t is put at p, with a new block of n cells.
SetBlock(p, t, n) ==
  LET dead == Dead(At(p)) IN
  \E b \in Blocks \ (live \ dead) :
    /\ heap' = Put([Without(heap, dead) EXCEPT ![b] = Junks(n)], p, Value(t, b, 0, n, FALSE))
    /\ live' = (live \ dead) \cup {b}
    /\ UNCHANGED fault

json_set_string(p) == SetBlock(p, "string", 0)

\* json_set_array and json_set_object.
json_set_container(p, t, n) ==
  IF n > 0 THEN SetBlock(p, t, n)
  ELSE /\ heap' = Put(Without(heap, Dead(At(p))), p, Value(t, NULL, 0, 0, FALSE))
       /\ live' = live \ Dead(At(p))
       /\ UNCHANGED fault

-----------------------------------------------------------------------------
(* Arrays and objects.                                                      *)

Greater(m, n) == IF m > n THEN m ELSE n

\* _json_array_check_resize, _json_object_check_resize: the capacity afterwards,
\* whether there is a reallocation, and the memory it leaves.  Mutant: a container
\* that is full is not enlarged.
Capacity_full(v) ==
  IF v.size > v.capacity THEN Greater(Min, (v.size * 3) \div 2)
  ELSE IF v.size < v.capacity \div 2 THEN Greater(Min, v.size \div 2)
  ELSE v.capacity
Capacity(v) ==
  IF v.size >= v.capacity THEN Greater(Min, (v.size * 3) \div 2)
  ELSE IF v.size < v.capacity \div 2 THEN Greater(Min, v.size \div 2)
  ELSE v.capacity
Resizes(v) == v.size >= v.capacity \/ v.size < v.capacity \div 2
Resized(v, n) ==
  IF Resizes(v) THEN [i \in 1..n |-> IF i <= Len(Memory(v)) THEN Memory(v)[i] ELSE Junk]
                ELSE Memory(v)

\* What the container v becomes, with a block b of its own and size n.  Mutant: the
\* new capacity is not written back.
Grown_stale(v, b, n) == [v EXCEPT !.at = b, !.size = n, !.raw = @ /\ ~Resizes(v)]
Grown(v, b, n) ==
  [v EXCEPT !.at = b, !.size = n, !.capacity = Capacity(v), !.raw = @ /\ ~Resizes(v)]

\* realloc keeps the identity of a block and makes one of NULL.
BlockFor(v) == IF v.at # NULL THEN {v.at} ELSE IF Resizes(v) THEN Blocks \ live ELSE {NULL}

\* json_array_add_element, json_object_add_member: the value of the variable q goes
\* behind the last, with a key for a member, which the application allocated.
Add(p, q, key) ==
  LET v == At(p)  cells == Resized(v, Capacity(v)) IN
  /\ IsContainer(v) /\ (key = NULL <=> v.type = "array")
  /\ \E b \in BlockFor(v) :
     /\ b = NULL \/ b # key
     /\ IF v.size < Len(cells)
         THEN /\ heap' = Put(Put([heap EXCEPT ![b] = [cells EXCEPT ![v.size + 1] = Cell(key, At(q))]],
                                 q, Plain),
                             p, Grown(v, b, v.size + 1))
              /\ live' = live \cup ({b, key} \ {NULL})
              /\ UNCHANGED fault
         ELSE fault' = "outside" /\ UNCHANGED <<heap, live>>

\* json_array_del_index, json_object_del_index.
Shifted(cells, i, n) ==
  [j \in DOMAIN cells |-> IF j = n THEN Junk ELSE IF j \in i..(n - 1) THEN cells[j + 1] ELSE cells[j]]
Del(p, i) ==
  LET v == At(p)
      gone == Memory(v)[i]
      dead == Dead(gone.v) \cup ({gone.key} \ {NULL})
  IN /\ heap' = Put(Without([heap EXCEPT ![v.at] = Shifted(@, i, v.size)], dead),
                    p, [v EXCEPT !.size = @ - 1])
     /\ live' = live \ dead
     /\ UNCHANGED fault

\* json_array_set_index, json_object_set_index with an element.
SetIndex(p, i, q, key) ==
  LET v == At(p)
      old == Memory(v)[i]
      dead == Dead(old.v) \cup ({old.key} \ {NULL})
  IN /\ heap' = Put(Without([heap EXCEPT ![v.at][i] = Cell(key, At(q))], dead), q, Plain)
     /\ live' = (live \ dead) \cup ({key} \ {NULL})
     /\ UNCHANGED fault

\* json_array_clear.
Clear(p) ==
  LET v == At(p)
      dead == Dead(v) \ {v.at}
      w == [v EXCEPT !.size = 0]
  IN /\ v.type = "array"
     /\ IF v.size = 0 THEN UNCHANGED vars
        ELSE /\ heap' = Put([Without(heap, dead) EXCEPT
                               ![v.at] = Junks(IF Resizes(w) THEN Capacity(w) ELSE Len(@))],
                            p, Grown(w, v.at, 0))
             /\ live' = live \ dead
             /\ UNCHANGED fault

-----------------------------------------------------------------------------
(* The application.  A key it passes is a block it allocated.               *)

Keys(v) == IF v.type = "object" THEN Blocks \ live ELSE {NULL}
Gives(p, q) == ~PartOf(p, q)
Runs == fault = "none"

AppSet ==
  /\ Runs
  /\ \E p \in Places :
       \/ SetPlain(p) \/ json_set_string(p)
       \/ \E t \in {"array", "object"}, n \in Capacities : json_set_container(p, t, n)

AppAdd ==
  /\ Runs
  /\ \E p \in Places, q \in Variable :
       /\ IsContainer(At(p)) /\ At(p).size < MaxSize /\ Gives(p, q)
       /\ \E key \in Keys(At(p)) : Add(p, q, key)

AppDel == Runs /\ \E p \in Places : \E i \in 1..At(p).size : Del(p, i)

AppSetIndex ==
  /\ Runs
  /\ \E p \in Places, q \in Variable :
       /\ Gives(p, q)
       /\ \E i \in 1..At(p).size : \E key \in Keys(At(p)) : SetIndex(p, i, q, key)

AppClear == Runs /\ \E p \in Places : Clear(p)

\* json_object_clear asserts that what it clears is an array: of an object it is not.
AppObjectClear ==
  /\ Runs
  /\ \E p \in Places : At(p).type = "object"
  /\ fault' = "assert" /\ UNCHANGED <<heap, live>>

\* json_copy: a string is copied, an array or object is not, and replaces nothing.
AppCopy ==
  /\ Runs
  /\ \E p, q \in Places :
       /\ ~PartOf(p, q) /\ ~PartOf(q, p)
       /\ CASE At(q).type = "string" -> json_set_string(p)
            [] At(q).type = "plain" -> SetPlain(p)
            [] OTHER -> UNCHANGED vars

\* json_move, json_swap.  Mutant of json_move: what was at p is not freed.
Move_over(p, q) == heap' = Put(Put(heap, p, At(q)), q, Plain) /\ UNCHANGED <<live, fault>>
Move(p, q) ==
  /\ heap' = Put(Put(Without(heap, Dead(At(p))), p, At(q)), q, Plain)
  /\ live' = live \ Dead(At(p))
  /\ UNCHANGED fault
AppMove ==
  /\ Runs
  /\ \E p, q \in Places :
       /\ ~PartOf(p, q) /\ ~PartOf(q, p)
       /\ \/ Move(p, q)
          \/ heap' = Put(Put(heap, p, At(q)), q, At(p)) /\ UNCHANGED <<live, fault>>

\* json_decode of an empty array or object, or of an array of n values that own
\* nothing.
AppDecode ==
  /\ Runs
  /\ \E p \in Variable, t \in {"array", "object"}, n \in Decoded, c \in Garbage :
       /\ At(p).at = NULL /\ (n > 0 => t = "array")
       /\ IF n = 0
            THEN heap' = Put(heap, p, Value(t, NULL, 0, c, TRUE)) /\ UNCHANGED live
            ELSE \E b \in Blocks \ live :
                   /\ heap' = Put([heap EXCEPT ![b] = [i \in 1..n |-> Cell(NULL, Plain)]],
                                  p, Value(t, b, n, c, TRUE))
                   /\ live' = live \cup {b}
       /\ UNCHANGED fault

Next == \/ AppSet \/ AppAdd \/ AppDel \/ AppSetIndex \/ AppClear \/ AppObjectClear
        \/ AppCopy \/ AppMove \/ AppDecode
Spec == Init /\ [][Next]_vars

-----------------------------------------------------------------------------
(* Properties.                                                              *)

References(b) ==
  {x \in UNION {{c} \X DOMAIN heap[c] : c \in DOMAIN heap} :
     heap[x[1]][x[2]].key = b \/ At(x).at = b}

\* Every variable has its type.  The elements of a container fill the first size
\* cells of a block that has room for them, and the capacity of a container is that
\* of its block but for what was decoded.
TypeOK ==
  /\ live \subseteq Blocks
  /\ fault \in {"none", "outside", "assert"}
  /\ \A p \in Places :
       LET v == At(p) IN
       /\ v.type \in {"plain", "string", "array", "object"}
       /\ IsContainer(v) =>
            /\ \A i \in DOMAIN Memory(v) : Memory(v)[i].v.type = "junk" <=> i > v.size
            /\ v.size <= Len(Memory(v))
            /\ ~v.raw => v.capacity = Len(Memory(v))
            /\ \A i \in 1..v.size : Memory(v)[i].key # NULL <=> v.type = "object"

\* The values are a tree: every allocated block, a key among them, has one owner, is
\* reached from a variable of the application, and nothing points at a freed one.
\* So json_free frees each once and none is lost.
OneOwner ==
  /\ TypeOK
  /\ \A b \in live : Cardinality(References(b)) = 1
  /\ \A b \in Blocks \ live : References(b) = {}
  /\ live = UNION {Reach(At(p)) : p \in Variable}

\* An element is written outside its block only when an addition shrinks a container
\* of Min elements or more to half its size, or when the container was decoded and
\* its capacity was never set.
OutsideOnly ==
  [][fault = "none" /\ fault' = "outside" =>
       \E p \in Places : LET v == At(p) IN
         IsContainer(v) /\ (v.raw \/ v.size \in Min..((v.capacity \div 2) - 1))]_vars
=============================================================================
