-------------------------------- MODULE Array --------------------------------
(***************************************************************************)
(* array.h: a vector of pointers that grows by Step elements at a time.      *)
(* elements[a] is the block of memory realloc returned: a function on        *)
(* 0..(capacity[a] - 1).  An access outside it is recorded in outside; as it *)
(* only ever stores NULL, nothing else comes of it here.                     *)
(*                                                                           *)
(* copyTo and slice run one element per step; nothing else runs meanwhile.   *)
(* failed, read by no guard, says that a realloc failed in this call.        *)
(*                                                                           *)
(* fault says how the program ended: "exit" when a NULL element reached      *)
(* Object_retain or Object_release, which call tools_error, and "freed" when *)
(* an object was retained that had just been freed.                          *)
(*                                                                           *)
(* Auxiliary variables, read by no guard of the code:                        *)
(*   leaked   retains whose insertion failed                                 *)
(*   outside  operations that wrote outside elements                         *)
(***************************************************************************)
EXTENDS Object, Sequences, FiniteSets, SequencesExt

CONSTANTS Arrays, NULL,
          Step,          \* ARRAY_DEFAULT_CAPACITY
          Retains,       \* values of isRetainValue the application passes
          Nullables,     \* values it gives the field nullable
          ReallocFails,  \* whether realloc may fail
          MaxLength,     \* bound: elements the application puts into an array
          MaxLeaked      \* bound: references to one object that insertions may lose

ASSUME ArrayAssumption ==
  /\ NULL \notin Arrays /\ NULL \notin Objs
  /\ Step \in Nat \ {0}
  /\ Retains \subseteq BOOLEAN /\ Nullables \subseteq BOOLEAN /\ ReallocFails \in BOOLEAN

VARIABLES alive, retain, nullable, length, capacity, elements,  \* struct _Array
          call, fault,
          leaked, outside                                       \* auxiliary

structVars == <<alive, retain, nullable>>
dataVars == <<length, capacity, elements>>
vars == <<gcCount, held, structVars, dataVars, call, fault, leaked, outside>>

Elements == Objs \cup {NULL}
Nulls(n) == [i \in 0..(n - 1) |-> NULL]
Idle == [pc |-> "idle", this |-> NULL, that |-> NULL, from |-> 0, i |-> 0, to |-> 0,
         failed |-> FALSE]

Init ==
  /\ ObjectInit
  /\ alive = {}
  /\ retain = [a \in Arrays |-> FALSE]
  /\ nullable = [a \in Arrays |-> FALSE]
  /\ length = [a \in Arrays |-> 0]
  /\ capacity = [a \in Arrays |-> 0]
  /\ elements = [a \in Arrays |-> Nulls(0)]
  /\ call = Idle
  /\ fault = "none"
  /\ leaked = [o \in Objs |-> 0]
  /\ outside = {}

-----------------------------------------------------------------------------
(* The handlers.                                                            *)

Array_new(a, r) ==
  /\ a \in Arrays \ alive
  /\ alive' = alive \cup {a}
  /\ retain' = [retain EXCEPT ![a] = r]
  /\ length' = [length EXCEPT ![a] = 0]
  /\ capacity' = [capacity EXCEPT ![a] = Step]
  /\ elements' = [elements EXCEPT ![a] = Nulls(Step)]

\* Array_get.
Array_get(a, i) == IF i \in 0..(length[a] - 1) THEN elements[a][i] ELSE NULL

\* _array_check_resize: the capacity that holds n elements, and the elements after
\* it.
Capacity(a, n) ==
  IF n <= capacity[a] THEN capacity[a]
  ELSE capacity[a] + Step * ((n - capacity[a] + Step - 1) \div Step)
Room(a, n) ==
  IF n <= capacity[a] THEN elements[a]
  ELSE [i \in 0..(Capacity(a, n) - 1) |-> IF i < length[a] THEN elements[a][i] ELSE NULL]
Fails(a, n) == ReallocFails /\ n > capacity[a]

\* What is stored at i, if i is inside.
Store(els, i, e) == [j \in DOMAIN els |-> IF j = i THEN e ELSE els[j]]
Outside(op, els, i) == outside' = IF i \in DOMAIN els THEN outside ELSE outside \cup {op}

\* The count of what leaves the array goes down before that of what enters it goes
\* up, and an object freed in between is retained too late.  Mutant: the old element
\* is not released.
Swap_keep(a, old, new) ==
  IF ~retain[a] THEN UNCHANGED <<gcCount, fault>>
  ELSE IF new = NULL THEN fault' = "exit" /\ UNCHANGED gcCount
  ELSE gcCount' = Object_retain(gcCount, new) /\ UNCHANGED fault
Swap(a, old, new) ==
  LET less == IF old = NULL THEN gcCount ELSE Object_release(gcCount, old) IN
  IF ~retain[a] THEN UNCHANGED <<gcCount, fault>>
  ELSE IF new = NULL THEN gcCount' = less /\ fault' = "exit"
  ELSE IF less[new] = 0 THEN gcCount' = less /\ fault' = "freed"
  ELSE gcCount' = Object_retain(less, new) /\ UNCHANGED fault

\* Array_set, on what it does not refuse.  Mutant: NULL is not refused.
MaySet_null(a, i, e) == i >= 0 /\ (nullable[a] \/ i < length[a])
MaySet(a, i, e) ==
  /\ nullable[a] \/ e # NULL
  /\ i >= 0 /\ (nullable[a] \/ i < length[a])
Array_set(a, i, e) ==
  LET n == IF i < length[a] THEN length[a] ELSE i + 1
      els == Room(a, n)
  IN /\ MaySet(a, i, e)
     /\ \/ Fails(a, n) /\ UNCHANGED <<gcCount, fault, dataVars, outside>>
        \/ /\ Swap(a, els[i], e)
           /\ length' = [length EXCEPT ![a] = n]
           /\ capacity' = [capacity EXCEPT ![a] = Capacity(a, n)]
           /\ elements' = [elements EXCEPT ![a] = Store(els, i, e)]
           /\ Outside("set", els, i)
     /\ UNCHANGED <<held, structVars, leaked>>

\* Array_del: the elements behind move down, and NULL is stored where the length
\* was, past the end when the array is full.
Array_del(a, i) ==
  LET item == elements[a][i]
      last == length[a] - 1
      Moved(j) == CASE j \in i..(last - 1) -> elements[a][j + 1]
                    [] j \in last..length[a] -> NULL
                    [] OTHER -> elements[a][j]
  IN /\ i \in 0..last
     /\ elements' = [elements EXCEPT ![a] = [j \in DOMAIN @ |-> Moved(j)]]
     /\ Outside("del", elements[a], length[a])
     /\ length' = [length EXCEPT ![a] = last]
     /\ IF ~retain[a] THEN UNCHANGED <<gcCount, fault>>
        ELSE IF item = NULL THEN fault' = "exit" /\ UNCHANGED gcCount
        ELSE gcCount' = Object_release(gcCount, item) /\ UNCHANGED fault
     /\ UNCHANGED <<held, structVars, capacity, leaked>>

\* Where _array_insert puts the element.
Target(a, index, before) ==
  CASE index < 0 -> 0
    [] index >= length[a] -> length[a]
    [] OTHER -> IF before THEN index ELSE index + 1

\* The elements of els from to on, up to the length, move up for e.  Mutant: they
\* do not, and e takes the place of the first.
Inserted_over(a, els, to, e) == [j \in DOMAIN els |-> IF j = to THEN e ELSE els[j]]
Inserted(a, els, to, e) ==
  [j \in DOMAIN els |-> CASE j = to -> e
                          [] j \in (to + 1)..length[a] -> els[j - 1]
                          [] OTHER -> els[j]]

\* _array_insert, on what it does not refuse: the element is retained before the
\* array is resized.  An empty array is not resized.
_array_insert(a, index, e, before) ==
  LET n == length[a] + 1
      els == Room(a, n)
  IN /\ nullable[a] \/ e # NULL
     /\ IF retain[a] /\ e = NULL
          THEN fault' = "exit" /\ UNCHANGED <<gcCount, dataVars, leaked, outside>>
          ELSE /\ gcCount' = IF retain[a] THEN Object_retain(gcCount, e) ELSE gcCount
               /\ UNCHANGED fault
               /\ \/ /\ length[a] > 0 /\ Fails(a, n)
                     /\ leaked' = IF retain[a] THEN [leaked EXCEPT ![e] = @ + 1] ELSE leaked
                     /\ UNCHANGED <<dataVars, outside>>
                  \/ /\ length' = [length EXCEPT ![a] = n]
                     /\ capacity' = [capacity EXCEPT ![a] = Capacity(a, n)]
                     /\ elements' = [elements EXCEPT ![a] =
                                       Inserted(a, els, Target(a, index, before), e)]
                     /\ Outside("insert", els, length[a])
                     /\ UNCHANGED leaked
     /\ UNCHANGED <<held, structVars>>

\* How often a holds o.
Times(a, o) == Cardinality({i \in 0..(length[a] - 1) : elements[a][i] = o})

\* Array_clear.  Mutants: the elements stay behind the new length; they are released
\* whether the array retains or not.
Array_clear_always(a) ==
  /\ length' = [length EXCEPT ![a] = 0]
  /\ elements' = [elements EXCEPT ![a] = Nulls(capacity[a])]
  /\ gcCount' = [o \in Objs |-> gcCount[o] - Times(a, o)]
  /\ UNCHANGED <<capacity, held, retain, nullable, fault, leaked, outside>>
Array_clear_length(a) ==
  /\ length' = [length EXCEPT ![a] = 0]
  /\ UNCHANGED <<elements, capacity, held, retain, nullable, leaked, outside>>
  /\ gcCount' = IF retain[a] THEN [o \in Objs |-> gcCount[o] - Times(a, o)] ELSE gcCount
  /\ fault' = IF retain[a] /\ Times(a, NULL) > 0 THEN "exit" ELSE fault
Array_clear(a) ==
  /\ length' = [length EXCEPT ![a] = 0]
  /\ elements' = [elements EXCEPT ![a] =
                    [i \in DOMAIN @ |-> IF i < length[a] THEN NULL ELSE @[i]]]
  /\ gcCount' = IF retain[a] THEN [o \in Objs |-> gcCount[o] - Times(a, o)] ELSE gcCount
  /\ fault' = IF retain[a] /\ Times(a, NULL) > 0 THEN "exit" ELSE fault
  /\ UNCHANGED <<capacity, held, retain, nullable, leaked, outside>>

\* Array_sort: qsort orders the elements by the application's function.
Content(a) == [i \in 1..length[a] |-> elements[a][i - 1]]
Array_sort(a) ==
  /\ \E p \in Bijection(1..length[a], 1..length[a]) :
       elements' = [elements EXCEPT ![a] =
                      [i \in DOMAIN @ |-> IF i < length[a] THEN @[p[i + 1] - 1] ELSE @[i]]]
  /\ UNCHANGED <<objVars, structVars, length, capacity, fault, leaked, outside>>

\* Mutant of Array_find: the end of the range belongs to it.
Array_find_past(a, from, to, isReverse, found) ==
  LET there == {i \in from..to : Array_get(a, i) \in found} IN
  IF there = {} THEN -1 ELSE CHOOSE i \in there : \A j \in there : i <= j

\* Array_find with the set of elements func accepts; -2 when the loop runs on
\* below index 0, where it meets only NULL.  In reverse it is entered only for a
\* range of one element, and then it does not stop at the range.
Array_find(a, from, to, isReverse, found) ==
  LET forward == {i \in from..(to - 1) : Array_get(a, i) \in found}
      backward == {i \in 0..from : Array_get(a, i) \in found}
  IN CASE from < 0 \/ to > length[a] \/ from >= to -> -1
       [] ~isReverse -> IF forward = {} THEN -1 ELSE CHOOSE i \in forward : \A j \in forward : i <= j
       [] isReverse /\ to > from + 1 -> -1
       [] OTHER -> IF backward # {} THEN CHOOSE i \in backward : \A j \in backward : j <= i
                   ELSE IF NULL \in found THEN -1 ELSE -2

-----------------------------------------------------------------------------
(* The application.                                                         *)

AppRuns == call = Idle /\ fault = "none"

AppObject ==
  /\ AppRuns
  /\ \E o \in Objs : Object_new(o) \/ App_retain(o) \/ App_release(o)
  /\ UNCHANGED <<structVars, dataVars, call, fault, leaked, outside>>

\* The application sets nullable, a field, before it uses the array.
AppNew ==
  /\ AppRuns
  /\ \E a \in Arrays, r \in Retains, n \in Nullables :
       Array_new(a, r) /\ nullable' = [nullable EXCEPT ![a] = n]
  /\ UNCHANGED <<objVars, call, fault, leaked, outside>>

\* A retaining array is given allocated objects.
MayPass(a, e) == e # NULL /\ retain[a] => Allocated(e)

AppSet ==
  /\ AppRuns
  /\ \E a \in alive, i \in 0..(MaxLength - 1), e \in Elements :
       MayPass(a, e) /\ Array_set(a, i, e)
  /\ UNCHANGED call

AppDel ==
  /\ AppRuns
  /\ \E a \in alive : \E i \in 0..(length[a] - 1) : Array_del(a, i)
  /\ UNCHANGED call

\* insertBefore, insertAfter and the names for the ends: prepend, append, push,
\* unshift.
AppInsert ==
  /\ AppRuns
  /\ \E a \in alive, e \in Elements, before \in BOOLEAN : \E i \in -1..length[a] :
       MayPass(a, e) /\ length[a] < MaxLength /\ _array_insert(a, i, e, before)
  /\ \A o \in Objs : leaked'[o] <= MaxLeaked
  /\ UNCHANGED call

\* Array_clear, and Array_free, which ends with the array.
AppClear ==
  /\ AppRuns
  /\ \E a \in alive : Array_clear(a) /\ (UNCHANGED alive \/ alive' = alive \ {a})
  /\ UNCHANGED call

AppSort ==
  /\ AppRuns
  /\ \E a \in alive : Array_sort(a)
  /\ UNCHANGED call

AppCopy ==
  /\ AppRuns
  /\ \E this, that \in alive :
       /\ \A i \in 0..(length[this] - 1) : MayPass(that, elements[this][i])
       /\ call' = [Idle EXCEPT !.pc = "copy", !.this = this, !.that = that]
  /\ UNCHANGED <<objVars, structVars, dataVars, fault, leaked, outside>>

\* Array_slice of a valid range: a new array, never nullable.
AppSlice ==
  /\ AppRuns
  /\ \E this \in alive, that \in Arrays : \E to \in 1..length[this] : \E from \in 0..(to - 1) :
       /\ Array_new(that, retain[this])
       /\ call' = [Idle EXCEPT !.pc = "slice", !.this = this, !.that = that,
                              !.from = from, !.i = from, !.to = to]
       /\ nullable' = [nullable EXCEPT ![that] = FALSE]
  /\ UNCHANGED <<objVars, fault, leaked, outside>>

-----------------------------------------------------------------------------
(* The loops.                                                               *)

Untouched == UNCHANGED <<objVars, structVars, dataVars, fault, leaked, outside>>
Item == Array_get(call.this, call.i)
Lost ==
  /\ UNCHANGED length
  /\ IF call.pc = "copy" THEN MaySet(call.that, call.i, Item) /\ call.i >= capacity[call.that]
     ELSE Item # NULL /\ length[call.that] = capacity[call.that]
Advance == call' = [call EXCEPT !.i = @ + 1, !.failed = @ \/ Lost]

\* copyTo sets each element in the other array, which refuses what it has no place
\* for.  Mutant: it appends them.
CopyStep_append ==
  /\ call.pc = "copy" /\ fault = "none" /\ call.i < length[call.this]
  /\ length[call.that] < MaxLength
  /\ \/ _array_insert(call.that, length[call.that] - 1, Item, FALSE)
     \/ Item = NULL /\ Untouched
  /\ Advance
CopyStep ==
  /\ call.pc = "copy" /\ fault = "none" /\ call.i < length[call.this]
  /\ \/ Array_set(call.that, call.i, Item)
     \/ ~MaySet(call.that, call.i, Item) /\ Untouched
  /\ Advance

\* slice appends each element; NULL is refused.
SliceStep ==
  /\ call.pc = "slice" /\ fault = "none" /\ call.i < call.to
  /\ \/ _array_insert(call.that, length[call.that] - 1, Item, FALSE)
     \/ Item = NULL /\ Untouched
  /\ \A o \in Objs : leaked'[o] <= MaxLeaked
  /\ Advance

LoopReturns ==
  /\ fault = "none"
  /\ \/ call.pc = "copy" /\ call.i >= length[call.this]
     \/ call.pc = "slice" /\ call.i = call.to
  /\ call' = Idle
  /\ Untouched

App == AppObject \/ AppNew \/ AppSet \/ AppDel \/ AppInsert \/ AppClear \/ AppSort \/ AppCopy \/ AppSlice
Next == App \/ CopyStep \/ SliceStep \/ LoopReturns
Spec == Init /\ [][Next]_vars

-----------------------------------------------------------------------------
(* Properties.                                                              *)

\* Every variable has its type; elements is the memory of capacity elements.
TypeOK ==
  /\ ObjectTypeOK
  /\ alive \subseteq Arrays
  /\ retain \in [Arrays -> BOOLEAN] /\ nullable \in [Arrays -> BOOLEAN]
  /\ length \in [Arrays -> Nat] /\ capacity \in [Arrays -> Nat]
  /\ \A a \in Arrays : elements[a] \in [0..(capacity[a] - 1) -> Elements]
  /\ fault \in {"none", "exit", "freed"}
  /\ leaked \in [Objs -> Nat] /\ outside \subseteq {"set", "del", "insert"}
  /\ call \in [pc : {"idle", "copy", "slice"}, this : Arrays \cup {NULL},
               that : Arrays \cup {NULL}, from : Nat, i : Nat, to : Nat, failed : BOOLEAN]

\* The places of retaining arrays where o is.
Holders(o) ==
  UNION {{a} \X {i \in 0..(length[a] - 1) : elements[a][i] = o} : a \in {b \in alive : retain[b]}}

\* While the program runs the reference counts are exact: the application's, one for
\* each element of a retaining array and one for each insertion that found no memory.
RefCounts ==
  fault = "none" => \A o \in Objs : gcCount[o] = held[o] + leaked[o] + Cardinality(Holders(o))

\* What lies behind the length is NULL in every array: set finds it when it writes
\* behind the end of a nullable array, and takes what is there for an element to
\* release.
BehindIsNull ==
  \A a \in alive : \A i \in DOMAIN elements[a] : i >= length[a] => elements[a][i] = NULL

\* The array holds its elements, and nothing is stored outside the memory but the
\* NULL of a deletion from a full array.
StaysInside == outside \subseteq {"del"} /\ \A a \in alive : length[a] <= capacity[a]

\* The memory of an array.
MemoryOK == BehindIsNull /\ StaysInside

\* The program ends in array.h only when a retaining array was made nullable, when
\* set stores the element that is already there and the array was its last holder, or
\* when copyTo brings a retaining array an object that only it held, from one that
\* does not retain, after it has replaced it.
Ends ==
  [][fault' # fault =>
       \/ fault' = "exit" /\ \E a \in alive : retain[a] /\ (nullable[a] \/ nullable'[a])
       \/ \E o \in Objs : /\ fault' = "freed" /\ gcCount[o] = 1 /\ held[o] = 0
                          /\ \E a \in alive : retain[a] /\ Times(a, o) = 1
       \/ /\ fault' = "freed" /\ call.pc = "copy" /\ ~retain[call.this] /\ retain[call.that]
          /\ \E o \in Objs : gcCount[o] = 0 /\ Times(call.this, o) > 0]_vars

\* Where memory did not run out, copyTo returns with the common prefix copied but for
\* the NULLs the other array refuses; a nullable array has grown to the length of what
\* was copied.
Copied(i) == \/ Array_get(call.that, i) = Array_get(call.this, i)
             \/ Array_get(call.this, i) = NULL /\ ~nullable[call.that]
CopyAgrees ==
  [][call.pc = "copy" /\ call'.pc = "idle" /\ ~call.failed =>
       /\ nullable[call.that] => length[call.that] >= length[call.this]
       /\ \A i \in 0..(length[call.that] - 1) : i < length[call.this] => Copied(i)]_vars

\* Likewise slice returns the range without its NULLs: as many elements as it has others,
\* each at the place that the number of those before it says.
Before(i) == Cardinality({j \in call.from..(i - 1) : Array_get(call.this, j) # NULL})
Sliced(i) ==
  /\ length[call.that] = Before(i)
  /\ \A j \in call.from..(i - 1) :
       Array_get(call.this, j) # NULL => Array_get(call.that, Before(j)) = Array_get(call.this, j)
SliceAgrees ==
  [][call.pc = "slice" /\ call'.pc = "idle" /\ ~call.failed => Sliced(call.to)]_vars

\* What the loops that copy leave behind.
CopiesAgree == CopyAgrees /\ SliceAgrees

\* find returns the first element of the range that is accepted.  In reverse it finds
\* nothing in a range of two or more elements, and runs below a range of one.
FindAgrees ==
  \A a \in alive, o \in Objs : \A to \in 1..length[a] : \A from \in 0..(to - 1) :
    LET there == SelectInSeq(SubSeq(Content(a), from + 1, to), LAMBDA e : e = o)
        last == Array_find(a, from, to, TRUE, {o})
    IN /\ Array_find(a, from, to, FALSE, {o}) = IF there = 0 THEN -1 ELSE from + there - 1
       /\ to > from + 1 => last = -1
       /\ to = from + 1 => last = from <=> Content(a)[to] = o

\* The elements of the arrays: they are counted, lie inside the memory, and are found.
ElementsOK == TypeOK /\ RefCounts /\ MemoryOK /\ FindAgrees
=============================================================================
