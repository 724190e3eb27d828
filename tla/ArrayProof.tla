------------------------------ MODULE ArrayProof ------------------------------
(* The elements of the arrays of array.h, for any arrays, objects, step of  *)
(* growth and lengths, whatever reallocation fails: they lie inside the     *)
(* memory, with NULL behind the length; the reference counts go with them;  *)
(* find finds them; and the program ends only where the code gives up an    *)
(* object too early or meets a NULL it does not expect.  The arrays         *)
(* implement the sequences of Vector, and the loops of copyTo and slice     *)
(* leave behind what they are called for.                                   *)
EXTENDS ArrayVector, ListLemmas

(* A block of cap elements with len of them in use.                         *)
Block(len, cap, els) ==
  /\ len \in Nat /\ cap \in Nat /\ len <= cap /\ cap >= 1
  /\ els \in [0 .. cap - 1 -> Elements]
  /\ \A i \in 0 .. cap - 1 : i >= len => els[i] = NULL

Shape ==
  /\ alive \subseteq Arrays
  /\ DOMAIN length = Arrays /\ DOMAIN capacity = Arrays /\ DOMAIN elements = Arrays
Memory(len, cap, els) == len \in Nat /\ cap \in Nat /\ els \in [0 .. cap - 1 -> Elements]
Blocks ==
  /\ \A a \in Arrays : Memory(length[a], capacity[a], elements[a])
  /\ \A a \in alive : Block(length[a], capacity[a], elements[a])

(* A loop runs on arrays that are alive.                                    *)
CallOK ==
  /\ call \in [pc : {"idle", "copy", "slice"}, this : Arrays \cup {NULL},
               that : Arrays \cup {NULL}, from : Nat, i : Nat, to : Nat, failed : BOOLEAN]
  /\ call.pc # "idle" => call.this \in alive /\ call.that \in alive
Inside == outside \subseteq {"del"}
Inv == Shape /\ Blocks /\ CallOK /\ Inside

LEMMA Implied == Inv => MemoryOK
<1> SUFFICES ASSUME Inv PROVE MemoryOK
  OBVIOUS
<1>1. ASSUME NEW a \in alive
      PROVE  /\ \A i \in DOMAIN elements[a] : i >= length[a] => elements[a][i] = NULL
             /\ length[a] <= capacity[a]
  BY DEF Inv, Blocks, Block
<1> QED BY <1>1 DEF Inv, Inside, MemoryOK, BehindIsNull, StaysInside

----------------------------------------------------------------------------
(* Blocks.                                                                  *)

LEMMA NewBlock ==
  Block(0, Step, Nulls(Step))
BY ArrayAssumption DEF Block, Nulls, Elements

(* A number of elements, rounded up to whole steps.                         *)
LEMMA Steps ==
  ASSUME NEW k \in Nat \ {0}, NEW x \in Nat
  PROVE  k * ((x + k - 1) \div k) >= x /\ k * ((x + k - 1) \div k) \in Nat
<1>1. k * ((x + k - 1) \div k) >= x /\ (x + k - 1) \div k \in Nat
  OBVIOUS
<1>2. \A q \in Nat : k * q \in Nat
  OBVIOUS
<1> QED BY <1>1, <1>2

LEMMA RoomBlock ==
  ASSUME NEW a, Block(length[a], capacity[a], elements[a]), NEW n \in Nat
  PROVE  Block(length[a], Capacity(a, n), Room(a, n)) /\ Capacity(a, n) >= n
<1> DEFINE len == length[a]
           cap == capacity[a]
           els == elements[a]
<1>1. /\ len \in Nat /\ cap \in Nat /\ len <= cap /\ cap >= 1
      /\ els \in [0 .. cap - 1 -> Elements]
      /\ \A i \in 0 .. cap - 1 : i >= len => els[i] = NULL
  BY DEF Block
<1>2. CASE n <= cap
  BY <1>1, <1>2 DEF Capacity, Room, Block
<1>3. CASE ~(n <= cap)
  <2>1. PICK more : more = Step * ((n - cap + Step - 1) \div Step)
    OBVIOUS
  <2>2. n - cap \in Nat /\ Step \in Nat \ {0}
    BY <1>1, <1>3, ArrayAssumption
  <2>3. more >= n - cap /\ more \in Nat
    BY <2>1, <2>2, Steps
  <2>4. PICK c : c = cap + more
    OBVIOUS
  <2>5. Capacity(a, n) = c
    BY <2>1, <2>4, <1>3 DEF Capacity
  <2>6. c \in Nat /\ c >= n /\ c >= cap
    BY <2>3, <2>4, <1>1
  <2>7. Room(a, n) = [i \in 0 .. (c - 1) |-> IF i < len THEN els[i] ELSE NULL]
    BY <2>5, <1>3 DEF Room
  <2> HIDE DEF len, cap, els
  <2>8. \A i \in 0 .. c - 1 : i < len => els[i] \in Elements
    BY <2>6, <1>1
  <2>9. Room(a, n) \in [0 .. c - 1 -> Elements]
    BY <2>7, <2>8 DEF Elements
  <2>10. \A i \in 0 .. c - 1 : i >= len => Room(a, n)[i] = NULL
    BY <2>6, <2>7, <1>1
  <2> QED BY <2>5, <2>6, <2>9, <2>10, <1>1 DEF Block, len, cap, els
<1> QED BY <1>2, <1>3

LEMMA StoreBlock ==
  ASSUME NEW len, NEW cap, NEW els, Block(len, cap, els),
         NEW i \in Nat, i < cap, NEW e \in Elements,
         NEW n, n = IF i < len THEN len ELSE i + 1
  PROVE  Block(n, cap, Store(els, i, e)) /\ i \in DOMAIN els
<1>1. /\ len \in Nat /\ cap \in Nat /\ len <= cap /\ cap >= 1
      /\ els \in [0 .. cap - 1 -> Elements] /\ DOMAIN els = 0 .. cap - 1
      /\ \A j \in 0 .. cap - 1 : j >= len => els[j] = NULL
  BY DEF Block
<1>2. n \in Nat /\ n <= cap /\ n >= len /\ i < n
  BY <1>1
<1>3. Store(els, i, e) = [j \in 0 .. cap - 1 |-> IF j = i THEN e ELSE els[j]]
  BY <1>1 DEF Store
<1>4. Store(els, i, e) \in [0 .. cap - 1 -> Elements]
  BY <1>1, <1>3
<1>5. \A j \in 0 .. cap - 1 : j >= n => Store(els, i, e)[j] = NULL
  BY <1>1, <1>2, <1>3
<1> QED BY <1>1, <1>2, <1>4, <1>5 DEF Block

LEMMA InsertBlock ==
  ASSUME NEW a, NEW cap, NEW els, Block(length[a], cap, els), cap >= length[a] + 1,
         NEW to \in 0 .. length[a], NEW e \in Elements
  PROVE  Block(length[a] + 1, cap, Inserted(a, els, to, e)) /\ length[a] \in DOMAIN els
<1> DEFINE len == length[a]
           new == Inserted(a, els, to, e)
<1>1. /\ len \in Nat /\ cap \in Nat /\ len + 1 <= cap /\ cap >= 1
      /\ els \in [0 .. cap - 1 -> Elements] /\ DOMAIN els = 0 .. cap - 1
      /\ \A j \in 0 .. cap - 1 : j >= len => els[j] = NULL
  BY DEF Block
<1>2. new = [j \in 0 .. cap - 1 |-> CASE j = to -> e
                                      [] j \in (to + 1) .. len -> els[j - 1]
                                      [] OTHER -> els[j]]
  BY <1>1 DEF Inserted
<1>3. ASSUME NEW j \in 0 .. cap - 1
      PROVE  new[j] \in Elements /\ (j >= len + 1 => new[j] = NULL)
  <2>1. CASE j = to
    BY <2>1, <1>1, <1>2
  <2>2. CASE j # to /\ j \in (to + 1) .. len
    <3>1. j - 1 \in 0 .. cap - 1 /\ new[j] = els[j - 1]
      BY <2>2, <1>1, <1>2
    <3> QED BY <2>2, <3>1, <1>1
  <2>3. CASE j # to /\ j \notin (to + 1) .. len
    <3>1. new[j] = els[j]
      BY <2>3, <1>1, <1>2
    <3> QED BY <3>1, <1>1
  <2> QED BY <2>1, <2>2, <2>3
<1>4. new \in [0 .. cap - 1 -> Elements]
  BY <1>2, <1>3
<1>5. len \in 0 .. cap - 1
  BY <1>1
<1> QED BY <1>1, <1>3, <1>4, <1>5 DEF Block

----------------------------------------------------------------------------
(* One array changes, or one is new.                                        *)
LEMMA Changing ==
  ASSUME Inv, NEW a \in Arrays, alive' \subseteq alive \cup {a},
         DOMAIN length' = Arrays, DOMAIN capacity' = Arrays, DOMAIN elements' = Arrays,
         \A b \in Arrays : b # a => /\ length'[b] = length[b] /\ capacity'[b] = capacity[b]
                                    /\ elements'[b] = elements[b],
         Block(length'[a], capacity'[a], elements'[a])
  PROVE  Shape' /\ Blocks'
<1>1. Shape'
  BY DEF Inv, Shape
<1>2. ASSUME NEW b \in Arrays PROVE Memory(length'[b], capacity'[b], elements'[b])
  <2>1. CASE b = a
    BY <2>1 DEF Block, Memory
  <2>2. CASE b # a
    BY <2>2 DEF Inv, Blocks
  <2> QED BY <2>1, <2>2
<1>3. ASSUME NEW b \in alive' PROVE Block(length'[b], capacity'[b], elements'[b])
  <2>1. CASE b = a
    BY <2>1
  <2>2. CASE b # a
    <3>1. b \in alive /\ b \in Arrays
      BY <2>2 DEF Inv, Shape
    <3> QED BY <2>2, <3>1 DEF Inv, Blocks
  <2> QED BY <2>1, <2>2
<1> QED BY <1>1, <1>2, <1>3 DEF Blocks

LEMMA Keeping ==
  ASSUME Inv, alive' = alive, UNCHANGED dataVars
  PROVE  Shape' /\ Blocks'
BY DEF Inv, Shape, Blocks, dataVars

LEMMA SetKeeps ==
  ASSUME Inv, NEW a \in alive, NEW i \in Nat, NEW e \in Elements, Array_set(a, i, e)
  PROVE  Shape' /\ Blocks' /\ Inside' /\ alive' = alive
<1> DEFINE n == IF i < length[a] THEN length[a] ELSE i + 1
           els == Room(a, n)
<1>1. alive' = alive
  BY DEF Array_set, structVars
<1>2. a \in Arrays /\ Block(length[a], capacity[a], elements[a])
  BY DEF Inv, Shape, Blocks
<1>3. n \in Nat /\ i < n
  BY <1>2 DEF Block
<1>4. \/ UNCHANGED <<dataVars, outside>>
      \/ /\ length' = [length EXCEPT ![a] = n]
         /\ capacity' = [capacity EXCEPT ![a] = Capacity(a, n)]
         /\ elements' = [elements EXCEPT ![a] = Store(els, i, e)]
         /\ Outside("set", els, i)
  BY DEF Array_set
<1>5. CASE UNCHANGED <<dataVars, outside>>
  <2>1. Inside'
    BY <1>5 DEF Inv, Inside
  <2> QED BY <1>1, <1>5, <2>1, Keeping
<1>6. CASE /\ length' = [length EXCEPT ![a] = n]
           /\ capacity' = [capacity EXCEPT ![a] = Capacity(a, n)]
           /\ elements' = [elements EXCEPT ![a] = Store(els, i, e)]
           /\ Outside("set", els, i)
  <2> HIDE DEF n
  <2>1. Block(length[a], Capacity(a, n), els) /\ Capacity(a, n) >= n
    BY <1>2, <1>3, RoomBlock
  <2>2. Capacity(a, n) \in Nat /\ i < Capacity(a, n)
    BY <1>3, <2>1 DEF Block
  <2> HIDE DEF els
  <2>3. Block(n, Capacity(a, n), Store(els, i, e)) /\ i \in DOMAIN els
    <3>1. n = IF i < length[a] THEN length[a] ELSE i + 1
      BY DEF n
    <3> QED BY <2>1, <2>2, <3>1, StoreBlock
  <2>4. Inside'
    BY <1>6, <2>3 DEF Outside, Inv, Inside
  <2>5. /\ DOMAIN length' = Arrays /\ DOMAIN capacity' = Arrays /\ DOMAIN elements' = Arrays
        /\ length'[a] = n /\ capacity'[a] = Capacity(a, n) /\ elements'[a] = Store(els, i, e)
        /\ \A b \in Arrays : b # a => /\ length'[b] = length[b] /\ capacity'[b] = capacity[b]
                                      /\ elements'[b] = elements[b]
    BY <1>2, <1>6 DEF Inv, Shape
  <2> QED BY <1>1, <1>2, <2>3, <2>4, <2>5, Changing
<1> QED BY <1>4, <1>5, <1>6

LEMMA InsertKeeps ==
  ASSUME Inv, NEW a \in alive, NEW index \in Int, NEW e \in Elements, NEW before \in BOOLEAN,
         _array_insert(a, index, e, before)
  PROVE  Shape' /\ Blocks' /\ Inside' /\ alive' = alive
<1> DEFINE n == length[a] + 1
           els == Room(a, n)
           to == Target(a, index, before)
<1>1. alive' = alive
  BY DEF _array_insert, structVars
<1>2. a \in Arrays /\ Block(length[a], capacity[a], elements[a]) /\ length[a] \in Nat
  BY DEF Inv, Shape, Blocks, Block
<1>3. to \in 0 .. length[a]
  BY <1>2 DEF Target
<1>4. \/ UNCHANGED <<dataVars, outside>>
      \/ /\ length' = [length EXCEPT ![a] = n]
         /\ capacity' = [capacity EXCEPT ![a] = Capacity(a, n)]
         /\ elements' = [elements EXCEPT ![a] = Inserted(a, els, to, e)]
         /\ Outside("insert", els, length[a])
  BY DEF _array_insert
<1>5. CASE UNCHANGED <<dataVars, outside>>
  <2>1. Inside'
    BY <1>5 DEF Inv, Inside
  <2> QED BY <1>1, <1>5, <2>1, Keeping
<1>6. CASE /\ length' = [length EXCEPT ![a] = n]
           /\ capacity' = [capacity EXCEPT ![a] = Capacity(a, n)]
           /\ elements' = [elements EXCEPT ![a] = Inserted(a, els, to, e)]
           /\ Outside("insert", els, length[a])
  <2>1. Block(length[a], Capacity(a, n), els) /\ Capacity(a, n) >= n
    BY <1>2, RoomBlock
  <2> HIDE DEF els, to
  <2>2. Block(n, Capacity(a, n), Inserted(a, els, to, e)) /\ length[a] \in DOMAIN els
    BY <1>3, <2>1, InsertBlock
  <2>3. Inside'
    BY <1>6, <2>2 DEF Outside, Inv, Inside
  <2>4. /\ DOMAIN length' = Arrays /\ DOMAIN capacity' = Arrays /\ DOMAIN elements' = Arrays
        /\ length'[a] = n /\ capacity'[a] = Capacity(a, n)
        /\ elements'[a] = Inserted(a, els, to, e)
        /\ \A b \in Arrays : b # a => /\ length'[b] = length[b] /\ capacity'[b] = capacity[b]
                                      /\ elements'[b] = elements[b]
    BY <1>2, <1>6 DEF Inv, Shape
  <2> QED BY <1>1, <1>2, <2>2, <2>3, <2>4, Changing
<1> QED BY <1>4, <1>5, <1>6

LEMMA NewKeeps ==
  ASSUME Inv, NEW a, NEW r, Array_new(a, r)
  PROVE  Shape' /\ Blocks' /\ a \in alive' /\ alive \subseteq alive'
<1>1. /\ a \in Arrays /\ alive' = alive \cup {a}
      /\ length' = [length EXCEPT ![a] = 0]
      /\ capacity' = [capacity EXCEPT ![a] = Step]
      /\ elements' = [elements EXCEPT ![a] = Nulls(Step)]
  BY DEF Array_new
<1>2. /\ DOMAIN length' = Arrays /\ DOMAIN capacity' = Arrays /\ DOMAIN elements' = Arrays
      /\ length'[a] = 0 /\ capacity'[a] = Step /\ elements'[a] = Nulls(Step)
      /\ \A b \in Arrays : b # a => /\ length'[b] = length[b] /\ capacity'[b] = capacity[b]
                                    /\ elements'[b] = elements[b]
  BY <1>1 DEF Inv, Shape
<1> QED BY <1>1, <1>2, NewBlock, Changing

(* The one write outside: the NULL behind the last element of a full array. *)
LEMMA DelKeeps ==
  ASSUME Inv, NEW a \in alive, NEW i, Array_del(a, i)
  PROVE  Shape' /\ Blocks' /\ Inside' /\ alive' = alive
<1> DEFINE last == length[a] - 1
           cap == capacity[a]
           els == elements[a]
           Moved(j) == CASE j \in i..(last - 1) -> elements[a][j + 1]
                         [] j \in last..length[a] -> NULL
                         [] OTHER -> elements[a][j]
           new == [j \in DOMAIN els |-> Moved(j)]
<1>1. /\ i \in 0..last
      /\ elements' = [elements EXCEPT ![a] = [j \in DOMAIN @ |-> Moved(j)]]
      /\ Outside("del", elements[a], length[a])
      /\ length' = [length EXCEPT ![a] = last]
      /\ alive' = alive /\ capacity' = capacity
  BY DEF Array_del, structVars
<1>2. a \in Arrays /\ Block(length[a], cap, els)
  BY DEF Inv, Shape, Blocks
<1>3. /\ length[a] \in Nat /\ cap \in Nat /\ length[a] <= cap /\ cap >= 1 /\ last \in Nat
      /\ els \in [0 .. cap - 1 -> Elements] /\ DOMAIN els = 0 .. cap - 1
      /\ \A j \in 0 .. cap - 1 : j >= length[a] => els[j] = NULL
  BY <1>1, <1>2 DEF Block
<1>4. /\ DOMAIN length' = Arrays /\ DOMAIN capacity' = Arrays /\ DOMAIN elements' = Arrays
      /\ length'[a] = last /\ capacity'[a] = cap /\ elements'[a] = new
      /\ \A b \in Arrays : b # a => /\ length'[b] = length[b] /\ capacity'[b] = capacity[b]
                                    /\ elements'[b] = elements[b]
  BY <1>1, <1>2 DEF Inv, Shape
<1>5. ASSUME NEW j \in 0 .. cap - 1
      PROVE  new[j] \in Elements /\ (j >= last => new[j] = NULL)
  <2>1. new[j] = Moved(j)
    BY <1>3
  <2>2. CASE j \in i .. (last - 1)
    <3>1. Moved(j) = els[j + 1] /\ j + 1 \in 0 .. cap - 1 /\ ~(j >= last)
      BY <2>2, <1>1, <1>3
    <3> QED BY <2>1, <3>1, <1>3
  <2>3. CASE j \notin i .. (last - 1) /\ j \in last .. length[a]
    BY <2>1, <2>3 DEF Elements
  <2>4. CASE j \notin i .. (last - 1) /\ j \notin last .. length[a]
    <3>1. Moved(j) = els[j]
      BY <2>4
    <3>2. j >= last => j >= length[a]
      BY <2>4, <1>3
    <3> QED BY <2>1, <3>1, <3>2, <1>3
  <2> QED BY <2>2, <2>3, <2>4
<1>6. new \in [0 .. cap - 1 -> Elements]
  BY <1>3, <1>5
<1> HIDE DEF new
<1>7. Block(last, cap, new)
  BY <1>3, <1>5, <1>6 DEF Block
<1>8. Inside'
  BY <1>1 DEF Outside, Inv, Inside
<1> HIDE DEF last, cap
<1> QED BY <1>1, <1>2, <1>4, <1>7, <1>8, Changing

LEMMA ClearKeeps ==
  ASSUME Inv, NEW a \in alive, Array_clear(a), alive' \subseteq alive
  PROVE  Shape' /\ Blocks' /\ Inside'
<1> DEFINE len == length[a]
           cap == capacity[a]
           els == elements[a]
           new == [i \in DOMAIN els |-> IF i < length[a] THEN NULL ELSE els[i]]
<1>1. /\ length' = [length EXCEPT ![a] = 0] /\ capacity' = capacity
      /\ elements' = [elements EXCEPT ![a] = [i \in DOMAIN @ |-> IF i < length[a] THEN NULL ELSE @[i]]]
      /\ outside' = outside
  BY DEF Array_clear
<1>2. a \in Arrays /\ Block(len, cap, els)
  BY DEF Inv, Shape, Blocks
<1>3. /\ len \in Nat /\ cap \in Nat /\ cap >= 1
      /\ els \in [0 .. cap - 1 -> Elements] /\ DOMAIN els = 0 .. cap - 1
      /\ \A j \in 0 .. cap - 1 : j >= len => els[j] = NULL
  BY <1>2 DEF Block
<1>4. /\ DOMAIN length' = Arrays /\ DOMAIN capacity' = Arrays /\ DOMAIN elements' = Arrays
      /\ length'[a] = 0 /\ capacity'[a] = cap /\ elements'[a] = new
      /\ \A b \in Arrays : b # a => /\ length'[b] = length[b] /\ capacity'[b] = capacity[b]
                                    /\ elements'[b] = elements[b]
  BY <1>1, <1>2 DEF Inv, Shape
<1>5. \A j \in 0 .. cap - 1 : new[j] = NULL
  BY <1>3
<1>6. new \in [0 .. cap - 1 -> Elements]
  BY <1>3, <1>5 DEF Elements
<1> HIDE DEF new, cap
<1>7. Block(0, cap, new)
  BY <1>3, <1>5, <1>6 DEF Block
<1>8. Inside'
  BY <1>1 DEF Inv, Inside
<1> QED BY <1>2, <1>4, <1>7, <1>8, Changing

LEMMA SortKeeps ==
  ASSUME Inv, NEW a \in alive, Array_sort(a)
  PROVE  Shape' /\ Blocks' /\ Inside' /\ alive' = alive
<1> DEFINE len == length[a]
           cap == capacity[a]
           els == elements[a]
<1>1. PICK p \in Bijection(1 .. length[a], 1 .. length[a]) :
        elements' = [elements EXCEPT ![a] =
                       [i \in DOMAIN @ |-> IF i < length[a] THEN @[p[i + 1] - 1] ELSE @[i]]]
  BY DEF Array_sort
<1>2. alive' = alive /\ length' = length /\ capacity' = capacity /\ outside' = outside
  BY DEF Array_sort, structVars
<1>3. a \in Arrays /\ Block(len, cap, els)
  BY DEF Inv, Shape, Blocks
<1>4. /\ len \in Nat /\ cap \in Nat /\ cap >= 1 /\ len <= cap
      /\ els \in [0 .. cap - 1 -> Elements] /\ DOMAIN els = 0 .. cap - 1
      /\ \A j \in 0 .. cap - 1 : j >= len => els[j] = NULL
  BY <1>3 DEF Block
<1>5. p \in [1 .. len -> 1 .. len]
  BY DEF Bijection, Injection
<1> DEFINE new == [i \in DOMAIN els |-> IF i < length[a] THEN els[p[i + 1] - 1] ELSE els[i]]
<1>6. /\ DOMAIN length' = Arrays /\ DOMAIN capacity' = Arrays /\ DOMAIN elements' = Arrays
      /\ length'[a] = len /\ capacity'[a] = cap /\ elements'[a] = new
      /\ \A b \in Arrays : b # a => /\ length'[b] = length[b] /\ capacity'[b] = capacity[b]
                                    /\ elements'[b] = elements[b]
  BY <1>1, <1>2, <1>3 DEF Inv, Shape
<1>7. ASSUME NEW j \in 0 .. cap - 1
      PROVE  new[j] \in Elements /\ (j >= len => new[j] = NULL)
  <2>1. CASE j < len
    <3>1. new[j] = els[p[j + 1] - 1]
      BY <2>1, <1>4
    <3>2. p[j + 1] \in 1 .. len
      BY <2>1, <1>4, <1>5
    <3>3. p[j + 1] - 1 \in 0 .. cap - 1
      BY <3>2, <1>4
    <3> QED BY <2>1, <3>1, <3>3, <1>4
  <2>2. CASE ~(j < len)
    BY <2>2, <1>4
  <2> QED BY <2>1, <2>2
<1>8. new \in [0 .. cap - 1 -> Elements]
  BY <1>4, <1>7
<1> HIDE DEF new, len, cap
<1>9. Block(len, cap, new)
  BY <1>4, <1>7, <1>8 DEF Block
<1>10. Inside'
  BY <1>2 DEF Inv, Inside
<1> QED BY <1>2, <1>3, <1>6, <1>9, <1>10, Changing

----------------------------------------------------------------------------
(* The steps.                                                               *)

LEMMA GetElement ==
  ASSUME Inv, NEW a \in alive, NEW i \in Int
  PROVE  Array_get(a, i) \in Elements
<1>1. Block(length[a], capacity[a], elements[a])
  BY DEF Inv, Blocks
<1>2. i \in 0 .. (length[a] - 1) => i \in 0 .. capacity[a] - 1
  BY <1>1 DEF Block
<1> QED BY <1>1, <1>2 DEF Block, Array_get, Elements

LEMMA IdleOK ==
  ASSUME Inv, call = Idle, call' = call
  PROVE  CallOK'
BY DEF Inv, CallOK, Idle

LEMMA AppStep == Inv /\ App => Inv'
<1> SUFFICES ASSUME Inv, App PROVE Inv'
  OBVIOUS
<1>1. CASE AppObject
  BY <1>1, Keeping DEF AppObject, structVars, Inv, CallOK, Inside
<1>2. CASE AppNew
  <2>1. PICK a \in Arrays, r \in Retains : Array_new(a, r)
    BY <1>2 DEF AppNew
  <2>2. call = Idle /\ call' = call /\ outside' = outside
    BY <1>2 DEF AppNew, AppRuns
  <2>3. Inside'
    BY <2>2 DEF Inv, Inside
  <2> QED BY <2>1, <2>2, <2>3, NewKeeps, IdleOK DEF Inv
<1>3. CASE AppSet
  <2>1. PICK a \in alive, i \in 0 .. (MaxLength - 1), e \in Elements : Array_set(a, i, e)
    BY <1>3 DEF AppSet
  <2>2. call = Idle /\ call' = call
    BY <1>3 DEF AppSet, AppRuns
  <2>3. i \in Nat
    BY <2>1 DEF Array_set, MaySet
  <2> QED BY <2>1, <2>2, <2>3, SetKeeps, IdleOK DEF Inv
<1>4. CASE AppDel
  <2>1. PICK a \in alive : \E i \in 0 .. (length[a] - 1) : Array_del(a, i)
    BY <1>4 DEF AppDel
  <2>2. call = Idle /\ call' = call
    BY <1>4 DEF AppDel, AppRuns
  <2> QED BY <2>1, <2>2, DelKeeps, IdleOK DEF Inv
<1>5. CASE AppInsert
  <2>1. PICK a \in alive, e \in Elements, before \in BOOLEAN :
          \E i \in -1 .. length[a] : _array_insert(a, i, e, before)
    BY <1>5 DEF AppInsert
  <2>2. PICK i \in -1 .. length[a] : _array_insert(a, i, e, before)
    BY <2>1
  <2>3. call = Idle /\ call' = call
    BY <1>5 DEF AppInsert, AppRuns
  <2>4. i \in Int
    OBVIOUS
  <2> QED BY <2>1, <2>2, <2>3, <2>4, InsertKeeps, IdleOK DEF Inv
<1>6. CASE AppClear
  <2>1. PICK a \in alive : Array_clear(a) /\ (UNCHANGED alive \/ alive' = alive \ {a})
    BY <1>6 DEF AppClear
  <2>2. call = Idle /\ call' = call
    BY <1>6 DEF AppClear, AppRuns
  <2>3. alive' \subseteq alive
    BY <2>1
  <2> QED BY <2>1, <2>2, <2>3, ClearKeeps, IdleOK DEF Inv
<1>7. CASE AppSort
  <2>1. PICK a \in alive : Array_sort(a)
    BY <1>7 DEF AppSort
  <2>2. call = Idle /\ call' = call
    BY <1>7 DEF AppSort, AppRuns
  <2> QED BY <2>1, <2>2, SortKeeps, IdleOK DEF Inv
<1>8. CASE AppCopy
  <2>1. PICK this \in alive, that \in alive :
          call' = [Idle EXCEPT !.pc = "copy", !.this = this, !.that = that]
    BY <1>8 DEF AppCopy
  <2>2. alive' = alive /\ UNCHANGED dataVars /\ outside' = outside
    BY <1>8 DEF AppCopy, structVars
  <2>3. CallOK'
    <3>1. this \in Arrays /\ that \in Arrays
      BY DEF Inv, Shape
    <3> QED BY <2>1, <2>2, <3>1 DEF CallOK, Idle
  <2>4. Inside'
    BY <2>2 DEF Inv, Inside
  <2> QED BY <2>2, <2>3, <2>4, Keeping DEF Inv
<1>9. CASE AppSlice
  <2>1. PICK this \in alive, that \in Arrays : \E to \in 1 .. length[this] : \E from \in 0 .. (to - 1) :
          /\ Array_new(that, retain[this])
          /\ call' = [Idle EXCEPT !.pc = "slice", !.this = this, !.that = that,
                                  !.from = from, !.i = from, !.to = to]
          /\ nullable' = [nullable EXCEPT ![that] = FALSE]
    BY <1>9, Zenon DEF AppSlice
  <2>2. PICK to \in 1 .. length[this] : \E from \in 0 .. (to - 1) :
          /\ Array_new(that, retain[this])
          /\ call' = [Idle EXCEPT !.pc = "slice", !.this = this, !.that = that,
                                  !.from = from, !.i = from, !.to = to]
    BY <2>1
  <2>3. PICK from \in 0 .. (to - 1) :
          /\ Array_new(that, retain[this])
          /\ call' = [Idle EXCEPT !.pc = "slice", !.this = this, !.that = that,
                                  !.from = from, !.i = from, !.to = to]
    BY <2>2
  <2>4. Shape' /\ Blocks' /\ that \in alive' /\ alive \subseteq alive'
    BY <2>3, NewKeeps
  <2>5. CallOK'
    <3>1. this \in Arrays /\ from \in Nat /\ to \in Nat /\ this \in alive'
      BY <2>4 DEF Inv, Shape
    <3> QED BY <2>3, <2>4, <3>1 DEF CallOK, Idle
  <2>6. Inside'
    BY <1>9 DEF AppSlice, Inv, Inside
  <2> QED BY <2>4, <2>5, <2>6 DEF Inv
<1> QED BY <1>1, <1>2, <1>3, <1>4, <1>5, <1>6, <1>7, <1>8, <1>9 DEF App

LEMMA AdvanceOK ==
  ASSUME Inv, Advance, alive' = alive
  PROVE  CallOK'
<1>1. (call.failed \/ Lost) \in BOOLEAN
  BY Zenon
<1>2. PICK failed \in BOOLEAN : failed = (call.failed \/ Lost)
  BY <1>1, Zenon
<1>3. call' = [call EXCEPT !.i = @ + 1, !.failed = failed]
  BY <1>2, Zenon DEF Advance
<1>4. call.i + 1 \in Nat
  BY DEF Inv, CallOK
<1> QED BY <1>3, <1>4 DEF Inv, CallOK

LEMMA LoopStep == Inv /\ (CopyStep \/ SliceStep \/ LoopReturns) => Inv'
<1> SUFFICES ASSUME Inv, CopyStep \/ SliceStep \/ LoopReturns PROVE Inv'
  OBVIOUS
<1>1. call.pc # "idle" => call.this \in alive /\ call.that \in alive
  BY DEF Inv, CallOK
<1>2. call.i \in Nat /\ call.i \in Int
  BY DEF Inv, CallOK
<1>3. CASE CopyStep
  <2>1. call.that \in alive /\ call.this \in alive
    BY <1>1, <1>3 DEF CopyStep
  <2>2. Item \in Elements
    BY <2>1, <1>2, GetElement DEF Item
  <2>3. CASE Array_set(call.that, call.i, Item)
    BY <2>1, <2>2, <2>3, <1>2, <1>3, SetKeeps, AdvanceOK DEF CopyStep, Inv
  <2>4. CASE Untouched
    <3>1. alive' = alive /\ UNCHANGED dataVars /\ outside' = outside
      BY <2>4 DEF Untouched, structVars
    <3>2. Inside'
      BY <3>1 DEF Inv, Inside
    <3> QED BY <3>1, <3>2, <1>3, Keeping, AdvanceOK DEF CopyStep, Inv
  <2> QED BY <2>3, <2>4, <1>3 DEF CopyStep
<1>4. CASE SliceStep
  <2>1. call.that \in alive /\ call.this \in alive
    BY <1>1, <1>4 DEF SliceStep
  <2>2. Item \in Elements
    BY <2>1, <1>2, GetElement DEF Item
  <2>3. CASE _array_insert(call.that, length[call.that] - 1, Item, FALSE)
    <3>1. length[call.that] - 1 \in Int
      BY <2>1 DEF Inv, Blocks, Block
    <3>2. Shape' /\ Blocks' /\ Inside' /\ alive' = alive
      BY <2>1, <2>2, <2>3, <3>1, InsertKeeps
    <3> QED BY <3>2, <1>4, AdvanceOK DEF SliceStep, Inv
  <2>4. CASE Untouched
    <3>1. alive' = alive /\ UNCHANGED dataVars /\ outside' = outside
      BY <2>4 DEF Untouched, structVars
    <3>2. Inside'
      BY <3>1 DEF Inv, Inside
    <3> QED BY <3>1, <3>2, <1>4, Keeping, AdvanceOK DEF SliceStep, Inv
  <2> QED BY <2>3, <2>4, <1>4 DEF SliceStep
<1>5. CASE LoopReturns
  <2>1. alive' = alive /\ UNCHANGED dataVars /\ outside' = outside /\ call' = Idle
    BY <1>5 DEF LoopReturns, Untouched, structVars
  <2>2. CallOK' /\ Inside'
    BY <2>1 DEF CallOK, Idle, Inv, Inside
  <2> QED BY <2>1, <2>2, Keeping DEF Inv
<1> QED BY <1>3, <1>4, <1>5

LEMMA InitInv == Init => Inv
<1> SUFFICES ASSUME Init PROVE Inv
  OBVIOUS
<1>1. ASSUME NEW a \in Arrays PROVE Memory(length[a], capacity[a], elements[a])
  BY DEF Init, Memory, Nulls
<1> QED BY <1>1, ArrayAssumption DEF Init, Inv, Shape, Blocks, CallOK, Inside, Idle

LEMMA NextInv == Inv /\ [Next]_vars => Inv'
<1> SUFFICES ASSUME Inv, [Next]_vars PROVE Inv'
  OBVIOUS
<1>1. CASE App
  BY <1>1, AppStep
<1>2. CASE CopyStep \/ SliceStep \/ LoopReturns
  BY <1>2, LoopStep
<1>3. CASE UNCHANGED vars
  <2>1. alive' = alive /\ UNCHANGED dataVars /\ outside' = outside /\ call' = call
    BY <1>3 DEF vars, structVars
  <2>2. CallOK' /\ Inside'
    BY <2>1 DEF CallOK, Inv, Inside
  <2> QED BY <2>1, <2>2, Keeping DEF Inv
<1> QED BY <1>1, <1>2, <1>3 DEF Next

LEMMA InvHolds == Spec => []Inv
<1>1. Init => Inv
  BY InitInv
<1>2. Inv /\ [Next]_vars => Inv'
  BY NextInv
<1> QED BY <1>1, <1>2, PTL DEF Spec

(* An array keeps its elements inside its memory and NULL behind them, in   *)
(* every call and every loop over another array, whatever reallocation      *)
(* fails; only the deletion from a full array stores its NULL outside.      *)
THEOREM MemoryCorrect == Spec => []MemoryOK
BY InvHolds, Implied, PTL

----------------------------------------------------------------------------
(* Counting: where the elements of a block are o, and where those of the    *)
(* arrays in A, each at the places h gives it.                              *)

Hit(len, els, o) == {i \in 0 .. (len - 1) : els[i] = o}
Places(A, h) == UNION {{a} \X h[a] : a \in A}
Same(x, y) == IF x = y THEN 1 ELSE 0

LEMMA SameSize ==
  ASSUME NEW S, NEW T, NEW f \in [S -> T], IsFiniteSet(S),
         \A x, y \in S : f[x] = f[y] => x = y,
         \A y \in T : \E x \in S : f[x] = y
  PROVE  IsFiniteSet(T) /\ Cardinality(T) = Cardinality(S)
<1>1. f \in Bijection(S, T)
  BY DEF Bijection, Injection, Surjection, IsInjective
<1>2. ExistsBijection(S, T)
  BY <1>1 DEF ExistsBijection
<1> QED BY <1>2, FS_Bijection

LEMMA HitFinite ==
  ASSUME NEW len \in Nat, NEW els, NEW o
  PROVE  IsFiniteSet(Hit(len, els, o)) /\ Cardinality(Hit(len, els, o)) \in Nat
<1>1. IsFiniteSet(0 .. len - 1)
  BY FS_Interval
<1>2. Hit(len, els, o) \in SUBSET (0 .. len - 1)
  BY DEF Hit
<1> QED BY <1>1, <1>2, FS_Subset, FS_CardinalityType

(* The elements of S from i on make room at i.                              *)
LEMMA Gap ==
  ASSUME NEW S \in SUBSET Nat, NEW T \in SUBSET Nat, NEW i \in Nat, IsFiniteSet(S), i \notin T,
         \A j \in Nat : j \in T <=> IF j < i THEN j \in S ELSE j > i /\ j - 1 \in S
  PROVE  IsFiniteSet(T) /\ Cardinality(T) = Cardinality(S)
<1> DEFINE f == [j \in S |-> IF j < i THEN j ELSE j + 1]
<1>1. f \in [S -> T]
  <2> SUFFICES ASSUME NEW j \in S PROVE (IF j < i THEN j ELSE j + 1) \in T
    OBVIOUS
  <2>1. CASE j < i
    BY <2>1
  <2>2. CASE ~(j < i)
    <3>1. j + 1 \in Nat /\ ~(j + 1 < i) /\ j + 1 > i /\ (j + 1) - 1 = j
      BY <2>2
    <3> QED BY <2>2, <3>1
  <2> QED BY <2>1, <2>2
<1>2. \A x, y \in S : f[x] = f[y] => x = y
  OBVIOUS
<1>3. ASSUME NEW y \in T PROVE \E x \in S : f[x] = y
  <2>1. CASE y < i
    <3>1. y \in S /\ f[y] = y
      BY <2>1
    <3> QED BY <3>1
  <2>2. CASE ~(y < i)
    <3>1. y > i /\ y - 1 \in S
      BY <2>2
    <3>2. ~(y - 1 < i) /\ (y - 1) + 1 = y
      BY <3>1
    <3>3. f[y - 1] = y
      BY <3>1, <3>2
    <3> QED BY <3>1, <3>3
  <2> QED BY <2>1, <2>2
<1> HIDE DEF f
<1> QED BY <1>1, <1>2, <1>3, SameSize

(* An element of a set leaves it and another may enter it.                  *)
LEMMA Exchanged ==
  ASSUME NEW S, IsFiniteSet(S), NEW i, NEW in \in BOOLEAN
  PROVE  LET T == (S \ {i}) \cup (IF in THEN {i} ELSE {})
         IN  /\ IsFiniteSet(T)
             /\ Cardinality(T) = Cardinality(S) - (IF i \in S THEN 1 ELSE 0) + (IF in THEN 1 ELSE 0)
<1> DEFINE R == S \ {i}
<1>0. Cardinality(S) \in Nat
  BY FS_CardinalityType
<1>1. IsFiniteSet(R) /\ Cardinality(R) = IF i \in S THEN Cardinality(S) - 1 ELSE Cardinality(S)
  BY FS_RemoveElement
<1>2. i \notin R
  OBVIOUS
<1> HIDE DEF R
<1>3. CASE in
  <2>1. IsFiniteSet(R \cup {i}) /\ Cardinality(R \cup {i}) = Cardinality(R) + 1
    BY <1>1, <1>2, FS_AddElement
  <2> QED BY <1>0, <1>1, <1>3, <2>1 DEF R
<1>4. CASE ~in
  <2>1. R \cup {} = R
    OBVIOUS
  <2> QED BY <1>0, <1>1, <1>4, <2>1 DEF R
<1> QED BY <1>3, <1>4

LEMMA PartSize ==
  ASSUME NEW a, NEW H, IsFiniteSet(H)
  PROVE  IsFiniteSet({a} \X H) /\ Cardinality({a} \X H) = Cardinality(H)
<1> DEFINE T == {a} \X H
           f == [i \in H |-> <<a, i>>]
<1>1. f \in [H -> T]
  OBVIOUS
<1>2. \A x, y \in H : f[x] = f[y] => x = y
  OBVIOUS
<1>3. \A y \in T : \E x \in H : f[x] = y
  OBVIOUS
<1> HIDE DEF T, f
<1>4. IsFiniteSet(T) /\ Cardinality(T) = Cardinality(H)
  BY <1>1, <1>2, <1>3, SameSize
<1> QED BY <1>4 DEF T

(* One array changes.                                                       *)
LEMMA Recount ==
  ASSUME NEW A, NEW h, NEW g, NEW a \in A, \A b \in A : b # a => g[b] = h[b],
         IsFiniteSet(h[a]), IsFiniteSet(g[a]), IsFiniteSet(Places(A, h))
  PROVE  /\ IsFiniteSet(Places(A, g))
         /\ Cardinality(Places(A, g)) = Cardinality(Places(A, h)) - Cardinality(h[a]) + Cardinality(g[a])
         /\ Cardinality(Places(A, h)) \in Nat /\ Cardinality(h[a]) \in Nat
         /\ Cardinality(Places(A, h)) >= Cardinality(h[a])
<1> DEFINE R == Places(A, h)
           Q == Places(A, g)
           H == {a} \X h[a]
           G == {a} \X g[a]
<1>1. IsFiniteSet(H) /\ Cardinality(H) = Cardinality(h[a])
  BY PartSize
<1>2. IsFiniteSet(G) /\ Cardinality(G) = Cardinality(g[a])
  BY PartSize
<1>3. Cardinality(R) \in Nat /\ Cardinality(H) \in Nat /\ Cardinality(G) \in Nat
  BY <1>1, <1>2, FS_CardinalityType
<1>4. H \subseteq R
  BY DEF Places
<1>5. Q = (R \ H) \cup G /\ (R \ H) \cap G = {}
  <2>1. ASSUME NEW b \in A, NEW i
        PROVE  /\ <<b, i>> \in Q <=> i \in g[b]
               /\ <<b, i>> \in R <=> i \in h[b]
               /\ <<b, i>> \in H <=> b = a /\ i \in h[a]
               /\ <<b, i>> \in G <=> b = a /\ i \in g[a]
    BY DEF Places
  <2>2. ASSUME NEW x \in Q \cup R \cup G PROVE \E b \in A : \E i : x = <<b, i>>
    BY DEF Places
  <2>3. ASSUME NEW x \in Q \cup R \cup G
        PROVE  /\ x \in Q <=> x \in (R \ H) \cup G
               /\ ~(x \in (R \ H) /\ x \in G)
    <3>1. PICK b \in A : \E i : x = <<b, i>>
      BY <2>2
    <3>2. PICK i : x = <<b, i>>
      BY <3>1
    <3> HIDE DEF Q, R, H, G
    <3>3. CASE b = a
      BY <2>1, <3>2, <3>3
    <3>4. CASE b # a
      BY <2>1, <3>2, <3>4
    <3> QED BY <3>3, <3>4
  <2> HIDE DEF Q, R, H, G
  <2> QED BY <2>3
<1>6. IsFiniteSet(R)
  OBVIOUS
<1> HIDE DEF R, Q, H, G
<1>7. R \cap H = H
  BY <1>4
<1>8. IsFiniteSet(R \ H) /\ Cardinality(R \ H) = Cardinality(R) - Cardinality(H)
  <2>1. IsFiniteSet(R \ H) /\ Cardinality(R \ H) = Cardinality(R) - Cardinality(R \cap H)
    BY <1>6, FS_Difference
  <2> QED BY <1>7, <2>1
<1>9. /\ IsFiniteSet((R \ H) \cup G)
      /\ Cardinality((R \ H) \cup G) = Cardinality(R \ H) + Cardinality(G) - Cardinality((R \ H) \cap G)
  BY <1>2, <1>8, FS_Union
<1>10. Cardinality({}) = 0
  BY FS_EmptySet
<1>11. Cardinality(Q) = Cardinality(R) - Cardinality(H) + Cardinality(G)
  <2>1. Cardinality(Q) = Cardinality(R \ H) + Cardinality(G) - 0
    BY <1>5, <1>9, <1>10
  <2> QED BY <1>3, <1>8, <2>1
<1>12. Cardinality(R \ H) \in Nat
  BY <1>8, FS_CardinalityType
<1> QED BY <1>1, <1>2, <1>3, <1>5, <1>8, <1>9, <1>11, <1>12 DEF R, Q

----------------------------------------------------------------------------
(* How often an object is in a block that a handler has changed.            *)

LEMMA RoomAt ==
  ASSUME NEW a, Block(length[a], capacity[a], elements[a]), NEW n \in Nat
  PROVE  \A j \in 0 .. (length[a] - 1) : Room(a, n)[j] = elements[a][j]
<1>1. length[a] \in Nat /\ capacity[a] \in Nat /\ length[a] <= capacity[a]
  BY DEF Block
<1>2. CASE n <= capacity[a]
  BY <1>2 DEF Room
<1>3. CASE ~(n <= capacity[a])
  <2>1. Capacity(a, n) \in Nat /\ Capacity(a, n) >= n
    BY RoomBlock DEF Block
  <2>2. PICK c \in Nat : c = Capacity(a, n)
    BY <2>1
  <2>3. Room(a, n) = [j \in 0 .. (c - 1) |-> IF j < length[a] THEN elements[a][j] ELSE NULL]
    BY <2>2, <1>3 DEF Room
  <2>4. c > length[a]
    BY <2>1, <2>2, <1>1, <1>3
  <2> QED BY <2>3, <2>4, <1>1
<1> QED BY <1>2, <1>3

SetTo(a, i, e, n, els, o) ==
  /\ Hit(n, Store(els, i, e), o) =
       (Hit(length[a], elements[a], o) \ {i}) \cup (IF e = o THEN {i} ELSE {})
  /\ i \in Hit(length[a], elements[a], o) <=> els[i] = o

LEMMA SetHits ==
  ASSUME NEW a, Block(length[a], capacity[a], elements[a]), NEW i \in Nat, NEW e \in Elements,
         NEW n, n = IF i < length[a] THEN length[a] ELSE i + 1,
         NEW els, els = Room(a, n), NEW o \in Objs
  PROVE  SetTo(a, i, e, n, els, o)
<1> DEFINE len == length[a]
<1>1. len \in Nat /\ n \in Nat /\ i < n /\ len <= n
  BY DEF Block
<1>2. Block(len, Capacity(a, n), els) /\ Capacity(a, n) >= n
  BY <1>1, RoomBlock
<1>3. PICK c \in Nat : c = Capacity(a, n)
  BY <1>2 DEF Block
<1>4. /\ c >= n /\ DOMAIN els = 0 .. c - 1
      /\ \A j \in 0 .. c - 1 : j >= len => els[j] = NULL
  BY <1>2, <1>3 DEF Block
<1>5. \A j \in 0 .. (len - 1) : els[j] = elements[a][j]
  BY <1>1, RoomAt
<1>6. o # NULL
  BY ArrayAssumption
<1>7. \A j \in 0 .. c - 1 : Store(els, i, e)[j] = IF j = i THEN e ELSE els[j]
  BY <1>4 DEF Store
<1> HIDE DEF len
<1>8. \A j \in 0 .. (n - 1) : j \in Hit(len, elements[a], o) <=> els[j] = o
  <2> SUFFICES ASSUME NEW j \in 0 .. (n - 1)
               PROVE  j \in Hit(len, elements[a], o) <=> els[j] = o
    OBVIOUS
  <2>1. j \in 0 .. c - 1
    BY <1>1, <1>4
  <2>2. CASE j < len
    BY <2>2, <1>1, <1>5 DEF Hit
  <2>3. CASE ~(j < len)
    <3>1. els[j] = NULL /\ j \notin 0 .. (len - 1)
      BY <2>1, <2>3, <1>1, <1>4
    <3> QED BY <3>1, <1>6 DEF Hit
  <2> QED BY <2>2, <2>3
<1>9. Hit(len, elements[a], o) \subseteq 0 .. (n - 1)
  BY <1>1 DEF Hit
<1>10. Hit(n, Store(els, i, e), o) = {j \in 0 .. (n - 1) : (IF j = i THEN e ELSE els[j]) = o}
  <2>1. 0 .. (n - 1) \subseteq 0 .. c - 1
    BY <1>1, <1>4
  <2> QED BY <2>1, <1>7 DEF Hit
<1>11. i \in 0 .. (n - 1)
  BY <1>1
<1>12. Hit(n, Store(els, i, e), o) =
         (Hit(len, elements[a], o) \ {i}) \cup (IF e = o THEN {i} ELSE {})
  <2> DEFINE H == Hit(len, elements[a], o)
             D == 0 .. (n - 1)
  <2>1. (\A j \in D : j \in H <=> els[j] = o) /\ H \subseteq D /\ i \in D
    BY <1>8, <1>9, <1>11
  <2>2. {j \in D : (IF j = i THEN e ELSE els[j]) = o} = (H \ {i}) \cup (IF e = o THEN {i} ELSE {})
    <3> HIDE DEF H, D
    <3>1. CASE e = o
      BY <3>1, <2>1
    <3>2. CASE e # o
      BY <3>2, <2>1
    <3> QED BY <3>1, <3>2
  <2> QED BY <2>2, <1>10
<1> QED BY <1>8, <1>11, <1>12 DEF len, SetTo

LEMMA InsertHits ==
  ASSUME NEW a, Block(length[a], capacity[a], elements[a]), NEW to \in 0 .. length[a],
         NEW e \in Elements, NEW els, els = Room(a, length[a] + 1), NEW o \in Objs
  PROVE  LET H == Hit(length[a] + 1, Inserted(a, els, to, e), o)
         IN  Cardinality(H) = Cardinality(Hit(length[a], elements[a], o)) + Same(e, o)
<1> DEFINE len == length[a]
           S == Hit(len, elements[a], o)
           H == Hit(len + 1, Inserted(a, els, to, e), o)
           T == H \ {to}
<1>1. len \in Nat /\ to \in Nat /\ to <= len
  BY DEF Block
<1>2. Block(len, Capacity(a, len + 1), els) /\ Capacity(a, len + 1) >= len + 1
  BY <1>1, RoomBlock
<1>3. PICK c \in Nat : c = Capacity(a, len + 1)
  BY <1>2 DEF Block
<1>4. c >= len + 1 /\ DOMAIN els = 0 .. c - 1
  BY <1>2, <1>3 DEF Block
<1>5. \A j \in 0 .. (len - 1) : els[j] = elements[a][j]
  BY <1>1, RoomAt
<1>6. \A j \in 0 .. len : Inserted(a, els, to, e)[j] =
        CASE j = to -> e [] j \in (to + 1) .. len -> els[j - 1] [] OTHER -> els[j]
  <2>1. Inserted(a, els, to, e) = [j \in 0 .. c - 1 |->
          CASE j = to -> e [] j \in (to + 1) .. len -> els[j - 1] [] OTHER -> els[j]]
    BY <1>4 DEF Inserted
  <2>2. \A j \in 0 .. len : j \in 0 .. c - 1
    BY <1>1, <1>4
  <2> HIDE DEF len
  <2> QED BY <2>1, <2>2
<1>7. IsFiniteSet(S) /\ Cardinality(S) \in Nat /\ S \in SUBSET Nat
  <2>1. S \in SUBSET Nat
    BY <1>1 DEF Hit
  <2> QED BY <2>1, <1>1, HitFinite
<1>8. H \in SUBSET Nat /\ H = {j \in 0 .. len : Inserted(a, els, to, e)[j] = o}
  BY <1>1 DEF Hit
<1>9. ASSUME NEW j \in Nat
      PROVE  j \in T <=> IF j < to THEN j \in S ELSE j > to /\ j - 1 \in S
  <2>1. CASE j > len
    BY <2>1, <1>1, <1>8 DEF Hit
  <2>2. CASE j <= len /\ j < to
    <3>1. j \in 0 .. len /\ j \in 0 .. (len - 1) /\ Inserted(a, els, to, e)[j] = els[j]
      BY <2>2, <1>1, <1>6
    <3> QED BY <2>2, <3>1, <1>1, <1>5, <1>8 DEF Hit
  <2>3. CASE j = to
    BY <2>3, <1>1
  <2>4. CASE j <= len /\ j > to
    <3>1. j \in 0 .. len /\ j - 1 \in 0 .. (len - 1) /\ Inserted(a, els, to, e)[j] = els[j - 1]
      BY <2>4, <1>1, <1>6
    <3>2. j \in T <=> els[j - 1] = o
      BY <2>4, <3>1, <1>1, <1>8
    <3>3. j - 1 \in S <=> els[j - 1] = o
      BY <3>1, <1>5 DEF Hit
    <3> QED BY <2>4, <3>2, <3>3, <1>1
  <2> QED BY <2>1, <2>2, <2>3, <2>4, <1>1
<1>10. to \in H <=> e = o
  BY <1>1, <1>6, <1>8
<1> HIDE DEF S, H
<1>11. T \in SUBSET Nat /\ to \notin T
  BY <1>8
<1> HIDE DEF T
<1>12. IsFiniteSet(T) /\ Cardinality(T) = Cardinality(S)
  BY <1>1, <1>7, <1>9, <1>11, Gap
<1>13. CASE e = o
  <2>1. H = T \cup {to}
    BY <1>10, <1>13 DEF T
  <2>2. Cardinality(T \cup {to}) = Cardinality(T) + 1
    BY <1>11, <1>12, FS_AddElement
  <2>3. Cardinality(H) = Cardinality(S) + 1
    BY <2>1, <2>2, <1>12
  <2> QED BY <1>13, <2>3 DEF Same, H, S
<1>14. CASE e # o
  <2>1. H = T
    BY <1>10, <1>14 DEF T
  <2>2. Cardinality(H) = Cardinality(S) + 0
    BY <2>1, <1>7, <1>12
  <2> QED BY <1>14, <2>2 DEF Same, H, S
<1> QED BY <1>13, <1>14

LEMMA DelHits ==
  ASSUME NEW len \in Nat, NEW els, NEW i \in 0 .. (len - 1), NEW new, NEW o,
         \A j \in 0 .. (len - 2) : new[j] = IF j < i THEN els[j] ELSE els[j + 1]
  PROVE  Cardinality(Hit(len - 1, new, o)) = Cardinality(Hit(len, els, o)) - Same(els[i], o)
<1> DEFINE S == Hit(len - 1, new, o)
           H == Hit(len, els, o)
           T == H \ {i}
<1>1. i \in Nat /\ i < len /\ len - 1 \in Nat
  <2>1. i >= 0 /\ i <= len - 1 /\ i \in Int
    OBVIOUS
  <2> QED BY <2>1
<1>2. IsFiniteSet(S) /\ S \in SUBSET Nat
  <2>1. S \in SUBSET Nat
    BY <1>1 DEF Hit
  <2> QED BY <2>1, <1>1, HitFinite
<1>3. IsFiniteSet(H) /\ H \in SUBSET Nat /\ Cardinality(H) \in Nat
  <2>1. H \in SUBSET Nat
    BY DEF Hit
  <2> QED BY <2>1, HitFinite
<1>4. ASSUME NEW j \in Nat
      PROVE  j \in T <=> IF j < i THEN j \in S ELSE j > i /\ j - 1 \in S
  <2>1. CASE j < i
    <3>1. j \in 0 .. (len - 2) /\ j \in 0 .. (len - 1) /\ new[j] = els[j] /\ (len - 1) - 1 = len - 2
      BY <2>1, <1>1
    <3> QED BY <2>1, <3>1 DEF Hit
  <2>2. CASE j = i
    BY <2>2, <1>1
  <2>3. CASE j > i /\ j <= len - 1
    <3>1. /\ j - 1 \in 0 .. (len - 2) /\ j \in 0 .. (len - 1) /\ (j - 1) + 1 = j /\ ~(j - 1 < i)
          /\ (len - 1) - 1 = len - 2
      BY <2>3, <1>1
    <3>2. new[j - 1] = els[j]
      BY <3>1
    <3>3. j \in T <=> els[j] = o
      BY <2>3, <3>1, <1>1 DEF Hit
    <3>4. j - 1 \in S <=> new[j - 1] = o
      BY <3>1 DEF Hit
    <3> QED BY <2>3, <3>2, <3>3, <3>4, <1>1
  <2>4. CASE j > len - 1
    <3>1. j \notin 0 .. (len - 1) /\ j - 1 \notin 0 .. ((len - 1) - 1) /\ ~(j < i)
      BY <2>4, <1>1
    <3> QED BY <3>1 DEF Hit
  <2> QED BY <2>1, <2>2, <2>3, <2>4, <1>1
<1>5. i \in H <=> els[i] = o
  BY DEF Hit
<1> HIDE DEF S, H
<1>6. T \in SUBSET Nat /\ i \notin T
  BY <1>3
<1>7. IsFiniteSet(T) /\ Cardinality(T) = IF i \in H THEN Cardinality(H) - 1 ELSE Cardinality(H)
  BY <1>3, FS_RemoveElement
<1> HIDE DEF T
<1>8. Cardinality(T) = Cardinality(S)
  BY <1>1, <1>2, <1>4, <1>6, Gap
<1>9. Cardinality(S) = Cardinality(H) - Same(els[i], o)
  BY <1>3, <1>5, <1>7, <1>8 DEF Same
<1> QED BY <1>9 DEF S, H

LEMMA SortHits ==
  ASSUME NEW len \in Nat, NEW els, NEW new, NEW o, NEW p \in Bijection(1 .. len, 1 .. len),
         \A j \in 0 .. (len - 1) : new[j] = els[p[j + 1] - 1]
  PROVE  Cardinality(Hit(len, new, o)) = Cardinality(Hit(len, els, o))
<1> DEFINE S == Hit(len, new, o)
           T == Hit(len, els, o)
           f == [j \in S |-> p[j + 1] - 1]
<1>1. /\ p \in [1 .. len -> 1 .. len]
      /\ \A x, y \in 1 .. len : p[x] = p[y] => x = y
      /\ \A y \in 1 .. len : \E x \in 1 .. len : p[x] = y
  BY DEF Bijection, Injection, Surjection, IsInjective
<1>2. ASSUME NEW j \in 0 .. (len - 1)
      PROVE  j + 1 \in 1 .. len /\ p[j + 1] \in 1 .. len /\ p[j + 1] - 1 \in 0 .. (len - 1)
  <2>1. j + 1 \in 1 .. len
    OBVIOUS
  <2>2. p[j + 1] \in 1 .. len
    BY <2>1, <1>1
  <2> QED BY <2>1, <2>2
<1>3. f \in [S -> T]
  BY <1>2 DEF Hit
<1>4. ASSUME NEW x \in S, NEW y \in S, f[x] = f[y] PROVE x = y
  <2>1. x \in 0 .. (len - 1) /\ y \in 0 .. (len - 1) /\ p[x + 1] - 1 = p[y + 1] - 1
    BY <1>4 DEF Hit
  <2>2. p[x + 1] = p[y + 1]
    <3>1. p[x + 1] \in 1 .. len /\ p[y + 1] \in 1 .. len
      BY <2>1, <1>2
    <3> QED BY <2>1, <3>1
  <2>3. x + 1 = y + 1
    <3>1. x + 1 \in 1 .. len /\ y + 1 \in 1 .. len
      BY <2>1, <1>2
    <3> QED BY <3>1, <2>2, <1>1
  <2> QED BY <2>1, <2>3
<1>5. ASSUME NEW y \in T PROVE \E x \in S : f[x] = y
  <2>1. y \in 0 .. (len - 1) /\ els[y] = o /\ y + 1 \in 1 .. len
    BY DEF Hit
  <2>2. PICK x \in 1 .. len : p[x] = y + 1
    BY <2>1, <1>1
  <2>3. x - 1 \in 0 .. (len - 1) /\ (x - 1) + 1 = x /\ (y + 1) - 1 = y
    BY <2>1
  <2>4. new[x - 1] = els[y]
    <3>1. new[x - 1] = els[p[(x - 1) + 1] - 1]
      BY <2>3
    <3> QED BY <3>1, <2>2, <2>3
  <2>5. x - 1 \in S
    BY <2>1, <2>3, <2>4 DEF Hit
  <2>6. f[x - 1] = y
    BY <2>2, <2>3, <2>5
  <2> QED BY <2>5, <2>6
<1>6. IsFiniteSet(S)
  BY HitFinite
<1> HIDE DEF S, T, f
<1>7. Cardinality(T) = Cardinality(S)
  BY <1>3, <1>4, <1>5, <1>6, SameSize
<1> QED BY <1>7 DEF S, T

----------------------------------------------------------------------------
(* The counts.  Held is Holders, for any values of the variables.           *)

Held(al, rt, len, els, o) ==
  Places({a \in al : rt[a]}, [a \in Arrays |-> Hit(len[a], els[a], o)])

Typed ==
  /\ retain \in [Arrays -> BOOLEAN] /\ nullable \in [Arrays -> BOOLEAN]
  /\ gcCount \in [Objs -> Nat] /\ held \in [Objs -> Nat] /\ leaked \in [Objs -> Nat]
  /\ fault \in {"none", "exit", "freed"}
Counted ==
  \A o \in Objs :
    /\ IsFiniteSet(Held(alive, retain, length, elements, o))
    /\ fault = "none" =>
         gcCount[o] = held[o] + leaked[o] + Cardinality(Held(alive, retain, length, elements, o))

(* An array that is not nullable has no NULL among its elements.            *)
NoHoles ==
  \A a \in alive : ~nullable[a] => \A i \in 0 .. (length[a] - 1) : elements[a][i] # NULL
Exact == Typed /\ Counted /\ NoHoles

LEMMA HoldersIs ==
  ASSUME Inv, NEW o \in Objs
  PROVE  Holders(o) = Held(alive, retain, length, elements, o)
<1>1. alive \subseteq Arrays
  BY DEF Inv, Shape
<1>2. \A a \in alive : [b \in Arrays |-> Hit(length[b], elements[b], o)][a]
                         = {i \in 0 .. (length[a] - 1) : elements[a][i] = o}
  BY <1>1 DEF Hit
<1> DEFINE A == {b \in alive : retain[b]}
           h == [b \in Arrays |-> Hit(length[b], elements[b], o)]
<1>3. \A a \in A : {a} \X h[a] = {a} \X {i \in 0 .. (length[a] - 1) : elements[a][i] = o}
  BY <1>2
<1>4. {{a} \X h[a] : a \in A} = {{a} \X {i \in 0 .. (length[a] - 1) : elements[a][i] = o} : a \in A}
  <2> HIDE DEF A, h
  <2> QED BY <1>3
<1> QED BY <1>4, Zenon DEF Holders, Held, Places

LEMMA CountsHold == Inv /\ Exact => RefCounts
BY HoldersIs DEF Exact, Counted, RefCounts

(* One array changes, and ends if it has become empty.                      *)
HeldTo(al, rt, len, els, al2, len2, els2, o, a) ==
  LET R == Held(al, rt, len, els, o)
      R2 == Held(al2, rt, len2, els2, o)
      H == Hit(len[a], els[a], o)
      H2 == Hit(len2[a], els2[a], o)
  IN  /\ IsFiniteSet(R2) /\ Cardinality(R) \in Nat
      /\ Cardinality(R2) = Cardinality(R) + IF rt[a] THEN Cardinality(H2) - Cardinality(H) ELSE 0
      /\ rt[a] => Cardinality(R) >= Cardinality(H)

LEMMA Recounted ==
  ASSUME NEW al \in SUBSET Arrays, NEW rt, NEW len, NEW els, NEW len2, NEW els2, NEW o,
         NEW a \in al, len[a] \in Nat, len2[a] \in Nat,
         \A b \in Arrays : b # a => len2[b] = len[b] /\ els2[b] = els[b],
         NEW al2, al2 = al \/ (al2 = al \ {a} /\ len2[a] = 0),
         IsFiniteSet(Held(al, rt, len, els, o))
  PROVE  HeldTo(al, rt, len, els, al2, len2, els2, o, a)
<1> DEFINE A == {b \in al : rt[b]}
           B == {b \in al2 : rt[b]}
           h == [b \in Arrays |-> Hit(len[b], els[b], o)]
           g == [b \in Arrays |-> Hit(len2[b], els2[b], o)]
<1>1. a \in Arrays /\ \A b \in A : b # a => g[b] = h[b]
  OBVIOUS
<1>2. g[a] = Hit(len2[a], els2[a], o) /\ h[a] = Hit(len[a], els[a], o)
  BY <1>1
<1>3. IsFiniteSet(g[a]) /\ IsFiniteSet(h[a])
  BY <1>2, HitFinite
<1>4. IsFiniteSet(Places(A, h)) /\ Held(al, rt, len, els, o) = Places(A, h)
  BY DEF Held
<1>5. Held(al2, rt, len2, els2, o) = Places(B, g)
  BY DEF Held
<1>6. Places(B, g) = Places(A, g)
  <2>1. CASE al2 = al
    BY <2>1
  <2>2. CASE al2 = al \ {a} /\ len2[a] = 0
    <3>1. g[a] = {}
      BY <2>2, <1>2 DEF Hit
    <3>2. B = A \ {a}
      BY <2>2
    <3> HIDE DEF A, B, g
    <3> QED BY <3>1, <3>2 DEF Places
  <2> QED BY <2>1, <2>2
<1>7. rt[a] <=> a \in A
  OBVIOUS
<1> HIDE DEF A, B, h, g
<1>8. CASE a \in A
  <2>1. /\ IsFiniteSet(Places(A, g))
        /\ Cardinality(Places(A, g)) = Cardinality(Places(A, h)) - Cardinality(h[a]) + Cardinality(g[a])
        /\ Cardinality(Places(A, h)) \in Nat /\ Cardinality(h[a]) \in Nat
        /\ Cardinality(Places(A, h)) >= Cardinality(h[a])
    BY <1>1, <1>3, <1>4, <1>8, Recount
  <2>2. Cardinality(g[a]) \in Nat
    BY <1>3, FS_CardinalityType
  <2>3. Cardinality(Places(A, g)) = Cardinality(Places(A, h)) + (Cardinality(g[a]) - Cardinality(h[a]))
    BY <2>1, <2>2
  <2> QED BY <2>1, <2>3, <1>2, <1>4, <1>5, <1>6, <1>7, <1>8 DEF HeldTo
<1>9. CASE a \notin A
  <2>1. Places(A, g) = Places(A, h)
    BY <1>1, <1>9 DEF Places
  <2>2. Cardinality(Places(A, h)) \in Nat
    BY <1>4, FS_CardinalityType
  <2>3. Cardinality(Places(A, g)) = Cardinality(Places(A, h)) + 0
    BY <2>1, <2>2
  <2> QED BY <2>1, <2>2, <2>3, <1>4, <1>5, <1>6, <1>7, <1>9 DEF HeldTo
<1> QED BY <1>8, <1>9

(* What a handler does to the count of an object that it holds.             *)
Changed(a, o) ==
  /\ IsFiniteSet(Held(alive', retain', length', elements', o))
  /\ Cardinality(Held(alive, retain, length, elements, o)) \in Nat
  /\ Cardinality(Held(alive', retain', length', elements', o)) =
       Cardinality(Held(alive, retain, length, elements, o))
         + IF retain[a] THEN Cardinality(Hit(length'[a], elements'[a], o))
                               - Cardinality(Hit(length[a], elements[a], o))
           ELSE 0
  /\ Cardinality(Hit(length[a], elements[a], o)) \in Nat
  /\ Cardinality(Hit(length'[a], elements'[a], o)) \in Nat
  /\ retain[a] => Cardinality(Held(alive, retain, length, elements, o))
                    >= Cardinality(Hit(length[a], elements[a], o))

LEMMA Counting ==
  ASSUME Inv, Inv', Exact, NEW a \in alive, retain' = retain,
         \A b \in Arrays : b # a => length'[b] = length[b] /\ elements'[b] = elements[b],
         alive' = alive \/ (alive' = alive \ {a} /\ length'[a] = 0),
         NEW o \in Objs
  PROVE  Changed(a, o)
<1>1. alive \in SUBSET Arrays /\ a \in Arrays
  BY DEF Inv, Shape
<1>2. length[a] \in Nat /\ length'[a] \in Nat
  BY <1>1 DEF Inv, Blocks, Memory
<1>3. IsFiniteSet(Held(alive, retain, length, elements, o))
  BY DEF Exact, Counted
<1>4. /\ Cardinality(Hit(length[a], elements[a], o)) \in Nat
      /\ Cardinality(Hit(length'[a], elements'[a], o)) \in Nat
  BY <1>2, HitFinite
<1>5. HeldTo(alive, retain, length, elements, alive', length', elements', o, a)
  <2>1. PICK al : al = alive
    OBVIOUS
  <2>2. PICK al2 : al2 = alive'
    OBVIOUS
  <2>3. PICK len : len = length
    OBVIOUS
  <2>4. PICK len2 : len2 = length'
    OBVIOUS
  <2>5. PICK els : els = elements
    OBVIOUS
  <2>6. PICK els2 : els2 = elements'
    OBVIOUS
  <2>7. PICK rt : rt = retain
    OBVIOUS
  <2>8. /\ al \in SUBSET Arrays /\ a \in al /\ len[a] \in Nat /\ len2[a] \in Nat
        /\ \A b \in Arrays : b # a => len2[b] = len[b] /\ els2[b] = els[b]
        /\ al2 = al \/ (al2 = al \ {a} /\ len2[a] = 0)
        /\ IsFiniteSet(Held(al, rt, len, els, o))
    BY <1>1, <1>2, <1>3, <2>1, <2>2, <2>3, <2>4, <2>5, <2>6, <2>7
  <2>9. HeldTo(al, rt, len, els, al2, len2, els2, o, a)
    BY <2>8, Recounted
  <2> QED BY <2>1, <2>2, <2>3, <2>4, <2>5, <2>6, <2>7, <2>9
<1> QED BY <1>4, <1>5 DEF Changed, HeldTo

(* The counts follow what a handler does to one array.                      *)
Follows(a, o) ==
  gcCount'[o] = gcCount[o] + (leaked'[o] - leaked[o])
                + IF retain[a] THEN Cardinality(Hit(length'[a], elements'[a], o))
                                      - Cardinality(Hit(length[a], elements[a], o))
                  ELSE 0

LEMMA Following ==
  ASSUME Inv, Inv', Exact, NEW a \in alive,
         retain' = retain, nullable' = nullable, held' = held,
         \A b \in Arrays : b # a => length'[b] = length[b] /\ elements'[b] = elements[b],
         alive' = alive \/ (alive' = alive \ {a} /\ length'[a] = 0),
         gcCount' \in [Objs -> Nat], leaked' \in [Objs -> Nat], fault' \in {"none", "exit", "freed"},
         fault = "none", fault' = "none" => \A o \in Objs : Follows(a, o),
         ~nullable[a] => \A i \in 0 .. (length'[a] - 1) : elements'[a][i] # NULL
  PROVE  Exact'
<1>1. Typed'
  BY DEF Exact, Typed
<1>2. Counted'
  <2> SUFFICES ASSUME NEW o \in Objs
               PROVE  /\ IsFiniteSet(Held(alive', retain', length', elements', o))
                      /\ fault' = "none" =>
                           gcCount'[o] = held'[o] + leaked'[o]
                             + Cardinality(Held(alive', retain', length', elements', o))
    BY DEF Counted
  <2>1. Changed(a, o)
    BY Counting
  <2>2. IsFiniteSet(Held(alive', retain', length', elements', o))
    BY <2>1 DEF Changed
  <2>3. ASSUME fault' = "none"
        PROVE  gcCount'[o] = held'[o] + leaked'[o]
                 + Cardinality(Held(alive', retain', length', elements', o))
    <3>1. gcCount[o] = held[o] + leaked[o] + Cardinality(Held(alive, retain, length, elements, o))
      BY DEF Exact, Counted
    <3>2. held[o] \in Nat /\ leaked[o] \in Nat /\ gcCount[o] \in Nat /\ leaked'[o] \in Nat
      BY DEF Exact, Typed
    <3>3. Follows(a, o)
      BY <2>3
    <3>4. PICK N \in Nat : N = Cardinality(Held(alive, retain, length, elements, o))
      BY <2>1 DEF Changed
    <3>5. PICK H \in Nat : H = Cardinality(Hit(length[a], elements[a], o))
      BY <2>1 DEF Changed
    <3>6. PICK H2 \in Nat : H2 = Cardinality(Hit(length'[a], elements'[a], o))
      BY <2>1 DEF Changed
    <3>7. Cardinality(Held(alive', retain', length', elements', o)) = N + IF retain[a] THEN H2 - H ELSE 0
      BY <2>1, <3>4, <3>5, <3>6 DEF Changed
    <3>8. gcCount'[o] = gcCount[o] + (leaked'[o] - leaked[o]) + IF retain[a] THEN H2 - H ELSE 0
      BY <3>3, <3>5, <3>6 DEF Follows
    <3> QED BY <3>1, <3>2, <3>4, <3>7, <3>8
  <2> QED BY <2>2, <2>3
<1>3. NoHoles'
  <2> SUFFICES ASSUME NEW b \in alive', ~nullable'[b], NEW i \in 0 .. (length'[b] - 1)
               PROVE  elements'[b][i] # NULL
    BY DEF NoHoles
  <2>1. b \in alive /\ b \in Arrays
    BY DEF Inv, Shape
  <2>2. CASE b = a
    BY <2>2
  <2>3. CASE b # a
    BY <2>1, <2>3 DEF Exact, NoHoles
  <2> QED BY <2>2, <2>3
<1> QED BY <1>1, <1>2, <1>3 DEF Exact

LEMMA Staying ==
  ASSUME Exact, UNCHANGED <<gcCount, held, leaked, fault, alive, retain, nullable, length, elements>>
  PROVE  Exact'
BY DEF Exact, Typed, Counted, NoHoles

(* While the program runs, what an array retains is counted.                *)
LEMMA AtLeast ==
  ASSUME Inv, Exact, fault = "none", NEW a \in alive, retain[a], NEW o \in Objs
  PROVE  /\ Cardinality(Hit(length[a], elements[a], o)) \in Nat
         /\ gcCount[o] >= held[o] + Cardinality(Hit(length[a], elements[a], o))
<1>1. alive \in SUBSET Arrays /\ a \in Arrays
  BY DEF Inv, Shape
<1>2. length[a] \in Nat
  BY <1>1 DEF Inv, Blocks, Memory
<1>3. IsFiniteSet(Held(alive, retain, length, elements, o))
  BY DEF Exact, Counted
<1>4. Cardinality(Hit(length[a], elements[a], o)) \in Nat
  BY <1>2, HitFinite
<1>5. HeldTo(alive, retain, length, elements, alive, length, elements, o, a)
  <2>1. PICK al : al = alive
    OBVIOUS
  <2>2. PICK len : len = length
    OBVIOUS
  <2>3. PICK els : els = elements
    OBVIOUS
  <2>4. PICK rt : rt = retain
    OBVIOUS
  <2>5. al \in SUBSET Arrays /\ a \in al /\ len[a] \in Nat /\ IsFiniteSet(Held(al, rt, len, els, o))
    BY <1>1, <1>2, <1>3, <2>1, <2>2, <2>3, <2>4
  <2>6. HeldTo(al, rt, len, els, al, len, els, o, a)
    BY <2>5, Recounted
  <2> QED BY <2>1, <2>2, <2>3, <2>4, <2>6
<1>6. gcCount[o] = held[o] + leaked[o] + Cardinality(Held(alive, retain, length, elements, o))
  BY DEF Exact, Counted
<1>7. held[o] \in Nat /\ leaked[o] \in Nat
  BY DEF Exact, Typed
<1>8. /\ Cardinality(Held(alive, retain, length, elements, o)) \in Nat
      /\ Cardinality(Held(alive, retain, length, elements, o)) >= Cardinality(Hit(length[a], elements[a], o))
  BY <1>5 DEF HeldTo
<1> QED BY <1>4, <1>6, <1>7, <1>8

(* An element that the array retains can be released.                       *)
LEMMA Releasing ==
  ASSUME Inv, Exact, fault = "none", NEW a \in alive, retain[a],
         NEW i \in 0 .. (length[a] - 1), NEW o \in Objs, elements[a][i] = o
  PROVE  gcCount[o] >= held[o] + 1 /\ gcCount[o] \in Nat /\ held[o] \in Nat
<1>1. Cardinality(Hit(length[a], elements[a], o)) \in Nat /\ length[a] \in Nat
  BY AtLeast DEF Inv, Shape, Blocks, Memory
<1>2. i \in Hit(length[a], elements[a], o)
  BY DEF Hit
<1>3. IsFiniteSet(Hit(length[a], elements[a], o))
  BY <1>1, HitFinite
<1>4. Cardinality(Hit(length[a], elements[a], o)) # 0
  BY <1>2, <1>3, FS_EmptySet
<1>5. gcCount[o] >= held[o] + Cardinality(Hit(length[a], elements[a], o))
  BY AtLeast
<1>6. gcCount[o] \in Nat /\ held[o] \in Nat
  BY DEF Exact, Typed
<1> QED BY <1>1, <1>4, <1>5, <1>6

LEMMA Counts ==
  ASSUME NEW gc \in [Objs -> Nat], NEW o \in Objs
  PROVE  /\ Object_retain(gc, o) \in [Objs -> Nat]
         /\ \A x \in Objs : Object_retain(gc, o)[x] = gc[x] + Same(o, x)
         /\ \A x \in Objs : Object_release(gc, o)[x] = gc[x] - Same(o, x)
         /\ gc[o] >= 1 => Object_release(gc, o) \in [Objs -> Nat]
BY DEF Object_retain, Object_release, Same

(* What leaves an array that retains is released, what enters it retained.  *)
LEMMA Swapping ==
  ASSUME Inv, Exact, fault = "none", NEW a \in alive, NEW old \in Elements, NEW new \in Elements,
         retain[a] /\ old # NULL => gcCount[old] >= 1, Swap(a, old, new)
  PROVE  /\ gcCount' \in [Objs -> Nat] /\ fault' \in {"none", "exit", "freed"}
         /\ fault' = "none" =>
              \A o \in Objs : gcCount'[o] = gcCount[o] + IF retain[a] THEN Same(new, o) - Same(old, o) ELSE 0
<1>1. gcCount \in [Objs -> Nat]
  BY DEF Exact, Typed
<1>2. CASE ~retain[a]
  BY <1>1, <1>2 DEF Swap
<1>3. CASE retain[a]
  <2>1. PICK less : less = IF old = NULL THEN gcCount ELSE Object_release(gcCount, old)
    OBVIOUS
  <2>2. \/ new = NULL /\ gcCount' = less /\ fault' = "exit"
        \/ new # NULL /\ less[new] = 0 /\ gcCount' = less /\ fault' = "freed"
        \/ new # NULL /\ gcCount' = Object_retain(less, new) /\ fault' = fault
    BY <1>3, <2>1 DEF Swap
  <2>3. NULL \notin Objs
    BY ArrayAssumption
  <2>4. less \in [Objs -> Nat] /\ \A o \in Objs : less[o] = gcCount[o] - Same(old, o)
    <3>1. CASE old = NULL
      BY <1>1, <2>1, <2>3, <3>1 DEF Same
    <3>2. CASE old # NULL
      <4>1. old \in Objs /\ gcCount[old] >= 1 /\ less = Object_release(gcCount, old)
        BY <1>3, <2>1, <3>2 DEF Elements
      <4> QED BY <4>1, <1>1, Counts
    <3> QED BY <3>1, <3>2
  <2>5. CASE fault' # "none"
    <3>1. gcCount' = less
      BY <2>2, <2>5
    <3> QED BY <2>2, <2>4, <2>5, <3>1
  <2>6. CASE new # NULL /\ gcCount' = Object_retain(less, new) /\ fault' = fault
    <3>1. new \in Objs
      BY <2>6 DEF Elements
    <3>2. gcCount' \in [Objs -> Nat] /\ \A o \in Objs : gcCount'[o] = less[o] + Same(new, o)
      BY <2>4, <2>6, <3>1, Counts
    <3>3. \A o \in Objs : gcCount'[o] = gcCount[o] + (Same(new, o) - Same(old, o))
      BY <1>1, <2>4, <3>2 DEF Same
    <3> QED BY <1>3, <2>6, <3>2, <3>3
  <2> QED BY <2>2, <2>5, <2>6
<1> QED BY <1>2, <1>3

LEMMA SetExact ==
  ASSUME Inv, Inv', Exact, fault = "none", NEW a \in alive, NEW i \in Nat, NEW e \in Elements,
         Array_set(a, i, e)
  PROVE  Exact'
<1>1. PICK n : n = IF i < length[a] THEN length[a] ELSE i + 1
  OBVIOUS
<1>2. PICK els : els = Room(a, n)
  OBVIOUS
<1>3. /\ alive' = alive /\ retain' = retain /\ nullable' = nullable /\ held' = held /\ leaked' = leaked
      /\ nullable[a] \/ (e # NULL /\ i < length[a])
      /\ \/ UNCHANGED <<gcCount, fault, length, elements>>
         \/ /\ Swap(a, els[i], e)
            /\ length' = [length EXCEPT ![a] = n]
            /\ elements' = [elements EXCEPT ![a] = Store(els, i, e)]
  BY <1>1, <1>2 DEF Array_set, MaySet, structVars, dataVars
<1>4. CASE UNCHANGED <<gcCount, fault, length, elements>>
  BY <1>3, <1>4, Staying
<1>5. CASE /\ Swap(a, els[i], e)
           /\ length' = [length EXCEPT ![a] = n]
           /\ elements' = [elements EXCEPT ![a] = Store(els, i, e)]
  <2>1. /\ a \in Arrays /\ Block(length[a], capacity[a], elements[a]) /\ length[a] \in Nat
        /\ capacity[a] \in Nat /\ length[a] <= capacity[a] /\ DOMAIN elements[a] = 0 .. capacity[a] - 1
    BY DEF Inv, Shape, Blocks, Block
  <2>2. /\ length'[a] = n /\ elements'[a] = Store(els, i, e)
        /\ \A b \in Arrays : b # a => length'[b] = length[b] /\ elements'[b] = elements[b]
    BY <1>5, <2>1 DEF Inv, Shape
  <2>3. n \in Nat /\ i < n
    BY <1>1, <2>1
  <2>4. Block(length[a], Capacity(a, n), els) /\ Capacity(a, n) >= n
    BY <1>2, <2>1, <2>3, RoomBlock
  <2>5. els[i] \in Elements /\ (i >= length[a] => els[i] = NULL)
    BY <2>3, <2>4 DEF Block
  <2>6. \A o \in Objs :
          /\ Hit(n, Store(els, i, e), o) =
               (Hit(length[a], elements[a], o) \ {i}) \cup (IF e = o THEN {i} ELSE {})
          /\ i \in Hit(length[a], elements[a], o) <=> els[i] = o
    <3>1. \A o \in Objs : SetTo(a, i, e, n, els, o)
      BY <1>1, <1>2, <2>1, SetHits
    <3> QED BY <3>1 DEF SetTo
  <2>7. ASSUME retain[a], els[i] # NULL PROVE gcCount[els[i]] >= 1
    <3>1. PICK o \in Objs : o = els[i]
      BY <2>5, <2>7 DEF Elements
    <3>2. i \in 0 .. (length[a] - 1) /\ elements[a][i] = o
      BY <2>6, <3>1 DEF Hit
    <3>3. gcCount[o] >= held[o] + 1 /\ gcCount[o] \in Nat /\ held[o] \in Nat
      BY <2>7, <3>2, Releasing
    <3> QED BY <3>1, <3>3
  <2>8. /\ gcCount' \in [Objs -> Nat] /\ fault' \in {"none", "exit", "freed"}
        /\ fault' = "none" =>
             \A o \in Objs : gcCount'[o] = gcCount[o] + IF retain[a] THEN Same(e, o) - Same(els[i], o) ELSE 0
    BY <1>5, <2>5, <2>7, Swapping
  <2>9. ASSUME fault' = "none", NEW o \in Objs PROVE Follows(a, o)
    <3>1. PICK H : H = Hit(length[a], elements[a], o)
      OBVIOUS
    <3>2. IsFiniteSet(H) /\ Cardinality(H) \in Nat
      BY <2>1, <3>1, HitFinite
    <3>3. PICK in \in BOOLEAN : in <=> e = o
      OBVIOUS
    <3>4. PICK H2 : H2 = (H \ {i}) \cup (IF in THEN {i} ELSE {})
      OBVIOUS
    <3>5. Cardinality(H2) = Cardinality(H) - (IF i \in H THEN 1 ELSE 0) + (IF in THEN 1 ELSE 0)
      BY <3>2, <3>4, Exchanged
    <3>6. Hit(length'[a], elements'[a], o) = H2
      BY <2>2, <2>6, <3>1, <3>3, <3>4
    <3>7. i \in H <=> els[i] = o
      BY <2>6, <3>1
    <3>8. Cardinality(H2) - Cardinality(H) = Same(e, o) - Same(els[i], o)
      BY <3>2, <3>3, <3>5, <3>7 DEF Same
    <3>9. gcCount'[o] = gcCount[o] + IF retain[a] THEN Same(e, o) - Same(els[i], o) ELSE 0
      BY <2>8, <2>9
    <3>10. leaked'[o] - leaked[o] = 0 /\ gcCount[o] \in Nat
      BY <1>3 DEF Exact, Typed
    <3>11. gcCount'[o] = gcCount[o] + 0 + IF retain[a] THEN Same(e, o) - Same(els[i], o) ELSE 0
      BY <3>9, <3>10
    <3> QED BY <3>1, <3>6, <3>8, <3>10, <3>11 DEF Follows
  <2>10. ASSUME ~nullable[a], NEW j \in 0 .. (length'[a] - 1) PROVE elements'[a][j] # NULL
    <3>1. e # NULL /\ i < length[a] /\ n = length[a]
      BY <1>1, <1>3, <2>10
    <3>2. els = elements[a] /\ j \in 0 .. (length[a] - 1) /\ j \in DOMAIN els
      BY <1>2, <2>1, <2>2, <2>10, <3>1 DEF Room
    <3>3. elements'[a][j] = IF j = i THEN e ELSE elements[a][j]
      BY <2>2, <3>2 DEF Store
    <3>4. elements[a][j] # NULL
      BY <2>10, <3>2 DEF Exact, NoHoles
    <3> QED BY <3>1, <3>3, <3>4
  <2>11. leaked' \in [Objs -> Nat]
    BY <1>3 DEF Exact, Typed
  <2> QED BY <1>3, <2>2, <2>8, <2>9, <2>10, <2>11, Following
<1> QED BY <1>3, <1>4, <1>5

LEMMA DelExact ==
  ASSUME Inv, Inv', Exact, fault = "none", NEW a \in alive, NEW i, Array_del(a, i)
  PROVE  Exact'
<1> DEFINE last == length[a] - 1
           Moved(j) == CASE j \in i..(last - 1) -> elements[a][j + 1]
                         [] j \in last..length[a] -> NULL
                         [] OTHER -> elements[a][j]
           item == elements[a][i]
<1>1. /\ i \in 0..last
      /\ elements' = [elements EXCEPT ![a] = [j \in DOMAIN @ |-> Moved(j)]]
      /\ length' = [length EXCEPT ![a] = last]
      /\ alive' = alive /\ retain' = retain /\ nullable' = nullable /\ held' = held /\ leaked' = leaked
      /\ IF ~retain[a] THEN UNCHANGED <<gcCount, fault>>
         ELSE IF item = NULL THEN fault' = "exit" /\ UNCHANGED gcCount
         ELSE gcCount' = Object_release(gcCount, item) /\ UNCHANGED fault
  BY DEF Array_del, structVars
<1>2. /\ a \in Arrays /\ length[a] \in Nat /\ capacity[a] \in Nat /\ length[a] <= capacity[a]
      /\ elements[a] \in [0 .. capacity[a] - 1 -> Elements]
  BY DEF Inv, Shape, Blocks, Block
<1>3. i \in Nat /\ i < length[a] /\ last \in Nat
  BY <1>1, <1>2
<1>4. /\ length'[a] = last /\ elements'[a] = [j \in 0 .. capacity[a] - 1 |-> Moved(j)]
      /\ \A b \in Arrays : b # a => length'[b] = length[b] /\ elements'[b] = elements[b]
  BY <1>1, <1>2 DEF Inv, Shape
<1>5. ASSUME NEW j \in 0 .. (length[a] - 2)
      PROVE  elements'[a][j] = IF j < i THEN elements[a][j] ELSE elements[a][j + 1]
  <2>1. j \in 0 .. capacity[a] - 1 /\ j \notin last .. length[a] /\ (j < i <=> j \notin i..(last - 1))
    BY <1>2, <1>3
  <2>2. elements'[a][j] = Moved(j)
    BY <1>4, <2>1
  <2> QED BY <2>1, <2>2
<1>6. item \in Elements
  <2>1. i \in 0 .. capacity[a] - 1
    BY <1>2, <1>3
  <2>2. \A j \in 0 .. capacity[a] - 1 : elements[a][j] \in Elements
    BY <1>2
  <2> QED BY <2>1, <2>2
<1> HIDE DEF Moved
<1>7. \A o \in Objs : Cardinality(Hit(length'[a], elements'[a], o))
                        = Cardinality(Hit(length[a], elements[a], o)) - Same(item, o)
  <2> SUFFICES ASSUME NEW o \in Objs
               PROVE  Cardinality(Hit(length'[a], elements'[a], o))
                        = Cardinality(Hit(length[a], elements[a], o)) - Same(item, o)
    OBVIOUS
  <2>1. PICK new : new = elements'[a]
    OBVIOUS
  <2>2. PICK len \in Nat : len = length[a]
    BY <1>2
  <2>3. PICK els : els = elements[a]
    OBVIOUS
  <2>4. i \in 0 .. (len - 1) /\ \A j \in 0 .. (len - 2) : new[j] = IF j < i THEN els[j] ELSE els[j + 1]
    BY <1>1, <1>5, <2>1, <2>2, <2>3
  <2>5. Cardinality(Hit(len - 1, new, o)) = Cardinality(Hit(len, els, o)) - Same(els[i], o)
    BY <2>4, DelHits
  <2> QED BY <1>4, <2>1, <2>2, <2>3, <2>5
<1>8. gcCount \in [Objs -> Nat]
  BY DEF Exact, Typed
<1>9. gcCount' \in [Objs -> Nat] /\ fault' \in {"none", "exit", "freed"}
  <2>1. CASE retain[a] /\ item # NULL
    <3>1. item \in Objs
      BY <1>6, <2>1 DEF Elements
    <3>2. gcCount[item] >= held[item] + 1 /\ gcCount[item] \in Nat /\ held[item] \in Nat
      BY <1>1, <2>1, <3>1, Releasing
    <3>3. gcCount' = Object_release(gcCount, item) /\ fault' = fault
      BY <1>1, <2>1
    <3>4. gcCount[item] >= 1
      BY <3>2
    <3> QED BY <1>8, <3>1, <3>3, <3>4, Counts
  <2>2. CASE ~(retain[a] /\ item # NULL)
    BY <1>1, <1>8, <2>2
  <2> QED BY <2>1, <2>2
<1>10. ASSUME fault' = "none", NEW o \in Objs PROVE Follows(a, o)
  <2>1. gcCount'[o] = gcCount[o] - IF retain[a] THEN Same(item, o) ELSE 0
    <3>1. CASE retain[a]
      <4>1. item # NULL /\ gcCount' = Object_release(gcCount, item)
        BY <1>1, <1>10, <3>1
      <4>2. item \in Objs
        BY <1>6, <4>1 DEF Elements
      <4> QED BY <1>8, <3>1, <4>1, <4>2, Counts
    <3>2. CASE ~retain[a]
      BY <1>1, <1>8, <3>2
    <3> QED BY <3>1, <3>2
  <2>2. PICK H \in Nat : H = Cardinality(Hit(length[a], elements[a], o))
    BY <1>2, HitFinite
  <2>3. Cardinality(Hit(length'[a], elements'[a], o)) = H - Same(item, o)
    BY <1>7, <2>2
  <2>4. leaked'[o] - leaked[o] = 0 /\ gcCount[o] \in Nat
    BY <1>1 DEF Exact, Typed
  <2>5. Same(item, o) \in Int
    BY DEF Same
  <2>6. gcCount'[o] = gcCount[o] + 0 + IF retain[a] THEN (H - Same(item, o)) - H ELSE 0
    BY <2>1, <2>4, <2>5
  <2> QED BY <2>2, <2>3, <2>4, <2>6 DEF Follows
<1>11. ASSUME ~nullable[a], NEW j \in 0 .. (length'[a] - 1) PROVE elements'[a][j] # NULL
  <2>1. j \in 0 .. (length[a] - 2)
    BY <1>2, <1>4, <1>11
  <2>2. j \in 0 .. (length[a] - 1) /\ j + 1 \in 0 .. (length[a] - 1)
    BY <1>2, <2>1
  <2>3. elements[a][j] # NULL /\ elements[a][j + 1] # NULL
    BY <1>11, <2>2 DEF Exact, NoHoles
  <2> QED BY <1>5, <2>1, <2>3
<1>12. leaked' \in [Objs -> Nat]
  BY <1>1 DEF Exact, Typed
<1> QED BY <1>1, <1>4, <1>9, <1>10, <1>11, <1>12, Following

LEMMA InsertExact ==
  ASSUME Inv, Inv', Exact, fault = "none", NEW a \in alive, NEW index \in Int, NEW e \in Elements,
         NEW before \in BOOLEAN, _array_insert(a, index, e, before)
  PROVE  Exact'
<1>1. PICK els : els = Room(a, length[a] + 1)
  OBVIOUS
<1>2. PICK to : to = Target(a, index, before)
  OBVIOUS
<1>3. PICK n : n = length[a] + 1
  OBVIOUS
<1>4. /\ alive' = alive /\ retain' = retain /\ nullable' = nullable /\ held' = held
      /\ nullable[a] \/ e # NULL
  BY DEF _array_insert, structVars
<1>5. \/ /\ retain[a] /\ e = NULL /\ fault' = "exit"
         /\ UNCHANGED <<gcCount, length, elements, leaked>>
      \/ /\ ~(retain[a] /\ e = NULL) /\ fault' = fault
         /\ gcCount' = IF retain[a] THEN Object_retain(gcCount, e) ELSE gcCount
         /\ leaked' = IF retain[a] THEN [leaked EXCEPT ![e] = @ + 1] ELSE leaked
         /\ UNCHANGED <<length, elements>>
      \/ /\ ~(retain[a] /\ e = NULL) /\ fault' = fault
         /\ gcCount' = IF retain[a] THEN Object_retain(gcCount, e) ELSE gcCount
         /\ leaked' = leaked
         /\ length' = [length EXCEPT ![a] = n]
         /\ elements' = [elements EXCEPT ![a] = Inserted(a, els, to, e)]
  BY <1>1, <1>2, <1>3 DEF _array_insert, dataVars
<1>6. /\ a \in Arrays /\ Block(length[a], capacity[a], elements[a]) /\ length[a] \in Nat
      /\ n \in Nat /\ to \in 0 .. length[a]
  BY <1>2, <1>3 DEF Inv, Shape, Blocks, Block, Target
<1>7. gcCount \in [Objs -> Nat] /\ leaked \in [Objs -> Nat] /\ fault \in {"none", "exit", "freed"}
  BY DEF Exact, Typed
<1>8. PICK H : H = [o \in Objs |-> Cardinality(Hit(length[a], elements[a], o))]
  OBVIOUS
<1>9. \A o \in Objs : H[o] = Cardinality(Hit(length[a], elements[a], o)) /\ H[o] \in Nat
  BY <1>6, <1>8, HitFinite
<1>10. ASSUME retain[a], e # NULL PROVE e \in Objs
  BY <1>10 DEF Elements
<1>11. ASSUME ~(retain[a] /\ e = NULL), gcCount' = IF retain[a] THEN Object_retain(gcCount, e) ELSE gcCount
       PROVE  /\ gcCount' \in [Objs -> Nat]
              /\ \A o \in Objs : gcCount'[o] = gcCount[o] + IF retain[a] THEN Same(e, o) ELSE 0
  <2>1. CASE retain[a]
    <3>1. e \in Objs /\ gcCount' = Object_retain(gcCount, e)
      BY <1>10, <1>11, <2>1
    <3> QED BY <1>7, <2>1, <3>1, Counts
  <2>2. CASE ~retain[a]
    BY <1>7, <1>11, <2>2
  <2> QED BY <2>1, <2>2
<1>12. CASE UNCHANGED <<length, elements>>
  <2>1. \A b \in Arrays : b # a => length'[b] = length[b] /\ elements'[b] = elements[b]
    BY <1>12
  <2>2. ~nullable[a] => \A i \in 0 .. (length'[a] - 1) : elements'[a][i] # NULL
    BY <1>12 DEF Exact, NoHoles
  <2>3. CASE fault' = "exit" /\ UNCHANGED <<gcCount, leaked>>
    BY <1>4, <1>7, <2>1, <2>2, <2>3, Following
  <2>4. CASE /\ ~(retain[a] /\ e = NULL) /\ fault' = fault
             /\ gcCount' = IF retain[a] THEN Object_retain(gcCount, e) ELSE gcCount
             /\ leaked' = IF retain[a] THEN [leaked EXCEPT ![e] = @ + 1] ELSE leaked
    <3>1. /\ leaked' \in [Objs -> Nat]
          /\ \A o \in Objs : leaked'[o] = leaked[o] + IF retain[a] THEN Same(e, o) ELSE 0
      <4>1. CASE retain[a]
        <5>1. e \in Objs /\ leaked' = [leaked EXCEPT ![e] = @ + 1]
          BY <1>10, <2>4, <4>1
        <5>2. leaked'[e] = leaked[e] + 1 /\ leaked[e] \in Nat
          BY <1>7, <5>1
        <5>3. \A o \in Objs : o # e => leaked'[o] = leaked[o]
          BY <1>7, <5>1
        <5> QED BY <1>7, <4>1, <5>1, <5>2, <5>3 DEF Same
      <4>2. CASE ~retain[a]
        BY <1>7, <2>4, <4>2
      <4> QED BY <4>1, <4>2
    <3>2. /\ gcCount' \in [Objs -> Nat]
          /\ \A o \in Objs : gcCount'[o] = gcCount[o] + IF retain[a] THEN Same(e, o) ELSE 0
      BY <1>11, <2>4
    <3>3. ASSUME NEW o \in Objs PROVE Follows(a, o)
      <4>1. PICK d \in Int : d = IF retain[a] THEN Same(e, o) ELSE 0
        BY DEF Same
      <4>2. leaked'[o] = leaked[o] + d /\ gcCount'[o] = gcCount[o] + d
        BY <3>1, <3>2, <4>1
      <4>3. leaked[o] \in Nat /\ gcCount[o] \in Nat
        BY <1>7
      <4>4. Hit(length'[a], elements'[a], o) = Hit(length[a], elements[a], o)
        BY <1>12
      <4>5. (IF retain[a] THEN Cardinality(Hit(length'[a], elements'[a], o))
                                 - Cardinality(Hit(length[a], elements[a], o)) ELSE 0) = 0
        BY <1>9, <4>4
      <4>6. gcCount'[o] = gcCount[o] + (leaked'[o] - leaked[o]) + 0
        BY <4>2, <4>3
      <4> QED BY <4>5, <4>6 DEF Follows
    <3> QED BY <1>4, <1>7, <2>1, <2>2, <2>4, <3>1, <3>2, <3>3, Following
  <2>5. CASE /\ ~(retain[a] /\ e = NULL) /\ fault' = fault
             /\ gcCount' = IF retain[a] THEN Object_retain(gcCount, e) ELSE gcCount
             /\ leaked' = leaked
             /\ length' = [length EXCEPT ![a] = n]
    <3>1. length'[a] = n
      BY <1>6, <2>5 DEF Inv, Shape
    <3> QED BY <1>3, <1>6, <1>12, <3>1
  <2> QED BY <1>5, <2>3, <2>4, <2>5
<1>13. CASE /\ ~(retain[a] /\ e = NULL) /\ fault' = fault
            /\ gcCount' = IF retain[a] THEN Object_retain(gcCount, e) ELSE gcCount
            /\ leaked' = leaked
            /\ length' = [length EXCEPT ![a] = n]
            /\ elements' = [elements EXCEPT ![a] = Inserted(a, els, to, e)]
  <2>1. /\ length'[a] = n /\ elements'[a] = Inserted(a, els, to, e)
        /\ \A b \in Arrays : b # a => length'[b] = length[b] /\ elements'[b] = elements[b]
    BY <1>6, <1>13 DEF Inv, Shape
  <2>2. /\ gcCount' \in [Objs -> Nat]
        /\ \A o \in Objs : gcCount'[o] = gcCount[o] + IF retain[a] THEN Same(e, o) ELSE 0
    BY <1>11, <1>13
  <2>3. ASSUME NEW o \in Objs PROVE Follows(a, o)
    <3>1. Cardinality(Hit(n, Inserted(a, els, to, e), o)) = H[o] + Same(e, o)
      BY <1>1, <1>3, <1>6, <1>9, InsertHits
    <3>2. gcCount'[o] = gcCount[o] + IF retain[a] THEN Same(e, o) ELSE 0
      BY <2>2
    <3>3. leaked'[o] - leaked[o] = 0 /\ gcCount[o] \in Nat /\ H[o] \in Nat
      BY <1>7, <1>9, <1>13
    <3>4. Same(e, o) \in Int
      BY DEF Same
    <3>5. gcCount'[o] = gcCount[o] + 0 + IF retain[a] THEN (H[o] + Same(e, o)) - H[o] ELSE 0
      BY <3>2, <3>3, <3>4
    <3> QED BY <1>9, <2>1, <3>1, <3>3, <3>5 DEF Follows
  <2>4. ASSUME ~nullable[a], NEW j \in 0 .. (length'[a] - 1) PROVE elements'[a][j] # NULL
    <3>1. e # NULL
      BY <1>4, <2>4
    <3>2. /\ Block(length[a], Capacity(a, n), els) /\ Capacity(a, n) >= n
          /\ \A k \in 0 .. (length[a] - 1) : els[k] = elements[a][k]
      BY <1>1, <1>3, <1>6, RoomBlock, RoomAt
    <3>3. PICK c \in Nat : c = Capacity(a, n)
      BY <3>2 DEF Block
    <3>4. DOMAIN els = 0 .. c - 1 /\ c >= n /\ j \in 0 .. c - 1 /\ j \in 0 .. length[a]
      BY <1>3, <1>6, <2>1, <2>4, <3>2, <3>3 DEF Block
    <3>5. elements'[a][j] = CASE j = to -> e [] j \in (to + 1) .. length[a] -> els[j - 1] [] OTHER -> els[j]
      BY <2>1, <3>4 DEF Inserted
    <3>6. CASE j = to
      BY <3>1, <3>5, <3>6
    <3>7. CASE j # to /\ j \in (to + 1) .. length[a]
      <4>1. j - 1 \in 0 .. (length[a] - 1) /\ elements'[a][j] = els[j - 1]
        BY <1>6, <3>5, <3>7
      <4> QED BY <2>4, <3>2, <4>1 DEF Exact, NoHoles
    <3>8. CASE j # to /\ j \notin (to + 1) .. length[a]
      <4>1. j \in 0 .. (length[a] - 1) /\ elements'[a][j] = els[j]
        BY <1>6, <3>4, <3>5, <3>8
      <4> QED BY <2>4, <3>2, <4>1 DEF Exact, NoHoles
    <3> QED BY <3>6, <3>7, <3>8
  <2> QED BY <1>4, <1>7, <1>13, <2>1, <2>2, <2>3, <2>4, Following
<1> QED BY <1>5, <1>12, <1>13

LEMMA ClearExact ==
  ASSUME Inv, Inv', Exact, fault = "none", NEW a \in alive, Array_clear(a),
         alive' = alive \/ alive' = alive \ {a}
  PROVE  Exact'
<1>1. /\ length' = [length EXCEPT ![a] = 0]
      /\ elements' = [elements EXCEPT ![a] = [i \in DOMAIN @ |-> IF i < length[a] THEN NULL ELSE @[i]]]
      /\ gcCount' = IF retain[a] THEN [o \in Objs |-> gcCount[o] - Times(a, o)] ELSE gcCount
      /\ fault' = IF retain[a] /\ Times(a, NULL) > 0 THEN "exit" ELSE fault
      /\ retain' = retain /\ nullable' = nullable /\ held' = held /\ leaked' = leaked
  BY DEF Array_clear
<1>2. a \in Arrays /\ length[a] \in Nat
  BY DEF Inv, Shape, Blocks, Memory
<1>3. /\ length'[a] = 0
      /\ \A b \in Arrays : b # a => length'[b] = length[b] /\ elements'[b] = elements[b]
  BY <1>1, <1>2 DEF Inv, Shape
<1>4. gcCount \in [Objs -> Nat] /\ leaked \in [Objs -> Nat] /\ fault \in {"none", "exit", "freed"}
  BY DEF Exact, Typed
<1>5. PICK H : H = [o \in Objs |-> Cardinality(Hit(length[a], elements[a], o))]
  OBVIOUS
<1>6. \A o \in Objs : H[o] = Cardinality(Hit(length[a], elements[a], o)) /\ H[o] \in Nat /\ Times(a, o) = H[o]
  <2> SUFFICES ASSUME NEW o \in Objs
               PROVE  H[o] = Cardinality(Hit(length[a], elements[a], o)) /\ H[o] \in Nat /\ Times(a, o) = H[o]
    OBVIOUS
  <2>1. H[o] = Cardinality(Hit(length[a], elements[a], o)) /\ H[o] \in Nat
    BY <1>2, <1>5, HitFinite
  <2> QED BY <2>1 DEF Times, Hit
<1>7. /\ gcCount' \in [Objs -> Nat]
      /\ \A o \in Objs : gcCount'[o] = gcCount[o] - IF retain[a] THEN H[o] ELSE 0
  <2>1. CASE retain[a]
    <3>1. ASSUME NEW o \in Objs PROVE gcCount[o] - H[o] \in Nat
      <4>1. gcCount[o] >= held[o] + Cardinality(Hit(length[a], elements[a], o))
        BY <2>1, AtLeast
      <4>2. held[o] \in Nat /\ gcCount[o] \in Nat
        BY DEF Exact, Typed
      <4> QED BY <1>6, <4>1, <4>2
    <3>2. gcCount' = [o \in Objs |-> gcCount[o] - H[o]]
      BY <1>1, <1>6, <2>1
    <3> QED BY <2>1, <3>1, <3>2
  <2>2. CASE ~retain[a]
    BY <1>1, <1>4, <2>2
  <2> QED BY <2>1, <2>2
<1>8. ASSUME NEW o \in Objs PROVE Follows(a, o)
  <2>1. Hit(length'[a], elements'[a], o) = {}
    BY <1>3 DEF Hit
  <2>2. Cardinality(Hit(length'[a], elements'[a], o)) = 0
    BY <2>1, FS_EmptySet
  <2>3. leaked'[o] - leaked[o] = 0 /\ gcCount[o] \in Nat /\ H[o] \in Nat
    BY <1>1, <1>4, <1>6
  <2>4. gcCount'[o] = gcCount[o] + 0 + IF retain[a] THEN 0 - H[o] ELSE 0
    BY <1>7, <2>3
  <2> QED BY <1>6, <2>2, <2>3, <2>4 DEF Follows
<1>9. \A i \in 0 .. (length'[a] - 1) : elements'[a][i] # NULL
  BY <1>3
<1> QED BY <1>1, <1>3, <1>4, <1>7, <1>8, <1>9, Following

LEMMA SortExact ==
  ASSUME Inv, Inv', Exact, fault = "none", NEW a \in alive, Array_sort(a)
  PROVE  Exact'
<1>1. PICK p \in Bijection(1 .. length[a], 1 .. length[a]) :
        elements' = [elements EXCEPT ![a] =
                       [i \in DOMAIN @ |-> IF i < length[a] THEN @[p[i + 1] - 1] ELSE @[i]]]
  BY DEF Array_sort
<1>2. /\ alive' = alive /\ retain' = retain /\ nullable' = nullable /\ length' = length
      /\ gcCount' = gcCount /\ held' = held /\ fault' = fault /\ leaked' = leaked
  BY DEF Array_sort, structVars, objVars
<1>3. /\ a \in Arrays /\ length[a] \in Nat /\ capacity[a] \in Nat /\ length[a] <= capacity[a]
      /\ DOMAIN elements[a] = 0 .. capacity[a] - 1
  BY DEF Inv, Shape, Blocks, Block
<1>4. \A j \in 0 .. (length[a] - 1) : elements'[a][j] = elements[a][p[j + 1] - 1]
  <2>1. \A j \in 0 .. (length[a] - 1) : j \in 0 .. capacity[a] - 1 /\ j < length[a]
    BY <1>3
  <2>2. elements'[a] = [i \in 0 .. capacity[a] - 1 |->
                          IF i < length[a] THEN elements[a][p[i + 1] - 1] ELSE elements[a][i]]
    BY <1>1, <1>3 DEF Inv, Shape
  <2> QED BY <2>1, <2>2
<1>5. \A b \in Arrays : b # a => length'[b] = length[b] /\ elements'[b] = elements[b]
  BY <1>1, <1>2, <1>3 DEF Inv, Shape
<1>6. gcCount \in [Objs -> Nat] /\ leaked \in [Objs -> Nat] /\ fault \in {"none", "exit", "freed"}
  BY DEF Exact, Typed
<1>7. ASSUME NEW o \in Objs PROVE Follows(a, o)
  <2>1. PICK new : new = elements'[a]
    OBVIOUS
  <2>2. PICK len \in Nat : len = length[a]
    BY <1>3
  <2>3. PICK els : els = elements[a]
    OBVIOUS
  <2>4. p \in Bijection(1 .. len, 1 .. len) /\ \A j \in 0 .. (len - 1) : new[j] = els[p[j + 1] - 1]
    BY <1>4, <2>1, <2>2, <2>3
  <2>5. Cardinality(Hit(len, new, o)) = Cardinality(Hit(len, els, o)) /\ Cardinality(Hit(len, els, o)) \in Nat
    BY <2>4, SortHits, HitFinite
  <2>6. (IF retain[a] THEN Cardinality(Hit(len, new, o)) - Cardinality(Hit(len, els, o)) ELSE 0) = 0
    BY <2>5
  <2>7. gcCount'[o] = gcCount[o] + (leaked'[o] - leaked[o]) + 0
    BY <1>2, <1>6
  <2> QED BY <1>2, <2>1, <2>2, <2>3, <2>6, <2>7 DEF Follows
<1>8. ASSUME ~nullable[a], NEW j \in 0 .. (length'[a] - 1) PROVE elements'[a][j] # NULL
  <2>1. j \in 0 .. (length[a] - 1) /\ j + 1 \in 1 .. length[a]
    BY <1>2, <1>3, <1>8
  <2>2. p[j + 1] \in 1 .. length[a]
    BY <2>1 DEF Bijection, Injection
  <2>3. p[j + 1] - 1 \in 0 .. (length[a] - 1)
    BY <1>3, <2>2
  <2> QED BY <1>4, <1>8, <2>1, <2>3 DEF Exact, NoHoles
<1> QED BY <1>2, <1>5, <1>6, <1>7, <1>8, Following

(* A new array holds nothing.                                               *)
LEMMA NewExact ==
  ASSUME Inv, Inv', Exact, NEW a, NEW r \in BOOLEAN, Array_new(a, r),
         nullable' \in [Arrays -> BOOLEAN], \A b \in Arrays : b # a => nullable'[b] = nullable[b],
         UNCHANGED <<gcCount, held, fault, leaked>>
  PROVE  Exact'
<1>1. /\ a \in Arrays /\ a \notin alive /\ alive' = alive \cup {a}
      /\ retain' = [retain EXCEPT ![a] = r]
      /\ length' = [length EXCEPT ![a] = 0]
      /\ elements' = [elements EXCEPT ![a] = Nulls(Step)]
  BY DEF Array_new
<1>2. alive \subseteq Arrays /\ retain \in [Arrays -> BOOLEAN]
  BY DEF Inv, Shape, Exact, Typed
<1>3. /\ retain' \in [Arrays -> BOOLEAN] /\ length'[a] = 0
      /\ \A b \in Arrays : b # a => /\ retain'[b] = retain[b] /\ length'[b] = length[b]
                                    /\ elements'[b] = elements[b]
  BY <1>1, <1>2 DEF Inv, Shape
<1>4. Typed'
  BY <1>3 DEF Exact, Typed
<1>5. ASSUME NEW o \in Objs
      PROVE  Held(alive', retain', length', elements', o) = Held(alive, retain, length, elements, o)
  <2> DEFINE A == {b \in alive : retain[b]}
             B == {b \in alive' : retain'[b]}
             h == [b \in Arrays |-> Hit(length[b], elements[b], o)]
             g == [b \in Arrays |-> Hit(length'[b], elements'[b], o)]
  <2>1. g[a] = {}
    BY <1>1, <1>3 DEF Hit
  <2>2. \A b \in A : g[b] = h[b] /\ b # a
    BY <1>1, <1>2, <1>3
  <2>3. A \subseteq B /\ B \subseteq A \cup {a}
    BY <1>1, <1>2, <1>3
  <2>4. Held(alive', retain', length', elements', o) = Places(B, g)
    BY DEF Held
  <2>5. Held(alive, retain, length, elements, o) = Places(A, h)
    BY DEF Held
  <2> HIDE DEF A, B, h, g
  <2>6. Places(B, g) = Places(A, h)
    BY <2>1, <2>2, <2>3 DEF Places
  <2> QED BY <2>4, <2>5, <2>6
<1>6. Counted'
  <2> SUFFICES ASSUME NEW o \in Objs
               PROVE  /\ IsFiniteSet(Held(alive', retain', length', elements', o))
                      /\ fault' = "none" =>
                           gcCount'[o] = held'[o] + leaked'[o]
                             + Cardinality(Held(alive', retain', length', elements', o))
    BY DEF Counted
  <2> QED BY <1>5 DEF Exact, Counted
<1>7. NoHoles'
  <2> SUFFICES ASSUME NEW b \in alive', ~nullable'[b], NEW i \in 0 .. (length'[b] - 1)
               PROVE  elements'[b][i] # NULL
    BY DEF NoHoles
  <2>1. b # a /\ b \in alive
    BY <1>1, <1>3
  <2> QED BY <1>2, <1>3, <2>1 DEF Exact, NoHoles
<1> QED BY <1>4, <1>6, <1>7 DEF Exact

(* The application's own references.                                        *)
LEMMA ObjectExact ==
  ASSUME Exact, fault = "none", NEW o \in Objs, Object_new(o) \/ App_retain(o) \/ App_release(o),
         UNCHANGED <<structVars, dataVars, fault, leaked>>
  PROVE  Exact'
<1>1. /\ gcCount \in [Objs -> Nat] /\ held \in [Objs -> Nat] /\ leaked \in [Objs -> Nat]
  BY DEF Exact, Typed
<1>2. PICK R : R = [x \in Objs |-> Cardinality(Held(alive, retain, length, elements, x))]
  OBVIOUS
<1>3. \A x \in Objs : /\ IsFiniteSet(Held(alive, retain, length, elements, x))
                      /\ R[x] = Cardinality(Held(alive, retain, length, elements, x)) /\ R[x] \in Nat
                      /\ gcCount[x] = held[x] + leaked[x] + R[x]
  BY <1>2, FS_CardinalityType DEF Exact, Counted
<1>4. /\ gcCount' \in [Objs -> Nat] /\ held' \in [Objs -> Nat]
      /\ \A x \in Objs : gcCount'[x] = held'[x] + leaked[x] + R[x]
  <2>1. CASE Object_new(o)
    <3>1. gcCount[o] = 0 /\ gcCount' = [gcCount EXCEPT ![o] = 1] /\ held' = [held EXCEPT ![o] = 1]
      BY <1>1, <2>1 DEF Object_new, Allocated
    <3>2. held[o] \in Nat /\ leaked[o] \in Nat /\ R[o] \in Nat /\ gcCount[o] = held[o] + leaked[o] + R[o]
      BY <1>1, <1>3
    <3>3. leaked[o] = 0 /\ R[o] = 0
      BY <3>1, <3>2
    <3> QED BY <1>1, <1>3, <3>1, <3>3
  <2>2. CASE App_retain(o)
    <3>1. gcCount' = [gcCount EXCEPT ![o] = @ + 1] /\ held' = [held EXCEPT ![o] = @ + 1]
      BY <2>2 DEF App_retain, Object_retain
    <3>2. held[o] \in Nat /\ leaked[o] \in Nat /\ R[o] \in Nat /\ gcCount[o] = held[o] + leaked[o] + R[o]
      BY <1>1, <1>3
    <3>3. gcCount[o] + 1 \in Nat /\ held[o] + 1 \in Nat /\ gcCount[o] + 1 = (held[o] + 1) + leaked[o] + R[o]
      BY <3>2
    <3> QED BY <1>1, <1>3, <3>1, <3>3
  <2>3. CASE App_release(o)
    <3>1. held[o] > 0 /\ gcCount' = [gcCount EXCEPT ![o] = @ - 1] /\ held' = [held EXCEPT ![o] = @ - 1]
      BY <2>3 DEF App_release, Object_release
    <3>2. held[o] \in Nat /\ leaked[o] \in Nat /\ R[o] \in Nat /\ gcCount[o] = held[o] + leaked[o] + R[o]
      BY <1>1, <1>3
    <3>3. gcCount[o] - 1 \in Nat /\ held[o] - 1 \in Nat /\ gcCount[o] - 1 = (held[o] - 1) + leaked[o] + R[o]
      BY <3>1, <3>2
    <3> QED BY <1>1, <1>3, <3>1, <3>3
  <2> QED BY <2>1, <2>2, <2>3
<1>5. /\ alive' = alive /\ retain' = retain /\ nullable' = nullable /\ length' = length
      /\ elements' = elements /\ fault' = fault /\ leaked' = leaked
  BY DEF structVars, dataVars
<1>6. Counted'
  <2> SUFFICES ASSUME NEW x \in Objs
               PROVE  /\ IsFiniteSet(Held(alive', retain', length', elements', x))
                      /\ fault' = "none" =>
                           gcCount'[x] = held'[x] + leaked'[x]
                             + Cardinality(Held(alive', retain', length', elements', x))
    BY DEF Counted
  <2> QED BY <1>3, <1>4, <1>5
<1> QED BY <1>4, <1>5, <1>6 DEF Exact, Typed, NoHoles

LEMMA AppExact == Inv /\ Inv' /\ Exact /\ App => Exact'
<1> SUFFICES ASSUME Inv, Inv', Exact, App PROVE Exact'
  OBVIOUS
<1>0. fault = "none"
  BY DEF App, AppRuns, AppObject, AppNew, AppSet, AppDel, AppInsert, AppClear, AppSort, AppCopy, AppSlice
<1>1. CASE AppObject
  BY <1>0, <1>1, ObjectExact DEF AppObject
<1>2. CASE AppNew
  <2>1. PICK a \in Arrays, r \in Retains, n \in Nullables :
          Array_new(a, r) /\ nullable' = [nullable EXCEPT ![a] = n]
    BY <1>2 DEF AppNew
  <2>2. UNCHANGED <<gcCount, held, fault, leaked>>
    BY <1>2 DEF AppNew, objVars
  <2>3. r \in BOOLEAN /\ n \in BOOLEAN
    BY ArrayAssumption
  <2>4. nullable' \in [Arrays -> BOOLEAN] /\ \A b \in Arrays : b # a => nullable'[b] = nullable[b]
    BY <2>1, <2>3 DEF Exact, Typed
  <2> QED BY <2>1, <2>2, <2>3, <2>4, NewExact
<1>3. CASE AppSet
  <2>1. PICK a \in alive, i \in 0 .. (MaxLength - 1), e \in Elements : Array_set(a, i, e)
    BY <1>3 DEF AppSet
  <2>2. i \in Nat
    BY <2>1 DEF Array_set, MaySet
  <2> QED BY <1>0, <2>1, <2>2, SetExact
<1>4. CASE AppDel
  BY <1>0, <1>4, DelExact DEF AppDel
<1>5. CASE AppInsert
  <2>1. PICK a \in alive, e \in Elements, before \in BOOLEAN :
          \E i \in -1 .. length[a] : _array_insert(a, i, e, before)
    BY <1>5 DEF AppInsert
  <2>2. PICK i \in -1 .. length[a] : _array_insert(a, i, e, before)
    BY <2>1
  <2>3. i \in Int
    OBVIOUS
  <2> QED BY <1>0, <2>1, <2>2, <2>3, InsertExact
<1>6. CASE AppClear
  <2>1. PICK a \in alive : Array_clear(a) /\ (UNCHANGED alive \/ alive' = alive \ {a})
    BY <1>6 DEF AppClear
  <2>2. alive' = alive \/ alive' = alive \ {a}
    BY <2>1
  <2> QED BY <1>0, <2>1, <2>2, ClearExact
<1>7. CASE AppSort
  BY <1>0, <1>7, SortExact DEF AppSort
<1>8. CASE AppCopy
  BY <1>8, Staying DEF AppCopy, objVars, structVars, dataVars
<1>9. CASE AppSlice
  <2>1. PICK this \in alive, that \in Arrays :
          Array_new(that, retain[this]) /\ nullable' = [nullable EXCEPT ![that] = FALSE]
    BY <1>9, Zenon DEF AppSlice
  <2>2. UNCHANGED <<gcCount, held, fault, leaked>>
    BY <1>9 DEF AppSlice, objVars
  <2>3. retain[this] \in BOOLEAN
    BY DEF Inv, Shape, Exact, Typed
  <2>4. nullable' \in [Arrays -> BOOLEAN] /\ \A b \in Arrays : b # that => nullable'[b] = nullable[b]
    BY <2>1 DEF Exact, Typed
  <2> QED BY <2>1, <2>2, <2>3, <2>4, NewExact
<1> QED BY <1>1, <1>2, <1>3, <1>4, <1>5, <1>6, <1>7, <1>8, <1>9 DEF App

LEMMA LoopExact == Inv /\ Inv' /\ Exact /\ (CopyStep \/ SliceStep \/ LoopReturns) => Exact'
<1> SUFFICES ASSUME Inv, Inv', Exact, CopyStep \/ SliceStep \/ LoopReturns PROVE Exact'
  OBVIOUS
<1>1. fault = "none"
  BY DEF CopyStep, SliceStep, LoopReturns
<1>2. CASE Untouched
  BY <1>2, Staying DEF Untouched, objVars, structVars, dataVars
<1>3. call.pc # "idle" => call.this \in alive /\ call.that \in alive
  BY DEF Inv, CallOK
<1>4. call.i \in Nat /\ call.i \in Int
  BY DEF Inv, CallOK
<1>5. CASE CopyStep /\ Array_set(call.that, call.i, Item)
  <2>1. call.that \in alive /\ call.this \in alive
    BY <1>3, <1>5 DEF CopyStep
  <2>2. Item \in Elements
    BY <1>4, <2>1, GetElement DEF Item
  <2> QED BY <1>1, <1>4, <1>5, <2>1, <2>2, SetExact
<1>6. CASE SliceStep /\ _array_insert(call.that, length[call.that] - 1, Item, FALSE)
  <2>1. call.that \in alive /\ call.this \in alive
    BY <1>3, <1>6 DEF SliceStep
  <2>2. Item \in Elements
    BY <1>4, <2>1, GetElement DEF Item
  <2>3. length[call.that] - 1 \in Int
    BY <2>1 DEF Inv, Blocks, Block
  <2> QED BY <1>1, <1>6, <2>1, <2>2, <2>3, InsertExact
<1> QED BY <1>2, <1>5, <1>6 DEF CopyStep, SliceStep, LoopReturns

LEMMA ExactHolds == Spec => []Exact
<1>1. Init => Exact
  <2> SUFFICES ASSUME Init PROVE Exact
    OBVIOUS
  <2>1. Typed /\ NoHoles
    BY DEF Init, ObjectInit, Typed, NoHoles
  <2>2. ASSUME NEW o \in Objs PROVE Held(alive, retain, length, elements, o) = {}
    <3>1. {a \in alive : retain[a]} = {}
      BY DEF Init
    <3>2. PICK h : h = [b \in Arrays |-> Hit(length[b], elements[b], o)]
      OBVIOUS
    <3>3. Held(alive, retain, length, elements, o) = Places({}, h)
      BY <3>1, <3>2 DEF Held
    <3>4. Places({}, h) = {}
      BY DEF Places
    <3> QED BY <3>3, <3>4
  <2>3. Counted
    <3>1. IsFiniteSet({}) /\ Cardinality({}) = 0
      BY FS_EmptySet
    <3>2. \A o \in Objs : gcCount[o] = 0 /\ held[o] = 0 /\ leaked[o] = 0
      BY DEF Init, ObjectInit
    <3> SUFFICES ASSUME NEW o \in Objs
                 PROVE  /\ IsFiniteSet(Held(alive, retain, length, elements, o))
                        /\ gcCount[o] = held[o] + leaked[o]
                             + Cardinality(Held(alive, retain, length, elements, o))
      BY DEF Counted
    <3>3. Cardinality(Held(alive, retain, length, elements, o)) = 0
      BY <2>2, <3>1
    <3> QED BY <2>2, <3>1, <3>2, <3>3
  <2> QED BY <2>1, <2>3 DEF Exact
<1>2. Inv /\ Inv' /\ Exact /\ [Next]_vars => Exact'
  <2> SUFFICES ASSUME Inv, Inv', Exact, [Next]_vars PROVE Exact'
    OBVIOUS
  <2>1. CASE App
    BY <2>1, AppExact
  <2>2. CASE CopyStep \/ SliceStep \/ LoopReturns
    BY <2>2, LoopExact
  <2>3. CASE UNCHANGED vars
    BY <2>3, Staying DEF vars, structVars, dataVars
  <2> QED BY <2>1, <2>2, <2>3 DEF Next
<1> QED BY <1>1, <1>2, InvHolds, PTL DEF Spec

----------------------------------------------------------------------------
(* What find returns.                                                       *)

First(S) == CHOOSE x \in S : \A y \in S : x <= y

(* The first place where els is o, counted in a part of it and in it all.   *)
SameFirst(from, I, F) ==
  (IF F = {} THEN -1 ELSE First(F)) = IF I = {} THEN -1 ELSE from + First(I) - 1

LEMMA FirstPlace ==
  ASSUME NEW from \in Nat, NEW to \in Nat, NEW I \in SUBSET (1 .. to - from),
         NEW F \in SUBSET (from .. to - 1),
         \A k \in 1 .. to - from : k \in I <=> from + k - 1 \in F
  PROVE  SameFirst(from, I, F)
<1>1. ASSUME NEW i \in F
      PROVE  i \in Nat /\ i - from + 1 \in I /\ i - from + 1 \in Nat /\ from + (i - from + 1) - 1 = i
  <2>1. i \in Int /\ from <= i /\ i <= to - 1
    OBVIOUS
  <2>2. i \in Nat /\ i - from + 1 \in 1 .. to - from /\ from + (i - from + 1) - 1 = i
    BY <2>1
  <2> QED BY <2>2
<1>2. F = {} <=> I = {}
  BY <1>1
<1>3. CASE I = {}
  BY <1>2, <1>3 DEF SameFirst
<1>4. CASE I # {}
  <2>1. I \in SUBSET Nat
    OBVIOUS
  <2>2. \E k \in I : \A j \in I : k <= j
    BY <1>4, <2>1, Least
  <2>3. PICK k : k = First(I)
    OBVIOUS
  <2>4. k \in I /\ \A j \in I : k <= j
    BY <2>2, <2>3 DEF First
  <2>5. from + k - 1 \in F /\ from + k - 1 \in Nat
    BY <2>4
  <2>6. \A j \in F : from + k - 1 <= j
    <3> SUFFICES ASSUME NEW j \in F PROVE from + k - 1 <= j
      OBVIOUS
    <3>1. k <= j - from + 1 /\ j \in Nat /\ k \in Nat
      BY <1>1, <2>1, <2>4
    <3> QED BY <3>1
  <2>7. PICK i : i = First(F)
    OBVIOUS
  <2>8. i \in F /\ \A j \in F : i <= j
    BY <2>5, <2>6, <2>7 DEF First
  <2>9. i = from + k - 1
    <3>1. i <= from + k - 1 /\ from + k - 1 <= i /\ i \in Nat /\ from + k - 1 \in Nat
      BY <1>1, <2>5, <2>6, <2>8
    <3> QED BY <3>1
  <2> QED BY <1>2, <1>4, <2>3, <2>7, <2>9 DEF SameFirst
<1> QED BY <1>3, <1>4

LEMMA Finds == Inv => FindAgrees
<1> SUFFICES ASSUME Inv, NEW a \in alive, NEW o \in Objs, NEW to \in 1 .. length[a],
                    NEW from \in 0 .. (to - 1)
             PROVE  LET there == SelectInSeq(SubSeq(Content(a), from + 1, to), LAMBDA e : e = o)
                        last == Array_find(a, from, to, TRUE, {o})
                    IN /\ Array_find(a, from, to, FALSE, {o}) = IF there = 0 THEN -1 ELSE from + there - 1
                       /\ to > from + 1 => last = -1
                       /\ to = from + 1 => last = from <=> Content(a)[to] = o
  BY DEF FindAgrees
<1>1. /\ length[a] \in Nat /\ to \in Nat /\ to <= length[a] /\ from \in Nat /\ from < to
  BY DEF Inv, Shape, Blocks, Memory
<1> DEFINE S == SubSeq(Content(a), from + 1, to)
           I == {k \in 1 .. Len(S) : S[k] = o}
           F == {i \in from .. (to - 1) : Array_get(a, i) \in {o}}
           B == {i \in 0 .. from : Array_get(a, i) \in {o}}
<1>2. Len(S) = to - from /\ \A k \in 1 .. to - from : S[k] = elements[a][from + k - 1]
  <2>1. PICK V : V = {elements[a][j - 1] : j \in 1 .. length[a]}
    OBVIOUS
  <2>2. \A j \in from + 1 .. to : Content(a)[j] \in V /\ Content(a)[j] = elements[a][j - 1]
    BY <1>1, <2>1 DEF Content
  <2>3. /\ Len(S) = IF from + 1 <= to THEN to - (from + 1) + 1 ELSE 0
        /\ \A k \in 1 .. to - (from + 1) + 1 : S[k] = Content(a)[(from + 1) + k - 1]
    <3>1. from + 1 \in Int /\ to \in Int
      BY <1>1
    <3> QED BY <2>2, <3>1, SubSeqProperties
  <2> HIDE DEF S
  <2>4. Len(S) = to - from
    BY <1>1, <2>3
  <2>5. ASSUME NEW k \in 1 .. to - from PROVE S[k] = elements[a][from + k - 1]
    <3>1. k \in 1 .. to - (from + 1) + 1 /\ (from + 1) + k - 1 \in from + 1 .. to /\ (from + 1) + k - 1 - 1 = from + k - 1
      BY <1>1
    <3> QED BY <2>2, <2>3, <3>1
  <2> QED BY <2>4, <2>5
<1>3. \A i \in 0 .. (length[a] - 1) : Array_get(a, i) = elements[a][i]
  BY DEF Array_get
<1>4. SelectInSeq(S, LAMBDA e : e = o) = IF I # {} THEN First(I) ELSE 0
  BY DEF SelectInSeq, Min, First
<1>5. Array_find(a, from, to, FALSE, {o}) = IF F = {} THEN -1 ELSE First(F)
  BY <1>1 DEF Array_find, First
<1>6. to > from + 1 => Array_find(a, from, to, TRUE, {o}) = -1
  BY <1>1 DEF Array_find
<1>7. to = from + 1 => Array_find(a, from, to, TRUE, {o}) =
        IF B # {} THEN CHOOSE i \in B : \A j \in B : j <= i ELSE IF NULL \in {o} THEN -1 ELSE -2
  BY <1>1 DEF Array_find
<1>8. Array_find(a, from, to, FALSE, {o})
        = LET there == SelectInSeq(S, LAMBDA e : e = o) IN IF there = 0 THEN -1 ELSE from + there - 1
  <2>1. I \in SUBSET (1 .. to - from) /\ F \in SUBSET (from .. to - 1)
    BY <1>2
  <2>2. ASSUME NEW k \in 1 .. to - from PROVE k \in I <=> from + k - 1 \in F
    <3>1. from + k - 1 \in from .. (to - 1) /\ from + k - 1 \in 0 .. (length[a] - 1)
      BY <1>1
    <3> QED BY <3>1, <1>2, <1>3
  <2> HIDE DEF I, F, S
  <2>3. (IF F = {} THEN -1 ELSE First(F)) = IF I = {} THEN -1 ELSE from + First(I) - 1
    <3>1. \A k \in 1 .. to - from : k \in I <=> from + k - 1 \in F
      BY <2>2
    <3>2. SameFirst(from, I, F)
      BY <1>1, <2>1, <3>1, FirstPlace
    <3> QED BY <3>2 DEF SameFirst
  <2>4. I # {} => First(I) # 0
    <3> SUFFICES ASSUME I # {} PROVE First(I) # 0
      OBVIOUS
    <3>1. I \in SUBSET Nat /\ 0 \notin I
      BY <2>1
    <3>2. \E k \in I : \A j \in I : k <= j
      BY <3>1, Least
    <3>3. First(I) \in I
      BY <3>2 DEF First
    <3> QED BY <3>1, <3>3
  <2> QED BY <1>4, <1>5, <2>3, <2>4
<1>9. ASSUME to = from + 1
      PROVE  Array_find(a, from, to, TRUE, {o}) = from <=> Content(a)[to] = o
  <2>1. Content(a)[to] = elements[a][from] /\ (from \in B <=> elements[a][from] = o)
    <3>1. from \in 0 .. (length[a] - 1) /\ to - 1 = from
      BY <1>1, <1>9
    <3> QED BY <1>1, <1>3, <3>1 DEF Content
  <2>2. B \in SUBSET (0 .. from)
    OBVIOUS
  <2> HIDE DEF B
  <2>3. CASE B = {}
    <3>1. PICK x : x = Array_find(a, from, to, TRUE, {o})
      OBVIOUS
    <3>2. x = -1 \/ x = -2
      BY <1>7, <1>9, <2>3, <3>1
    <3>3. x # from
      BY <1>1, <3>2
    <3>4. from \notin B
      BY <2>3
    <3> QED BY <2>1, <3>1, <3>3, <3>4
  <2>4. CASE B # {}
    <3>1. \E i \in B : \A j \in B : j <= i
      BY <1>1, <2>2, <2>4, Greatest
    <3>2. PICK x : x = CHOOSE i \in B : \A j \in B : j <= i
      OBVIOUS
    <3>3. x \in B /\ \A j \in B : j <= x
      BY <3>1, <3>2
    <3>4. Array_find(a, from, to, TRUE, {o}) = x
      BY <1>7, <1>9, <2>4, <3>2
    <3>5. x <= from /\ x \in Nat
      BY <1>1, <2>2, <3>3
    <3>6. from \in B => x = from
      BY <1>1, <3>3, <3>5
    <3> QED BY <2>1, <3>3, <3>4, <3>6
  <2> QED BY <2>3, <2>4
<1> QED BY <1>6, <1>8, <1>9

----------------------------------------------------------------------------
(* The elements of the arrays.                                              *)

(* A change of one array, or of none, leaves a function on the arrays.      *)
IsFcn(f) == f = [a \in Arrays |-> f[a]]
OneChange(f, g) == f = g \/ \E a, v : g = [f EXCEPT ![a] = v]
Fcns == IsFcn(length) /\ IsFcn(capacity)

LEMMA StaysFcn ==
  ASSUME NEW f, NEW g, IsFcn(f), OneChange(f, g)
  PROVE  IsFcn(g)
<1>1. CASE f = g
  BY <1>1
<1>2. CASE \E a, v : g = [f EXCEPT ![a] = v]
  <2>1. PICK a : \E v : g = [f EXCEPT ![a] = v]
    BY <1>2
  <2>2. PICK v : g = [f EXCEPT ![a] = v]
    BY <2>1
  <2>3. g = [b \in Arrays |-> IF b = a THEN v ELSE f[b]]
    BY <2>2 DEF IsFcn
  <2> QED BY <2>3 DEF IsFcn
<1> QED BY <1>1, <1>2 DEF OneChange

LEMMA OneArray ==
  ASSUME [Next]_vars
  PROVE  OneChange(length, length') /\ OneChange(capacity, capacity')
<1>1. ASSUME UNCHANGED dataVars
      PROVE  OneChange(length, length') /\ OneChange(capacity, capacity')
  BY <1>1 DEF dataVars, OneChange
<1>2. ASSUME NEW a, NEW i, NEW e, Array_set(a, i, e)
      PROVE  OneChange(length, length') /\ OneChange(capacity, capacity')
  BY <1>1, <1>2 DEF Array_set, OneChange
<1>3. ASSUME NEW a, NEW i, NEW e, NEW before, _array_insert(a, i, e, before)
      PROVE  OneChange(length, length') /\ OneChange(capacity, capacity')
  BY <1>1, <1>3 DEF _array_insert, OneChange
<1>4. ASSUME NEW a, NEW r, Array_new(a, r)
      PROVE  OneChange(length, length') /\ OneChange(capacity, capacity')
  BY <1>4 DEF Array_new, OneChange
<1>5. ASSUME NEW a, NEW i, Array_del(a, i)
      PROVE  OneChange(length, length') /\ OneChange(capacity, capacity')
  BY <1>5 DEF Array_del, OneChange
<1>6. ASSUME NEW a, Array_clear(a) \/ Array_sort(a)
      PROVE  OneChange(length, length') /\ OneChange(capacity, capacity')
  BY <1>6 DEF Array_clear, Array_sort, OneChange
<1>7. CASE App
  <2>1. CASE AppObject \/ AppCopy
    BY <1>1, <2>1 DEF AppObject, AppCopy
  <2>2. CASE AppNew
    BY <1>4, <2>2 DEF AppNew
  <2>3. CASE AppSlice
    BY <1>4, <2>3, Zenon DEF AppSlice
  <2>4. CASE AppSet
    BY <1>2, <2>4 DEF AppSet
  <2>5. CASE AppDel
    BY <1>5, <2>5 DEF AppDel
  <2>6. CASE AppInsert
    BY <1>3, <2>6 DEF AppInsert
  <2>7. CASE AppClear \/ AppSort
    BY <1>6, <2>7 DEF AppClear, AppSort
  <2> QED BY <1>7, <2>1, <2>2, <2>3, <2>4, <2>5, <2>6, <2>7 DEF App
<1>8. CASE CopyStep \/ SliceStep \/ LoopReturns
  BY <1>1, <1>2, <1>3, <1>8 DEF CopyStep, SliceStep, LoopReturns, Untouched
<1>9. CASE UNCHANGED vars
  BY <1>1, <1>9 DEF vars
<1> QED BY <1>7, <1>8, <1>9 DEF Next

LEMMA FcnsHold == Spec => []Fcns
<1>1. Init => Fcns
  BY DEF Init, Fcns, IsFcn
<1>2. Fcns /\ [Next]_vars => Fcns'
  BY OneArray, StaysFcn DEF Fcns
<1> QED BY <1>1, <1>2, PTL DEF Spec

LEMMA TypesHold == Inv /\ Exact /\ Fcns => TypeOK
<1> SUFFICES ASSUME Inv, Exact, Fcns PROVE TypeOK
  OBVIOUS
<1>1. \A a \in Arrays : length[a] \in Nat /\ capacity[a] \in Nat
  BY DEF Inv, Blocks, Memory
<1>2. length \in [Arrays -> Nat] /\ capacity \in [Arrays -> Nat]
  BY <1>1 DEF Fcns, IsFcn
<1>3. \A a \in Arrays : elements[a] \in [0..(capacity[a] - 1) -> Elements]
  BY DEF Inv, Blocks, Memory
<1>4. outside \subseteq {"set", "del", "insert"} /\ alive \subseteq Arrays
  BY DEF Inv, Inside, Shape
<1> QED BY <1>2, <1>3, <1>4 DEF Inv, CallOK, Exact, Typed, TypeOK, ObjectTypeOK

(* The reference counts of the elements of retaining arrays are exact as    *)
(* long as the program runs, through growing, failed reallocations, copies, *)
(* slices and ends of arrays; every value has its type; what lies behind    *)
(* the length is NULL; and find finds, forwards, the first element that is  *)
(* accepted.                                                                *)
THEOREM ElementsCorrect == Spec => []ElementsOK
<1>1. Inv /\ Exact /\ Fcns => ElementsOK
  BY Implied, CountsHold, TypesHold, Finds DEF ElementsOK
<1> QED BY <1>1, InvHolds, ExactHolds, FcnsHold, PTL

----------------------------------------------------------------------------
(* How the program ends in array.h.                                         *)

LEMMA TimesIs ==
  ASSUME Inv, NEW a \in alive, NEW o
  PROVE  /\ Times(a, o) = Cardinality(Hit(length[a], elements[a], o)) /\ Times(a, o) \in Nat
         /\ Times(a, o) > 0 <=> \E i \in 0 .. (length[a] - 1) : elements[a][i] = o
<1>1. length[a] \in Nat
  BY DEF Inv, Shape, Blocks, Memory
<1>2. Times(a, o) = Cardinality(Hit(length[a], elements[a], o))
  BY DEF Times, Hit
<1>3. IsFiniteSet(Hit(length[a], elements[a], o)) /\ Times(a, o) \in Nat
  BY <1>1, <1>2, HitFinite
<1>4. Times(a, o) = 0 <=> Hit(length[a], elements[a], o) = {}
  BY <1>2, <1>3, FS_EmptySet
<1>5. Hit(length[a], elements[a], o) # {} <=> \E i \in 0 .. (length[a] - 1) : elements[a][i] = o
  BY DEF Hit
<1> QED BY <1>2, <1>3, <1>4, <1>5

SetEnd(a, e) ==
  \/ fault' = "exit" /\ retain[a] /\ nullable[a]
  \/ \E o \in Objs : fault' = "freed" /\ gcCount[o] = 1 /\ held[o] = 0 /\ retain[a] /\ Times(a, o) = 1
  \/ fault' = "freed" /\ retain[a] /\ e \in Objs /\ gcCount[e] = 0

LEMMA SetEnds ==
  ASSUME Inv, Exact, fault = "none", NEW a \in alive, NEW i \in Nat, NEW e \in Elements,
         Array_set(a, i, e), fault' # fault
  PROVE  SetEnd(a, e)
<1>1. PICK n : n = IF i < length[a] THEN length[a] ELSE i + 1
  OBVIOUS
<1>2. PICK old : old = Room(a, n)[i]
  OBVIOUS
<1>3. Swap(a, old, e) /\ (nullable[a] \/ (e # NULL /\ i < length[a]))
  BY <1>1, <1>2 DEF Array_set, MaySet
<1>4. retain[a] /\ IF e = NULL THEN fault' = "exit"
                   ELSE /\ (IF old = NULL THEN gcCount ELSE Object_release(gcCount, old))[e] = 0
                        /\ fault' = "freed"
  BY <1>3 DEF Swap
<1>5. CASE e = NULL
  <2>1. nullable[a] \in BOOLEAN
    BY DEF Inv, Shape, Exact, Typed
  <2> QED BY <1>3, <1>4, <1>5, <2>1 DEF SetEnd
<1>6. CASE e # NULL
  <2>1. PICK o \in Objs : o = e
    BY <1>6 DEF Elements
  <2>2. gcCount \in [Objs -> Nat] /\ held[o] \in Nat
    BY DEF Exact, Typed
  <2>3. CASE old = o
    <3>1. a \in Arrays /\ Block(length[a], capacity[a], elements[a]) /\ length[a] \in Nat
      BY DEF Inv, Shape, Blocks, Block
    <3>2. n \in Nat /\ i < n
      BY <1>1, <3>1
    <3>3. SetTo(a, i, e, n, Room(a, n), o)
      BY <1>1, <3>1, SetHits
    <3>4. i \in Hit(length[a], elements[a], o)
      BY <1>2, <2>3, <3>3 DEF SetTo
    <3>5. i \in 0 .. (length[a] - 1) /\ elements[a][i] = o
      BY <3>4 DEF Hit
    <3>6. gcCount[o] >= held[o] + 1 /\ gcCount[o] \in Nat
      BY <1>4, <3>5, Releasing
    <3>7. o # NULL
      BY ArrayAssumption
    <3>8. gcCount[o] - 1 = 0 /\ fault' = "freed"
      BY <1>4, <1>6, <2>1, <2>2, <2>3, <3>7 DEF Object_release
    <3>9. gcCount[o] = 1 /\ held[o] = 0
      BY <2>2, <3>6, <3>8
    <3>10. Times(a, o) \in Nat /\ Times(a, o) > 0 /\ gcCount[o] >= held[o] + Times(a, o)
      <4>1. \E k \in 0 .. (length[a] - 1) : elements[a][k] = o
        BY <3>5
      <4>2. gcCount[o] >= held[o] + Cardinality(Hit(length[a], elements[a], o))
        BY <1>4, AtLeast
      <4> QED BY <4>1, <4>2, TimesIs
    <3>11. Times(a, o) = 1
      BY <3>9, <3>10
    <3> QED BY <1>4, <3>8, <3>9, <3>11 DEF SetEnd
  <2>4. CASE old # o
    <3>1. (IF old = NULL THEN gcCount ELSE Object_release(gcCount, old))[o] = gcCount[o]
      BY <2>2, <2>4 DEF Object_release
    <3>2. gcCount[o] = 0 /\ fault' = "freed"
      BY <1>4, <1>6, <2>1, <3>1
    <3> QED BY <1>4, <2>1, <3>2 DEF SetEnd
  <2> QED BY <2>3, <2>4
<1> QED BY <1>5, <1>6

(* The ways in which the property says that the program ends.               *)
AsStated ==
  \/ fault' = "exit" /\ \E a \in alive : retain[a] /\ (nullable[a] \/ nullable'[a])
  \/ \E o \in Objs : /\ fault' = "freed" /\ gcCount[o] = 1 /\ held[o] = 0
                     /\ \E a \in alive : retain[a] /\ Times(a, o) = 1
  \/ /\ fault' = "freed" /\ call.pc = "copy" /\ ~retain[call.this] /\ retain[call.that]
     /\ \E o \in Objs : gcCount[o] = 0 /\ Times(call.this, o) > 0

LEMMA StepEnds == Inv /\ Exact /\ [Next]_vars /\ fault' # fault => AsStated
<1> SUFFICES ASSUME Inv, Exact, [Next]_vars, fault' # fault PROVE AsStated
  OBVIOUS
<1>1. Next
  BY DEF vars
<1>2. fault = "none"
  BY <1>1 DEF Next, App, AppRuns, AppObject, AppNew, AppSet, AppDel, AppInsert, AppClear, AppSort,
       AppCopy, AppSlice, CopyStep, SliceStep, LoopReturns
<1>3. ASSUME NEW a \in alive, retain[a], NEW i \in 0 .. (length[a] - 1), elements[a][i] = NULL
      PROVE  nullable[a]
  <2>1. nullable[a] \in BOOLEAN
    BY DEF Inv, Shape, Exact, Typed
  <2> QED BY <1>3, <2>1 DEF Exact, NoHoles
<1>4. ASSUME NEW a \in alive, NEW index, NEW e, NEW before, _array_insert(a, index, e, before)
      PROVE  AsStated
  <2>1. retain[a] /\ e = NULL /\ fault' = "exit" /\ (nullable[a] \/ e # NULL)
    BY <1>4 DEF _array_insert
  <2>2. nullable[a]
    BY <2>1
  <2> QED BY <2>1, <2>2 DEF AsStated
<1>5. CASE AppSet
  <2>1. PICK a \in alive, i \in 0 .. (MaxLength - 1), e \in Elements : MayPass(a, e) /\ Array_set(a, i, e)
    BY <1>5 DEF AppSet
  <2>2. i \in Nat
    BY <2>1 DEF Array_set, MaySet
  <2>3. SetEnd(a, e)
    BY <1>2, <2>1, <2>2, SetEnds
  <2>4. ~(retain[a] /\ e \in Objs /\ gcCount[e] = 0)
    BY <2>1, ArrayAssumption DEF MayPass, Allocated
  <2> QED BY <2>3, <2>4 DEF SetEnd, AsStated
<1>6. CASE AppDel
  <2>1. PICK a \in alive : \E i \in 0 .. (length[a] - 1) : Array_del(a, i)
    BY <1>6 DEF AppDel
  <2>2. PICK i \in 0 .. (length[a] - 1) : Array_del(a, i)
    BY <2>1
  <2>3. retain[a] /\ elements[a][i] = NULL /\ fault' = "exit"
    BY <2>2 DEF Array_del
  <2>4. nullable[a]
    BY <1>3, <2>3
  <2> QED BY <2>3, <2>4 DEF AsStated
<1>7. CASE AppInsert
  <2>1. PICK a \in alive, e \in Elements, before \in BOOLEAN :
          \E i \in -1 .. length[a] : _array_insert(a, i, e, before)
    BY <1>7 DEF AppInsert
  <2> QED BY <1>4, <2>1
<1>8. CASE AppClear
  <2>1. PICK a \in alive : Array_clear(a)
    BY <1>8 DEF AppClear
  <2>2. retain[a] /\ Times(a, NULL) > 0 /\ fault' = "exit"
    BY <2>1 DEF Array_clear
  <2>3. \E i \in 0 .. (length[a] - 1) : elements[a][i] = NULL
    BY <2>2, TimesIs
  <2>4. nullable[a]
    BY <1>3, <2>2, <2>3
  <2> QED BY <2>2, <2>4 DEF AsStated
<1>9. CASE CopyStep
  <2>1. call.pc = "copy" /\ call.that \in alive /\ call.this \in alive /\ call.i \in Nat /\ call.i \in Int
    BY <1>9 DEF CopyStep, Inv, CallOK
  <2>2. Array_set(call.that, call.i, Item)
    BY <1>9 DEF CopyStep, Untouched
  <2>3. Item \in Elements
    BY <2>1, GetElement DEF Item
  <2>4. SetEnd(call.that, Item)
    BY <1>2, <2>1, <2>2, <2>3, SetEnds
  <2>5. CASE fault' = "freed" /\ retain[call.that] /\ Item \in Objs /\ gcCount[Item] = 0
    <3>1. PICK o \in Objs : o = Item
      BY <2>5
    <3>2. call.i \in 0 .. (length[call.this] - 1) /\ elements[call.this][call.i] = o
      <4>1. o # NULL
        BY ArrayAssumption
      <4> QED BY <3>1, <4>1 DEF Item, Array_get
    <3>3. Times(call.this, o) > 0
      BY <2>1, <3>2, TimesIs
    <3>4. ~retain[call.this]
      <4> SUFFICES ASSUME retain[call.this] PROVE FALSE
        OBVIOUS
      <4>1. gcCount[o] >= held[o] + 1 /\ held[o] \in Nat
        BY <1>2, <2>1, <3>2, Releasing
      <4> QED BY <2>5, <3>1, <4>1
    <3> QED BY <2>1, <2>5, <3>1, <3>3, <3>4 DEF AsStated
  <2> QED BY <2>1, <2>4, <2>5 DEF SetEnd, AsStated
<1>10. CASE SliceStep
  <2>1. call.that \in alive
    BY <1>10 DEF SliceStep, Inv, CallOK
  <2>2. _array_insert(call.that, length[call.that] - 1, Item, FALSE)
    BY <1>10 DEF SliceStep, Untouched
  <2> QED BY <1>4, <2>1, <2>2
<1>11. CASE AppObject \/ AppNew \/ AppSort \/ AppCopy \/ AppSlice \/ LoopReturns
  BY <1>11 DEF AppObject, AppNew, AppSort, Array_sort, AppCopy, AppSlice, LoopReturns, Untouched
<1> QED BY <1>1, <1>5, <1>6, <1>7, <1>8, <1>9, <1>10, <1>11 DEF Next, App

(* array.h ends the program only for a nullable array that retains, for an  *)
(* object whose last reference the array itself gave up when it stored it   *)
(* again, and for an object that copyTo has freed before it came to it.     *)
THEOREM EndsCorrect == Spec => Ends
<1>1. Inv /\ Exact /\ [Next]_vars => [fault' # fault => AsStated]_vars
  BY StepEnds
<1>2. Ends <=> [][fault' # fault => AsStated]_vars
  BY PTL DEF Ends, AsStated
<1> QED BY <1>1, <1>2, InvHolds, ExactHolds, PTL DEF Spec

----------------------------------------------------------------------------
(* What a handler makes of the elements up to the length.                   *)

Alone(a) == \A b \in Arrays : b # a => length'[b] = length[b] /\ elements'[b] = elements[b]

Writes(a, i, e) ==
  /\ Alone(a)
  /\ length'[a] = IF i < length[a] THEN length[a] ELSE i + 1
  /\ \A j \in 0 .. (length'[a] - 1) :
       elements'[a][j] = IF j = i THEN e ELSE IF j < length[a] THEN elements[a][j] ELSE NULL
Wedges(a, to, e) ==
  /\ Alone(a)
  /\ length'[a] = length[a] + 1
  /\ \A j \in 0 .. length[a] :
       elements'[a][j] = IF j < to THEN elements[a][j] ELSE IF j = to THEN e ELSE elements[a][j - 1]
Drops(a, i) ==
  /\ Alone(a)
  /\ length'[a] = length[a] - 1
  /\ \A j \in 0 .. (length[a] - 2) :
       elements'[a][j] = IF j < i THEN elements[a][j] ELSE elements[a][j + 1]

LEMMA SetWrites ==
  ASSUME Inv, NEW a \in alive, NEW i \in Nat, NEW e \in Elements, Array_set(a, i, e)
  PROVE  \/ UNCHANGED dataVars /\ i >= capacity[a]
         \/ Writes(a, i, e)
<1> DEFINE n == IF i < length[a] THEN length[a] ELSE i + 1
           els == Room(a, n)
<1>1. a \in Arrays /\ Block(length[a], capacity[a], elements[a])
  BY DEF Inv, Shape, Blocks
<1>2. /\ n \in Nat /\ i < n /\ length[a] \in Nat /\ capacity[a] \in Nat
      /\ length[a] <= capacity[a] /\ length[a] <= n
  BY <1>1 DEF Block
<1>3. CASE Fails(a, n) /\ UNCHANGED dataVars
  <2>1. n > capacity[a]
    BY <1>3 DEF Fails
  <2>2. i >= capacity[a]
    BY <1>2, <2>1
  <2> QED BY <1>3, <2>2
<1>4. CASE /\ length' = [length EXCEPT ![a] = n]
           /\ elements' = [elements EXCEPT ![a] = Store(els, i, e)]
  <2> HIDE DEF n
  <2>1. Block(length[a], Capacity(a, n), els) /\ Capacity(a, n) >= n
    BY <1>1, <1>2, RoomBlock
  <2>2. \A j \in 0 .. (length[a] - 1) : els[j] = elements[a][j]
    BY <1>1, <1>2, RoomAt
  <2> HIDE DEF els
  <2>3. PICK c \in Nat : c = Capacity(a, n)
    BY <2>1 DEF Block
  <2>4. /\ c >= n /\ DOMAIN els = 0 .. c - 1
        /\ \A j \in 0 .. c - 1 : j >= length[a] => els[j] = NULL
    BY <2>1, <2>3 DEF Block
  <2>5. /\ length'[a] = n /\ elements'[a] = Store(els, i, e)
        /\ \A b \in Arrays : b # a => length'[b] = length[b] /\ elements'[b] = elements[b]
    BY <1>1, <1>4 DEF Inv, Shape
  <2>6. ASSUME NEW j \in 0 .. (n - 1)
        PROVE  elements'[a][j] =
                 IF j = i THEN e ELSE IF j < length[a] THEN elements[a][j] ELSE NULL
    <3>1. j \in 0 .. c - 1
      BY <1>2, <2>4
    <3>2. elements'[a][j] = IF j = i THEN e ELSE els[j]
      BY <2>4, <2>5, <3>1 DEF Store
    <3>3. els[j] = IF j < length[a] THEN elements[a][j] ELSE NULL
      BY <1>2, <2>2, <2>4, <3>1
    <3> QED BY <3>2, <3>3
  <2>7. length'[a] = IF i < length[a] THEN length[a] ELSE i + 1
    BY <2>5 DEF n
  <2> QED BY <2>5, <2>6, <2>7 DEF Writes, Alone
<1> QED BY <1>3, <1>4 DEF Array_set

LEMMA InsertWrites ==
  ASSUME Inv, NEW a \in alive, NEW index \in Int, NEW e \in Elements, NEW before \in BOOLEAN,
         _array_insert(a, index, e, before)
  PROVE  \/ UNCHANGED dataVars /\ (e = NULL \/ length[a] = capacity[a])
         \/ Wedges(a, Target(a, index, before), e)
<1> DEFINE n == length[a] + 1
           els == Room(a, n)
           to == Target(a, index, before)
<1>1. a \in Arrays /\ Block(length[a], capacity[a], elements[a])
  BY DEF Inv, Shape, Blocks
<1>2. /\ n \in Nat /\ length[a] \in Nat /\ capacity[a] \in Nat /\ length[a] <= capacity[a]
  BY <1>1 DEF Block
<1>3. to \in 0 .. length[a]
  BY <1>2 DEF Target
<1>4. CASE Fails(a, n) /\ UNCHANGED dataVars
  <2>1. n > capacity[a]
    BY <1>4 DEF Fails
  <2>2. length[a] = capacity[a]
    BY <1>2, <2>1
  <2> QED BY <1>4, <2>2
<1>5. CASE /\ length' = [length EXCEPT ![a] = n]
           /\ elements' = [elements EXCEPT ![a] = Inserted(a, els, to, e)]
  <2> HIDE DEF to
  <2>1. Block(length[a], Capacity(a, n), els) /\ Capacity(a, n) >= n
    BY <1>1, <1>2, RoomBlock
  <2>2. \A j \in 0 .. (length[a] - 1) : els[j] = elements[a][j]
    BY <1>1, <1>2, RoomAt
  <2> HIDE DEF els
  <2>3. PICK c \in Nat : c = Capacity(a, n)
    BY <2>1 DEF Block
  <2>4. c >= n /\ DOMAIN els = 0 .. c - 1
    BY <2>1, <2>3 DEF Block
  <2>5. /\ length'[a] = n /\ elements'[a] = Inserted(a, els, to, e)
        /\ \A b \in Arrays : b # a => length'[b] = length[b] /\ elements'[b] = elements[b]
    BY <1>1, <1>5 DEF Inv, Shape
  <2>6. ASSUME NEW j \in 0 .. length[a]
        PROVE  elements'[a][j] = IF j < to THEN elements[a][j]
                                 ELSE IF j = to THEN e ELSE elements[a][j - 1]
    <3>1. j \in 0 .. c - 1
      BY <1>2, <2>4
    <3>2. elements'[a][j] =
            CASE j = to -> e [] j \in (to + 1) .. length[a] -> els[j - 1] [] OTHER -> els[j]
      BY <2>4, <2>5, <3>1 DEF Inserted
    <3>3. CASE j < to
      <4>1. j \in 0 .. (length[a] - 1) /\ j # to /\ j \notin (to + 1) .. length[a]
        BY <3>3, <1>2, <1>3
      <4> QED BY <3>2, <3>3, <4>1, <2>2
    <3>4. CASE j = to
      BY <3>2, <3>4, <1>3
    <3>5. CASE j > to
      <4>1. j - 1 \in 0 .. (length[a] - 1) /\ j # to /\ j \in (to + 1) .. length[a] /\ ~(j < to)
        BY <3>5, <1>2, <1>3
      <4> QED BY <3>2, <4>1, <2>2
    <3>6. j < to \/ j = to \/ j > to
      BY <1>2, <1>3
    <3> QED BY <3>3, <3>4, <3>5, <3>6, Zenon
  <2> QED BY <2>5, <2>6 DEF Wedges, Alone, to
<1>6. CASE UNCHANGED dataVars /\ e = NULL
  BY <1>6
<1> QED BY <1>4, <1>5, <1>6 DEF _array_insert

LEMMA DelWrites ==
  ASSUME Inv, NEW a \in alive, NEW i, Array_del(a, i)
  PROVE  Drops(a, i) /\ i \in 0 .. (length[a] - 1)
<1> DEFINE last == length[a] - 1
           Moved(j) == CASE j \in i..(last - 1) -> elements[a][j + 1]
                         [] j \in last..length[a] -> NULL
                         [] OTHER -> elements[a][j]
<1>1. /\ i \in 0..last
      /\ elements' = [elements EXCEPT ![a] = [j \in DOMAIN @ |-> Moved(j)]]
      /\ length' = [length EXCEPT ![a] = last]
  BY DEF Array_del
<1>2. a \in Arrays /\ Block(length[a], capacity[a], elements[a])
  BY DEF Inv, Shape, Blocks
<1>3. /\ length[a] \in Nat /\ capacity[a] \in Nat /\ length[a] <= capacity[a]
      /\ DOMAIN elements[a] = 0 .. capacity[a] - 1
  BY <1>2 DEF Block
<1>4. /\ length'[a] = last /\ elements'[a] = [j \in DOMAIN elements[a] |-> Moved(j)]
      /\ \A b \in Arrays : b # a => length'[b] = length[b] /\ elements'[b] = elements[b]
  BY <1>1, <1>2 DEF Inv, Shape
<1>5. ASSUME NEW j \in 0 .. (length[a] - 2)
      PROVE  elements'[a][j] = IF j < i THEN elements[a][j] ELSE elements[a][j + 1]
  <2>1. j \in 0 .. capacity[a] - 1 /\ j \notin last .. length[a]
    BY <1>3
  <2>2. elements'[a][j] = Moved(j)
    BY <1>3, <1>4, <2>1
  <2>3. j \in i .. (last - 1) <=> ~(j < i)
    BY <1>1, <1>3
  <2>4. CASE j \in i .. (last - 1)
    <3>1. Moved(j) = elements[a][j + 1]
      BY <2>1, <2>4
    <3> QED BY <2>2, <2>3, <2>4, <3>1
  <2>5. CASE j \notin i .. (last - 1)
    BY <2>1, <2>2, <2>3, <2>5
  <2> QED BY <2>4, <2>5
<1> QED BY <1>1, <1>4, <1>5 DEF Drops, Alone

----------------------------------------------------------------------------
(* The refinement.                                                          *)

LEMMA Lists ==
  ASSUME NEW len, NEW cap, NEW els, Block(len, cap, els),
         NEW s, s = [j \in 1 .. len |-> els[j - 1]]
  PROVE  /\ s \in Seq(Elements) /\ Len(s) = len /\ len \in Nat
         /\ \A j \in 1 .. len : s[j] = els[j - 1]
<1>1. len \in Nat /\ len <= cap /\ cap \in Nat /\ els \in [0 .. cap - 1 -> Elements]
  BY DEF Block
<1>2. \A j \in 1 .. len : j - 1 \in 0 .. cap - 1
  BY <1>1
<1>3. (\A j \in 1 .. len : s[j] \in Elements) /\ s = [j \in 1 .. len |-> s[j]]
  BY <1>1, <1>2
<1>4. s \in Seq(Elements) /\ Len(s) = len
  BY <1>1, <1>3, FunctionIsSeq
<1> QED BY <1>1, <1>4

LEMMA ContentsTo ==
  ASSUME NEW a \in Arrays, Alone(a)
  PROVE  contents' = [contents EXCEPT ![a] = Content(a)'] /\ contents[a] = Content(a)
<1>1. \A b \in Arrays : b # a => Content(b)' = Content(b)
  BY DEF Alone, Content
<1> QED BY <1>1 DEF contents

LEMMA Stutters ==
  ASSUME UNCHANGED dataVars
  PROVE  contents' = contents
BY DEF dataVars, contents, Content

LEMMA SetImplements ==
  ASSUME Inv, Inv', NEW a \in alive, NEW i \in Nat, NEW e \in Elements, Array_set(a, i, e)
  PROVE  [Abstract!Next]_contents
<1>1. CASE UNCHANGED dataVars
  BY <1>1, Stutters
<1>2. CASE Writes(a, i, e)
  <2>1. a \in Arrays /\ alive' = alive
    BY DEF Inv, Shape, Array_set, structVars
  <2>2. Block(length[a], capacity[a], elements[a]) /\ Block(length[a], capacity[a], elements[a])'
    BY <2>1 DEF Inv, Blocks
  <2>3. PICK s : s = Content(a)
    OBVIOUS
  <2>4. PICK t : t = Content(a)'
    OBVIOUS
  <2>5. /\ s \in Seq(Elements) /\ Len(s) = length[a] /\ length[a] \in Nat
        /\ \A j \in 1 .. length[a] : s[j] = elements[a][j - 1]
    BY <2>2, <2>3, Lists DEF Content
  <2>6. /\ t \in Seq(Elements) /\ Len(t) = length'[a] /\ length'[a] \in Nat
        /\ \A j \in 1 .. length'[a] : t[j] = elements'[a][j - 1]
    BY <2>2, <2>4, Lists DEF Content
  <2>7. contents' = [contents EXCEPT ![a] = t] /\ contents[a] = s
    BY <1>2, <2>1, <2>3, <2>4, ContentsTo DEF Writes
  <2>8. \A j \in 1 .. Len(t) :
          t[j] = IF j = i + 1 THEN e ELSE IF j <= Len(s) THEN s[j] ELSE NULL
    <3> SUFFICES ASSUME NEW j \in 1 .. Len(t)
                 PROVE  t[j] = IF j = i + 1 THEN e ELSE IF j <= Len(s) THEN s[j] ELSE NULL
      OBVIOUS
    <3>1. j - 1 \in 0 .. (length'[a] - 1)
      BY <2>6
    <3>2. t[j] = IF j - 1 = i THEN e ELSE IF j - 1 < length[a] THEN elements[a][j - 1] ELSE NULL
      BY <1>2, <2>6, <3>1 DEF Writes
    <3>3. j <= Len(s) => s[j] = elements[a][j - 1]
      BY <2>5, <2>6
    <3>4. j \in Nat /\ (j - 1 < length[a] <=> j <= Len(s)) /\ (j - 1 = i <=> j = i + 1)
      BY <2>5, <2>6
    <3> QED BY <3>2, <3>3, <3>4
  <2>9. CASE i < length[a]
    <3>1. Len(t) = Len(s) /\ i + 1 \in 1 .. Len(s)
      BY <1>2, <2>5, <2>6, <2>9 DEF Writes
    <3>2. [s EXCEPT ![i + 1] = e] \in Seq(Elements) /\ Len([s EXCEPT ![i + 1] = e]) = Len(s)
          /\ \A j \in 1 .. Len(s) : [s EXCEPT ![i + 1] = e][j] = IF j = i + 1 THEN e ELSE s[j]
      BY <2>5, <3>1, ExceptSeq
    <3>3. \A j \in 1 .. Len(t) : t[j] = [s EXCEPT ![i + 1] = e][j]
      BY <2>5, <2>8, <3>1, <3>2
    <3>4. t = [s EXCEPT ![i + 1] = e]
      BY <2>6, <3>1, <3>2, <3>3, SeqEqual
    <3>5. contents' = [contents EXCEPT ![a][i + 1] = e]
      BY <2>7, <3>4
    <3>6. i + 1 <= Len(contents[a])
      BY <2>7, <3>1
    <3>7. Abstract!Put(a, i + 1, e)
      BY <3>5, <3>6 DEF Abstract!Put
    <3>8. i + 1 \in 1 .. Len(contents[a])
      BY <2>7, <3>1
    <3> QED BY <2>1, <3>7, <3>8 DEF Abstract!Next
  <2>10. CASE ~(i < length[a])
    <3>1. Len(t) = i + 1
      BY <1>2, <2>6, <2>10 DEF Writes
    <3>2. PICK k \in Nat \ {0} : k = (i + 1) - Len(s)
      BY <2>5, <2>10
    <3>3. Len(t) = Len(s) + k /\ NULL \in Elements
      BY <2>5, <3>1, <3>2 DEF Elements
    <3>4. \A j \in 1 .. Len(t) :
            t[j] = IF j <= Len(s) THEN s[j] ELSE IF j = Len(t) THEN e ELSE NULL
      BY <2>5, <2>6, <2>8, <2>10, <3>1
    <3>5. t = s \o [j \in 1 .. k |-> IF j = k THEN e ELSE NULL]
      BY <2>5, <2>6, <3>3, <3>4, SequenceExtend
    <3>6. Abstract!Extend(a, k, e)
      BY <2>7, <3>5 DEF Abstract!Extend
    <3>7. contents'[a] = t
      BY <2>1, <2>4 DEF contents
    <3>8. k \in 1 .. Len(contents'[a])
      BY <2>5, <3>1, <3>2, <3>7
    <3> QED BY <2>1, <3>6, <3>8 DEF Abstract!Next
  <2> QED BY <2>9, <2>10
<1> QED BY <1>1, <1>2, SetWrites

LEMMA InsertImplements ==
  ASSUME Inv, Inv', NEW a \in alive, NEW index \in Int, NEW e \in Elements, NEW before \in BOOLEAN,
         _array_insert(a, index, e, before)
  PROVE  [Abstract!Next]_contents
<1>1. CASE UNCHANGED dataVars
  BY <1>1, Stutters
<1>2. CASE Wedges(a, Target(a, index, before), e)
  <2>1. a \in Arrays /\ alive' = alive
    BY DEF Inv, Shape, _array_insert, structVars
  <2>2. Block(length[a], capacity[a], elements[a]) /\ Block(length[a], capacity[a], elements[a])'
    BY <2>1 DEF Inv, Blocks
  <2>3. PICK s : s = Content(a)
    OBVIOUS
  <2>4. PICK t : t = Content(a)'
    OBVIOUS
  <2>5. /\ s \in Seq(Elements) /\ Len(s) = length[a] /\ length[a] \in Nat
        /\ \A j \in 1 .. length[a] : s[j] = elements[a][j - 1]
    <3>1. s = [j \in 1 .. length[a] |-> elements[a][j - 1]]
      BY <2>3 DEF Content
    <3>2. PICK len, cap, els : len = length[a] /\ cap = capacity[a] /\ els = elements[a]
      OBVIOUS
    <3>3. Block(len, cap, els) /\ s = [j \in 1 .. len |-> els[j - 1]]
      BY <2>2, <3>1, <3>2
    <3>4. /\ s \in Seq(Elements) /\ Len(s) = len /\ len \in Nat
          /\ \A j \in 1 .. len : s[j] = els[j - 1]
      BY <3>3, Lists
    <3> QED BY <3>2, <3>4
  <2>6. /\ t \in Seq(Elements) /\ Len(t) = length'[a] /\ length'[a] \in Nat
        /\ \A j \in 1 .. length'[a] : t[j] = elements'[a][j - 1]
    BY <2>2, <2>4, Lists DEF Content
  <2>7. contents' = [contents EXCEPT ![a] = t] /\ contents[a] = s
    BY <1>2, <2>1, <2>3, <2>4, ContentsTo DEF Wedges
  <2>8. PICK to : to = Target(a, index, before)
    OBVIOUS
  <2>9. to \in 0 .. length[a]
    BY <2>5, <2>8 DEF Target
  <2>10. to + 1 \in 1 .. (Len(s) + 1) /\ Len(t) = Len(s) + 1
    BY <1>2, <2>5, <2>6, <2>9 DEF Wedges
  <2>11. ASSUME NEW j \in 1 .. Len(t)
         PROVE  t[j] = IF j < to + 1 THEN s[j] ELSE IF j = to + 1 THEN e ELSE s[j - 1]
    <3>1. j - 1 \in 0 .. length[a] /\ t[j] = elements'[a][j - 1] /\ j \in Nat
      BY <2>5, <2>6, <2>10
    <3>2. t[j] = IF j - 1 < to THEN elements[a][j - 1]
                 ELSE IF j - 1 = to THEN e ELSE elements[a][j - 1 - 1]
      BY <1>2, <2>8, <3>1 DEF Wedges
    <3>3. j - 1 < to => s[j] = elements[a][j - 1]
      BY <2>5, <2>9, <3>1
    <3>4. ~(j - 1 < to) /\ j - 1 # to => s[j - 1] = elements[a][j - 1 - 1]
      BY <2>5, <2>9, <2>10, <3>1
    <3>5. (j - 1 < to <=> j < to + 1) /\ (j - 1 = to <=> j = to + 1)
      BY <2>9, <3>1
    <3> QED BY <3>2, <3>3, <3>4, <3>5
  <2>12. t = SubSeq(s, 1, (to + 1) - 1) \o <<e>> \o SubSeq(s, to + 1, Len(s))
    BY <2>5, <2>6, <2>10, <2>11, SequenceInsert
  <2>13. Abstract!InsertAt(a, to + 1, e)
    BY <2>7, <2>12 DEF Abstract!InsertAt
  <2>14. to + 1 \in 1 .. (Len(contents[a]) + 1)
    BY <2>7, <2>10
  <2> QED BY <2>1, <2>13, <2>14 DEF Abstract!Next
<1> QED BY <1>1, <1>2, InsertWrites

LEMMA DelImplements ==
  ASSUME Inv, Inv', NEW a \in alive, NEW i, Array_del(a, i)
  PROVE  [Abstract!Next]_contents
<1>1. Drops(a, i) /\ i \in 0 .. (length[a] - 1)
  BY DelWrites
<1>2. a \in Arrays /\ alive' = alive
  BY DEF Inv, Shape, Array_del, structVars
<1>3. Block(length[a], capacity[a], elements[a]) /\ Block(length[a], capacity[a], elements[a])'
  BY <1>2 DEF Inv, Blocks
<1>4. PICK s : s = Content(a)
  OBVIOUS
<1>5. PICK t : t = Content(a)'
  OBVIOUS
<1>6. /\ s \in Seq(Elements) /\ Len(s) = length[a] /\ length[a] \in Nat
      /\ \A j \in 1 .. length[a] : s[j] = elements[a][j - 1]
  BY <1>3, <1>4, Lists DEF Content
<1>7. /\ t \in Seq(Elements) /\ Len(t) = length'[a] /\ length'[a] \in Nat
      /\ \A j \in 1 .. length'[a] : t[j] = elements'[a][j - 1]
  BY <1>3, <1>5, Lists DEF Content
<1>8. contents' = [contents EXCEPT ![a] = t] /\ contents[a] = s
  BY <1>1, <1>2, <1>4, <1>5, ContentsTo DEF Drops
<1>9. i + 1 \in 1 .. Len(s) /\ Len(t) = Len(s) - 1
  BY <1>1, <1>6, <1>7 DEF Drops
<1>10. ASSUME NEW j \in 1 .. Len(t)
       PROVE  t[j] = IF j < i + 1 THEN s[j] ELSE s[j + 1]
  <2>1. j - 1 \in 0 .. (length[a] - 2) /\ t[j] = elements'[a][j - 1] /\ j \in Nat
    BY <1>6, <1>7, <1>9
  <2>2. t[j] = IF j - 1 < i THEN elements[a][j - 1] ELSE elements[a][(j - 1) + 1]
    BY <1>1, <2>1 DEF Drops
  <2>3. s[j] = elements[a][j - 1]
    BY <1>6, <2>1
  <2>4. s[j + 1] = elements[a][(j - 1) + 1]
    <3>1. j + 1 \in 1 .. length[a] /\ (j + 1) - 1 = (j - 1) + 1
      BY <1>6, <2>1
    <3> QED BY <1>6, <3>1
  <2>5. j - 1 < i <=> j < i + 1
    BY <1>1, <2>1
  <2> QED BY <2>2, <2>3, <2>4, <2>5
<1>11. t = SubSeq(s, 1, (i + 1) - 1) \o SubSeq(s, (i + 1) + 1, Len(s))
  BY <1>6, <1>7, <1>9, <1>10, SequenceRemove
<1>12. Abstract!RemoveAt(a, i + 1)
  BY <1>8, <1>11 DEF Abstract!RemoveAt
<1>13. i + 1 \in 1 .. Len(contents[a])
  BY <1>8, <1>9
<1> QED BY <1>2, <1>12, <1>13 DEF Abstract!Next

(* A new array, and one that has been cleared.                              *)
LEMMA EmptyImplements ==
  ASSUME NEW a \in Arrays, Alone(a), length'[a] = 0
  PROVE  [Abstract!Next]_contents
<1>1. Content(a)' = <<>>
  BY DEF Content
<1>2. contents' = [contents EXCEPT ![a] = <<>>]
  BY <1>1, ContentsTo
<1> QED BY <1>2 DEF Abstract!Clear, Abstract!Next

LEMMA NewImplements ==
  ASSUME Inv, NEW a \in Arrays, NEW r, Array_new(a, r)
  PROVE  [Abstract!Next]_contents
<1>1. length'[a] = 0 /\ Alone(a)
  BY DEF Array_new, Inv, Shape, Alone
<1> QED BY <1>1, EmptyImplements

LEMMA ClearImplements ==
  ASSUME Inv, NEW a \in alive, Array_clear(a)
  PROVE  [Abstract!Next]_contents
<1>1. length'[a] = 0 /\ Alone(a) /\ a \in Arrays
  BY DEF Array_clear, Inv, Shape, Alone
<1> QED BY <1>1, EmptyImplements

(* Values that change places.                                               *)
Often(n, s, v) == Cardinality({j \in 1 .. n : s[j] = v})

LEMMA AsOften ==
  ASSUME NEW n \in Nat, NEW p \in Bijection(1 .. n, 1 .. n), NEW s, NEW t,
         \A j \in 1 .. n : t[j] = s[p[j]], NEW v
  PROVE  Often(n, s, v) = Often(n, t, v)
<1> DEFINE S == {j \in 1 .. n : t[j] = v}
           T == {j \in 1 .. n : s[j] = v}
           f == [j \in S |-> p[j]]
<1>1. /\ p \in [1 .. n -> 1 .. n]
      /\ \A x, y \in 1 .. n : p[x] = p[y] => x = y
      /\ \A y \in 1 .. n : \E x \in 1 .. n : p[x] = y
  BY DEF Bijection, Injection, Surjection, IsInjective
<1>2. f \in [S -> T]
  BY <1>1
<1>3. \A x, y \in S : f[x] = f[y] => x = y
  BY <1>1
<1>4. ASSUME NEW y \in T PROVE \E x \in S : f[x] = y
  <2>1. PICK x \in 1 .. n : p[x] = y
    BY <1>1
  <2>2. x \in S
    BY <2>1
  <2> QED BY <2>1, <2>2
<1>5. IsFiniteSet(S)
  <2>1. IsFiniteSet(1 .. n)
    BY FS_Interval
  <2> QED BY <2>1, FS_Subset
<1> HIDE DEF S, T, f
<1>6. Cardinality(T) = Cardinality(S)
  BY <1>2, <1>3, <1>4, <1>5, SameSize
<1> QED BY <1>6 DEF S, T, Often

LEMMA SameCardinality == \A S : Abstract!Cardinality(S) = Cardinality(S)
BY DEF Abstract!Cardinality, Cardinality

LEMMA SortImplements ==
  ASSUME Inv, Inv', NEW a \in alive, Array_sort(a)
  PROVE  [Abstract!Next]_contents
<1>1. PICK p \in Bijection(1 .. length[a], 1 .. length[a]) :
        elements' = [elements EXCEPT ![a] =
                       [i \in DOMAIN @ |-> IF i < length[a] THEN @[p[i + 1] - 1] ELSE @[i]]]
  BY DEF Array_sort
<1>2. alive' = alive /\ length' = length /\ a \in Arrays
  BY DEF Array_sort, structVars, Inv, Shape
<1>3. Block(length[a], capacity[a], elements[a]) /\ Block(length[a], capacity[a], elements[a])'
  BY <1>2 DEF Inv, Blocks
<1>4. PICK s : s = Content(a)
  OBVIOUS
<1>5. PICK t : t = Content(a)'
  OBVIOUS
<1>6. /\ s \in Seq(Elements) /\ Len(s) = length[a] /\ length[a] \in Nat
      /\ \A j \in 1 .. length[a] : s[j] = elements[a][j - 1]
  BY <1>3, <1>4, Lists DEF Content
<1>7. /\ t \in Seq(Elements) /\ Len(t) = length[a]
      /\ \A j \in 1 .. length[a] : t[j] = elements'[a][j - 1]
  <2>1. t = [j \in 1 .. length'[a] |-> elements'[a][j - 1]]
    BY <1>5 DEF Content
  <2>2. Len(t) = length'[a] /\ t \in Seq(Elements)
        /\ \A j \in 1 .. length'[a] : t[j] = elements'[a][j - 1]
    BY <1>3, <2>1, Lists
  <2> QED BY <1>2, <2>2
<1>8. Alone(a) /\ elements'[a] = [i \in DOMAIN elements[a] |->
                    IF i < length[a] THEN elements[a][p[i + 1] - 1] ELSE elements[a][i]]
  BY <1>1, <1>2 DEF Inv, Shape, Alone
<1>9. contents' = [contents EXCEPT ![a] = t] /\ contents[a] = s
  BY <1>2, <1>4, <1>5, <1>8, ContentsTo
<1>10. \A j \in 1 .. length[a] : p[j] \in 1 .. length[a]
  BY DEF Bijection, Injection
<1>11. ASSUME NEW j \in 1 .. length[a] PROVE t[j] = s[p[j]]
  <2>1. length[a] <= capacity[a] /\ capacity[a] \in Nat /\ DOMAIN elements[a] = 0 .. capacity[a] - 1
    BY <1>3 DEF Block
  <2>2. j - 1 \in DOMAIN elements[a] /\ j - 1 < length[a] /\ (j - 1) + 1 = j
    BY <1>6, <2>1
  <2>3. elements'[a][j - 1] = elements[a][p[j] - 1]
    BY <1>8, <2>2
  <2>4. s[p[j]] = elements[a][p[j] - 1]
    BY <1>6, <1>10
  <2> QED BY <1>7, <2>3, <2>4
<1>12. DOMAIN s = 1 .. length[a]
  BY <1>6, LenProperties
<1>13. contents'[a] = t /\ \A b \in Arrays \ {a} : contents'[b] = contents[b]
  BY <1>2, <1>9 DEF contents
<1>14. ASSUME NEW v \in Elements
       PROVE  Cardinality({i \in DOMAIN contents[a] : contents[a][i] = v})
                = Cardinality({i \in DOMAIN contents[a] : contents'[a][i] = v})
  <2>1. {i \in DOMAIN contents[a] : contents[a][i] = v} = {j \in 1 .. length[a] : s[j] = v}
    BY <1>9, <1>12
  <2>2. {i \in DOMAIN contents[a] : contents'[a][i] = v} = {j \in 1 .. length[a] : t[j] = v}
    BY <1>9, <1>12, <1>13
  <2>3. Often(length[a], s, v) = Often(length[a], t, v)
    BY <1>6, <1>11, AsOften
  <2> QED BY <2>1, <2>2, <2>3 DEF Often
<1>15. Len(contents'[a]) = Len(contents[a])
  BY <1>6, <1>7, <1>9, <1>13
<1>16. Abstract!Reorder(a)
  BY <1>13, <1>14, <1>15, SameCardinality, Zenon DEF Abstract!Reorder
<1> QED BY <1>2, <1>16 DEF Abstract!Next

LEMMA StepImplements == Inv /\ Inv' /\ [Next]_vars => [Abstract!Next]_contents
<1> SUFFICES ASSUME Inv, Inv', [Next]_vars PROVE [Abstract!Next]_contents
  OBVIOUS
<1>1. CASE UNCHANGED dataVars
  BY <1>1, Stutters
<1>2. CASE AppNew
  <2>1. PICK a \in Arrays, r \in Retains : Array_new(a, r)
    BY <1>2 DEF AppNew
  <2> QED BY <2>1, NewImplements
<1>3. CASE AppSet
  <2>1. PICK a \in alive, i \in 0 .. (MaxLength - 1), e \in Elements : Array_set(a, i, e)
    BY <1>3 DEF AppSet
  <2>2. i \in Nat
    BY <2>1 DEF Array_set, MaySet
  <2> QED BY <2>1, <2>2, SetImplements
<1>4. CASE AppDel
  BY <1>4, DelImplements DEF AppDel
<1>5. CASE AppInsert
  <2>1. PICK a \in alive, e \in Elements, before \in BOOLEAN :
          \E i \in -1 .. length[a] : _array_insert(a, i, e, before)
    BY <1>5 DEF AppInsert
  <2>2. PICK i \in -1 .. length[a] : _array_insert(a, i, e, before)
    BY <2>1
  <2>3. i \in Int
    OBVIOUS
  <2> QED BY <2>1, <2>2, <2>3, InsertImplements
<1>6. CASE AppClear
  BY <1>6, ClearImplements DEF AppClear
<1>7. CASE AppSort
  BY <1>7, SortImplements DEF AppSort
<1>8. CASE AppSlice
  <2>1. PICK a \in Arrays : \E r : Array_new(a, r)
    BY <1>8, Zenon DEF AppSlice
  <2>2. PICK r : Array_new(a, r)
    BY <2>1
  <2> QED BY <2>2, NewImplements
<1>9. call.pc # "idle" => call.this \in alive /\ call.that \in alive
  BY DEF Inv, CallOK
<1>10. call.i \in Nat /\ call.i \in Int
  BY DEF Inv, CallOK
<1>11. CASE CopyStep /\ Array_set(call.that, call.i, Item)
  <2>1. call.that \in alive /\ call.this \in alive
    BY <1>9, <1>11 DEF CopyStep
  <2>2. Item \in Elements
    BY <1>10, <2>1, GetElement DEF Item
  <2> QED BY <1>10, <1>11, <2>1, <2>2, SetImplements
<1>12. CASE SliceStep /\ _array_insert(call.that, length[call.that] - 1, Item, FALSE)
  <2>1. call.that \in alive /\ call.this \in alive
    BY <1>9, <1>12 DEF SliceStep
  <2>2. Item \in Elements
    BY <1>10, <2>1, GetElement DEF Item
  <2>3. length[call.that] - 1 \in Int
    BY <2>1 DEF Inv, Blocks, Block
  <2> QED BY <1>12, <2>1, <2>2, <2>3, InsertImplements
<1>13. CASE AppObject \/ AppCopy \/ LoopReturns \/ UNCHANGED vars
  BY <1>1, <1>13 DEF AppObject, AppCopy, LoopReturns, Untouched, vars
<1>14. CASE CopyStep \/ SliceStep
  BY <1>1, <1>11, <1>12, <1>14 DEF CopyStep, SliceStep, Untouched
<1> QED BY <1>2, <1>3, <1>4, <1>5, <1>6, <1>7, <1>8, <1>13, <1>14 DEF Next, App

(* Whatever reallocation fails and whoever else holds an object, the        *)
(* elements between 0 and the length of every array are a sequence: a set,  *)
(* an insertion, a deletion, a clearing or a sort of array.h is that        *)
(* operation on the sequence of one array, and leaves the others alone.     *)
THEOREM VectorImplemented == Spec => ImplementsVector
<1>1. Init => Abstract!Init
  <2>1. ASSUME Init PROVE \A a \in Arrays : Content(a) = <<>>
    BY <2>1 DEF Init, Content
  <2> QED BY <2>1 DEF contents, Abstract!Init
<1>2. Inv /\ Inv' /\ [Next]_vars => [Abstract!Next]_contents
  BY StepImplements
<1> QED BY <1>1, <1>2, InvHolds, PTL DEF Spec, ImplementsVector, Abstract!Spec

----------------------------------------------------------------------------
(* The loops of copyTo and slice.  failed is set in the step in which a     *)
(* reallocation fails, so that a loop that has not failed has done what it  *)
(* came for up to call.i.                                                   *)

Copying ==
  call.pc = "copy" /\ ~call.failed =>
    /\ nullable[call.that] => length[call.that] >= call.i
    /\ \A j \in 0 .. (length[call.that] - 1) : j < length[call.this] /\ j < call.i => Copied(j)
Slicing ==
  call.pc = "slice" =>
    /\ call.from <= call.i /\ call.i <= call.to /\ call.to <= length[call.this]
    /\ call.this # call.that /\ ~nullable[call.that]
    /\ ~call.failed => Sliced(call.i)
Looping == Copying /\ Slicing

LEMMA Advances ==
  ASSUME Inv, Advance
  PROVE  /\ call'.pc = call.pc /\ call'.this = call.this /\ call'.that = call.that
         /\ call'.from = call.from /\ call'.to = call.to
         /\ call'.i = call.i + 1 /\ (call'.failed <=> call.failed \/ Lost)
<1>1. (call.failed \/ Lost) \in BOOLEAN
  BY Zenon
<1>2. PICK failed \in BOOLEAN : failed = (call.failed \/ Lost)
  BY <1>1, Zenon
<1>3. call' = [call EXCEPT !.i = @ + 1, !.failed = failed]
  BY <1>2, Zenon DEF Advance
<1>4. /\ call'.pc = call.pc /\ call'.this = call.this /\ call'.that = call.that
      /\ call'.from = call.from /\ call'.to = call.to
      /\ call'.i = call.i + 1 /\ call'.failed = failed
  BY <1>3 DEF Inv, CallOK
<1> QED BY <1>2, <1>4

(* One step of copyTo, which may copy an array onto itself.                 *)
LEMMA CopyLoops ==
  ASSUME Inv, Inv', Looping, CopyStep
  PROVE  Looping'
<1> PICK this, that, i : this = call.this /\ that = call.that /\ i = call.i
  OBVIOUS
<1>1. call.pc = "copy" /\ i < length[this] /\ Advance
  BY DEF CopyStep
<1>2. /\ this \in alive /\ that \in alive /\ this \in Arrays /\ that \in Arrays /\ i \in Nat /\ i \in Int
      /\ length[this] \in Nat /\ length[that] \in Nat /\ length'[that] \in Nat /\ length'[this] \in Nat
  BY <1>1 DEF Inv, CallOK, Shape, Blocks, Memory
<1>3. /\ call'.pc = "copy" /\ call'.this = this /\ call'.that = that
      /\ call'.i = i + 1 /\ (call'.failed <=> call.failed \/ Lost)
  BY <1>1, Advances
<1>4. Slicing'
  BY <1>3 DEF Slicing
<1>5. nullable' = nullable
  BY DEF CopyStep, Array_set, Untouched, structVars
<1>6. ASSUME ~call'.failed
      PROVE  /\ nullable'[that] => length'[that] >= i + 1
             /\ \A j \in 0 .. (length'[that] - 1) :
                  j < length'[this] /\ j < i + 1 => Copied(j)'
  <2>1. /\ nullable[that] => length[that] >= i
        /\ \A j \in 0 .. (length[that] - 1) : j < length[this] /\ j < i => Copied(j)
        /\ ~Lost
    BY <1>1, <1>3, <1>6 DEF Looping, Copying
  <2>2. \A j : Copied(j) <=> \/ Array_get(that, j) = Array_get(this, j)
                             \/ Array_get(this, j) = NULL /\ ~nullable[that]
    BY DEF Copied
  <2>3. \A j : Copied(j)' <=> \/ Array_get(that, j)' = Array_get(this, j)'
                              \/ Array_get(this, j)' = NULL /\ ~nullable[that]
    BY <1>3, <1>5 DEF Copied, Array_get
  <2>4. Item = Array_get(this, i) /\ Item \in Elements /\ Item = elements[this][i]
    BY <1>1, <1>2, GetElement DEF Item, Array_get
  <2>5. CASE MaySet(that, i, Item) /\ Writes(that, i, Item)
    <3>1. length'[that] = IF i < length[that] THEN length[that] ELSE i + 1
      BY <2>5 DEF Writes
    <3>2. length'[that] >= i + 1
      BY <1>2, <3>1
    <3>3. ASSUME NEW j \in 0 .. (length'[that] - 1), j < length'[this], j < i + 1 PROVE Copied(j)'
      <4>1. CASE this = that
        BY <4>1, <2>3
      <4>2. CASE this # that
        <5>1. length'[this] = length[this] /\ elements'[this] = elements[this]
          BY <4>2, <1>2, <2>5 DEF Writes, Alone
        <5>2. Array_get(this, j)' = Array_get(this, j)
          BY <5>1 DEF Array_get
        <5>3. Array_get(that, j)' = IF j = i THEN Item ELSE IF j < length[that] THEN elements[that][j] ELSE NULL
          BY <2>5 DEF Writes, Array_get
        <5>4. CASE j = i
          BY <5>2, <5>3, <5>4, <2>3, <2>4
        <5>5. CASE j # i
          <6>1. j < i
            BY <5>5, <3>3, <1>2
          <6>2. j < length[that]
            <7>1. nullable[that] \/ i < length[that]
              BY <2>5 DEF MaySet
            <7> QED BY <7>1, <6>1, <2>1, <1>2
          <6>3. Copied(j)
            BY <2>1, <3>3, <5>1, <6>1, <6>2, <1>2
          <6>4. Array_get(that, j)' = Array_get(that, j)
            BY <5>3, <5>5, <6>2, <1>2 DEF Array_get
          <6> QED BY <6>3, <6>4, <5>2, <2>2, <2>3
        <5> QED BY <5>4, <5>5
      <4> QED BY <4>1, <4>2
    <3> QED BY <3>2, <3>3
  <2>6. CASE ~MaySet(that, i, Item) /\ Untouched
    <3>1. ~nullable[that] /\ (Item = NULL \/ ~(i < length[that]))
      BY <2>6, <1>2 DEF MaySet
    <3>2. length' = length /\ elements' = elements
      BY <2>6 DEF Untouched, dataVars
    <3>3. \A j : Array_get(this, j)' = Array_get(this, j) /\ Array_get(that, j)' = Array_get(that, j)
      BY <3>2 DEF Array_get
    <3>4. ASSUME NEW j \in 0 .. (length'[that] - 1), j < length'[this], j < i + 1 PROVE Copied(j)'
      <4>1. CASE j = i
        <5>1. Item = NULL
          BY <3>1, <3>2, <3>4, <4>1, <1>2
        <5> QED BY <5>1, <4>1, <2>3, <2>4, <3>1, <3>3
      <4>2. CASE j # i
        <5>1. j < i
          BY <4>2, <3>4, <1>2
        <5>2. Copied(j)
          BY <2>1, <3>2, <3>4, <5>1
        <5> QED BY <5>2, <3>3, <2>2, <2>3
      <4> QED BY <4>1, <4>2
    <3> QED BY <3>1, <3>4, <1>5
  <2>7. CASE MaySet(that, i, Item) /\ UNCHANGED dataVars /\ i >= capacity[that]
    <3>1. Lost
      BY <1>1, <2>7 DEF Lost, dataVars
    <3> QED BY <2>1, <3>1
  <2>8. CASE Array_set(that, i, Item)
    <3>1. MaySet(that, i, Item)
      BY <2>8 DEF Array_set
    <3>2. (UNCHANGED dataVars /\ i >= capacity[that]) \/ Writes(that, i, Item)
      BY <2>8, <1>2, <2>4, SetWrites
    <3> QED BY <3>1, <3>2, <2>5, <2>7
  <2> QED BY <2>6, <2>8 DEF CopyStep
<1>7. Copying'
  BY <1>3, <1>6 DEF Copying
<1> QED BY <1>4, <1>7 DEF Looping

(* How many of the places from .. (i - 1) are in N.                         *)
Among(N, from, i) == Cardinality({j \in from .. (i - 1) : j \in N})

LEMMA AmongNext ==
  ASSUME NEW N, NEW from \in Nat, NEW i \in Nat, from <= i
  PROVE  /\ Among(N, from, from) = 0
         /\ Among(N, from, i) \in Nat
         /\ i \in N => Among(N, from, i + 1) = Among(N, from, i) + 1
         /\ i \notin N => Among(N, from, i + 1) = Among(N, from, i)
<1> DEFINE S == {j \in from .. (i - 1) : j \in N}
           T == {j \in from .. ((i + 1) - 1) : j \in N}
<1>1. {j \in from .. (from - 1) : j \in N} = {}
  OBVIOUS
<1>2. IsFiniteSet(S)
  <2>1. IsFiniteSet(from .. (i - 1))
    BY FS_Interval
  <2> QED BY <2>1, FS_Subset
<1>3. i \notin S /\ T = IF i \in N THEN S \cup {i} ELSE S
  OBVIOUS
<1> HIDE DEF S, T
<1>4. Cardinality(S) \in Nat
  BY <1>2, FS_CardinalityType
<1>5. Cardinality(T) = IF i \in N THEN Cardinality(S) + 1 ELSE Cardinality(S)
  BY <1>2, <1>3, FS_AddElement
<1>6. Among(N, from, from) = 0
  BY <1>1, FS_EmptySet DEF Among
<1> QED BY <1>4, <1>5, <1>6 DEF Among, S, T

(* One step of slice.                                                       *)
LEMMA SliceLoops ==
  ASSUME Inv, Inv', Looping, SliceStep
  PROVE  Looping'
<1> PICK this, that, i, from, to :
      this = call.this /\ that = call.that /\ i = call.i /\ from = call.from /\ to = call.to
  OBVIOUS
<1>1. call.pc = "slice" /\ i < to /\ Advance
  BY DEF SliceStep
<1>2. /\ this \in alive /\ that \in alive /\ this \in Arrays /\ that \in Arrays
      /\ i \in Nat /\ i \in Int /\ from \in Nat /\ to \in Nat
      /\ length[this] \in Nat /\ length[that] \in Nat /\ capacity[that] \in Nat
  BY <1>1 DEF Inv, CallOK, Shape, Blocks, Memory
<1>3. /\ call'.pc = "slice" /\ call'.this = this /\ call'.that = that /\ call'.from = from
      /\ call'.to = to /\ call'.i = i + 1 /\ (call'.failed <=> call.failed \/ Lost)
  BY <1>1, Advances
<1>4. Copying'
  BY <1>3 DEF Copying
<1>5. nullable' = nullable
  BY DEF SliceStep, _array_insert, Untouched, structVars
<1>6. /\ from <= i /\ i <= to /\ to <= length[this] /\ this # that /\ ~nullable[that]
      /\ ~call.failed => Sliced(i)
  BY <1>1 DEF Looping, Slicing
<1>7. Item = Array_get(this, i) /\ Item \in Elements
  BY <1>2, GetElement DEF Item
<1>8. \A M : /\ i \in M => Among(M, from, i + 1) = Among(M, from, i) + 1
             /\ i \notin M => Among(M, from, i + 1) = Among(M, from, i)
  <2>1. from <= i /\ from \in Nat /\ i \in Nat
    BY <1>2, <1>6
  <2>2. SUFFICES ASSUME NEW M
                 PROVE  /\ i \in M => Among(M, from, i + 1) = Among(M, from, i) + 1
                        /\ i \notin M => Among(M, from, i + 1) = Among(M, from, i)
    OBVIOUS
  <2>3. PICK j \in Nat : j = i
    BY <2>1
  <2>4. PICK f \in Nat : f = from
    BY <2>1
  <2>5. f <= j
    BY <2>1, <2>3, <2>4
  <2>6. /\ j \in M => Among(M, f, j + 1) = Among(M, f, j) + 1
        /\ j \notin M => Among(M, f, j + 1) = Among(M, f, j)
    BY <2>5, AmongNext
  <2> QED BY <2>3, <2>4, <2>6
<1> PICK N : N = {j \in Nat : Array_get(this, j) # NULL}
  OBVIOUS
<1> PICK n \in Nat : n = length[that]
  BY <1>2
<1>9. \A j : Before(j) = Among(N, from, j)
  <2> TAKE j
  <2>1. {k \in call.from .. (j - 1) : Array_get(call.this, k) # NULL} = {k \in from .. (j - 1) : k \in N}
    BY <1>2
  <2> QED BY <2>1 DEF Before, Among
<1>10. CASE Item # NULL /\ Wedges(that, length[that], Item)
  <2>1. length'[this] = length[this] /\ elements'[this] = elements[this]
    BY <1>2, <1>6, <1>10 DEF Wedges, Alone
  <2>2. \A j : Array_get(this, j)' = Array_get(this, j)
    BY <2>1 DEF Array_get
  <2>3. \A j : Before(j)' = Among(N, from, j)
    <3> TAKE j
    <3>1. {k \in call'.from .. (j - 1) : Array_get(call.this, k)' # NULL} = {k \in from .. (j - 1) : k \in N}
      BY <1>2, <1>3, <2>2 DEF Array_get
    <3> QED BY <3>1 DEF Before, Among
  <2>4. \A j : j \in 0 .. (length[that] - 1) => Array_get(that, j)' = Array_get(that, j)
    BY <1>2, <1>10 DEF Wedges, Array_get
  <2>5. length'[that] = length[that] + 1 /\ Array_get(that, n)' = elements[this][i] /\ Item = elements[this][i]
    <3>1. Item = elements[this][i]
      BY <1>7, <1>10 DEF Array_get
    <3>2. length'[that] = n + 1 /\ elements'[that][n] = Item
      BY <1>10 DEF Wedges
    <3> QED BY <3>1, <3>2 DEF Array_get
  <2>6. ASSUME ~call.failed PROVE Sliced(i + 1)'
    <3>1. length[that] = Among(N, from, i)
      BY <1>6, <1>9, <2>6 DEF Sliced
    <3>2. \A j \in from .. (i - 1) :
            Array_get(this, j) # NULL => Array_get(that, Among(N, from, j)) = Array_get(this, j)
      BY <1>6, <1>9, <2>6 DEF Sliced
    <3>3. i \in N
      BY <1>2, <1>7, <1>10
    <3>4. length'[that] = Among(N, from, i + 1)
      <4>1. Among(N, from, i + 1) = Among(N, from, i) + 1
        BY <3>3, <1>8, Zenon
      <4> QED BY <2>5, <3>1, <4>1
    <3>5. ASSUME NEW j \in from .. i, Array_get(this, j) # NULL
          PROVE  Array_get(that, Among(N, from, j))' = Array_get(this, j)
      <4>1. CASE j = i
        BY <4>1, <2>5, <3>1, <1>7
      <4>2. CASE j # i
        <5>1. j \in from .. (i - 1)
          BY <4>2, <1>2
        <5>2. Array_get(that, Among(N, from, j)) = Array_get(this, j)
          BY <3>2, <3>5, <5>1
        <5>3. Among(N, from, j) \in 0 .. (length[that] - 1)
          BY <3>5, <5>2 DEF Array_get
        <5> QED BY <5>2, <5>3, <2>4
      <4> QED BY <4>1, <4>2
    <3>6. from .. ((i + 1) - 1) = from .. i
      BY <1>2
    <3>7. \A j \in from .. ((i + 1) - 1) :
            Array_get(this, j)' # NULL => Array_get(that, Among(N, from, j))' = Array_get(this, j)'
      BY <3>5, <3>6, <2>2
    <3> QED BY <3>4, <3>7, <2>3, <1>3 DEF Sliced, Array_get
  <2> QED BY <1>1, <1>2, <1>3, <1>4, <1>5, <1>6, <2>1, <2>6 DEF Looping, Slicing
<1>11. CASE UNCHANGED dataVars /\ (Item = NULL \/ Lost)
  <2>1. length' = length /\ elements' = elements
    BY <1>11 DEF dataVars
  <2>2. \A j : Array_get(this, j)' = Array_get(this, j) /\ Array_get(that, j)' = Array_get(that, j)
    BY <2>1 DEF Array_get
  <2>3. \A j : Before(j)' = Among(N, from, j)
    <3> TAKE j
    <3>1. {k \in call'.from .. (j - 1) : Array_get(call.this, k)' # NULL} = {k \in from .. (j - 1) : k \in N}
      BY <1>2, <1>3, <2>2 DEF Array_get
    <3> QED BY <3>1 DEF Before, Among
  <2>4. ASSUME ~call.failed, Item = NULL PROVE Sliced(i + 1)'
    <3>1. length[that] = Among(N, from, i)
      BY <1>6, <1>9, <2>4 DEF Sliced
    <3>2. \A j \in from .. (i - 1) :
            Array_get(this, j) # NULL => Array_get(that, Among(N, from, j)) = Array_get(this, j)
      BY <1>6, <1>9, <2>4 DEF Sliced
    <3>3. i \notin N /\ Array_get(this, i) = NULL
      BY <1>2, <1>7, <2>4
    <3>4. length'[that] = Among(N, from, i + 1)
      <4>1. Among(N, from, i + 1) = Among(N, from, i)
        BY <3>3, <1>8, Zenon
      <4> QED BY <2>1, <3>1, <4>1
    <3>5. \A j \in from .. ((i + 1) - 1) : j \in from .. (i - 1) \/ j = i
      BY <1>2
    <3>6. \A j \in from .. ((i + 1) - 1) :
            Array_get(this, j)' # NULL => Array_get(that, Among(N, from, j))' = Array_get(this, j)'
      BY <3>2, <3>3, <3>5, <2>2
    <3> QED BY <3>4, <3>6, <2>3, <1>3 DEF Sliced, Array_get
  <2>5. ~call'.failed => ~call.failed /\ Item = NULL
    BY <1>3, <1>11
  <2> QED BY <1>1, <1>2, <1>3, <1>4, <1>5, <1>6, <2>1, <2>4, <2>5 DEF Looping, Slicing
<1>12. CASE _array_insert(that, length[that] - 1, Item, FALSE)
  <2>1. Item # NULL
    BY <1>6, <1>12 DEF _array_insert
  <2>2. Target(that, length[that] - 1, FALSE) = length[that]
    BY <1>2 DEF Target
  <2>3. length[that] - 1 \in Int
    BY <1>2
  <2>4. (UNCHANGED dataVars /\ length[that] = capacity[that]) \/ Wedges(that, length[that], Item)
    BY <1>2, <1>7, <1>12, <2>1, <2>2, <2>3, InsertWrites
  <2>5. UNCHANGED dataVars /\ length[that] = capacity[that] => Lost
    BY <1>1, <2>1 DEF Lost, dataVars
  <2> QED BY <2>1, <2>4, <2>5, <1>10, <1>11
<1>13. CASE Item = NULL /\ Untouched
  BY <1>11, <1>13 DEF Untouched
<1> QED BY <1>12, <1>13 DEF SliceStep

(* Where the loops begin.                                                   *)
LEMMA CopyBegins ==
  ASSUME Inv, AppCopy
  PROVE  Looping'
<1>1. PICK this \in alive, that \in alive :
        call' = [Idle EXCEPT !.pc = "copy", !.this = this, !.that = that]
  BY DEF AppCopy
<1>2. call'.pc = "copy" /\ call'.that = that /\ call'.i = 0
  BY <1>1 DEF Idle
<1>3. length' = length /\ length[that] \in Nat
  BY DEF AppCopy, dataVars, Inv, Shape, Blocks, Memory
<1> QED BY <1>2, <1>3 DEF Looping, Copying, Slicing

LEMMA SliceBegins ==
  ASSUME Inv, Exact, AppSlice
  PROVE  Looping'
<1>1. PICK this \in alive, that \in Arrays : \E to \in 1 .. length[this] : \E from \in 0 .. (to - 1) :
        /\ Array_new(that, retain[this])
        /\ call' = [Idle EXCEPT !.pc = "slice", !.this = this, !.that = that,
                                !.from = from, !.i = from, !.to = to]
        /\ nullable' = [nullable EXCEPT ![that] = FALSE]
  BY Zenon DEF AppSlice
<1>2. PICK to \in 1 .. length[this] : \E from \in 0 .. (to - 1) :
        /\ Array_new(that, retain[this])
        /\ call' = [Idle EXCEPT !.pc = "slice", !.this = this, !.that = that,
                                !.from = from, !.i = from, !.to = to]
        /\ nullable' = [nullable EXCEPT ![that] = FALSE]
  BY <1>1
<1>3. PICK from \in 0 .. (to - 1) :
        /\ Array_new(that, retain[this])
        /\ call' = [Idle EXCEPT !.pc = "slice", !.this = this, !.that = that,
                                !.from = from, !.i = from, !.to = to]
        /\ nullable' = [nullable EXCEPT ![that] = FALSE]
  BY <1>2
<1>4. /\ call'.pc = "slice" /\ call'.this = this /\ call'.that = that
      /\ call'.from = from /\ call'.i = from /\ call'.to = to
  BY <1>3 DEF Idle
<1>5. this # that /\ this \in Arrays /\ length[this] \in Nat
  BY <1>3 DEF Array_new, Inv, Shape, Blocks, Memory
<1>6. length'[that] = 0 /\ length'[this] = length[this]
  BY <1>3, <1>5 DEF Array_new, Inv, Shape
<1>7. from <= from /\ from <= to /\ to <= length'[this]
  BY <1>5, <1>6
<1>8. Sliced(from)'
  <2>1. {j \in from .. (from - 1) : Array_get(call.this, j)' # NULL} = {}
    OBVIOUS
  <2>2. Before(from)' = 0
    BY <2>1, <1>4, FS_EmptySet DEF Before
  <2>3. \A j : j \notin from .. (from - 1)
    OBVIOUS
  <2> QED BY <2>2, <2>3, <1>4, <1>6 DEF Sliced
<1>9. nullable'[that] = FALSE
  BY <1>3 DEF Exact, Typed
<1>10. Sliced(call.i)'
  BY <1>4, <1>8 DEF Sliced, Before
<1>11. Slicing'
  BY <1>4, <1>5, <1>7, <1>9, <1>10 DEF Slicing
<1> QED BY <1>4, <1>11 DEF Looping, Copying

LEMMA LoopsHold == Spec => []Looping
<1>1. Init => Looping
  BY DEF Init, Idle, Looping, Copying, Slicing
<1>2. Inv /\ Inv' /\ Exact /\ Looping /\ [Next]_vars => Looping'
  <2> SUFFICES ASSUME Inv, Inv', Exact, Looping, [Next]_vars PROVE Looping'
    OBVIOUS
  <2>1. CASE AppObject \/ AppNew \/ AppSet \/ AppDel \/ AppInsert \/ AppClear \/ AppSort
    <3>1. call' = Idle
      BY <2>1 DEF AppObject, AppNew, AppSet, AppDel, AppInsert, AppClear, AppSort, AppRuns
    <3> QED BY <3>1 DEF Idle, Looping, Copying, Slicing
  <2>2. CASE AppCopy
    BY <2>2, CopyBegins
  <2>3. CASE AppSlice
    BY <2>3, SliceBegins
  <2>4. CASE CopyStep
    BY <2>4, CopyLoops
  <2>5. CASE SliceStep
    BY <2>5, SliceLoops
  <2>6. CASE LoopReturns
    <3>1. call' = Idle
      BY <2>6 DEF LoopReturns
    <3> QED BY <3>1 DEF Idle, Looping, Copying, Slicing
  <2>7. CASE UNCHANGED vars
    BY <2>7 DEF vars, structVars, dataVars, Looping, Copying, Slicing, Copied, Sliced, Before, Array_get
  <2> QED BY <2>1, <2>2, <2>3, <2>4, <2>5, <2>6, <2>7 DEF Next, App
<1> QED BY <1>1, <1>2, InvHolds, ExactHolds, PTL DEF Spec

(* A loop ends only when it returns.                                        *)
LEMMA Returns ==
  ASSUME Inv, [Next]_vars, call'.pc # call.pc, call.pc # "idle"
  PROVE  LoopReturns
<1>1. CASE AppRuns
  BY <1>1 DEF AppRuns, Idle
<1>2. CASE CopyStep \/ SliceStep
  BY <1>2, Advances DEF CopyStep, SliceStep
<1>3. CASE UNCHANGED vars
  BY <1>3 DEF vars
<1> QED BY <1>1, <1>2, <1>3 DEF Next, App, AppObject, AppNew, AppSet, AppDel, AppInsert,
             AppClear, AppSort, AppCopy, AppSlice

(* A copyTo whose reallocations succeed has copied every element the other  *)
(* array has a place for, but the NULLs it refuses, also when an array is   *)
(* copied onto itself, and leaves a nullable array at least as long; and a  *)
(* slice holds the elements of the range that are not NULL, in their order. *)
THEOREM CopiesCorrect == Spec => CopiesAgree
<1>1. Inv /\ Looping /\ [Next]_vars =>
        [call.pc = "copy" /\ call'.pc = "idle" /\ ~call.failed =>
           /\ nullable[call.that] => length[call.that] >= length[call.this]
           /\ \A i \in 0..(length[call.that] - 1) : i < length[call.this] => Copied(i)]_vars
  <2> SUFFICES ASSUME Inv, Looping, [Next]_vars, call.pc = "copy", call'.pc = "idle", ~call.failed
               PROVE  /\ nullable[call.that] => length[call.that] >= length[call.this]
                      /\ \A i \in 0..(length[call.that] - 1) : i < length[call.this] => Copied(i)
    OBVIOUS
  <2>1. call.i >= length[call.this]
    BY Returns DEF LoopReturns
  <2>2. /\ length[call.this] \in Nat /\ length[call.that] \in Nat /\ call.i \in Nat
    BY DEF Inv, CallOK, Shape, Blocks, Memory
  <2> QED BY <2>1, <2>2 DEF Looping, Copying
<1>2. Inv /\ Looping /\ [Next]_vars =>
        [call.pc = "slice" /\ call'.pc = "idle" /\ ~call.failed => Sliced(call.to)]_vars
  <2> SUFFICES ASSUME Inv, Looping, [Next]_vars, call.pc = "slice", call'.pc = "idle", ~call.failed
               PROVE  Sliced(call.to)
    OBVIOUS
  <2>1. call.i = call.to
    BY Returns DEF LoopReturns
  <2> QED BY <2>1 DEF Looping, Slicing
<1> QED BY <1>1, <1>2, InvHolds, LoopsHold, PTL DEF Spec, CopiesAgree, CopyAgrees, SliceAgrees
=============================================================================
