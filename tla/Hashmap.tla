------------------------------- MODULE Hashmap -------------------------------
(***************************************************************************)
(* hashmap.h and hashkey.h: a table of buckets, each a singly linked list of *)
(* (key, value) nodes with the newest first, here a sequence.                *)
(*                                                                           *)
(* Every operation builds its key with String_format, so a text is a printf  *)
(* template: Format says which key a text becomes.  It is not the identity,  *)
(* and not defined on every text: "%%%%" is stored as "%%", which a copy     *)
(* stores as "%", which cannot be copied.                                    *)
(*                                                                           *)
(* Operations without callbacks are one action.  copyTo and foreachItem run  *)
(* one node per step; between two steps of foreachItem its callback may do   *)
(* what the application may, but it neither deletes from, clears nor frees   *)
(* the map it is called for and starts no second loop.                       *)
(*                                                                           *)
(* Auxiliary variables, read by no guard of the code:                        *)
(*   leaked    retains whose node was dropped without a release              *)
(*   rejected  keys whose replacement the application's check has refused    *)
(*             since the map was created or cleared                          *)
(***************************************************************************)
EXTENDS Object, Sequences, FiniteSets

CONSTANTS Maps, NULL,
          Texts,      \* C strings, as they are passed and as keys
          Format,     \* String_format(text), on the texts it is defined for
          Given,      \* texts the application passes
          Retains,    \* values of isRetainValue the application passes
          Loops,      \* which of "each" (foreachItem) and "copy" it calls
          Size,       \* HASHMAP_DEFAULT_CAPACITY
          Hash,       \* String_hash(key) % size
          MaxNodes,   \* bound: the application puts a node only where the maps have fewer
          MaxLeaked   \* bound: references to one object that deletions may lose

ASSUME HashmapAssumption ==
  /\ NULL \notin Maps
  /\ Retains \subseteq BOOLEAN
  /\ Size \in Nat \ {0}
  /\ Given \subseteq DOMAIN Format /\ DOMAIN Format \subseteq Texts /\ \A t \in DOMAIN Format : Format[t] \in Texts
  /\ Hash \in [Texts -> 0..(Size - 1)]

VARIABLES alive, retain, bucket,  \* struct _Hashmap
          call,                   \* the loop that is running
          leaked, rejected        \* auxiliary

vars == <<gcCount, held, alive, retain, bucket, call, leaked, rejected>>

Positions == 0..(Size - 1)
NoNodes == [p \in Positions |-> <<>>]
Node(k, v) == [key |-> k, value |-> v]

\* Where the nodes of m are, and those among them for which m retained o.
Places(m) == UNION {{<<m, p, i>> : i \in 1..Len(bucket[m][p])} : p \in Positions}
At(x) == bucket[x[1]][x[2]][x[3]]
Retaining(o) == {x \in UNION {Places(m) : m \in alive} : retain[x[1]] /\ At(x).value = o}
KeysOf(m) == {At(x).key : x \in Places(m)}
NodesOf(m, k) == {x \in Places(m) : At(x).key = k}

\* The node a walk down the bucket finds: the first with the key, 0 if none.
Find(m, k) ==
  LET hits == {i \in 1..Len(bucket[m][Hash[k]]) : bucket[m][Hash[k]][i].key = k}
  IN IF hits = {} THEN 0 ELSE CHOOSE i \in hits : \A j \in hits : i <= j

\* Hashmap_get.
Hashmap_get(m, k) ==
  IF Find(m, k) = 0 THEN NULL ELSE bucket[m][Hash[k]][Find(m, k)].value

Idle == [pc |-> "idle", this |-> NULL, that |-> NULL, pos |-> 0, rest |-> 0, due |-> {}]

Init ==
  /\ ObjectInit
  /\ alive = {}
  /\ retain = [m \in Maps |-> FALSE]
  /\ bucket = [m \in Maps |-> NoNodes]
  /\ call = Idle
  /\ leaked = [o \in Objs |-> 0]
  /\ rejected = [m \in Maps |-> {}]

-----------------------------------------------------------------------------
(* The handlers.                                                            *)

Hashmap_new(m, r) ==
  /\ m \in Maps \ alive
  /\ alive' = alive \cup {m}
  /\ retain' = [retain EXCEPT ![m] = r]
  /\ bucket' = [bucket EXCEPT ![m] = NoNodes]
  /\ UNCHANGED <<objVars, leaked, rejected>>

\* The new value is retained before the old one is released: they may be one
\* object.  Mutant: the other order, where the object may be freed in between and
\* is not counted any more.
Replace_early(gc, new, old) ==
  LET less == Object_release(gc, old) IN
  IF less[new] = 0 THEN less ELSE Object_retain(less, new)
Replace(gc, new, old) == Object_release(Object_retain(gc, new), old)

\* A node is put before the others of its bucket.
Prepend(m, k, v) ==
  /\ bucket' = [bucket EXCEPT ![m][Hash[k]] = <<Node(k, v)>> \o @]
  /\ gcCount' = IF retain[m] THEN Object_retain(gcCount, v) ELSE gcCount

\* Hashmap_setByCheck; func says TRUE or FALSE to replacing what is there and to
\* adding a node.
Hashmap_setByCheck(m, k, v, replaces, adds) ==
  LET i == Find(m, k) IN
  /\ IF i > 0 /\ replaces
       THEN /\ bucket' = [bucket EXCEPT ![m][Hash[k]][i].value = v]
            /\ gcCount' = IF retain[m] THEN Replace(gcCount, v, Hashmap_get(m, k)) ELSE gcCount
       ELSE IF adds THEN Prepend(m, k, v) ELSE UNCHANGED <<bucket, gcCount>>
  /\ rejected' = IF i > 0 /\ ~replaces THEN [rejected EXCEPT ![m] = @ \cup {k}] ELSE rejected
  /\ UNCHANGED <<held, alive, retain, leaked>>

Hashmap_set(m, k, v) == Hashmap_setByCheck(m, k, v, TRUE, TRUE)

\* How often o is the value of one of the places X of a retaining map.
Times(X, o) == Cardinality({x \in X : retain[x[1]] /\ At(x).value = o})

\* Hashmap_del.  When the node is the first of its bucket the whole bucket is
\* dropped, and only the node's own value is released.  Mutant: the nodes
\* behind the deleted one go too.
Hashmap_del_behind(m, k) ==
  LET p == Hash[k]  i == Find(m, k) IN
  /\ i > 0
  /\ bucket' = [bucket EXCEPT ![m][p] = SubSeq(@, 1, i - 1)]
  /\ gcCount' = IF retain[m] THEN Object_release(gcCount, Hashmap_get(m, k)) ELSE gcCount
  /\ UNCHANGED <<held, alive, retain, rejected, leaked>>
Hashmap_del(m, k) ==
  LET p == Hash[k]
      i == Find(m, k)
      others == {<<m, p, j>> : j \in 2..Len(bucket[m][p])}
  IN /\ i > 0
     /\ bucket' = [bucket EXCEPT ![m][p] =
                     IF i = 1 THEN <<>> ELSE SubSeq(@, 1, i - 1) \o SubSeq(@, i + 1, Len(@))]
     /\ gcCount' = IF retain[m] THEN Object_release(gcCount, Hashmap_get(m, k)) ELSE gcCount
     /\ leaked' = [o \in Objs |-> leaked[o] + IF i = 1 THEN Times(others, o) ELSE 0]
     /\ UNCHANGED <<held, alive, retain, rejected>>

\* Hashmap_clear.  Mutant: the values are released whether the map retains or not.
Hashmap_clear_always(m) ==
  /\ bucket' = [bucket EXCEPT ![m] = NoNodes]
  /\ gcCount' = [o \in Objs |-> gcCount[o] - Cardinality({x \in Places(m) : At(x).value = o})]
  /\ rejected' = [rejected EXCEPT ![m] = {}]
  /\ UNCHANGED <<held, retain, leaked>>
Hashmap_clear(m) ==
  /\ bucket' = [bucket EXCEPT ![m] = NoNodes]
  /\ gcCount' = [o \in Objs |-> gcCount[o] - Times(Places(m), o)]
  /\ rejected' = [rejected EXCEPT ![m] = {}]
  /\ UNCHANGED <<held, retain, leaked>>

-----------------------------------------------------------------------------
(* The application.                                                         *)

\* Between two calls, or in the callback of foreachItem.
AppRuns == call.pc \in {"idle", "each"}
MayChange(m) == m \in alive /\ (call.pc = "each" => m # call.this)

AppObject ==
  /\ AppRuns
  /\ \E o \in Objs : Object_new(o) \/ App_retain(o) \/ App_release(o)
  /\ UNCHANGED <<alive, retain, bucket, call, leaked, rejected>>

AppNew ==
  /\ AppRuns
  /\ \E m \in Maps, r \in Retains : Hashmap_new(m, r)
  /\ UNCHANGED call

\* A retaining map is given an allocated object.  A check that lets a value be
\* replaced is not asked for more.
AppSet ==
  /\ AppRuns
  /\ \E m \in alive, t \in Given, v \in Objs, replaces, adds \in BOOLEAN :
       /\ replaces => adds
       /\ retain[m] => Allocated(v)
       /\ Cardinality(UNION {Places(n) : n \in alive}) < MaxNodes
       /\ Hashmap_setByCheck(m, Format[t], v, replaces, adds)
  /\ UNCHANGED call

AppDel ==
  /\ AppRuns
  /\ \E m \in alive, t \in Given :
       /\ MayChange(m)
       /\ Hashmap_del(m, Format[t])
  /\ \A o \in Objs : leaked'[o] <= MaxLeaked
  /\ UNCHANGED call

\* Hashmap_clear, and Hashmap_free, which ends with the map.
AppClear ==
  /\ AppRuns
  /\ \E m \in alive :
       MayChange(m) /\ Hashmap_clear(m) /\ (UNCHANGED alive \/ alive' = alive \ {m})
  /\ UNCHANGED call

\* A loop starts at the first bucket.  What is copied must be a template again.
Enter(pc, this, that) ==
  call' = [pc |-> pc, this |-> this, that |-> that, pos |-> 0, rest |-> Len(bucket[this][0]),
           due |-> IF pc = "each" THEN KeysOf(this) ELSE {}]
AppLoop ==
  /\ call = Idle
  /\ \E this, that \in alive :
       \/ "each" \in Loops /\ this = that /\ Enter("each", this, NULL)
       \/ /\ "copy" \in Loops /\ KeysOf(this) \subseteq DOMAIN Format
          /\ this = that => \A k \in KeysOf(this) : Format[k] = k
          /\ Enter("copy", this, that)
  /\ UNCHANGED <<objVars, alive, retain, bucket, leaked, rejected>>

-----------------------------------------------------------------------------
(* The loops.  rest counts the nodes of the bucket that are still to be seen: *)
(* the last rest of them, as new nodes are put before the others.  due holds  *)
(* the keys foreachItem found in the map and has not shown yet.              *)

Here == bucket[call.this][call.pos][Len(bucket[call.this][call.pos]) - call.rest + 1]
Advance == call' = [call EXCEPT !.rest = @ - 1]

\* The loop leaves an exhausted bucket.  Mutant: the last bucket is not visited.
NextBucket_short ==
  /\ call.pc # "idle" /\ call.rest = 0
  /\ call' = IF call.pos + 1 < Size - 1
               THEN [call EXCEPT !.pos = @ + 1, !.rest = Len(bucket[call.this][call.pos + 1])]
               ELSE Idle
  /\ UNCHANGED <<objVars, alive, retain, bucket, leaked, rejected>>
NextBucket ==
  /\ call.pc # "idle" /\ call.rest = 0
  /\ call' = IF call.pos + 1 < Size
               THEN [call EXCEPT !.pos = @ + 1, !.rest = Len(bucket[call.this][call.pos + 1])]
               ELSE Idle
  /\ UNCHANGED <<objVars, alive, retain, bucket, leaked, rejected>>

\* foreachItem shows a node to the callback.
EachStep ==
  /\ call.pc = "each" /\ call.rest > 0
  /\ call' = [call EXCEPT !.rest = @ - 1, !.due = @ \ {Here.key}]
  /\ UNCHANGED <<objVars, alive, retain, bucket, leaked, rejected>>

\* copyTo sets the node's key and value in the other map.  Mutants: it puts
\* a node there without a look at what is there; it does not replace what is there.
CopyStep_prepend ==
  /\ call.pc = "copy" /\ call.rest > 0
  /\ Prepend(call.that, Here.key, Here.value)
  /\ Advance
  /\ UNCHANGED <<held, alive, retain, leaked, rejected>>
CopyStep_keep ==
  /\ call.pc = "copy" /\ call.rest > 0
  /\ Hashmap_setByCheck(call.that, Format[Here.key], Here.value, FALSE, Find(call.that, Format[Here.key]) = 0)
  /\ Advance
CopyStep ==
  /\ call.pc = "copy" /\ call.rest > 0
  /\ Hashmap_set(call.that, Format[Here.key], Here.value)
  /\ Advance

App == AppObject \/ AppNew \/ AppSet \/ AppDel \/ AppClear \/ AppLoop
Next == App \/ NextBucket \/ EachStep \/ CopyStep
Spec == Init /\ [][Next]_vars

-----------------------------------------------------------------------------
(* Properties.                                                              *)

\* Every variable has its type.
TypeOK ==
  /\ ObjectTypeOK
  /\ alive \subseteq Maps
  /\ retain \in [Maps -> BOOLEAN]
  /\ bucket \in [Maps -> [Positions -> Seq([key : Texts, value : Objs])]]
  /\ leaked \in [Objs -> Nat]
  /\ rejected \in [Maps -> SUBSET Texts]
  /\ call \in [pc : {"idle", "each", "copy"}, this : Maps \cup {NULL}, that : Maps \cup {NULL},
               pos : Positions, rest : Nat, due : SUBSET Texts]

\* The reference counts are exact: what the application holds, one for each node of
\* a retaining map and one for each that a deletion dropped; setting a key to the
\* value it has, in a map that holds the last reference, frees nothing.
RefCounts ==
  /\ TypeOK
  /\ \A o \in Objs : gcCount[o] = held[o] + Cardinality(Retaining(o)) + leaked[o]

\* A key has more than one node only if a replacement of its value was refused: the
\* walk of setByCheck and the copies never add a key that is there.
DuplicatesOnlyAfterRejection ==
  \A m \in alive : \A k \in KeysOf(m) \ rejected[m] : Cardinality(NodesOf(m, k)) = 1

\* foreachItem has shown every key that was in the map when it began, whatever its
\* callback added in the meantime.
EachShowsAll ==
  [][call.pc = "each" /\ call'.pc = "idle" => call.due = {}]_vars

\* After copyTo the other map has the value of every key that String_format leaves
\* alone, that no other key becomes, and that has one node: a key with two nodes is
\* copied with its older value, and one with a percent sign under another name.
CopyAgrees ==
  [][call.pc = "copy" /\ call'.pc = "idle" =>
       \A k \in KeysOf(call.this) :
         /\ \A j \in KeysOf(call.this) : Format[j] = k <=> j = k
         /\ Cardinality(NodesOf(call.this, k)) = 1
         => Hashmap_get(call.that, k) = Hashmap_get(call.this, k)]_vars
=============================================================================
