------------------------------ MODULE Gallector ------------------------------
(***************************************************************************)
(* gallector.h: a mark and sweep collector over a list of objects, and pools *)
(* (Gache) of objects to reuse.  Both link objects through the one field     *)
(* gcNext, and a pool counts its depth in gcCount, the field in which the    *)
(* application counts references while it has the object.                    *)
(*                                                                           *)
(* There is one collector.  A sweep runs one object per step.  Its freeer is *)
(* the application's: it gives the object back to its pool, or frees it, and *)
(* may take others from the pools before it returns.  The application        *)
(* returns and frees only objects in no list.  maxObjects is written by      *)
(* sweep and read by nothing here.                                           *)
(*                                                                           *)
(* Auxiliary variables, read by no guard of the code:                        *)
(*   where   "free" (not allocated), "app" (in use, in no list), "list" (in  *)
(*           the collector's), "pool", or "lost" (put into the list, and not *)
(*           there any more)                                                 *)
(*   pool    the pool whose creator made the object                          *)
(*   doomed  the objects a running sweep found neither marked nor frozen     *)
(*   fresh   the objects freeers put into the list during a sweep            *)
(***************************************************************************)
EXTENDS Integers, FiniteSets

CONSTANTS Objs, Pools, NULL,
          Sizes,    \* Gache.size of each pool
          MaxCount  \* bound: references the application counts in one object

ASSUME GallectorAssumption ==
  /\ NULL \notin Objs /\ IsFiniteSet(Objs)
  /\ Sizes \in [Pools -> Nat]

VARIABLES gcCount, gcMark, gcFreeze, gcNext,  \* struct _Object
          first, numObjects,                  \* struct _Gallector
          cache,                              \* struct _Gache
          sweep,                              \* previous and object of a sweep, and
                                              \* whether its freeer runs
          where, pool, doomed, fresh          \* auxiliary

vars == <<gcCount, gcMark, gcFreeze, gcNext, first, numObjects, cache, sweep, where, pool, doomed,
          fresh>>

Listed == {o \in Objs : where[o] = "list"}
Pooled(c) == {o \in Objs : where[o] = "pool" /\ pool[o] = c}
Lost == {o \in Objs : where[o] = "lost"}
Idle == [on |-> FALSE, previous |-> NULL, object |-> NULL, freeer |-> FALSE]

Init ==
  /\ gcCount = [o \in Objs |-> 0]
  /\ gcMark = [o \in Objs |-> FALSE]
  /\ gcFreeze = [o \in Objs |-> FALSE]
  /\ gcNext = [o \in Objs |-> NULL]
  /\ first = NULL
  /\ numObjects = 0
  /\ cache = [c \in Pools |-> NULL]
  /\ sweep = Idle
  /\ where = [o \in Objs |-> "free"]
  /\ pool = [o \in Objs |-> NULL]
  /\ doomed = {} /\ fresh = {}

-----------------------------------------------------------------------------
(* Gache_get takes the first object of the pool, or has one created; one that *)
(* is not frozen becomes the first of the collector's list.  The mark is not   *)
(* reset.                                                                      *)

TakenFrom(c, o) ==
  IF cache[c] # NULL
    THEN o = cache[c] /\ cache' = [cache EXCEPT ![c] = gcNext[o]] /\ UNCHANGED <<gcMark, pool>>
    ELSE /\ where[o] = "free" /\ UNCHANGED cache
         /\ gcMark' = [gcMark EXCEPT ![o] = FALSE]
         /\ pool' = [pool EXCEPT ![o] = c]

\* Mutant: the object is not counted.
Gache_get_uncounted(c, freeze) ==
  \E o \in Objs :
    /\ TakenFrom(c, o)
    /\ gcCount' = [gcCount EXCEPT ![o] = 0]
    /\ gcFreeze' = [gcFreeze EXCEPT ![o] = freeze]
    /\ gcNext' = [gcNext EXCEPT ![o] = IF freeze THEN NULL ELSE first]
    /\ where' = [where EXCEPT ![o] = IF freeze THEN "app" ELSE "list"]
    /\ first' = IF freeze THEN first ELSE o
    /\ doomed' = doomed \ {o}
    /\ fresh' = IF sweep.on /\ ~freeze THEN fresh \cup {o} ELSE fresh
    /\ UNCHANGED <<numObjects, sweep>>
Gache_get(c, freeze) ==
  \E o \in Objs :
    /\ TakenFrom(c, o)
    /\ gcCount' = [gcCount EXCEPT ![o] = 0]
    /\ gcFreeze' = [gcFreeze EXCEPT ![o] = freeze]
    /\ IF freeze
         THEN /\ gcNext' = [gcNext EXCEPT ![o] = NULL]
              /\ where' = [where EXCEPT ![o] = "app"]
              /\ UNCHANGED <<first, numObjects>>
         ELSE /\ gcNext' = [gcNext EXCEPT ![o] = first]
              /\ where' = [where EXCEPT ![o] = "list"]
              /\ first' = o /\ numObjects' = numObjects + 1
    /\ doomed' = doomed \ {o}
    /\ fresh' = IF sweep.on /\ ~freeze THEN fresh \cup {o} ELSE fresh
    /\ UNCHANGED sweep

\* Gache_return: the depth of the pool is one more than the count of its first
\* object, at least.  The first object returned keeps its count and its next.
\* Mutant: the limit is passed by one.
HasRoom_one(c) == cache[c] # NULL => gcCount[cache[c]] <= Sizes[c]
HasRoom(c) == cache[c] # NULL => gcCount[cache[c]] < Sizes[c]
Depth(c, o) ==
  IF cache[c] = NULL THEN gcCount ELSE [gcCount EXCEPT ![o] = gcCount[cache[c]] + 1]

Gache_return(c, o) ==
  /\ HasRoom(c)
  /\ gcCount' = Depth(c, o)
  /\ gcNext' = IF cache[c] = NULL THEN gcNext ELSE [gcNext EXCEPT ![o] = cache[c]]
  /\ cache' = [cache EXCEPT ![c] = o]
  /\ where' = [where EXCEPT ![o] = "pool"]

-----------------------------------------------------------------------------
(* The application, between two calls; and inside a freeer, where it takes  *)
(* objects.                                                                 *)

InUse == {o \in Objs : where[o] \in {"app", "list"}}

AppGet ==
  /\ sweep.on => sweep.freeer
  /\ \E c \in Pools, freeze \in BOOLEAN : Gache_get(c, freeze)

AppReturn ==
  /\ ~sweep.on
  /\ \E o \in Objs : where[o] = "app" /\ Gache_return(pool[o], o)
  /\ UNCHANGED <<gcMark, gcFreeze, first, numObjects, sweep, pool, doomed, fresh>>

\* The application marks, freezes, thaws and counts references to what it uses.
AppFields ==
  /\ ~sweep.on
  /\ \E o \in InUse :
       \/ gcMark' = [gcMark EXCEPT ![o] = TRUE] /\ UNCHANGED <<gcFreeze, gcCount>>
       \/ gcFreeze' = [gcFreeze EXCEPT ![o] = ~@] /\ UNCHANGED <<gcMark, gcCount>>
       \/ /\ gcCount[o] < MaxCount
          /\ gcCount' = [gcCount EXCEPT ![o] = @ + 1] /\ UNCHANGED <<gcMark, gcFreeze>>
  /\ UNCHANGED <<gcNext, first, numObjects, cache, sweep, where, pool, doomed, fresh>>

\* A freed object has no fields.
Freed(o) ==
  /\ where' = [where EXCEPT ![o] = "free"]
  /\ pool' = [pool EXCEPT ![o] = NULL]
AppFree ==
  /\ ~sweep.on
  /\ \E o \in Objs :
       /\ where[o] = "app" /\ Freed(o)
       /\ gcFreeze' = [gcFreeze EXCEPT ![o] = FALSE]
       /\ gcMark' = [gcMark EXCEPT ![o] = FALSE]
       /\ gcCount' = [gcCount EXCEPT ![o] = 0]
  /\ UNCHANGED <<gcNext, first, numObjects, cache, sweep, doomed, fresh>>

-----------------------------------------------------------------------------
(* Gallector_sweep.                                                         *)

\* Mutant: a frozen object is swept too.
Dies_frozen(o) == ~gcMark[o]
Dies(o) == ~(gcMark[o] \/ gcFreeze[o])

AppSweep ==
  /\ ~sweep.on
  /\ sweep' = [Idle EXCEPT !.on = TRUE, !.object = first]
  /\ doomed' = {o \in Listed : ~gcMark[o] /\ ~gcFreeze[o]}
  /\ UNCHANGED <<gcCount, gcMark, gcFreeze, gcNext, first, numObjects, cache, where, pool, fresh>>

Here == sweep.object
Turn == sweep.on /\ ~sweep.freeer

\* Mutant: the sweep does not go on to the next object.
SweepKeep_stay ==
  /\ Turn /\ Here # NULL /\ ~Dies(Here)
  /\ gcMark' = [gcMark EXCEPT ![Here] = FALSE]
  /\ sweep' = [sweep EXCEPT !.previous = Here]
  /\ UNCHANGED <<gcCount, gcFreeze, gcNext, first, numObjects, cache, where, pool, doomed, fresh>>
SweepKeep ==
  /\ Turn /\ Here # NULL /\ ~Dies(Here)
  /\ gcMark' = [gcMark EXCEPT ![Here] = FALSE]
  /\ sweep' = [sweep EXCEPT !.previous = Here, !.object = gcNext[Here]]
  /\ UNCHANGED <<gcCount, gcFreeze, gcNext, first, numObjects, cache, where, pool, doomed, fresh>>

\* The links once o has been taken out of the list.  Mutant: the object before it
\* still points to it.
Unlinked_before(o) == [gcNext EXCEPT ![o] = NULL]
Unlinked(o) ==
  IF sweep.previous = NULL THEN [gcNext EXCEPT ![o] = NULL]
  ELSE [gcNext EXCEPT ![sweep.previous] = gcNext[o], ![o] = NULL]

\* While the sweep has kept nothing, the head of the list becomes the next object,
\* and what freeers have put before it meanwhile is in the list no more.
Dropped == IF sweep.previous = NULL THEN fresh ELSE {}
Leaving(o, to) == [x \in Objs |-> IF x = o THEN to ELSE IF x \in Dropped THEN "lost" ELSE where[x]]

\* An object that is neither marked nor frozen leaves the list, with no count and no
\* next, and the freeer frees it or returns it to its pool.
Away(o) ==
  \/ where' = Leaving(o, "free") /\ pool' = [pool EXCEPT ![o] = NULL] /\ gcNext' = Unlinked(o) /\ gcCount' = [gcCount EXCEPT ![o] = 0] /\ UNCHANGED cache
  \/ LET c == pool[o] IN
     /\ HasRoom(c)
     /\ gcCount' = IF cache[c] = NULL THEN [gcCount EXCEPT ![o] = 0] ELSE Depth(c, o)
     /\ gcNext' = [Unlinked(o) EXCEPT ![o] = cache[c]]
     /\ cache' = [cache EXCEPT ![c] = o]
     /\ where' = Leaving(o, "pool")
     /\ UNCHANGED pool

SweepFree ==
  LET o == Here IN
  /\ Turn /\ o # NULL /\ Dies(o)
  /\ sweep' = [sweep EXCEPT !.object = gcNext[o], !.freeer = TRUE]
  /\ first' = IF sweep.previous = NULL THEN gcNext[o] ELSE first
  /\ Away(o)
  /\ fresh' = fresh \ Dropped
  /\ UNCHANGED <<gcMark, gcFreeze, numObjects, doomed>>

FreeerReturns ==
  /\ sweep.freeer
  /\ sweep' = [sweep EXCEPT !.freeer = FALSE]
  /\ numObjects' = numObjects - 1
  /\ UNCHANGED <<gcCount, gcMark, gcFreeze, gcNext, first, cache, where, pool, doomed, fresh>>

SweepEnd ==
  /\ Turn /\ Here = NULL
  /\ sweep' = Idle
  /\ doomed' = {} /\ fresh' = {}
  /\ UNCHANGED <<gcCount, gcMark, gcFreeze, gcNext, first, numObjects, cache, where, pool>>

App == AppGet \/ AppReturn \/ AppFields \/ AppFree \/ AppSweep
Step == SweepKeep \/ SweepFree \/ FreeerReturns \/ SweepEnd
Next == App \/ Step
Spec == Init /\ [][Next]_vars

\* A sweep, once called, goes on, and a freeer returns.
FairSpec == Spec /\ WF_vars(Step)

-----------------------------------------------------------------------------
(* Properties.                                                              *)

\* Every variable has its type.
TypeOK ==
  /\ gcCount \in [Objs -> Nat] /\ gcNext \in [Objs -> Objs \cup {NULL}]
  /\ gcMark \in [Objs -> BOOLEAN] /\ gcFreeze \in [Objs -> BOOLEAN]
  /\ first \in Objs \cup {NULL} /\ numObjects \in Nat
  /\ cache \in [Pools -> Objs \cup {NULL}]
  /\ sweep \in [on : BOOLEAN, previous : Objs \cup {NULL}, object : Objs \cup {NULL},
                freeer : BOOLEAN]
  /\ where \in [Objs -> {"free", "app", "list", "pool", "lost"}]
  /\ pool \in [Objs -> Pools \cup {NULL}]
  /\ doomed \subseteq Objs /\ fresh \subseteq Objs

\* The members of S are numbered along gcNext from start, and the list ends there.
IsList(start, S) ==
  \E n \in [S -> 1..Cardinality(S)] :
    /\ start = NULL <=> S = {}
    /\ start # NULL => start \in S /\ n[start] = 1
    /\ \A x, y \in S : n[x] = n[y] => x = y
    /\ \A x \in S : IF n[x] = Cardinality(S) THEN gcNext[x] = NULL
                     ELSE gcNext[x] \in S /\ n[gcNext[x]] = n[x] + 1

\* The collector's list and the pools are disjoint lists that end, although they
\* share the field that links them; numObjects counts the collector's, those that it
\* has lost, and the one its freeer is working on.
ListsApart ==
  /\ IsList(first, Listed)
  /\ \A c \in Pools : IsList(cache[c], Pooled(c))
  /\ numObjects = Cardinality(Listed \cup Lost) + IF sweep.freeer THEN 1 ELSE 0

\* A pool holds one object more than its size at most, whatever the application has
\* counted in the objects it returns: the first object's count is never less than
\* the number of objects behind it.
PoolBounded ==
  \A c \in Pools :
    cache[c] # NULL => /\ Cardinality(Pooled(c)) <= gcCount[cache[c]] + 1
                       /\ Cardinality(Pooled(c)) <= Sizes[c] + 1

\* The links of the collector and of the pools are sound, and the pools are bounded.
ListsOK == TypeOK /\ ListsApart /\ PoolBounded

\* A sweep takes no object that was marked or frozen when it began, and a sweep that
\* returns has taken all the others and has reset the marks. It loses what a freeer
\* has put into the list exactly when it had kept nothing by then and takes another
\* object before it keeps one.
SweepExact ==
  [][/\ \A o \in Listed : where'[o] \in {"free", "app", "pool"} => o \in doomed
     /\ \A o \in Listed : where'[o] = "lost" => o \in fresh /\ sweep.previous = NULL
     /\ sweep.on /\ ~sweep'.on => /\ doomed \cap Listed = {}
                                 /\ \A o \in Listed \ fresh : ~gcMark[o]]_vars

\* A sweep returns: freeing and unlinking never close the list into a circle.
SweepReturns == sweep.on ~> ~sweep.on
=============================================================================
