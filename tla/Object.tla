------------------------------- MODULE Object -------------------------------
(***************************************************************************)
(* object.h: the reference count every heap object of the library starts   *)
(* with.  An object is an identity in Objs; gcCount[o] = 0 says that o is   *)
(* not allocated, because Object_release frees an object whose count        *)
(* reaches 0.  The objects counted here are leaves (String, Object, ...):   *)
(* freeing one releases nothing else.                                       *)
(*                                                                          *)
(* held[o] is an auxiliary variable: the references to o the application    *)
(* owns, one from Object_new and one from each Object_retain it called and  *)
(* has not yet given back.  The application keeps the library's contract:   *)
(* it releases only what it holds.                                          *)
(***************************************************************************)
EXTENDS Integers

CONSTANTS Objs,      \* object identities (addresses malloc may hand out)
          MaxHeld    \* bound: references the application keeps to one object

VARIABLES gcCount,   \* Object.gcCount; 0 when the object is not allocated
          held       \* auxiliary: references owned by the application

objVars == <<gcCount, held>>

ObjectTypeOK == /\ gcCount \in [Objs -> Nat]
                /\ held \in [Objs -> Nat]

ObjectInit == /\ gcCount = [o \in Objs |-> 0]
              /\ held = [o \in Objs |-> 0]

Allocated(o) == gcCount[o] > 0

\* The counts after a retain or a release that a container makes.
Object_retain(gc, o) == [gc EXCEPT ![o] = @ + 1]
Object_release(gc, o) == [gc EXCEPT ![o] = @ - 1]

\* Object_new: Object_init sets the count to 1, and the caller owns it.
Object_new(o) ==
  /\ ~Allocated(o)
  /\ gcCount' = [gcCount EXCEPT ![o] = 1]
  /\ held' = [held EXCEPT ![o] = 1]

\* The application retains an object it can still reach.
App_retain(o) ==
  /\ held[o] \in 1..(MaxHeld - 1)
  /\ gcCount' = Object_retain(gcCount, o)
  /\ held' = [held EXCEPT ![o] = @ + 1]

\* The application gives one of its references back.
App_release(o) ==
  /\ held[o] > 0
  /\ gcCount' = Object_release(gcCount, o)
  /\ held' = [held EXCEPT ![o] = @ - 1]
=============================================================================
