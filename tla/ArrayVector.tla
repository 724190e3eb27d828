----------------------------- MODULE ArrayVector -----------------------------
(* The arrays as the application sees them: between 0 and the length each    *)
(* one holds a sequence, which Vector specifies.                             *)
EXTENDS Array

contents == [a \in Arrays |-> Content(a)]

Abstract == INSTANCE Vector
              WITH Ids <- Arrays, Values <- Elements, Null <- NULL, content <- contents

\* Every call of array.h, and every step of the loops of copyTo and slice, is one
\* step of a sequence: an element is put, inserted or removed, and the others stay
\* in their order.
ImplementsVector == Abstract!Spec
=============================================================================
