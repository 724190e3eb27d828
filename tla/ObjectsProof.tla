---------------------------- MODULE ObjectsProof ----------------------------
(* The objects of the library: the collector that frees them, and the       *)
(* strings, the most used of them.  The list of the collector and the pools *)
(* stay lists that end and share no object, for any objects, pools and      *)
(* sizes, whatever freeers take while a sweep runs; and a sweep takes what  *)
(* it should (gallector.h).  The text of a string ends with its terminator  *)
(* inside its block, for any texts, capacities and calls: no call that asks *)
(* for room writes outside, it ends inside or overflows an int first; and   *)
(* every call on a text without a NUL inside gives what its name says       *)
(* (string.h).                                                              *)
EXTENDS Gallector, StringBuffer, ListLemmas, FunctionTheorems, TLAPS

----------------------------------------------------------------------------
(* The collector.                                                           *)

(* The members of S are numbered along nx from hd down to 1, so that        *)
(* putting a member before the head, or dropping those before one, changes  *)
(* no number.                                                               *)
Numbered(m, S, hd, nx) ==
  /\ m \in [S -> 1 .. Cardinality(S)]
  /\ hd = NULL <=> S = {}
  /\ hd # NULL => hd \in S /\ m[hd] = Cardinality(S)
  /\ \A x, y \in S : m[x] = m[y] => x = y
  /\ \A x \in S : IF m[x] = 1 THEN nx[x] = NULL ELSE nx[x] \in S /\ m[nx[x]] = m[x] - 1

(* The arithmetic of a numbering.                                           *)
LEMMA NumFacts ==
  ASSUME NEW S \in SUBSET Objs, NEW m, NEW hd, NEW nx, Numbered(m, S, hd, nx)
  PROVE  /\ IsFiniteSet(S) /\ Cardinality(S) \in Nat
         /\ \A x \in S : m[x] \in Nat /\ m[x] >= 1 /\ m[x] <= Cardinality(S)
         /\ \A x \in S : x # NULL
         /\ NULL \notin S
<1>1. IsFiniteSet(S) /\ Cardinality(S) \in Nat
  BY GallectorAssumption, FS_Subset, FS_CardinalityType
<1>2. \A x \in S : m[x] \in Nat /\ m[x] >= 1 /\ m[x] <= Cardinality(S)
  BY <1>1 DEF Numbered
<1> QED BY <1>1, <1>2, GallectorAssumption

(* A numbering is what IsList asks for, counted from the head.              *)
LEMMA NumIsList ==
  ASSUME NEW S \in SUBSET Objs, NEW m, NEW hd, Numbered(m, S, hd, gcNext)
  PROVE  IsList(hd, S)
<1> DEFINE k == Cardinality(S)
           n == [x \in S |-> k + 1 - m[x]]
<1>1. k \in Nat /\ \A x \in S : m[x] \in Nat /\ m[x] >= 1 /\ m[x] <= k
  BY NumFacts
<1>2. n \in [S -> 1 .. k] /\ \A x \in S : n[x] = k + 1 - m[x]
  BY <1>1
<1> HIDE DEF n, k
<1>3. hd = NULL <=> S = {}
  BY DEF Numbered
<1>4. hd # NULL => hd \in S /\ n[hd] = 1
  BY <1>1, <1>2 DEF Numbered, k
<1>5. \A x, y \in S : n[x] = n[y] => x = y
  <2> SUFFICES ASSUME NEW x \in S, NEW y \in S, n[x] = n[y] PROVE x = y
    OBVIOUS
  <2>1. n[x] = k + 1 - m[x] /\ n[y] = k + 1 - m[y] /\ m[x] \in Nat /\ m[y] \in Nat
    BY <1>1, <1>2
  <2>2. k + 1 - m[x] = k + 1 - m[y]
    BY <2>1, Zenon
  <2>3. m[x] = m[y]
    BY <2>1, <2>2, <1>1
  <2> QED BY <2>3 DEF Numbered
<1>6. ASSUME NEW x \in S
      PROVE  IF n[x] = k THEN gcNext[x] = NULL ELSE gcNext[x] \in S /\ n[gcNext[x]] = n[x] + 1
  <2>1. IF m[x] = 1 THEN gcNext[x] = NULL ELSE gcNext[x] \in S /\ m[gcNext[x]] = m[x] - 1
    BY DEF Numbered
  <2> QED BY <2>1, <1>1, <1>2
<1>7. /\ n \in [S -> 1 .. Cardinality(S)]
      /\ hd = NULL <=> S = {}
      /\ hd # NULL => hd \in S /\ n[hd] = 1
      /\ \A x, y \in S : n[x] = n[y] => x = y
      /\ \A x \in S : IF n[x] = Cardinality(S) THEN gcNext[x] = NULL
                      ELSE gcNext[x] \in S /\ n[gcNext[x]] = n[x] + 1
  BY <1>2, <1>3, <1>4, <1>5, <1>6 DEF k
<1> QED BY <1>7 DEF IsList

LEMMA NumEmpty ==
  ASSUME NEW nx
  PROVE  Numbered([x \in {} |-> 1], {}, NULL, nx)
<1>1. Cardinality({}) = 0
  BY FS_EmptySet
<1> QED BY <1>1 DEF Numbered

(* Only the links of the members count.                                     *)
LEMMA NumSame ==
  ASSUME NEW S, NEW m, NEW hd, NEW nx, NEW nx2, Numbered(m, S, hd, nx),
         \A x \in S : nx2[x] = nx[x]
  PROVE  Numbered(m, S, hd, nx2)
BY DEF Numbered

(* An object put before the head.                                           *)
LEMMA NumPush ==
  ASSUME NEW S \in SUBSET Objs, NEW m, NEW hd, NEW nx, NEW nx2, NEW o \in Objs \ S,
         Numbered(m, S, hd, nx), nx2[o] = hd, \A x \in S : nx2[x] = nx[x],
         NEW q, q = [x \in S \cup {o} |-> IF x = o THEN Cardinality(S) + 1 ELSE m[x]]
  PROVE  Numbered(q, S \cup {o}, o, nx2)
<1> DEFINE k == Cardinality(S)
           R == S \cup {o}
<1>1. k \in Nat /\ \A x \in S : m[x] \in Nat /\ m[x] >= 1 /\ m[x] <= k
  BY NumFacts
<1>2. Cardinality(R) = k + 1
  BY NumFacts, FS_AddElement
<1>3. q \in [R -> 1 .. k + 1] /\ q[o] = k + 1 /\ \A x \in S : q[x] = m[x]
  BY <1>1
<1> HIDE DEF k
<1>4. o # NULL /\ o \in R /\ R # {}
  BY GallectorAssumption
<1>5. \A x, y \in R : q[x] = q[y] => x = y
  <2> SUFFICES ASSUME NEW x \in R, NEW y \in R, q[x] = q[y] PROVE x = y
    OBVIOUS
  <2>1. CASE x = o \/ y = o
    BY <2>1, <1>1, <1>3
  <2>2. CASE x # o /\ y # o
    BY <2>2, <1>3 DEF Numbered
  <2> QED BY <2>1, <2>2
<1>6. ASSUME NEW x \in R
      PROVE  IF q[x] = 1 THEN nx2[x] = NULL ELSE nx2[x] \in R /\ q[nx2[x]] = q[x] - 1
  <2>1. CASE x = o
    <3>1. CASE hd = NULL
      <4>1. S = {}
        BY <3>1 DEF Numbered
      <4>2. k = 0
        BY <4>1, FS_EmptySet DEF k
      <4> QED BY <2>1, <3>1, <4>2, <1>3
    <3>2. CASE hd # NULL
      <4>1. hd \in S /\ m[hd] = k
        BY <3>2 DEF Numbered, k
      <4> QED BY <2>1, <4>1, <1>1, <1>3
    <3> QED BY <3>1, <3>2
  <2>2. CASE x # o
    <3>1. x \in S /\ nx2[x] = nx[x] /\ q[x] = m[x]
      BY <2>2, <1>3
    <3>2. IF m[x] = 1 THEN nx[x] = NULL ELSE nx[x] \in S /\ m[nx[x]] = m[x] - 1
      BY <3>1 DEF Numbered
    <3> QED BY <3>1, <3>2, <1>3
  <2> QED BY <2>1, <2>2
<1> QED BY <1>2, <1>3, <1>4, <1>5, <1>6 DEF Numbered

(* What is behind a member is a list of its own.                            *)
LEMMA NumCut ==
  ASSUME NEW S \in SUBSET Objs, NEW m, NEW hd, NEW nx, Numbered(m, S, hd, nx), NEW o \in S,
         NEW T, T = {x \in S : m[x] < m[o]}
  PROVE  /\ Numbered([x \in T |-> m[x]], T, nx[o], nx)
         /\ Cardinality(T) = m[o] - 1
<1> DEFINE k == Cardinality(S)
           q == [x \in T |-> m[x]]
<1>1. IsFiniteSet(S) /\ k \in Nat /\ \A x \in S : m[x] \in Nat /\ m[x] >= 1 /\ m[x] <= k
  BY NumFacts
<1>2. m \in Injection(S, 1 .. k)
  BY DEF Numbered, Injection, IsInjective
<1>3. IsFiniteSet(1 .. k) /\ Cardinality(1 .. k) = k
  BY <1>1, FS_Interval
<1>4. m \in Surjection(S, 1 .. k)
  BY <1>2, <1>3, FS_Injection
<1>5. \A i \in 1 .. k : \E x \in S : m[x] = i
  BY <1>4, Zenon DEF Surjection
<1> HIDE DEF k
<1>6. q \in [T -> 1 .. m[o] - 1] /\ \A x \in T : x \in S /\ q[x] = m[x]
  BY <1>1
<1> HIDE DEF q
<1>7. \A x, y \in T : q[x] = q[y] => x = y
  BY <1>6 DEF Numbered
<1>8. ASSUME NEW i \in 1 .. m[o] - 1 PROVE \E x \in T : q[x] = i
  <2>1. i \in 1 .. k /\ i < m[o]
    BY <1>1
  <2>2. PICK x \in S : m[x] = i
    BY <2>1, <1>5
  <2>3. x \in T
    BY <2>1, <2>2
  <2> QED BY <2>2, <2>3, <1>6
<1>9. q \in Surjection(T, 1 .. m[o] - 1)
  BY <1>6, <1>8, Zenon DEF Surjection
<1>10. q \in Injection(T, 1 .. m[o] - 1)
  BY <1>6, <1>7, Zenon DEF Injection, IsInjective
<1>11. IsFiniteSet(1 .. m[o] - 1) /\ Cardinality(1 .. m[o] - 1) = m[o] - 1
  BY <1>1, FS_Interval
<1>12. Cardinality(T) = m[o] - 1
  BY <1>9, <1>10, <1>11, FS_Injection
<1>13. IF m[o] = 1 THEN nx[o] = NULL ELSE nx[o] \in S /\ m[nx[o]] = m[o] - 1
  BY DEF Numbered
<1>14. nx[o] = NULL <=> T = {}
  <2>1. CASE m[o] = 1
    <3>1. T = {}
      BY <2>1, <1>1
    <3> QED BY <2>1, <3>1, <1>13
  <2>2. CASE m[o] # 1
    <3>1. nx[o] \in T
      BY <2>2, <1>1, <1>13
    <3> QED BY <3>1, <1>13, <2>2, GallectorAssumption
  <2> QED BY <2>1, <2>2
<1>15. nx[o] # NULL => nx[o] \in T /\ q[nx[o]] = m[o] - 1
  <2> SUFFICES ASSUME nx[o] # NULL PROVE nx[o] \in T /\ q[nx[o]] = m[o] - 1
    OBVIOUS
  <2>1. nx[o] \in S /\ m[nx[o]] = m[o] - 1
    BY <1>13
  <2>2. nx[o] \in T
    BY <2>1, <1>1
  <2> QED BY <2>1, <2>2, <1>6
<1>16. ASSUME NEW x \in T
       PROVE  IF q[x] = 1 THEN nx[x] = NULL ELSE nx[x] \in T /\ q[nx[x]] = q[x] - 1
  <2>1. x \in S /\ q[x] = m[x] /\ m[x] < m[o]
    BY <1>6
  <2>2. IF m[x] = 1 THEN nx[x] = NULL ELSE nx[x] \in S /\ m[nx[x]] = m[x] - 1
    BY <2>1 DEF Numbered
  <2>3. CASE m[x] = 1
    BY <2>1, <2>2, <2>3
  <2>4. CASE m[x] # 1
    <3>1. nx[x] \in S /\ m[nx[x]] = m[x] - 1
      BY <2>2, <2>4
    <3>2. nx[x] \in T
      BY <2>1, <3>1, <1>1
    <3> QED BY <2>1, <3>1, <3>2, <2>4, <1>6
  <2> QED BY <2>3, <2>4
<1>17. Numbered(q, T, nx[o], nx)
  BY <1>6, <1>7, <1>12, <1>14, <1>15, <1>16 DEF Numbered
<1> QED BY <1>12, <1>17 DEF q

(* The head taken off.                                                      *)
LEMMA NumPop ==
  ASSUME NEW S \in SUBSET Objs, NEW m, NEW hd \in Objs, NEW nx, Numbered(m, S, hd, nx)
  PROVE  /\ hd \in S
         /\ Numbered([x \in S \ {hd} |-> m[x]], S \ {hd}, nx[hd], nx)
         /\ Cardinality(S \ {hd}) = Cardinality(S) - 1
<1>1. hd \in S /\ m[hd] = Cardinality(S)
  BY GallectorAssumption DEF Numbered
<1>2. \A x \in S : m[x] \in Nat /\ m[x] <= Cardinality(S) /\ Cardinality(S) \in Nat
  BY NumFacts
<1>3. \A x \in S : x # hd => m[x] < m[hd]
  <2> SUFFICES ASSUME NEW x \in S, x # hd PROVE m[x] < m[hd]
    OBVIOUS
  <2>1. m[x] # m[hd]
    BY <1>1 DEF Numbered
  <2> QED BY <2>1, <1>1, <1>2
<1>4. S \ {hd} = {x \in S : m[x] < m[hd]}
  BY <1>1, <1>2, <1>3
<1>5. /\ Numbered([x \in S \ {hd} |-> m[x]], S \ {hd}, nx[hd], nx)
      /\ Cardinality(S \ {hd}) = m[hd] - 1
  BY <1>1, <1>4, NumCut
<1> QED BY <1>1, <1>5

(* A member behind pr taken out, once pr points past it.                    *)
LEMMA NumUnlink ==
  ASSUME NEW S \in SUBSET Objs, NEW m, NEW hd, NEW nx, NEW nx2, Numbered(m, S, hd, nx),
         NEW o \in S, NEW pr \in S, nx[pr] = o, nx2[pr] = nx[o],
         \A x \in S : x # pr /\ x # o => nx2[x] = nx[x],
         NEW q, q = [x \in S \ {o} |-> IF m[x] > m[o] THEN m[x] - 1 ELSE m[x]]
  PROVE  Numbered(q, S \ {o}, hd, nx2)
<1> DEFINE k == Cardinality(S)
           R == S \ {o}
<1>1. IsFiniteSet(S) /\ k \in Nat /\ \A x \in S : m[x] \in Nat /\ m[x] >= 1 /\ m[x] <= k
  BY NumFacts
<1>2. o # NULL /\ NULL \notin S
  BY NumFacts
<1>3. m[o] = m[pr] - 1
  BY <1>2 DEF Numbered
<1>4. pr # o /\ m[pr] > m[o] /\ m[pr] \in Nat /\ m[o] \in Nat
  BY <1>1, <1>3
<1>5. Cardinality(R) = k - 1
  BY <1>1, FS_RemoveElement
<1>6. hd \in S /\ m[hd] = k /\ hd # NULL
  BY DEF Numbered
<1>7. hd \in R /\ R # {}
  BY <1>1, <1>4, <1>6
<1>8. \A x \in R : x \in S /\ x # o /\ m[x] # m[o]
  BY DEF Numbered
<1>9. \A x \in R : q[x] = IF m[x] > m[o] THEN m[x] - 1 ELSE m[x]
  OBVIOUS
<1>10. \A x \in R : q[x] \in 1 .. k - 1
  BY <1>1, <1>4, <1>8, <1>9
<1>11. q \in [R -> 1 .. k - 1]
  BY <1>10
<1>12. q[hd] = k - 1
  BY <1>1, <1>6, <1>7, <1>8, <1>9
<1> HIDE DEF k
<1>13. ASSUME NEW x \in R, NEW y \in R, q[x] = q[y] PROVE x = y
  <2>1. m[x] = m[y]
    BY <1>1, <1>8, <1>9, <1>13
  <2> QED BY <2>1 DEF Numbered
<1>14. ASSUME NEW x \in R
       PROVE  IF q[x] = 1 THEN nx2[x] = NULL ELSE nx2[x] \in R /\ q[nx2[x]] = q[x] - 1
  <2>1. x \in S /\ x # o /\ m[x] \in Nat /\ m[x] >= 1 /\ m[x] # m[o]
    BY <1>1, <1>8
  <2>2. CASE x = pr
    <3>1. nx2[x] = nx[o] /\ q[x] = m[o]
      BY <2>2, <1>3, <1>4, <1>9
    <3>2. CASE m[o] = 1
      <4>1. nx[o] = NULL
        BY <3>2 DEF Numbered
      <4> QED BY <3>1, <3>2, <4>1
    <3>3. CASE m[o] # 1
      <4>1. nx[o] \in S /\ m[nx[o]] = m[o] - 1
        BY <3>3 DEF Numbered
      <4>2. nx[o] \in R
        BY <4>1, <1>4
      <4>3. q[nx[o]] = m[o] - 1
        BY <4>1, <4>2, <1>4, <1>9
      <4> QED BY <3>1, <3>3, <4>2, <4>3
    <3> QED BY <3>2, <3>3
  <2>3. CASE x # pr
    <3>1. nx2[x] = nx[x]
      BY <2>1, <2>3
    <3>2. CASE m[x] = 1
      <4>1. q[x] = 1 /\ nx[x] = NULL
        <5>1. nx[x] = NULL
          BY <2>1, <3>2 DEF Numbered
        <5>2. ~(m[x] > m[o])
          BY <3>2, <1>1, <1>4
        <5> QED BY <5>1, <5>2, <3>2, <1>9
      <4> QED BY <3>1, <4>1
    <3>3. CASE m[x] # 1
      <4>1. nx[x] \in S /\ m[nx[x]] = m[x] - 1
        BY <2>1, <3>3 DEF Numbered
      <4>2. m[x] # m[pr]
        BY <2>1, <2>3 DEF Numbered
      <4>3. m[nx[x]] # m[o]
        BY <2>1, <4>1, <4>2, <1>3, <1>4
      <4>4. nx[x] \in R
        BY <4>1, <4>3
      <4>5. q[nx[x]] = IF m[x] - 1 > m[o] THEN m[x] - 2 ELSE m[x] - 1
        BY <2>1, <4>1, <4>4, <1>9
      <4>6. CASE m[x] > m[o]
        <5>1. m[x] - 1 > m[o] /\ q[x] = m[x] - 1
          BY <2>1, <4>1, <4>3, <4>6, <1>4, <1>9
        <5>2. q[x] # 1
          BY <5>1, <1>1, <2>1
        <5> QED BY <2>1, <3>1, <4>4, <4>5, <5>1, <5>2
      <4>7. CASE ~(m[x] > m[o])
        <5>1. q[x] = m[x] /\ ~(m[x] - 1 > m[o])
          BY <2>1, <4>7, <1>4, <1>9
        <5> QED BY <2>1, <3>1, <3>3, <4>4, <4>5, <5>1
      <4> QED BY <4>6, <4>7
    <3> QED BY <3>2, <3>3
  <2> QED BY <2>2, <2>3
<1>15. \A x, y \in R : q[x] = q[y] => x = y
  BY <1>13
<1> QED BY <1>5, <1>6, <1>7, <1>11, <1>12, <1>14, <1>15 DEF Numbered

----------------------------------------------------------------------------
(* The inductive invariant.                                                 *)

(* A pool: what a member counts is never less than what is behind it, and   *)
(* the pool holds one more than its size at most.                           *)
Counted(p, S, cnt, size) ==
  /\ \A x \in S : p[x] <= cnt[x] + 1
  /\ Cardinality(S) <= size + 1
Fits(S, hd, nx, cnt, size) ==
  \E p \in [S -> 1 .. Cardinality(S)] : Numbered(p, S, hd, nx) /\ Counted(p, S, cnt, size)

(* The objects a sweep has not come to yet. What is before them it has kept *)
(* or a freeer has put there; and while it has kept nothing, all of that is *)
(* a freeer's, and otherwise the last it kept is just before its next.      *)
Ahead(m, S, sw) == {x \in S : sw.object # NULL /\ m[x] <= m[sw.object]}
GcWalk(m, S, nx, sw, fr) ==
  /\ sw.freeer => sw.on
  /\ ~sw.on => sw = Idle /\ fr = {}
  /\ sw.object \in S \cup {NULL}
  /\ sw.on /\ sw.previous = NULL => fr = S \ Ahead(m, S, sw)
  /\ sw.previous # NULL => sw.previous \in S /\ nx[sw.previous] = sw.object
(* The doomed among them are those neither marked nor frozen, and behind    *)
(* the sweep is nothing doomed and nothing it left marked.                  *)
Judged(m, S, sw, mark, freeze, dm, fr) ==
  sw.on => /\ \A x \in Ahead(m, S, sw) : x \in dm <=> ~(mark[x] \/ freeze[x])
           /\ \A x \in S \ Ahead(m, S, sw) : x \notin dm /\ (x \in fr \/ ~mark[x])
Collected(m) ==
  /\ Numbered(m, Listed, first, gcNext)
  /\ GcWalk(m, Listed, gcNext, sweep, fresh)
  /\ Judged(m, Listed, sweep, gcMark, gcFreeze, doomed, fresh)

Owned ==
  /\ \A o \in Objs : where[o] # "free" => pool[o] \in Pools
  /\ \A o \in Objs : where[o] = "app" => gcNext[o] = NULL
PoolsFit == \A c \in Pools : Fits(Pooled(c), cache[c], gcNext, gcCount, Sizes[c])
InOrder == \E m \in [Listed -> 1 .. Cardinality(Listed)] : Collected(m)
CountOK == numObjects = Cardinality(Listed \cup Lost) + IF sweep.freeer THEN 1 ELSE 0

IInv == TypeOK /\ Owned /\ PoolsFit /\ InOrder /\ CountOK

LEMMA FitsSame ==
  ASSUME NEW S \in SUBSET Objs, NEW hd, NEW nx, NEW nx2,
         NEW cnt \in [Objs -> Nat], NEW cnt2 \in [Objs -> Nat], NEW size,
         Fits(S, hd, nx, cnt, size), \A x \in S : nx2[x] = nx[x] /\ cnt2[x] >= cnt[x]
  PROVE  Fits(S, hd, nx2, cnt2, size)
<1>1. PICK p \in [S -> 1 .. Cardinality(S)] : Numbered(p, S, hd, nx) /\ Counted(p, S, cnt, size)
  BY DEF Fits
<1>2. Numbered(p, S, hd, nx2)
  BY <1>1, NumSame
<1>3. \A x \in S : p[x] \in Nat
  BY <1>1, NumFacts
<1>4. \A x \in S : p[x] <= cnt[x] + 1 /\ cnt[x] \in Nat /\ cnt2[x] \in Nat
  BY <1>1 DEF Counted
<1>5. \A x \in S : p[x] <= cnt2[x] + 1
  BY <1>3, <1>4
<1>6. Counted(p, S, cnt2, size)
  BY <1>1, <1>5 DEF Counted
<1> QED BY <1>1, <1>2, <1>6 DEF Fits

(* An object put into a pool with room for it.                              *)
LEMMA FitsPush ==
  ASSUME NEW S \in SUBSET Objs, NEW hd, NEW nx, NEW nx2, NEW o \in Objs \ S,
         NEW cnt \in [Objs -> Nat], NEW cnt2 \in [Objs -> Nat], NEW size \in Nat,
         Fits(S, hd, nx, cnt, size), nx2[o] = hd,
         \A x \in S : nx2[x] = nx[x] /\ cnt2[x] = cnt[x],
         hd # NULL => cnt[hd] < size /\ cnt2[o] = cnt[hd] + 1
  PROVE  Fits(S \cup {o}, o, nx2, cnt2, size)
<1>1. PICK p \in [S -> 1 .. Cardinality(S)] : Numbered(p, S, hd, nx) /\ Counted(p, S, cnt, size)
  BY DEF Fits
<1> DEFINE k == Cardinality(S)
           R == S \cup {o}
           q == [x \in R |-> IF x = o THEN k + 1 ELSE p[x]]
<1>2. IsFiniteSet(S) /\ k \in Nat /\ \A x \in S : p[x] \in Nat
  BY <1>1, NumFacts
<1>3. Numbered(q, R, o, nx2)
  BY <1>1, NumPush
<1>4. Cardinality(R) = k + 1
  BY <1>2, FS_AddElement
<1>5. k + 1 <= cnt2[o] + 1 /\ k + 1 <= size + 1
  <2>1. cnt2[o] \in Nat
    OBVIOUS
  <2>2. CASE hd = NULL
    <3>1. S = {}
      BY <1>1, <2>2 DEF Numbered
    <3>2. k = 0
      BY <3>1, FS_EmptySet
    <3> QED BY <2>1, <3>2
  <2>3. CASE hd # NULL
    <3>1. hd \in S /\ p[hd] = k
      BY <1>1, <2>3 DEF Numbered
    <3>2. k <= cnt[hd] + 1 /\ cnt[hd] \in Nat
      BY <1>1, <3>1 DEF Counted
    <3> QED BY <2>1, <2>3, <3>2, <1>2
  <2> QED BY <2>2, <2>3
<1>6. \A x \in S : p[x] <= cnt2[x] + 1
  BY <1>1 DEF Counted
<1>7. q[o] = k + 1 /\ \A x \in S : q[x] = p[x]
  OBVIOUS
<1> HIDE DEF q, k
<1>8. Counted(q, R, cnt2, size)
  BY <1>4, <1>5, <1>6, <1>7 DEF Counted
<1>9. q \in [R -> 1 .. Cardinality(R)]
  BY <1>3 DEF Numbered
<1> QED BY <1>3, <1>8, <1>9 DEF Fits

(* The first object of a pool taken out.                                    *)
LEMMA FitsPop ==
  ASSUME NEW S \in SUBSET Objs, NEW hd \in Objs, NEW nx,
         NEW cnt \in [Objs -> Nat], NEW size \in Nat, Fits(S, hd, nx, cnt, size)
  PROVE  hd \in S /\ Fits(S \ {hd}, nx[hd], nx, cnt, size) /\ nx[hd] \in S \cup {NULL}
<1>1. PICK p \in [S -> 1 .. Cardinality(S)] : Numbered(p, S, hd, nx) /\ Counted(p, S, cnt, size)
  BY DEF Fits
<1> DEFINE R == S \ {hd}
           q == [x \in R |-> p[x]]
<1>2. hd \in S /\ Numbered(q, R, nx[hd], nx) /\ Cardinality(R) = Cardinality(S) - 1
  BY <1>1, NumPop
<1>3. Cardinality(S) \in Nat
  BY <1>1, NumFacts
<1>4. Cardinality(S) <= size + 1 /\ \A x \in S : p[x] <= cnt[x] + 1
  BY <1>1 DEF Counted
<1>5. \A x \in R : q[x] = p[x] /\ x \in S
  OBVIOUS
<1> HIDE DEF q
<1>6. \A x \in R : q[x] <= cnt[x] + 1
  BY <1>4, <1>5
<1>7. Cardinality(R) <= size + 1
  BY <1>2, <1>3, <1>4
<1>8. Counted(q, R, cnt, size)
  BY <1>6, <1>7 DEF Counted
<1>9. q \in [R -> 1 .. Cardinality(R)]
  BY <1>2 DEF Numbered
<1>10. nx[hd] \in S \cup {NULL}
  BY <1>1, <1>2 DEF Numbered
<1> QED BY <1>2, <1>8, <1>9, <1>10 DEF Fits

LEMMA FitsHead ==
  ASSUME NEW S \in SUBSET Objs, NEW hd, NEW nx, NEW cnt, NEW size, Fits(S, hd, nx, cnt, size)
  PROVE  hd \in S \cup {NULL} /\ (hd = NULL <=> S = {})
<1>1. PICK p \in [S -> 1 .. Cardinality(S)] : Numbered(p, S, hd, nx)
  BY DEF Fits
<1> QED BY <1>1 DEF Numbered

----------------------------------------------------------------------------
(* What the invariant gives.                                                *)

LEMMA Implied == IInv => ListsOK
<1> SUFFICES ASSUME IInv PROVE ListsOK
  OBVIOUS
<1>1. IsList(first, Listed)
  <2>1. PICK m : Numbered(m, Listed, first, gcNext)
    BY DEF IInv, InOrder, Collected
  <2>2. Listed \in SUBSET Objs
    BY DEF Listed
  <2> QED BY <2>1, <2>2, NumIsList
<1>2. ASSUME NEW c \in Pools
      PROVE  /\ IsList(cache[c], Pooled(c))
             /\ cache[c] # NULL => /\ Cardinality(Pooled(c)) <= gcCount[cache[c]] + 1
                                   /\ Cardinality(Pooled(c)) <= Sizes[c] + 1
  <2>1. PICK p : /\ Numbered(p, Pooled(c), cache[c], gcNext)
                 /\ Counted(p, Pooled(c), gcCount, Sizes[c])
    BY DEF IInv, PoolsFit, Fits
  <2>2. Pooled(c) \in SUBSET Objs
    BY DEF Pooled
  <2>3. IsList(cache[c], Pooled(c))
    BY <2>1, <2>2, NumIsList
  <2>4. cache[c] # NULL => cache[c] \in Pooled(c) /\ p[cache[c]] = Cardinality(Pooled(c))
    BY <2>1 DEF Numbered
  <2>5. cache[c] # NULL => Cardinality(Pooled(c)) <= gcCount[cache[c]] + 1
    BY <2>1, <2>4 DEF Counted
  <2>6. Cardinality(Pooled(c)) <= Sizes[c] + 1
    BY <2>1 DEF Counted
  <2> QED BY <2>3, <2>5, <2>6
<1>3. ListsApart
  BY <1>1, <1>2 DEF ListsApart, IInv, CountOK
<1>4. PoolBounded
  BY <1>2 DEF PoolBounded
<1> QED BY <1>3, <1>4 DEF ListsOK, IInv

LEMMA Initially == Init => IInv
<1> SUFFICES ASSUME Init PROVE IInv
  OBVIOUS
<1>1. Listed = {} /\ Lost = {} /\ \A c \in Pools : Pooled(c) = {}
  BY DEF Init, Listed, Lost, Pooled
<1>2. Cardinality({}) = 0
  BY FS_EmptySet
<1>3. Numbered([x \in {} |-> 1], {}, NULL, gcNext) /\ [x \in {} |-> 1] \in [{} -> 1 .. Cardinality({})]
  <2>1. Numbered([x \in {} |-> 1], {}, NULL, gcNext)
    BY NumEmpty
  <2> QED BY <2>1
<1>4. TypeOK
  BY DEF Init, TypeOK, Idle
<1>5. Owned
  BY DEF Init, Owned
<1>6. ASSUME NEW c \in Pools PROVE Fits(Pooled(c), cache[c], gcNext, gcCount, Sizes[c])
  <2>1. cache[c] = NULL /\ Sizes[c] \in Nat
    BY GallectorAssumption DEF Init
  <2>2. 0 <= Sizes[c] + 1
    BY <2>1
  <2>3. Counted([x \in {} |-> 1], {}, gcCount, Sizes[c])
    BY <2>2, <1>2 DEF Counted
  <2> QED BY <2>1, <2>3, <1>1, <1>3 DEF Fits
<1>7. InOrder
  <2>1. GcWalk([x \in {} |-> 1], {}, gcNext, sweep, fresh)
    BY DEF Init, GcWalk, Idle
  <2>2. Judged([x \in {} |-> 1], {}, sweep, gcMark, gcFreeze, doomed, fresh)
    BY DEF Init, Judged, Idle
  <2>3. first = NULL
    BY DEF Init
  <2>4. Collected([x \in {} |-> 1])
    BY <1>1, <1>3, <2>1, <2>2, <2>3 DEF Collected
  <2> QED BY <1>1, <1>3, <2>4 DEF InOrder
<1>8. CountOK
  BY <1>1, <1>2 DEF CountOK, Init, Idle
<1> QED BY <1>4, <1>5, <1>6, <1>7, <1>8 DEF IInv, PoolsFit

----------------------------------------------------------------------------
(* Steps outside the sweep: what they leave alone, and what they put into   *)
(* the list.                                                                *)

(* The list, the sweep and the fields of the listed objects are left alone. *)
OrderKept ==
  /\ Listed' = Listed /\ first' = first /\ sweep' = sweep /\ fresh' = fresh
  /\ \A x \in Listed : gcNext'[x] = gcNext[x]
  /\ sweep.on => \A x \in Listed : /\ gcMark'[x] = gcMark[x] /\ gcFreeze'[x] = gcFreeze[x]
                                   /\ x \in doomed' <=> x \in doomed

LEMMA KeepOrder ==
  ASSUME NEW m, Collected(m), OrderKept
  PROVE  Collected(m)'
<1>1. Numbered(m, Listed', first', gcNext')
  BY NumSame DEF Collected, OrderKept
<1>2. Ahead(m, Listed', sweep') = Ahead(m, Listed, sweep)
  BY DEF OrderKept
<1>3. GcWalk(m, Listed', gcNext', sweep', fresh')
  <2>1. GcWalk(m, Listed, gcNext, sweep, fresh)
    BY DEF Collected
  <2> QED BY <1>2, <2>1 DEF GcWalk, OrderKept
<1>4. Ahead(m, Listed, sweep) \subseteq Listed
  BY DEF Ahead
<1>5. Judged(m, Listed', sweep', gcMark', gcFreeze', doomed', fresh')
  <2>1. Judged(m, Listed, sweep, gcMark, gcFreeze, doomed, fresh)
    BY DEF Collected
  <2> QED BY <1>2, <1>4, <2>1 DEF Judged, OrderKept
<1> QED BY <1>1, <1>3, <1>5 DEF Collected

LEMMA KeepInOrder == InOrder /\ OrderKept => InOrder'
<1> SUFFICES ASSUME InOrder, OrderKept PROVE InOrder'
  OBVIOUS
<1>1. PICK m \in [Listed -> 1 .. Cardinality(Listed)] : Collected(m)
  BY DEF InOrder
<1>2. Collected(m)'
  BY <1>1, KeepOrder
<1>3. m \in [Listed' -> 1 .. Cardinality(Listed')]
  BY <1>1 DEF OrderKept
<1> QED BY <1>2, <1>3 DEF InOrder

(* An object o becomes the first of the list.                               *)
OrderPushed(o) ==
  /\ o \in Objs \ Listed /\ Listed' = Listed \cup {o} /\ first' = o
  /\ gcNext'[o] = first /\ \A x \in Listed : gcNext'[x] = gcNext[x]
  /\ sweep' = sweep /\ fresh' = IF sweep.on THEN fresh \cup {o} ELSE fresh
  /\ \A x \in Listed : gcMark'[x] = gcMark[x] /\ gcFreeze'[x] = gcFreeze[x]
  /\ doomed' = doomed \ {o}

LEMMA PushInOrder ==
  ASSUME InOrder, NEW o, OrderPushed(o)
  PROVE  InOrder'
<1>1. PICK m \in [Listed -> 1 .. Cardinality(Listed)] : Collected(m)
  BY DEF InOrder
<1> DEFINE k == Cardinality(Listed)
<1>0. PICK q : q = [x \in Listed \cup {o} |-> IF x = o THEN Cardinality(Listed) + 1 ELSE m[x]]
  OBVIOUS
<1>2. Listed \in SUBSET Objs /\ o \in Objs \ Listed
  BY DEF Listed, OrderPushed
<1>3. Numbered(m, Listed, first, gcNext)
  BY <1>1 DEF Collected
<1>4. k \in Nat /\ \A x \in Listed : m[x] \in Nat /\ m[x] <= k
  BY <1>2, <1>3, NumFacts
<1>5. q[o] = k + 1 /\ \A x \in Listed : q[x] = m[x]
  BY <1>2, <1>0
<1>6. Numbered(q, Listed \cup {o}, o, gcNext')
  <2>1. gcNext'[o] = first /\ \A x \in Listed : gcNext'[x] = gcNext[x]
    BY DEF OrderPushed
  <2> QED BY <1>2, <1>3, <1>0, <2>1, NumPush
<1> HIDE DEF k
<1>7. GcWalk(m, Listed, gcNext, sweep, fresh)
  BY <1>1 DEF Collected
<1>8. Judged(m, Listed, sweep, gcMark, gcFreeze, doomed, fresh)
  BY <1>1 DEF Collected
<1>9. sweep.object \in Listed \cup {NULL}
  BY <1>7 DEF GcWalk
<1>10. Ahead(q, Listed', sweep') = Ahead(m, Listed, sweep)
  <2>1. Ahead(q, Listed', sweep') = {x \in Listed \cup {o} : sweep.object # NULL /\ q[x] <= q[sweep.object]}
    BY DEF Ahead, OrderPushed
  <2>2. CASE sweep.object = NULL
    BY <2>1, <2>2 DEF Ahead
  <2>3. CASE sweep.object # NULL
    <3>1. sweep.object \in Listed /\ q[sweep.object] = m[sweep.object]
      BY <2>3, <1>5, <1>9
    <3>2. ~(q[o] <= q[sweep.object])
      BY <3>1, <1>4, <1>5
    <3>3. \A x \in Listed : q[x] <= q[sweep.object] <=> m[x] <= m[sweep.object]
      BY <3>1, <1>5
    <3> QED BY <2>1, <2>3, <3>2, <3>3 DEF Ahead
  <2> QED BY <2>2, <2>3
<1>11. Ahead(m, Listed, sweep) \subseteq Listed /\ o \notin Ahead(m, Listed, sweep)
  BY <1>2 DEF Ahead
<1>12. GcWalk(q, Listed', gcNext', sweep', fresh')
  <2>1. sweep'.on /\ sweep'.previous = NULL => fresh' = Listed' \ Ahead(q, Listed', sweep')
    BY <1>2, <1>7, <1>10, <1>11 DEF GcWalk, OrderPushed
  <2>2. sweep'.previous # NULL =>
          sweep'.previous \in Listed' /\ gcNext'[sweep'.previous] = sweep'.object
    BY <1>7 DEF GcWalk, OrderPushed
  <2>3. /\ sweep'.freeer => sweep'.on
        /\ ~sweep'.on => sweep' = Idle /\ fresh' = {}
        /\ sweep'.object \in Listed' \cup {NULL}
    BY <1>7 DEF GcWalk, OrderPushed
  <2> QED BY <2>1, <2>2, <2>3 DEF GcWalk
<1>13. Judged(q, Listed', sweep', gcMark', gcFreeze', doomed', fresh')
  <2> SUFFICES ASSUME sweep.on
               PROVE  /\ \A x \in Ahead(m, Listed, sweep) : x \in doomed' <=> ~(gcMark'[x] \/ gcFreeze'[x])
                      /\ \A x \in (Listed \cup {o}) \ Ahead(m, Listed, sweep) :
                           x \notin doomed' /\ (x \in fresh' \/ ~gcMark'[x])
    BY <1>10 DEF Judged, OrderPushed
  <2>1. ASSUME NEW x \in Ahead(m, Listed, sweep)
        PROVE  x \in doomed' <=> ~(gcMark'[x] \/ gcFreeze'[x])
    <3>1. x \in Listed /\ x # o
      BY <2>1, <1>11
    <3>2. x \in doomed <=> ~(gcMark[x] \/ gcFreeze[x])
      BY <2>1, <1>8 DEF Judged
    <3> QED BY <3>1, <3>2 DEF OrderPushed
  <2>2. ASSUME NEW x \in (Listed \cup {o}) \ Ahead(m, Listed, sweep)
        PROVE  x \notin doomed' /\ (x \in fresh' \/ ~gcMark'[x])
    <3>1. CASE x = o
      BY <3>1 DEF OrderPushed
    <3>2. CASE x # o
      <4>1. x \in Listed /\ x \notin doomed /\ (x \in fresh \/ ~gcMark[x])
        BY <2>2, <3>2, <1>8 DEF Judged
      <4> QED BY <4>1 DEF OrderPushed
    <3> QED BY <3>1, <3>2
  <2> QED BY <2>1, <2>2
<1>14. Numbered(q, Listed', first', gcNext')
  BY <1>6 DEF OrderPushed
<1>15. Collected(q)'
  BY <1>12, <1>13, <1>14 DEF Collected
<1>16. q \in [Listed' -> 1 .. Cardinality(Listed')]
  BY <1>14 DEF Numbered
<1> QED BY <1>15, <1>16 DEF InOrder

----------------------------------------------------------------------------
(* Gache_get and Gache_return.                                              *)

LEMMA Sets ==
  /\ Listed \in SUBSET Objs /\ Lost \in SUBSET Objs /\ \A c \in Pools : Pooled(c) \in SUBSET Objs
  /\ IsFiniteSet(Listed \cup Lost) /\ Cardinality(Listed \cup Lost) \in Nat
<1>1. Listed \in SUBSET Objs /\ Lost \in SUBSET Objs /\ \A c \in Pools : Pooled(c) \in SUBSET Objs
  BY DEF Listed, Lost, Pooled
<1>2. Listed \cup Lost \in SUBSET Objs
  BY <1>1
<1>3. IsFiniteSet(Listed \cup Lost)
  BY <1>2, GallectorAssumption, FS_Subset
<1> QED BY <1>1, <1>3, FS_CardinalityType

LEMMA PoolHead ==
  ASSUME IInv, NEW c \in Pools
  PROVE  cache[c] \in Pooled(c) \cup {NULL} /\ (cache[c] = NULL <=> Pooled(c) = {})
<1>1. Fits(Pooled(c), cache[c], gcNext, gcCount, Sizes[c])
  BY DEF IInv, PoolsFit
<1> QED BY <1>1, Sets, FitsHead

LEMMA Taking ==
  ASSUME IInv, NEW c \in Pools, NEW o \in Objs, TakenFrom(c, o)
  PROVE  /\ where[o] \in {"free", "pool"}
         /\ cache' \in [Pools -> Objs \cup {NULL}]
         /\ \A d \in Pools : Fits(Pooled(d) \ {o}, cache'[d], gcNext, gcCount, Sizes[d])
         /\ gcMark' \in [Objs -> BOOLEAN] /\ \A x \in Objs : x # o => gcMark'[x] = gcMark[x]
         /\ pool' \in [Objs -> Pools \cup {NULL}] /\ pool'[o] = c
         /\ \A x \in Objs : x # o => pool'[x] = pool[x]
<1>1. TypeOK /\ \A d \in Pools : Fits(Pooled(d), cache[d], gcNext, gcCount, Sizes[d])
  BY DEF IInv, PoolsFit
<1>2. CASE cache[c] # NULL
  <2>1. o = cache[c] /\ cache' = [cache EXCEPT ![c] = gcNext[o]] /\ gcMark' = gcMark /\ pool' = pool
    BY <1>2 DEF TakenFrom
  <2>2. o \in Pooled(c)
    BY <1>2, <2>1, PoolHead
  <2>3. where[o] = "pool" /\ pool[o] = c
    BY <2>2 DEF Pooled
  <2>4. cache' \in [Pools -> Objs \cup {NULL}] /\ cache'[c] = gcNext[o]
    BY <1>1, <2>1 DEF TypeOK
  <2>5. ASSUME NEW d \in Pools PROVE Fits(Pooled(d) \ {o}, cache'[d], gcNext, gcCount, Sizes[d])
    <3>1. CASE d = c
      <4>1. Sizes[c] \in Nat /\ gcCount \in [Objs -> Nat] /\ Pooled(c) \in SUBSET Objs
        BY <1>1, Sets, GallectorAssumption DEF TypeOK
      <4>2. Fits(Pooled(c), o, gcNext, gcCount, Sizes[c])
        BY <1>1, <2>1
      <4>3. Fits(Pooled(c) \ {o}, gcNext[o], gcNext, gcCount, Sizes[c])
        BY <4>1, <4>2, FitsPop
      <4> QED BY <3>1, <2>4, <4>3
    <3>2. CASE d # c
      <4>1. o \notin Pooled(d)
        BY <2>3, <3>2 DEF Pooled
      <4>2. Pooled(d) \ {o} = Pooled(d)
        BY <4>1
      <4>3. cache'[d] = cache[d]
        BY <1>1, <2>1, <3>2 DEF TypeOK
      <4> QED BY <1>1, <4>2, <4>3
    <3> QED BY <3>1, <3>2
  <2> QED BY <1>1, <2>1, <2>3, <2>4, <2>5 DEF TypeOK
<1>3. CASE cache[c] = NULL
  <2>1. /\ where[o] = "free" /\ cache' = cache
        /\ gcMark' = [gcMark EXCEPT ![o] = FALSE] /\ pool' = [pool EXCEPT ![o] = c]
    BY <1>3 DEF TakenFrom
  <2>2. ASSUME NEW d \in Pools PROVE Fits(Pooled(d) \ {o}, cache'[d], gcNext, gcCount, Sizes[d])
    <3>1. Pooled(d) \ {o} = Pooled(d)
      BY <2>1 DEF Pooled
    <3> QED BY <1>1, <2>1, <3>1
  <2>3. gcMark' \in [Objs -> BOOLEAN] /\ \A x \in Objs : x # o => gcMark'[x] = gcMark[x]
    BY <1>1, <2>1 DEF TypeOK
  <2>4. /\ pool' \in [Objs -> Pools \cup {NULL}] /\ pool'[o] = c
        /\ \A x \in Objs : x # o => pool'[x] = pool[x]
    BY <1>1, <2>1 DEF TypeOK
  <2> QED BY <1>1, <2>1, <2>2, <2>3, <2>4 DEF TypeOK
<1> QED BY <1>2, <1>3

LEMMA GetStep ==
  ASSUME IInv, NEW c \in Pools, NEW freeze \in BOOLEAN, Gache_get(c, freeze)
  PROVE  IInv'
<1>1. PICK o \in Objs :
        /\ TakenFrom(c, o)
        /\ gcCount' = [gcCount EXCEPT ![o] = 0]
        /\ gcFreeze' = [gcFreeze EXCEPT ![o] = freeze]
        /\ IF freeze
             THEN /\ gcNext' = [gcNext EXCEPT ![o] = NULL]
                  /\ where' = [where EXCEPT ![o] = "app"]
                  /\ UNCHANGED <<first, numObjects>>
             ELSE /\ gcNext' = [gcNext EXCEPT ![o] = first]
                  /\ where' = [where EXCEPT ![o] = "list"]
                  /\ first' = o /\ numObjects' = numObjects + 1
        /\ doomed' = doomed \ {o}
        /\ fresh' = IF sweep.on /\ ~freeze THEN fresh \cup {o} ELSE fresh
        /\ UNCHANGED sweep
  BY DEF Gache_get
<1>2. TypeOK /\ Owned /\ InOrder /\ CountOK
  BY DEF IInv
<1>3. /\ where[o] \in {"free", "pool"}
      /\ cache' \in [Pools -> Objs \cup {NULL}]
      /\ \A d \in Pools : Fits(Pooled(d) \ {o}, cache'[d], gcNext, gcCount, Sizes[d])
      /\ gcMark' \in [Objs -> BOOLEAN] /\ \A x \in Objs : x # o => gcMark'[x] = gcMark[x]
      /\ pool' \in [Objs -> Pools \cup {NULL}] /\ pool'[o] = c
      /\ \A x \in Objs : x # o => pool'[x] = pool[x]
  BY <1>1, Taking
<1>4. /\ where' \in [Objs -> {"free", "app", "list", "pool", "lost"}]
      /\ where'[o] = IF freeze THEN "app" ELSE "list"
      /\ \A x \in Objs : x # o => where'[x] = where[x]
  BY <1>1, <1>2 DEF TypeOK
<1>5. /\ gcNext' \in [Objs -> Objs \cup {NULL}]
      /\ gcNext'[o] = IF freeze THEN NULL ELSE first
      /\ \A x \in Objs : x # o => gcNext'[x] = gcNext[x]
  BY <1>1, <1>2 DEF TypeOK
<1>6. gcCount' \in [Objs -> Nat] /\ \A x \in Objs : x # o => gcCount'[x] = gcCount[x]
  BY <1>1, <1>2 DEF TypeOK
<1>7. gcFreeze' \in [Objs -> BOOLEAN] /\ \A x \in Objs : x # o => gcFreeze'[x] = gcFreeze[x]
  BY <1>1, <1>2 DEF TypeOK
<1>8. o \notin Listed /\ o \notin Lost
  BY <1>3 DEF Listed, Lost
<1>9. Lost' = Lost
  BY <1>3, <1>4 DEF Lost
<1>10. Listed' = IF freeze THEN Listed ELSE Listed \cup {o}
  BY <1>3, <1>4 DEF Listed
<1>11. \A d \in Pools : Pooled(d)' = Pooled(d) \ {o}
  BY <1>3, <1>4 DEF Pooled
<1>12. TypeOK'
  <2>1. first' \in Objs \cup {NULL} /\ numObjects' \in Nat
    BY <1>1, <1>2 DEF TypeOK
  <2>2. doomed' \subseteq Objs /\ fresh' \subseteq Objs /\ sweep' = sweep
    BY <1>1, <1>2 DEF TypeOK
  <2> QED BY <1>2, <1>3, <1>4, <1>5, <1>6, <1>7, <2>1, <2>2 DEF TypeOK
<1>13. Owned'
  <2>1. ASSUME NEW x \in Objs
        PROVE  /\ where'[x] # "free" => pool'[x] \in Pools
               /\ where'[x] = "app" => gcNext'[x] = NULL
    <3>1. CASE x = o
      BY <3>1, <1>3, <1>4, <1>5
    <3>2. CASE x # o
      <4>1. where'[x] = where[x] /\ pool'[x] = pool[x] /\ gcNext'[x] = gcNext[x]
        BY <3>2, <1>3, <1>4, <1>5
      <4> QED BY <4>1, <1>2 DEF Owned
    <3> QED BY <3>1, <3>2
  <2> QED BY <2>1 DEF Owned
<1>14. PoolsFit'
  <2>1. ASSUME NEW d \in Pools PROVE Fits(Pooled(d)', cache'[d], gcNext', gcCount', Sizes[d])
    <3>1. Pooled(d) \ {o} \in SUBSET Objs /\ gcCount \in [Objs -> Nat]
      BY <1>2, Sets DEF TypeOK
    <3>2. \A x \in Pooled(d) \ {o} : gcNext'[x] = gcNext[x] /\ gcCount'[x] >= gcCount[x]
      BY <3>1, <1>5, <1>6
    <3>3. Fits(Pooled(d) \ {o}, cache'[d], gcNext, gcCount, Sizes[d])
      BY <1>3
    <3>4. Fits(Pooled(d) \ {o}, cache'[d], gcNext', gcCount', Sizes[d])
      BY <3>1, <3>2, <3>3, <1>6, FitsSame
    <3> QED BY <3>4, <1>11
  <2> QED BY <2>1 DEF PoolsFit
<1>15. InOrder'
  <2>1. \A x \in Listed : x \in Objs /\ x # o
    BY <1>8, Sets
  <2>2. CASE freeze
    <3>1. OrderKept
      BY <2>1, <2>2, <1>1, <1>3, <1>5, <1>7, <1>10 DEF OrderKept
    <3> QED BY <3>1, <1>2, KeepInOrder
  <2>3. CASE ~freeze
    <3>1. OrderPushed(o)
      BY <2>1, <2>3, <1>1, <1>3, <1>5, <1>7, <1>8, <1>10 DEF OrderPushed
    <3> QED BY <3>1, <1>2, PushInOrder
  <2> QED BY <2>2, <2>3
<1>16. CountOK'
  <2>1. CASE freeze
    BY <2>1, <1>1, <1>2, <1>9, <1>10 DEF CountOK
  <2>2. CASE ~freeze
    <3>1. Listed' \cup Lost' = (Listed \cup Lost) \cup {o} /\ o \notin Listed \cup Lost
      BY <2>2, <1>8, <1>9, <1>10
    <3>2. Cardinality(Listed' \cup Lost') = Cardinality(Listed \cup Lost) + 1
      BY <3>1, Sets, FS_AddElement
    <3>3. numObjects' = numObjects + 1 /\ sweep' = sweep
      BY <2>2, <1>1
    <3> QED BY <3>2, <3>3, <1>2, Sets DEF CountOK
  <2> QED BY <2>1, <2>2
<1> QED BY <1>12, <1>13, <1>14, <1>15, <1>16 DEF IInv

(* No pool gains or loses an object.                                        *)
LEMMA PoolsKept ==
  ASSUME IInv, cache' = cache, gcCount' \in [Objs -> Nat],
         \A x \in Objs : where'[x] = "pool" <=> where[x] = "pool",
         \A x \in Objs : where[x] = "pool" => /\ pool'[x] = pool[x] /\ gcNext'[x] = gcNext[x]
                                              /\ gcCount'[x] = gcCount[x]
  PROVE  PoolsFit'
<1>1. gcCount \in [Objs -> Nat]
  BY DEF IInv, TypeOK
<1>2. ASSUME NEW c \in Pools PROVE Fits(Pooled(c)', cache'[c], gcNext', gcCount', Sizes[c])
  <2>1. Pooled(c)' = Pooled(c)
    BY DEF Pooled
  <2>2. Pooled(c) \in SUBSET Objs /\ \A x \in Pooled(c) : where[x] = "pool"
    BY DEF Pooled
  <2>3. \A x \in Pooled(c) : gcNext'[x] = gcNext[x] /\ gcCount'[x] >= gcCount[x]
    BY <1>1, <2>2
  <2>4. Fits(Pooled(c), cache[c], gcNext, gcCount, Sizes[c])
    BY DEF IInv, PoolsFit
  <2>5. Fits(Pooled(c), cache[c], gcNext', gcCount', Sizes[c])
    BY <1>1, <2>2, <2>3, <2>4, FitsSame
  <2> QED BY <2>1, <2>5
<1> QED BY <1>2 DEF PoolsFit

(* A pool with room gains an object.                                        *)
LEMMA PoolGains ==
  ASSUME IInv, NEW c \in Pools, NEW o \in Objs, where[o] # "pool", pool[o] = c, HasRoom(c),
         pool' = pool, cache' = [cache EXCEPT ![c] = o], gcNext'[o] = cache[c],
         gcCount' \in [Objs -> Nat], cache[c] # NULL => gcCount'[o] = gcCount[cache[c]] + 1,
         \A x \in Objs : where'[x] = "pool" <=> (where[x] = "pool" \/ x = o),
         \A x \in Objs : where[x] = "pool" => gcNext'[x] = gcNext[x] /\ gcCount'[x] = gcCount[x]
  PROVE  PoolsFit'
<1>1. gcCount \in [Objs -> Nat] /\ cache \in [Pools -> Objs \cup {NULL}]
  BY DEF IInv, TypeOK
<1>2. ASSUME NEW d \in Pools PROVE Fits(Pooled(d)', cache'[d], gcNext', gcCount', Sizes[d])
  <2>1. Pooled(d) \in SUBSET Objs /\ \A x \in Pooled(d) : where[x] = "pool"
    BY DEF Pooled
  <2>2. Fits(Pooled(d), cache[d], gcNext, gcCount, Sizes[d])
    BY DEF IInv, PoolsFit
  <2>3. \A x \in Pooled(d) : gcNext'[x] = gcNext[x] /\ gcCount'[x] = gcCount[x]
    BY <2>1
  <2>4. CASE d = c
    <3>1. Pooled(d)' = Pooled(d) \cup {o} /\ o \in Objs \ Pooled(d)
      BY <2>4 DEF Pooled
    <3>2. cache'[d] = o /\ Sizes[d] \in Nat
      BY <1>1, <2>4, GallectorAssumption
    <3>3. cache[d] # NULL => gcCount[cache[d]] < Sizes[d] /\ gcCount'[o] = gcCount[cache[d]] + 1
      BY <2>4 DEF HasRoom
    <3>4. gcNext'[o] = cache[d]
      BY <2>4
    <3>5. Fits(Pooled(d) \cup {o}, o, gcNext', gcCount', Sizes[d])
      BY <1>1, <2>1, <2>2, <2>3, <3>1, <3>2, <3>3, <3>4, FitsPush
    <3> QED BY <3>1, <3>2, <3>5
  <2>5. CASE d # c
    <3>1. Pooled(d)' = Pooled(d)
      BY <2>5 DEF Pooled
    <3>2. cache'[d] = cache[d]
      BY <1>1, <2>5
    <3>3. \A x \in Pooled(d) : gcNext'[x] = gcNext[x] /\ gcCount'[x] >= gcCount[x]
      BY <1>1, <2>1, <2>3
    <3>4. Fits(Pooled(d), cache[d], gcNext', gcCount', Sizes[d])
      BY <1>1, <2>1, <2>2, <3>3, FitsSame
    <3> QED BY <3>1, <3>2, <3>4
  <2> QED BY <2>4, <2>5
<1> QED BY <1>2 DEF PoolsFit

LEMMA ReturnStep == IInv /\ AppReturn => IInv'
<1> SUFFICES ASSUME IInv, AppReturn PROVE IInv'
  OBVIOUS
<1>1. PICK o \in Objs : where[o] = "app" /\ Gache_return(pool[o], o)
  BY DEF AppReturn
<1>2. ~sweep.on /\ UNCHANGED <<gcMark, gcFreeze, first, numObjects, sweep, pool, doomed, fresh>>
  BY DEF AppReturn
<1>3. TypeOK /\ Owned /\ InOrder /\ CountOK
  BY DEF IInv
<1>4. PICK c \in Pools : c = pool[o]
  BY <1>1, <1>3 DEF Owned
<1>5. /\ HasRoom(c) /\ gcCount' = Depth(c, o)
      /\ gcNext' = IF cache[c] = NULL THEN gcNext ELSE [gcNext EXCEPT ![o] = cache[c]]
      /\ cache' = [cache EXCEPT ![c] = o]
      /\ where' = [where EXCEPT ![o] = "pool"]
  BY <1>1, <1>4 DEF Gache_return
<1>6. gcNext[o] = NULL /\ cache[c] \in Objs \cup {NULL}
  BY <1>1, <1>3 DEF Owned, TypeOK
<1>7. /\ gcNext' \in [Objs -> Objs \cup {NULL}] /\ gcNext'[o] = cache[c]
      /\ \A x \in Objs : x # o => gcNext'[x] = gcNext[x]
  BY <1>3, <1>5, <1>6 DEF TypeOK
<1>8. /\ gcCount' \in [Objs -> Nat] /\ \A x \in Objs : x # o => gcCount'[x] = gcCount[x]
      /\ cache[c] # NULL => gcCount'[o] = gcCount[cache[c]] + 1
  <2>1. gcCount \in [Objs -> Nat]
    BY <1>3 DEF TypeOK
  <2>2. CASE cache[c] = NULL
    BY <2>1, <2>2, <1>5 DEF Depth
  <2>3. CASE cache[c] # NULL
    <3>1. gcCount' = [gcCount EXCEPT ![o] = gcCount[cache[c]] + 1] /\ gcCount[cache[c]] \in Nat
      BY <2>1, <2>3, <1>5, <1>6 DEF Depth
    <3> QED BY <2>1, <3>1
  <2> QED BY <2>2, <2>3
<1>9. /\ where' \in [Objs -> {"free", "app", "list", "pool", "lost"}]
      /\ where'[o] = "pool" /\ \A x \in Objs : x # o => where'[x] = where[x]
  BY <1>3, <1>5 DEF TypeOK
<1>10. Listed' = Listed /\ Lost' = Lost
  BY <1>1, <1>9 DEF Listed, Lost
<1>11. TypeOK'
  <2>1. cache' \in [Pools -> Objs \cup {NULL}]
    BY <1>3, <1>5 DEF TypeOK
  <2> QED BY <1>2, <1>3, <1>7, <1>8, <1>9, <2>1 DEF TypeOK
<1>12. Owned'
  BY <1>2, <1>3, <1>4, <1>7, <1>9 DEF Owned
<1>13. PoolsFit'
  <2>1. \A x \in Objs : where'[x] = "pool" <=> (where[x] = "pool" \/ x = o)
    BY <1>9
  <2>2. \A x \in Objs : where[x] = "pool" => gcNext'[x] = gcNext[x] /\ gcCount'[x] = gcCount[x]
    BY <1>1, <1>7, <1>8
  <2>3. where[o] # "pool" /\ pool[o] = c /\ pool' = pool
    BY <1>1, <1>2, <1>4
  <2> QED BY <1>4, <1>5, <1>7, <1>8, <2>1, <2>2, <2>3, PoolGains
<1>14. InOrder'
  <2>1. \A x \in Listed : x \in Objs /\ x # o
    BY <1>1 DEF Listed
  <2>2. OrderKept
    BY <2>1, <1>2, <1>7, <1>10 DEF OrderKept
  <2> QED BY <1>3, <2>2, KeepInOrder
<1>15. CountOK'
  BY <1>2, <1>3, <1>10 DEF CountOK
<1> QED BY <1>11, <1>12, <1>13, <1>14, <1>15 DEF IInv

----------------------------------------------------------------------------
(* The application's other steps.                                           *)

LEMMA FieldsStep == IInv /\ AppFields => IInv'
<1> SUFFICES ASSUME IInv, AppFields PROVE IInv'
  OBVIOUS
<1>1. ~sweep.on /\ UNCHANGED <<gcNext, first, numObjects, cache, sweep, where, pool, doomed, fresh>>
  BY DEF AppFields
<1>2. TypeOK /\ Owned /\ InOrder /\ CountOK
  BY DEF IInv
<1>3. /\ gcMark' \in [Objs -> BOOLEAN] /\ gcFreeze' \in [Objs -> BOOLEAN]
      /\ gcCount' \in [Objs -> Nat]
      /\ \A x \in Objs : where[x] = "pool" => gcCount'[x] = gcCount[x]
  <2>1. PICK o \in InUse :
       \/ gcMark' = [gcMark EXCEPT ![o] = TRUE] /\ UNCHANGED <<gcFreeze, gcCount>>
       \/ gcFreeze' = [gcFreeze EXCEPT ![o] = ~@] /\ UNCHANGED <<gcMark, gcCount>>
       \/ gcCount' = [gcCount EXCEPT ![o] = @ + 1] /\ UNCHANGED <<gcMark, gcFreeze>>
    BY DEF AppFields
  <2>2. o \in Objs /\ where[o] # "pool"
    BY DEF InUse
  <2>3. CASE gcMark' = [gcMark EXCEPT ![o] = TRUE] /\ UNCHANGED <<gcFreeze, gcCount>>
    BY <1>2, <2>3 DEF TypeOK
  <2>4. CASE gcFreeze' = [gcFreeze EXCEPT ![o] = ~@] /\ UNCHANGED <<gcMark, gcCount>>
    BY <1>2, <2>4 DEF TypeOK
  <2>5. CASE gcCount' = [gcCount EXCEPT ![o] = @ + 1] /\ UNCHANGED <<gcMark, gcFreeze>>
    BY <1>2, <2>2, <2>5 DEF TypeOK
  <2> QED BY <2>1, <2>3, <2>4, <2>5
<1>4. Listed' = Listed /\ Lost' = Lost
  BY <1>1 DEF Listed, Lost
<1>5. TypeOK'
  BY <1>1, <1>2, <1>3 DEF TypeOK
<1>6. Owned'
  BY <1>1, <1>2 DEF Owned
<1>7. PoolsFit'
  BY <1>1, <1>3, PoolsKept
<1>8. InOrder'
  <2>1. OrderKept
    BY <1>1, <1>4 DEF OrderKept
  <2> QED BY <1>2, <2>1, KeepInOrder
<1>9. CountOK'
  BY <1>1, <1>2, <1>4 DEF CountOK
<1> QED BY <1>5, <1>6, <1>7, <1>8, <1>9 DEF IInv

LEMMA FreeStep == IInv /\ AppFree => IInv'
<1> SUFFICES ASSUME IInv, AppFree PROVE IInv'
  OBVIOUS
<1>1. PICK o \in Objs :
        /\ where[o] = "app" /\ Freed(o)
        /\ gcFreeze' = [gcFreeze EXCEPT ![o] = FALSE]
        /\ gcMark' = [gcMark EXCEPT ![o] = FALSE]
        /\ gcCount' = [gcCount EXCEPT ![o] = 0]
  BY DEF AppFree
<1>2. ~sweep.on /\ UNCHANGED <<gcNext, first, numObjects, cache, sweep, doomed, fresh>>
  BY DEF AppFree
<1>3. TypeOK /\ Owned /\ InOrder /\ CountOK
  BY DEF IInv
<1>4. where' = [where EXCEPT ![o] = "free"] /\ pool' = [pool EXCEPT ![o] = NULL]
  BY <1>1 DEF Freed
<1>5. /\ where' \in [Objs -> {"free", "app", "list", "pool", "lost"}]
      /\ where'[o] = "free" /\ \A x \in Objs : x # o => where'[x] = where[x]
  BY <1>3, <1>4 DEF TypeOK
<1>6. pool' \in [Objs -> Pools \cup {NULL}] /\ \A x \in Objs : x # o => pool'[x] = pool[x]
  BY <1>3, <1>4 DEF TypeOK
<1>7. gcCount' \in [Objs -> Nat] /\ \A x \in Objs : x # o => gcCount'[x] = gcCount[x]
  BY <1>1, <1>3 DEF TypeOK
<1>8. gcMark' \in [Objs -> BOOLEAN] /\ gcFreeze' \in [Objs -> BOOLEAN]
  BY <1>1, <1>3 DEF TypeOK
<1>9. Listed' = Listed /\ Lost' = Lost
  BY <1>1, <1>5 DEF Listed, Lost
<1>10. TypeOK'
  BY <1>2, <1>3, <1>5, <1>6, <1>7, <1>8 DEF TypeOK
<1>11. Owned'
  BY <1>2, <1>3, <1>5, <1>6 DEF Owned
<1>12. PoolsFit'
  <2>1. \A x \in Objs : where'[x] = "pool" <=> where[x] = "pool"
    BY <1>1, <1>5
  <2>2. \A x \in Objs : where[x] = "pool" => /\ pool'[x] = pool[x] /\ gcNext'[x] = gcNext[x]
                                             /\ gcCount'[x] = gcCount[x]
    BY <1>1, <1>2, <1>6, <1>7
  <2> QED BY <1>2, <1>7, <2>1, <2>2, PoolsKept
<1>13. InOrder'
  <2>1. OrderKept
    BY <1>2, <1>9 DEF OrderKept
  <2> QED BY <1>3, <2>1, KeepInOrder
<1>14. CountOK'
  BY <1>2, <1>3, <1>9 DEF CountOK
<1> QED BY <1>10, <1>11, <1>12, <1>13, <1>14 DEF IInv

----------------------------------------------------------------------------
(* The sweep.                                                               *)

LEMMA SweepStart == IInv /\ AppSweep => IInv'
<1> SUFFICES ASSUME IInv, AppSweep PROVE IInv'
  OBVIOUS
<1>1. /\ ~sweep.on
      /\ sweep' = [Idle EXCEPT !.on = TRUE, !.object = first]
      /\ doomed' = {o \in Listed : ~gcMark[o] /\ ~gcFreeze[o]}
      /\ UNCHANGED <<gcCount, gcMark, gcFreeze, gcNext, first, numObjects, cache, where, pool, fresh>>
  BY DEF AppSweep
<1>2. TypeOK /\ Owned /\ InOrder /\ CountOK
  BY DEF IInv
<1>3. /\ sweep'.on = TRUE /\ sweep'.previous = NULL /\ sweep'.object = first
      /\ sweep'.freeer = FALSE
      /\ sweep' \in [on : BOOLEAN, previous : Objs \cup {NULL}, object : Objs \cup {NULL},
                     freeer : BOOLEAN]
  BY <1>1, <1>2 DEF Idle, TypeOK
<1>4. Listed' = Listed /\ Lost' = Lost
  BY <1>1 DEF Listed, Lost
<1>5. PICK m \in [Listed -> 1 .. Cardinality(Listed)] : Collected(m)
  BY <1>2 DEF InOrder
<1>6. Numbered(m, Listed, first, gcNext)
  BY <1>5 DEF Collected
<1>7. sweep = Idle /\ fresh = {}
  BY <1>1, <1>5 DEF Collected, GcWalk
<1>8. Ahead(m, Listed, sweep') = Listed
  <2>1. \A x \in Listed : first # NULL /\ m[x] <= m[first]
    BY <1>6, Sets, NumFacts DEF Numbered
  <2> QED BY <2>1, <1>3 DEF Ahead
<1>9. GcWalk(m, Listed', gcNext', sweep', fresh')
  <2>1. first \in Listed \cup {NULL}
    BY <1>6 DEF Numbered
  <2> QED BY <2>1, <1>1, <1>3, <1>4, <1>7, <1>8 DEF GcWalk
<1>10. Judged(m, Listed', sweep', gcMark', gcFreeze', doomed', fresh')
  BY <1>1, <1>4, <1>8 DEF Judged
<1>11. InOrder'
  <2>1. Collected(m)'
    BY <1>1, <1>4, <1>6, <1>9, <1>10 DEF Collected
  <2>2. m \in [Listed' -> 1 .. Cardinality(Listed')]
    BY <1>4, <1>5
  <2> QED BY <2>1, <2>2 DEF InOrder
<1>12. TypeOK'
  <2>1. doomed' \subseteq Objs
    BY <1>1, Sets
  <2> QED BY <2>1, <1>1, <1>2, <1>3 DEF TypeOK
<1>13. Owned'
  BY <1>1, <1>2 DEF Owned
<1>14. PoolsFit'
  <2>1. gcCount' \in [Objs -> Nat]
    BY <1>12 DEF TypeOK
  <2> QED BY <2>1, <1>1, PoolsKept
<1>15. CountOK'
  <2>1. sweep.freeer = FALSE
    BY <1>7 DEF Idle
  <2> QED BY <2>1, <1>1, <1>2, <1>3, <1>4 DEF CountOK
<1> QED BY <1>11, <1>12, <1>13, <1>14, <1>15 DEF IInv

(* What is ahead of a sweep that goes on from o.                            *)
LEMMA AheadNext ==
  ASSUME NEW S \in SUBSET Objs, NEW m, NEW hd, NEW nx, Numbered(m, S, hd, nx), NEW o \in S
  PROVE  /\ {x \in S : nx[o] # NULL /\ m[x] <= m[nx[o]]} = {x \in S : m[x] < m[o]}
         /\ {x \in S : m[x] < m[o]} = {x \in S : m[x] <= m[o]} \ {o}
         /\ nx[o] \in S \cup {NULL}
<1>1. \A x \in S : m[x] \in Nat /\ m[x] >= 1 /\ x # NULL
  BY NumFacts
<1>2. IF m[o] = 1 THEN nx[o] = NULL ELSE nx[o] \in S /\ m[nx[o]] = m[o] - 1
  BY DEF Numbered
<1>3. {x \in S : nx[o] # NULL /\ m[x] <= m[nx[o]]} = {x \in S : m[x] < m[o]}
  <2>1. CASE m[o] = 1
    <3>1. nx[o] = NULL /\ \A x \in S : ~(m[x] < m[o])
      BY <2>1, <1>1, <1>2
    <3> QED BY <3>1
  <2>2. CASE m[o] # 1
    <3>1. nx[o] # NULL /\ m[nx[o]] = m[o] - 1
      BY <2>2, <1>1, <1>2
    <3>2. \A x \in S : m[x] <= m[nx[o]] <=> m[x] < m[o]
      BY <3>1, <1>1
    <3> QED BY <3>1, <3>2
  <2> QED BY <2>1, <2>2
<1>4. \A x \in S : m[x] < m[o] <=> m[x] <= m[o] /\ x # o
  <2> SUFFICES ASSUME NEW x \in S PROVE m[x] < m[o] <=> m[x] <= m[o] /\ x # o
    OBVIOUS
  <2>1. m[x] = m[o] <=> x = o
    BY DEF Numbered
  <2> QED BY <2>1, <1>1
<1> QED BY <1>2, <1>3, <1>4

LEMMA KeepStep == IInv /\ SweepKeep => IInv'
<1> SUFFICES ASSUME IInv, SweepKeep PROVE IInv'
  OBVIOUS
<1> DEFINE o == sweep.object
<1>1. /\ sweep.on /\ ~sweep.freeer /\ o # NULL /\ ~Dies(o)
      /\ gcMark' = [gcMark EXCEPT ![o] = FALSE]
      /\ sweep' = [sweep EXCEPT !.previous = o, !.object = gcNext[o]]
      /\ UNCHANGED <<gcCount, gcFreeze, gcNext, first, numObjects, cache, where, pool, doomed, fresh>>
  BY DEF SweepKeep, Turn, Here
<1>2. TypeOK /\ Owned /\ InOrder /\ CountOK
  BY DEF IInv
<1>3. PICK m \in [Listed -> 1 .. Cardinality(Listed)] : Collected(m)
  BY <1>2 DEF InOrder
<1>4. /\ Numbered(m, Listed, first, gcNext)
      /\ GcWalk(m, Listed, gcNext, sweep, fresh)
      /\ Judged(m, Listed, sweep, gcMark, gcFreeze, doomed, fresh)
  BY <1>3 DEF Collected
<1>5. o \in Listed /\ o \in Objs
  BY <1>1, <1>4, Sets DEF GcWalk
<1>6. Listed' = Listed /\ Lost' = Lost
  BY <1>1 DEF Listed, Lost
<1>7. /\ sweep'.on = TRUE /\ sweep'.previous = o /\ sweep'.object = gcNext[o]
      /\ sweep'.freeer = sweep.freeer
      /\ sweep' \in [on : BOOLEAN, previous : Objs \cup {NULL}, object : Objs \cup {NULL},
                     freeer : BOOLEAN]
  <2>1. gcNext[o] \in Objs \cup {NULL}
    BY <1>2, <1>5 DEF TypeOK
  <2>2. sweep \in [on : BOOLEAN, previous : Objs \cup {NULL}, object : Objs \cup {NULL},
                   freeer : BOOLEAN]
    BY <1>2 DEF TypeOK
  <2> QED BY <2>1, <2>2, <1>1, <1>5
<1>8. gcMark' \in [Objs -> BOOLEAN] /\ gcMark'[o] = FALSE
      /\ \A x \in Objs : x # o => gcMark'[x] = gcMark[x]
  BY <1>1, <1>2, <1>5 DEF TypeOK
<1>9. Ahead(m, Listed, sweep) = {x \in Listed : m[x] <= m[o]}
  BY <1>1 DEF Ahead
<1>10. /\ Ahead(m, Listed, sweep') = Ahead(m, Listed, sweep) \ {o}
       /\ gcNext[o] \in Listed \cup {NULL}
  <2>1. Ahead(m, Listed, sweep') = {x \in Listed : gcNext[o] # NULL /\ m[x] <= m[gcNext[o]]}
    BY <1>7 DEF Ahead
  <2>2. Listed \in SUBSET Objs
    BY Sets
  <2> HIDE DEF o
  <2>3. /\ {x \in Listed : gcNext[o] # NULL /\ m[x] <= m[gcNext[o]]} = {x \in Listed : m[x] < m[o]}
        /\ {x \in Listed : m[x] < m[o]} = {x \in Listed : m[x] <= m[o]} \ {o}
        /\ gcNext[o] \in Listed \cup {NULL}
    BY <2>2, <1>4, <1>5, AheadNext
  <2> QED BY <2>1, <2>3, <1>9
<1>11. GcWalk(m, Listed', gcNext', sweep', fresh')
  <2>1. o # NULL
    BY <1>1
  <2> HIDE DEF o
  <2> QED BY <2>1, <1>1, <1>5, <1>6, <1>7, <1>10 DEF GcWalk
<1>12. o \in Ahead(m, Listed, sweep)
  <2>1. m[o] \in Nat
    BY <1>4, <1>5, Sets, NumFacts
  <2> QED BY <2>1, <1>5, <1>9
<1>13. o \notin doomed
  BY <1>1, <1>4, <1>12 DEF Judged, Dies
<1> HIDE DEF o
<1>14. Judged(m, Listed', sweep', gcMark', gcFreeze', doomed', fresh')
  <2>1. ASSUME NEW x \in Ahead(m, Listed, sweep) \ {o}
        PROVE  x \in doomed <=> ~(gcMark'[x] \/ gcFreeze[x])
    <3>1. x \in Objs /\ x # o /\ x \in Ahead(m, Listed, sweep)
      BY Sets DEF Ahead
    <3> QED BY <3>1, <1>1, <1>4, <1>8 DEF Judged
  <2>2. ASSUME NEW x \in Listed \ (Ahead(m, Listed, sweep) \ {o})
        PROVE  x \notin doomed /\ (x \in fresh \/ ~gcMark'[x])
    <3>1. CASE x = o
      BY <3>1, <1>8, <1>13
    <3>2. CASE x # o
      <4>1. x \in Objs /\ x \in Listed \ Ahead(m, Listed, sweep)
        BY <3>2, Sets
      <4> QED BY <3>2, <4>1, <1>1, <1>4, <1>8 DEF Judged
    <3> QED BY <3>1, <3>2
  <2> QED BY <2>1, <2>2, <1>1, <1>6, <1>10 DEF Judged
<1>15. InOrder'
  <2>1. Collected(m)'
    BY <1>1, <1>4, <1>6, <1>11, <1>14 DEF Collected
  <2>2. m \in [Listed' -> 1 .. Cardinality(Listed')]
    BY <1>3, <1>6
  <2> QED BY <2>1, <2>2 DEF InOrder
<1>16. TypeOK'
  BY <1>1, <1>2, <1>7, <1>8 DEF TypeOK
<1>17. Owned'
  BY <1>1, <1>2 DEF Owned
<1>18. PoolsFit'
  <2>1. gcCount' \in [Objs -> Nat]
    BY <1>16 DEF TypeOK
  <2> QED BY <2>1, <1>1, PoolsKept
<1>19. CountOK'
  BY <1>1, <1>2, <1>6, <1>7 DEF CountOK
<1> QED BY <1>15, <1>16, <1>17, <1>18, <1>19 DEF IInv

LEMMA EndStep == IInv /\ SweepEnd => IInv'
<1> SUFFICES ASSUME IInv, SweepEnd PROVE IInv'
  OBVIOUS
<1>1. /\ sweep.on /\ ~sweep.freeer /\ sweep.object = NULL
      /\ sweep' = Idle /\ doomed' = {} /\ fresh' = {}
      /\ UNCHANGED <<gcCount, gcMark, gcFreeze, gcNext, first, numObjects, cache, where, pool>>
  BY DEF SweepEnd, Turn, Here
<1>2. TypeOK /\ Owned /\ InOrder /\ CountOK
  BY DEF IInv
<1>3. Listed' = Listed /\ Lost' = Lost
  BY <1>1 DEF Listed, Lost
<1>4. /\ sweep'.on = FALSE /\ sweep'.previous = NULL /\ sweep'.object = NULL
      /\ sweep'.freeer = FALSE
  BY <1>1 DEF Idle
<1>5. TypeOK'
  BY <1>1, <1>2 DEF TypeOK, Idle
<1>6. InOrder'
  <2>1. PICK m \in [Listed -> 1 .. Cardinality(Listed)] : Collected(m)
    BY <1>2 DEF InOrder
  <2>2. GcWalk(m, Listed', gcNext', sweep', fresh')
    BY <1>1, <1>4 DEF GcWalk
  <2>3. Judged(m, Listed', sweep', gcMark', gcFreeze', doomed', fresh')
    BY <1>4 DEF Judged
  <2>4. Collected(m)'
    BY <2>1, <2>2, <2>3, <1>1, <1>3 DEF Collected
  <2>5. m \in [Listed' -> 1 .. Cardinality(Listed')]
    BY <2>1, <1>3
  <2> QED BY <2>4, <2>5 DEF InOrder
<1>7. Owned'
  BY <1>1, <1>2 DEF Owned
<1>8. PoolsFit'
  <2>1. gcCount' \in [Objs -> Nat]
    BY <1>5 DEF TypeOK
  <2> QED BY <2>1, <1>1, PoolsKept
<1>9. CountOK'
  BY <1>1, <1>2, <1>3, <1>4 DEF CountOK
<1> QED BY <1>5, <1>6, <1>7, <1>8, <1>9 DEF IInv

LEMMA FreeerStep == IInv /\ FreeerReturns => IInv'
<1> SUFFICES ASSUME IInv, FreeerReturns PROVE IInv'
  OBVIOUS
<1>1. /\ sweep.freeer /\ sweep' = [sweep EXCEPT !.freeer = FALSE]
      /\ numObjects' = numObjects - 1
      /\ UNCHANGED <<gcCount, gcMark, gcFreeze, gcNext, first, cache, where, pool, doomed, fresh>>
  BY DEF FreeerReturns
<1>2. TypeOK /\ Owned /\ InOrder /\ CountOK
  BY DEF IInv
<1>3. Listed' = Listed /\ Lost' = Lost
  BY <1>1 DEF Listed, Lost
<1>4. /\ sweep'.on = sweep.on /\ sweep'.previous = sweep.previous
      /\ sweep'.object = sweep.object /\ sweep'.freeer = FALSE
      /\ sweep' \in [on : BOOLEAN, previous : Objs \cup {NULL}, object : Objs \cup {NULL},
                     freeer : BOOLEAN]
  BY <1>1, <1>2 DEF TypeOK
<1>5. CountOK' /\ numObjects' \in Nat
  BY <1>1, <1>2, <1>3, <1>4, Sets DEF CountOK
<1>6. TypeOK'
  BY <1>1, <1>2, <1>4, <1>5 DEF TypeOK
<1>7. InOrder'
  <2>1. PICK m \in [Listed -> 1 .. Cardinality(Listed)] : Collected(m)
    BY <1>2 DEF InOrder
  <2>2. Ahead(m, Listed', sweep') = Ahead(m, Listed, sweep)
    BY <1>3, <1>4 DEF Ahead
  <2>3. GcWalk(m, Listed', gcNext', sweep', fresh')
    <3>1. GcWalk(m, Listed, gcNext, sweep, fresh)
      BY <2>1 DEF Collected
    <3>2. sweep.on = TRUE
      BY <3>1, <1>1, <1>2 DEF GcWalk, TypeOK
    <3> QED BY <3>1, <3>2, <2>2, <1>1, <1>3, <1>4 DEF GcWalk
  <2>4. Judged(m, Listed', sweep', gcMark', gcFreeze', doomed', fresh')
    <3>1. Judged(m, Listed, sweep, gcMark, gcFreeze, doomed, fresh)
      BY <2>1 DEF Collected
    <3> QED BY <3>1, <2>2, <1>1, <1>3, <1>4 DEF Judged
  <2>5. Collected(m)'
    BY <2>1, <2>3, <2>4, <1>1, <1>3 DEF Collected
  <2>6. m \in [Listed' -> 1 .. Cardinality(Listed')]
    BY <2>1, <1>3
  <2> QED BY <2>5, <2>6 DEF InOrder
<1>8. Owned'
  BY <1>1, <1>2 DEF Owned
<1>9. PoolsFit'
  <2>1. gcCount' \in [Objs -> Nat]
    BY <1>6 DEF TypeOK
  <2> QED BY <2>1, <1>1, PoolsKept
<1> QED BY <1>5, <1>6, <1>7, <1>8, <1>9 DEF IInv

(* An object o leaves the list in a sweep, and with it what freeers have    *)
(* put before it while the sweep had kept nothing.                          *)
OrderFreed(o) ==
  /\ sweep.on /\ sweep.object = o /\ o # NULL
  /\ sweep'.on = TRUE /\ sweep'.previous = sweep.previous /\ sweep'.object = gcNext[o]
  /\ Listed' = Listed \ ({o} \cup Dropped)
  /\ first' = IF sweep.previous = NULL THEN gcNext[o] ELSE first
  /\ \A x \in Objs : x # o => gcNext'[x] = IF x = sweep.previous THEN gcNext[o] ELSE gcNext[x]
  /\ fresh' = fresh \ Dropped
  /\ gcMark' = gcMark /\ gcFreeze' = gcFreeze /\ doomed' = doomed

LEMMA FreedInOrder ==
  ASSUME InOrder, NEW o, OrderFreed(o)
  PROVE  InOrder' /\ o \in Listed /\ Dropped \subseteq Listed \ {o}
<1>1. PICK m \in [Listed -> 1 .. Cardinality(Listed)] : Collected(m)
  BY DEF InOrder
<1>2. /\ Numbered(m, Listed, first, gcNext)
      /\ GcWalk(m, Listed, gcNext, sweep, fresh)
      /\ Judged(m, Listed, sweep, gcMark, gcFreeze, doomed, fresh)
  BY <1>1 DEF Collected
<1>3. o \in Listed /\ o \in Objs /\ Listed \in SUBSET Objs
  BY <1>2, Sets DEF GcWalk, OrderFreed
<1>4. \A x \in Listed : m[x] \in Nat /\ m[x] >= 1 /\ x # NULL
  BY <1>2, <1>3, NumFacts
<1>5. Ahead(m, Listed, sweep) = {x \in Listed : m[x] <= m[o]}
  BY DEF Ahead, OrderFreed
<1>6. /\ {x \in Listed : gcNext[o] # NULL /\ m[x] <= m[gcNext[o]]} = {x \in Listed : m[x] < m[o]}
      /\ {x \in Listed : m[x] < m[o]} = {x \in Listed : m[x] <= m[o]} \ {o}
      /\ gcNext[o] \in Listed \cup {NULL}
  BY <1>2, <1>3, AheadNext
<1>7. CASE sweep.previous = NULL
  <2> DEFINE T == {x \in Listed : m[x] < m[o]}
  <2>1. fresh = Listed \ {x \in Listed : m[x] <= m[o]} /\ Dropped = fresh
    BY <1>2, <1>5, <1>7 DEF GcWalk, OrderFreed, Dropped
  <2>2. Dropped \subseteq Listed \ {o}
    BY <2>1, <1>3, <1>4
  <2>3. Listed' = T /\ fresh' = {}
    BY <2>1, <1>6 DEF OrderFreed
  <2>4. PICK q : q = [x \in T |-> m[x]]
    OBVIOUS
  <2> HIDE DEF T
  <2>5. T \in SUBSET Objs /\ o \notin T /\ T \subseteq Listed
    BY <1>3, <1>4 DEF T
  <2>6. Numbered(q, T, gcNext[o], gcNext)
    BY <2>4, <1>2, <1>3, NumCut DEF T
  <2>7. \A x \in T : gcNext'[x] = gcNext[x]
    <3>1. \A x \in T : x \in Objs /\ x # o /\ x # sweep.previous
      BY <2>5, <1>4, <1>7
    <3> QED BY <3>1 DEF OrderFreed
  <2>8. Numbered(q, T, gcNext[o], gcNext')
    BY <2>6, <2>7, NumSame
  <2>9. first' = gcNext[o] /\ sweep'.object = gcNext[o] /\ sweep'.previous = NULL /\ sweep'.on = TRUE
    BY <1>7 DEF OrderFreed
  <2>10. Ahead(q, T, sweep') = T
    <3>1. \A x \in T : gcNext[o] # NULL /\ q[x] <= q[gcNext[o]]
      BY <2>5, <2>6, NumFacts DEF Numbered
    <3> QED BY <3>1, <2>9 DEF Ahead
  <2>11. GcWalk(q, Listed', gcNext', sweep', fresh')
    <3>1. gcNext[o] \in T \cup {NULL}
      BY <2>6 DEF Numbered
    <3> QED BY <3>1, <2>3, <2>9, <2>10 DEF GcWalk
  <2>12. Judged(q, Listed', sweep', gcMark', gcFreeze', doomed', fresh')
    <3>1. \A x \in T : x \in Ahead(m, Listed, sweep)
      BY <1>5, <1>6 DEF T
    <3>2. \A x \in T : x \in doomed <=> ~(gcMark[x] \/ gcFreeze[x])
      BY <3>1, <1>2 DEF Judged, OrderFreed
    <3>3. gcMark' = gcMark /\ gcFreeze' = gcFreeze /\ doomed' = doomed
      BY DEF OrderFreed
    <3> QED BY <3>2, <3>3, <2>3, <2>10 DEF Judged
  <2>13. Collected(q)'
    BY <2>3, <2>8, <2>9, <2>11, <2>12 DEF Collected
  <2>14. q \in [Listed' -> 1 .. Cardinality(Listed')]
    BY <2>3, <2>8 DEF Numbered
  <2> QED BY <2>2, <2>13, <2>14, <1>3 DEF InOrder
<1>8. CASE sweep.previous # NULL
  <2>1. PICK pr : pr = sweep.previous
    OBVIOUS
  <2>2. pr \in Listed /\ gcNext[pr] = o /\ pr # NULL
    BY <2>1, <1>2, <1>8 DEF GcWalk, OrderFreed
  <2>3. m[o] = m[pr] - 1
    BY <2>2, <1>2, <1>3, <1>4 DEF Numbered
  <2>4. pr # o /\ m[pr] > m[o]
    BY <2>2, <2>3, <1>3, <1>4
  <2>5. Dropped = {}
    BY <1>8 DEF Dropped
  <2>6. Listed' = Listed \ {o} /\ fresh' = fresh /\ first' = first
    BY <2>5, <1>8 DEF OrderFreed
  <2>7. gcNext'[pr] = gcNext[o] /\ \A x \in Listed : x # pr /\ x # o => gcNext'[x] = gcNext[x]
    BY <2>1, <2>2, <2>4, <1>3 DEF OrderFreed
  <2>8. PICK q : q = [x \in Listed \ {o} |-> IF m[x] > m[o] THEN m[x] - 1 ELSE m[x]]
    OBVIOUS
  <2>9. Numbered(q, Listed \ {o}, first, gcNext')
    BY <2>2, <2>7, <2>8, <1>2, <1>3, NumUnlink
  <2>10. \A x \in Listed \ {o} : q[x] = IF m[x] > m[o] THEN m[x] - 1 ELSE m[x]
    BY <2>8
  <2>11. \A x \in Listed \ {o} : m[x] # m[o]
    BY <1>2, <1>3 DEF Numbered
  <2>12. /\ sweep'.object = gcNext[o] /\ sweep'.previous = pr /\ sweep'.on = TRUE
    BY <2>1 DEF OrderFreed
  <2>13. IF m[o] = 1 THEN gcNext[o] = NULL ELSE gcNext[o] \in Listed /\ m[gcNext[o]] = m[o] - 1
    BY <1>2, <1>3 DEF Numbered
  <2>14. Ahead(q, Listed \ {o}, sweep') = Ahead(m, Listed, sweep) \ {o}
    <3>1. \A x \in Listed \ {o} : gcNext[o] # NULL /\ q[x] <= q[gcNext[o]] <=> m[x] < m[o]
      <4>1. CASE m[o] = 1
        <5>1. \A x \in Listed : ~(m[x] < m[o])
          BY <4>1, <1>3, <1>4
        <5> QED BY <4>1, <5>1, <2>13
      <4>2. CASE m[o] # 1
        <5>1. gcNext[o] \in Listed /\ gcNext[o] # o /\ gcNext[o] # NULL /\ m[gcNext[o]] = m[o] - 1
          BY <4>2, <2>13, <1>3, <1>4
        <5>2. q[gcNext[o]] = m[o] - 1
          BY <5>1, <2>10, <1>3, <1>4
        <5>3. ASSUME NEW x \in Listed \ {o} PROVE q[x] <= q[gcNext[o]] <=> m[x] < m[o]
          BY <5>2, <2>10, <2>11, <1>3, <1>4
        <5> QED BY <5>1, <5>3
      <4> QED BY <4>1, <4>2
    <3>2. Ahead(q, Listed \ {o}, sweep') = {x \in Listed \ {o} : gcNext[o] # NULL /\ q[x] <= q[gcNext[o]]}
      BY <2>12 DEF Ahead
    <3>3. Ahead(q, Listed \ {o}, sweep') = {x \in Listed \ {o} : m[x] < m[o]}
      BY <3>1, <3>2
    <3>4. {x \in Listed \ {o} : m[x] < m[o]} = {x \in Listed : m[x] < m[o]}
      BY <1>3, <1>4
    <3> QED BY <3>3, <3>4, <1>5, <1>6
  <2>15. gcNext[o] \in (Listed \ {o}) \cup {NULL}
    BY <2>13, <1>3, <1>4
  <2>16. GcWalk(q, Listed', gcNext', sweep', fresh')
    BY <2>2, <2>4, <2>6, <2>7, <2>12, <2>15 DEF GcWalk
  <2>17. Judged(q, Listed', sweep', gcMark', gcFreeze', doomed', fresh')
    <3>1. gcMark' = gcMark /\ gcFreeze' = gcFreeze /\ doomed' = doomed /\ sweep.on
      BY DEF OrderFreed
    <3>2. \A x \in Ahead(m, Listed, sweep) : x \in doomed <=> ~(gcMark[x] \/ gcFreeze[x])
      BY <3>1, <1>2 DEF Judged
    <3>3. \A x \in Listed \ Ahead(m, Listed, sweep) : x \notin doomed /\ (x \in fresh \/ ~gcMark[x])
      BY <3>1, <1>2 DEF Judged
    <3> QED BY <3>1, <3>2, <3>3, <2>6, <2>14 DEF Judged
  <2>18. Collected(q)'
    BY <2>6, <2>9, <2>16, <2>17 DEF Collected
  <2>19. q \in [Listed' -> 1 .. Cardinality(Listed')]
    BY <2>6, <2>9 DEF Numbered
  <2> QED BY <2>5, <2>18, <2>19, <1>3 DEF InOrder
<1> QED BY <1>7, <1>8

LEMMA FreedStep == IInv /\ SweepFree => IInv'
<1> SUFFICES ASSUME IInv, SweepFree PROVE IInv'
  OBVIOUS
<1>1. PICK o : o = sweep.object
  OBVIOUS
<1>2. /\ sweep.on /\ ~sweep.freeer /\ o # NULL
      /\ sweep' = [sweep EXCEPT !.object = gcNext[o], !.freeer = TRUE]
      /\ first' = IF sweep.previous = NULL THEN gcNext[o] ELSE first
      /\ fresh' = fresh \ Dropped
      /\ UNCHANGED <<gcMark, gcFreeze, numObjects, doomed>>
  BY <1>1 DEF SweepFree, Turn, Here
<1>3. Away(o)
  BY <1>1 DEF SweepFree, Here
<1>4. TypeOK /\ Owned /\ InOrder /\ CountOK
  BY DEF IInv
<1>5. o \in Objs /\ gcNext[o] \in Objs \cup {NULL} /\ sweep.previous \in Objs \cup {NULL}
  BY <1>1, <1>2, <1>4 DEF TypeOK
<1>6. /\ sweep'.on = TRUE /\ sweep'.previous = sweep.previous /\ sweep'.object = gcNext[o]
      /\ sweep'.freeer = TRUE
      /\ sweep' \in [on : BOOLEAN, previous : Objs \cup {NULL}, object : Objs \cup {NULL},
                     freeer : BOOLEAN]
  BY <1>2, <1>4, <1>5 DEF TypeOK
<1>7. /\ Unlinked(o) \in [Objs -> Objs \cup {NULL}]
      /\ \A x \in Objs : x # o => Unlinked(o)[x] = IF x = sweep.previous THEN gcNext[o] ELSE gcNext[x]
  <2>1. CASE sweep.previous = NULL
    <3>1. Unlinked(o) = [gcNext EXCEPT ![o] = NULL] /\ \A x \in Objs : x # sweep.previous
      BY <2>1, GallectorAssumption DEF Unlinked
    <3> QED BY <3>1, <1>4 DEF TypeOK
  <2>2. CASE sweep.previous # NULL
    <3>1. Unlinked(o) = [gcNext EXCEPT ![sweep.previous] = gcNext[o], ![o] = NULL]
      BY <2>2 DEF Unlinked
    <3> QED BY <3>1, <2>2, <1>4, <1>5 DEF TypeOK
  <2> QED BY <2>1, <2>2
<1>8. pool[o] \in Pools \/ where[o] = "free"
  BY <1>4, <1>5 DEF Owned
<1>9. \/ /\ where' = Leaving(o, "free") /\ pool' = [pool EXCEPT ![o] = NULL] /\ gcNext' = Unlinked(o)
         /\ gcCount' = [gcCount EXCEPT ![o] = 0] /\ cache' = cache
      \/ /\ HasRoom(pool[o])
         /\ gcCount' = IF cache[pool[o]] = NULL THEN [gcCount EXCEPT ![o] = 0] ELSE Depth(pool[o], o)
         /\ gcNext' = [Unlinked(o) EXCEPT ![o] = cache[pool[o]]]
         /\ cache' = [cache EXCEPT ![pool[o]] = o]
         /\ where' = Leaving(o, "pool") /\ pool' = pool
  BY <1>3 DEF Away
<1>10. \E to \in {"free", "pool"} : where' = Leaving(o, to)
  BY <1>9
<1>11. /\ where' \in [Objs -> {"free", "app", "list", "pool", "lost"}]
       /\ where'[o] \in {"free", "pool"}
       /\ \A x \in Objs : x # o => where'[x] = IF x \in Dropped THEN "lost" ELSE where[x]
  <2>1. PICK to \in {"free", "pool"} : where' = Leaving(o, to)
    BY <1>10
  <2>2. where' = [x \in Objs |-> IF x = o THEN to ELSE IF x \in Dropped THEN "lost" ELSE where[x]]
    BY <2>1 DEF Leaving
  <2> QED BY <2>2, <1>4, <1>5 DEF TypeOK
<1>12. Listed' = Listed \ ({o} \cup Dropped)
  BY <1>5, <1>11 DEF Listed
<1>13. \A x \in Objs : x # o => gcNext'[x] = IF x = sweep.previous THEN gcNext[o] ELSE gcNext[x]
  <2>1. \A x \in Objs : x # o => gcNext'[x] = Unlinked(o)[x]
    BY <1>7, <1>9
  <2> QED BY <2>1, <1>7
<1>14. OrderFreed(o)
  BY <1>1, <1>2, <1>6, <1>12, <1>13 DEF OrderFreed
<1>15. InOrder' /\ o \in Listed /\ Dropped \subseteq Listed \ {o}
  BY <1>4, <1>14, FreedInOrder
<1>16. where[o] = "list" /\ \A x \in Dropped : where[x] = "list" /\ x # o
  BY <1>15 DEF Listed
<1>17. PICK c \in Pools : c = pool[o]
  BY <1>8, <1>16
<1>18. sweep.previous \in Listed \cup {NULL}
  <2>1. PICK m : Collected(m)
    BY <1>4 DEF InOrder
  <2> QED BY <2>1 DEF Collected, GcWalk
<1>19. \A x \in Objs : where[x] = "pool" => x # o /\ x \notin Dropped /\ x # sweep.previous
  BY <1>16, <1>18, GallectorAssumption DEF Listed
<1>20. /\ gcCount' \in [Objs -> Nat] /\ \A x \in Objs : x # o => gcCount'[x] = gcCount[x]
       /\ where'[o] = "pool" /\ cache[c] # NULL => gcCount'[o] = gcCount[cache[c]] + 1
  <2>1. gcCount \in [Objs -> Nat] /\ cache[c] \in Objs \cup {NULL}
    BY <1>4 DEF TypeOK
  <2>2. CASE gcCount' = [gcCount EXCEPT ![o] = 0] /\ (cache[c] = NULL \/ where'[o] # "pool")
    BY <2>1, <2>2, <1>5
  <2>3. CASE cache[c] # NULL /\ gcCount' = Depth(c, o)
    <3>1. gcCount' = [gcCount EXCEPT ![o] = gcCount[cache[c]] + 1] /\ gcCount[cache[c]] \in Nat
      BY <2>1, <2>3 DEF Depth
    <3> QED BY <2>1, <3>1, <1>5
  <2>4. where' = Leaving(o, "free") => where'[o] # "pool"
    BY <1>5 DEF Leaving
  <2> QED BY <2>2, <2>3, <2>4, <1>9, <1>17
<1>21. TypeOK'
  <2>1. cache' \in [Pools -> Objs \cup {NULL}] /\ cache[c] \in Objs \cup {NULL}
    BY <1>4, <1>5, <1>9, <1>17 DEF TypeOK
  <2>2. gcNext' \in [Objs -> Objs \cup {NULL}]
    BY <2>1, <1>5, <1>7, <1>9, <1>17
  <2>3. pool' \in [Objs -> Pools \cup {NULL}]
    BY <1>4, <1>9 DEF TypeOK
  <2>4. first' \in Objs \cup {NULL} /\ fresh' \subseteq Objs
    BY <1>2, <1>4, <1>5 DEF TypeOK
  <2> QED BY <2>1, <2>2, <2>3, <2>4, <1>2, <1>4, <1>6, <1>11, <1>20 DEF TypeOK
<1>22. Owned'
  <2>1. ASSUME NEW x \in Objs
        PROVE  /\ where'[x] # "free" => pool'[x] \in Pools
               /\ where'[x] = "app" => gcNext'[x] = NULL
    <3>1. CASE x = o
      <4>1. where' = Leaving(o, "free") => where'[o] = "free"
        BY <1>5 DEF Leaving
      <4> QED BY <3>1, <4>1, <1>9, <1>11, <1>17
    <3>2. CASE x # o
      <4>1. pool'[x] = pool[x]
        BY <3>2, <1>4, <1>9 DEF TypeOK
      <4>2. where'[x] # "free" => where[x] # "free"
        BY <3>2, <1>11, <1>16
      <4>3. where'[x] = "app" => where[x] = "app" /\ x # sweep.previous
        BY <3>2, <1>11, <1>18, GallectorAssumption DEF Listed
      <4> QED BY <3>2, <4>1, <4>2, <4>3, <1>4, <1>13 DEF Owned
    <3> QED BY <3>1, <3>2
  <2> QED BY <2>1 DEF Owned
<1>23. PoolsFit'
  <2>1. \A x \in Objs : where[x] = "pool" => gcNext'[x] = gcNext[x] /\ gcCount'[x] = gcCount[x]
    BY <1>13, <1>19, <1>20
  <2>2. \A x \in Objs : x # o => (where'[x] = "pool" <=> where[x] = "pool")
    BY <1>11, <1>16
  <2>3. CASE where' = Leaving(o, "free") /\ pool' = [pool EXCEPT ![o] = NULL] /\ cache' = cache
    <3>1. where'[o] = "free"
      BY <2>3, <1>5 DEF Leaving
    <3>2. \A x \in Objs : where'[x] = "pool" <=> where[x] = "pool"
      BY <2>2, <3>1, <1>16
    <3>3. \A x \in Objs : where[x] = "pool" => /\ pool'[x] = pool[x] /\ gcNext'[x] = gcNext[x]
                                               /\ gcCount'[x] = gcCount[x]
      BY <2>1, <2>3, <1>4, <1>19 DEF TypeOK
    <3> QED BY <2>3, <3>2, <3>3, <1>20, PoolsKept
  <2>4. CASE /\ HasRoom(c) /\ gcNext' = [Unlinked(o) EXCEPT ![o] = cache[c]]
             /\ cache' = [cache EXCEPT ![c] = o]
             /\ where' = Leaving(o, "pool") /\ pool' = pool
    <3>1. where'[o] = "pool"
      BY <2>4, <1>5 DEF Leaving
    <3>2. \A x \in Objs : where'[x] = "pool" <=> (where[x] = "pool" \/ x = o)
      BY <2>2, <3>1
    <3>3. gcNext'[o] = cache[c]
      BY <2>4, <1>5, <1>7
    <3>4. where[o] # "pool" /\ pool[o] = c
      BY <1>16, <1>17
    <3>5. cache[c] # NULL => gcCount'[o] = gcCount[cache[c]] + 1
      BY <3>1, <1>20
    <3> QED BY <2>1, <2>4, <3>2, <3>3, <3>4, <3>5, <1>5, <1>20, PoolGains
  <2> QED BY <2>3, <2>4, <1>9, <1>17
<1>24. CountOK'
  <2>1. o \in Listed \cup Lost
    BY <1>15
  <2>2. Lost' = Lost \cup Dropped
    <3>1. Dropped \subseteq Objs /\ o \notin Dropped
      BY <1>15, Sets
    <3> QED BY <3>1, <1>11, <1>16 DEF Lost
  <2>3. o \notin Lost
    BY <1>16 DEF Lost
  <2>4. Listed' \cup Lost' = (Listed \cup Lost) \ {o}
    BY <2>2, <2>3, <1>12, <1>15
  <2>5. Cardinality(Listed' \cup Lost') = Cardinality(Listed \cup Lost) - 1
    BY <2>1, <2>4, Sets, FS_RemoveElement
  <2>6. numObjects = Cardinality(Listed \cup Lost)
    BY <1>2, <1>4, Sets DEF CountOK
  <2> QED BY <2>5, <2>6, <1>2, <1>6, Sets DEF CountOK
<1> QED BY <1>15, <1>21, <1>22, <1>23, <1>24 DEF IInv

----------------------------------------------------------------------------
(* The theorems.                                                            *)

LEMMA Stuttering == IInv /\ UNCHANGED vars => IInv'
<1> SUFFICES ASSUME IInv, UNCHANGED vars PROVE IInv'
  OBVIOUS
<1>1. Listed' = Listed /\ Lost' = Lost /\ \A c \in Pools : Pooled(c)' = Pooled(c)
  BY DEF vars, Listed, Lost, Pooled
<1>2. TypeOK' /\ Owned' /\ CountOK'
  BY <1>1 DEF vars, IInv, TypeOK, Owned, CountOK
<1>3. PoolsFit'
  BY <1>1 DEF vars, IInv, PoolsFit
<1>4. InOrder'
  <2>1. OrderKept
    BY <1>1 DEF vars, OrderKept
  <2> QED BY <2>1, KeepInOrder DEF IInv
<1> QED BY <1>2, <1>3, <1>4 DEF IInv

LEMMA Inductive == Spec => []IInv
<1>1. Init => IInv
  BY Initially
<1>2. IInv /\ [Next]_vars => IInv'
  <2> SUFFICES ASSUME IInv, [Next]_vars PROVE IInv'
    OBVIOUS
  <2>1. CASE AppGet
    <3>1. PICK c \in Pools, freeze \in BOOLEAN : Gache_get(c, freeze)
      BY <2>1 DEF AppGet
    <3> QED BY <3>1, GetStep
  <2>2. CASE AppReturn
    BY <2>2, ReturnStep
  <2>3. CASE AppFields
    BY <2>3, FieldsStep
  <2>4. CASE AppFree
    BY <2>4, FreeStep
  <2>5. CASE AppSweep
    BY <2>5, SweepStart
  <2>6. CASE SweepKeep
    BY <2>6, KeepStep
  <2>7. CASE SweepFree
    BY <2>7, FreedStep
  <2>8. CASE FreeerReturns
    BY <2>8, FreeerStep
  <2>9. CASE SweepEnd
    BY <2>9, EndStep
  <2>10. CASE UNCHANGED vars
    BY <2>10, Stuttering
  <2> QED BY <2>1, <2>2, <2>3, <2>4, <2>5, <2>6, <2>7, <2>8, <2>9, <2>10 DEF Next, App, Step
<1> QED BY <1>1, <1>2, PTL DEF Spec

(* The list and the pools stay lists that end and share no object, the      *)
(* count of the collector is right, and no pool outgrows its size by more   *)
(* than one.                                                                *)
THEOREM ListsCorrect == Spec => []ListsOK
<1>1. IInv => ListsOK
  BY Implied
<1> QED BY <1>1, Inductive, PTL

(* What SweepExact says of one step.                                        *)
Exact ==
  /\ \A o \in Listed : where'[o] \in {"free", "app", "pool"} => o \in doomed
  /\ \A o \in Listed : where'[o] = "lost" => o \in fresh /\ sweep.previous = NULL
  /\ sweep.on /\ ~sweep'.on => /\ doomed \cap Listed = {}
                               /\ \A o \in Listed \ fresh : ~gcMark[o]

LEMMA NoneLeaves ==
  ASSUME \A x \in Listed : where'[x] = "list", sweep.on => sweep'.on
  PROVE  Exact
BY DEF Exact

LEMMA ExactStep == IInv /\ [Next]_vars => Exact
<1> SUFFICES ASSUME IInv, [Next]_vars PROVE Exact
  OBVIOUS
<1>1. TypeOK /\ InOrder /\ \A x \in Listed : x \in Objs /\ where[x] = "list"
  BY Sets DEF IInv, Listed
<1>2. CASE AppGet
  <2>1. PICK c \in Pools, freeze \in BOOLEAN : Gache_get(c, freeze)
    BY <1>2 DEF AppGet
  <2>2. PICK o \in Objs :
          /\ TakenFrom(c, o)
          /\ where' = [where EXCEPT ![o] = IF freeze THEN "app" ELSE "list"]
          /\ sweep' = sweep
    <3>1. PICK o \in Objs :
            /\ TakenFrom(c, o)
            /\ IF freeze THEN where' = [where EXCEPT ![o] = "app"]
                         ELSE where' = [where EXCEPT ![o] = "list"]
            /\ sweep' = sweep
      BY <2>1 DEF Gache_get
    <3> QED BY <3>1
  <2>3. where[o] \in {"free", "pool"}
    BY <2>2, Taking
  <2>4. \A x \in Listed : where'[x] = "list"
    BY <2>2, <2>3, <1>1 DEF TypeOK
  <2> QED BY <2>2, <2>4, NoneLeaves
<1>3. CASE AppReturn
  <2>1. PICK o \in Objs : where[o] = "app" /\ where' = [where EXCEPT ![o] = "pool"]
    BY <1>3 DEF AppReturn, Gache_return
  <2>2. \A x \in Listed : where'[x] = "list"
    BY <2>1, <1>1 DEF TypeOK
  <2>3. sweep' = sweep
    BY <1>3 DEF AppReturn
  <2> QED BY <2>2, <2>3, NoneLeaves
<1>4. CASE AppFields
  BY <1>1, <1>4, NoneLeaves DEF AppFields
<1>5. CASE AppFree
  <2>1. PICK o \in Objs : where[o] = "app" /\ where' = [where EXCEPT ![o] = "free"]
    BY <1>5 DEF AppFree, Freed
  <2>2. \A x \in Listed : where'[x] = "list"
    BY <2>1, <1>1 DEF TypeOK
  <2>3. sweep' = sweep
    BY <1>5 DEF AppFree
  <2> QED BY <2>2, <2>3, NoneLeaves
<1>6. CASE AppSweep
  BY <1>1, <1>6, NoneLeaves DEF AppSweep
<1>7. CASE SweepKeep
  <2>1. where' = where /\ sweep'.on = sweep.on
    BY <1>1, <1>7 DEF SweepKeep, TypeOK
  <2> QED BY <2>1, <1>1, NoneLeaves
<1>8. CASE FreeerReturns
  <2>1. where' = where /\ sweep'.on = sweep.on
    BY <1>1, <1>8 DEF FreeerReturns, TypeOK
  <2> QED BY <2>1, <1>1, NoneLeaves
<1>9. CASE SweepEnd
  <2>1. where' = where /\ sweep.on /\ sweep.object = NULL
    BY <1>9 DEF SweepEnd, Turn, Here
  <2>2. PICK m : Collected(m)
    BY <1>1 DEF InOrder
  <2>3. Ahead(m, Listed, sweep) = {}
    BY <2>1 DEF Ahead
  <2>4. \A x \in Listed : x \notin doomed /\ (x \in fresh \/ ~gcMark[x])
    BY <2>1, <2>2, <2>3 DEF Collected, Judged
  <2> QED BY <2>1, <2>4, <1>1 DEF Exact
<1>10. CASE SweepFree
  <2>1. PICK o : o = sweep.object
    OBVIOUS
  <2>2. Turn /\ o # NULL /\ Dies(o) /\ Away(o)
    BY <1>10, <2>1 DEF SweepFree, Here
  <2>3. sweep.on /\ sweep'.on
    BY <1>1, <1>10, <2>2 DEF SweepFree, Turn, TypeOK
  <2>4. PICK m \in [Listed -> 1 .. Cardinality(Listed)] : Collected(m)
    BY <1>1 DEF InOrder
  <2>5. o \in Listed
    BY <2>1, <2>2, <2>4 DEF Collected, GcWalk
  <2>6. o \in doomed
    <3>1. m[o] \in Nat
      BY <2>4, <2>5, Sets, NumFacts DEF Collected
    <3>2. o \in Ahead(m, Listed, sweep)
      BY <2>1, <2>2, <2>5, <3>1 DEF Ahead
    <3> QED BY <2>2, <2>3, <2>4, <3>2 DEF Collected, Judged, Dies
  <2>7. PICK to \in {"free", "pool"} : where' = Leaving(o, to)
    BY <2>2 DEF Away
  <2>8. ASSUME NEW x \in Listed, x # o
        PROVE  where'[x] = IF x \in Dropped THEN "lost" ELSE "list"
    BY <2>7, <2>8, <1>1 DEF Leaving
  <2>9. where'[o] = to
    BY <2>5, <2>7, <1>1 DEF Leaving
  <2>10. \A x \in Listed : where'[x] \in {"free", "app", "pool"} => x \in doomed
    BY <2>6, <2>8
  <2>11. \A x \in Listed : where'[x] = "lost" => x \in fresh /\ sweep.previous = NULL
    BY <2>8, <2>9 DEF Dropped
  <2> QED BY <2>3, <2>10, <2>11 DEF Exact
<1>11. CASE UNCHANGED vars
  BY <1>1, <1>11, NoneLeaves DEF vars
<1> QED BY <1>2, <1>3, <1>4, <1>5, <1>6, <1>7, <1>8, <1>9, <1>10, <1>11 DEF Next, App, Step

(* A sweep takes the objects that were neither marked nor frozen when it    *)
(* began, all of them and no other, and what it loses is what a freeer put  *)
(* into the list before the sweep had kept an object.                       *)
THEOREM SweepCorrect == Spec => SweepExact
<1>1. IInv /\ [Next]_vars =>
        /\ \A o \in Listed : where'[o] \in {"free", "app", "pool"} => o \in doomed
        /\ \A o \in Listed : where'[o] = "lost" => o \in fresh /\ sweep.previous = NULL
        /\ sweep.on /\ ~sweep'.on => /\ doomed \cap Listed = {}
                                     /\ \A o \in Listed \ fresh : ~gcMark[o]
  BY ExactStep DEF Exact
<1> QED BY <1>1, Inductive, PTL DEF Spec, SweepExact

----------------------------------------------------------------------------
(* The strings.                                                             *)

TextBytes == Chars \cup {NUL}
Faults == {"none", "overflow", "outside", "unchecked", "stale"}
Buffers == [data : Seq(TextBytes), length : Nat, capacity : Nat \ {0}, fault : Faults]

\* The text ends with its terminator, inside the block unless there was a fault
\* of a known kind.
Form(b) ==
  /\ b \in Buffers
  /\ Len(b.data) = b.length + 1 /\ b.data[b.length + 1] = NUL
  /\ b.fault \in {"none", "stale"} => b.length + 1 <= b.capacity
  /\ b.fault \in {"overflow", "unchecked"} => b.capacity < b.length + 1
  /\ b.fault = "overflow" => b.capacity * 2 > IntMax
  /\ b.fault = "stale" => b.capacity < 2 * (b.length + 1)
  /\ b.fault # "outside"

\* What a call that asks for room gives: nothing of it is outside.
Plain(b) == Form(b) /\ b.fault \in {"none", "overflow"}

StringsInv == DOMAIN buf = Strings /\ \A s \in Alive : Form(buf[s])

----------------------------------------------------------------------------
\* The doubling of the capacity, from capacity m on.
Doubles(g, n, m) ==
  /\ g = [c \in Nat |-> g[c]]
  /\ \A c \in Nat : c >= m => g[c] = IF c < n + 1 /\ c * 2 < IntMax THEN g[c * 2] ELSE c

\* It is there from every capacity on: from the greatest for which it were not.
LEMMA DoublesExists ==
  ASSUME NEW n \in Nat
  PROVE  \E g : Doubles(g, n, 0)
<1>0. IntMax \in Nat
  BY StringsAssumption
<1> DEFINE T == {m \in 0 .. IntMax : ~ \E g : Doubles(g, n, m)}
<1>1. SUFFICES ASSUME T # {} PROVE FALSE
  BY <1>0
<1>2. PICK m \in T : \A j \in T : j <= m
  <2>1. T \in SUBSET (0 .. IntMax)
    OBVIOUS
  <2> HIDE DEF T
  <2> QED BY <1>0, <1>1, <2>1, Greatest
<1>3. m \in 0 .. IntMax /\ ~ \E g : Doubles(g, n, m)
  OBVIOUS
<1>4. m # IntMax
  <2>1. Doubles([c \in Nat |-> c], n, IntMax)
    BY <1>0 DEF Doubles
  <2> QED BY <1>3, <2>1
<1>5. m \in Nat /\ m + 1 \in 0 .. IntMax /\ ~(m + 1 <= m)
  BY <1>0, <1>3, <1>4
<1>6. PICK g : Doubles(g, n, m + 1)
  BY <1>2, <1>5
<1> DEFINE v == IF m = 0 THEN 0 ELSE IF m < n + 1 /\ m * 2 < IntMax THEN g[m * 2] ELSE m
<1> DEFINE h == [c \in Nat |-> IF c = m THEN v ELSE g[c]]
<1>7. h = [c \in Nat |-> h[c]]
  OBVIOUS
<1>8. ASSUME NEW c \in Nat, c >= m
      PROVE  h[c] = IF c < n + 1 /\ c * 2 < IntMax THEN h[c * 2] ELSE c
  <2>1. CASE c = m /\ m = 0
    BY <2>1
  <2>2. CASE c = m /\ m # 0
    <3>1. m * 2 \in Nat /\ m * 2 # m
      BY <1>5, <2>2
    <3>2. h[m * 2] = g[m * 2]
      BY <3>1
    <3> QED BY <2>2, <3>2
  <2>3. CASE c # m
    <3>1. c >= m + 1 /\ c * 2 \in Nat /\ c * 2 # m
      BY <1>5, <1>8, <2>3
    <3>2. g[c] = IF c < n + 1 /\ c * 2 < IntMax THEN g[c * 2] ELSE c
      BY <1>6, <3>1 DEF Doubles
    <3>3. h[c] = g[c] /\ h[c * 2] = g[c * 2]
      BY <2>3, <3>1
    <3> QED BY <3>2, <3>3
  <2> QED BY <2>1, <2>2, <2>3
<1> HIDE DEF h
<1>9. Doubles(h, n, m)
  BY <1>7, <1>8 DEF Doubles
<1> QED BY <1>3, <1>9

\* What it leads to: room for n and the terminator, or the end of an int.
LEMMA DoublesTo ==
  ASSUME NEW n \in Nat, NEW g, Doubles(g, n, 0), NEW c \in Nat \ {0}
  PROVE  /\ g[c] \in Nat /\ g[c] >= c
         /\ g[c] >= n + 1 \/ g[c] * 2 >= IntMax
         /\ c >= n + 1 \/ c * 2 >= IntMax => g[c] = c
         /\ g[c] = c \/ g[c] < 2 * (n + 1)
<1>0. IntMax \in Nat
  BY StringsAssumption
<1> DEFINE Right(k) == /\ g[k] \in Nat /\ g[k] >= k /\ (g[k] >= n + 1 \/ g[k] * 2 >= IntMax)
                       /\ g[k] = k \/ g[k] < 2 * (n + 1)
<1>1. \A k \in Nat : g[k] = IF k < n + 1 /\ k * 2 < IntMax THEN g[k * 2] ELSE k
  BY DEF Doubles
<1>2. \A k \in Nat : k >= n + 1 \/ k * 2 >= IntMax => g[k] = k
  BY <1>0, <1>1
<1>3. \A k \in Nat : k >= IntMax => Right(k)
  BY <1>0, <1>2
<1> DEFINE T == {k \in 1 .. IntMax : ~Right(k)}
<1>4. T = {}
  <2>1. SUFFICES ASSUME T # {} PROVE FALSE
    OBVIOUS
  <2>2. PICK m \in T : \A j \in T : j <= m
    <3>1. T \in SUBSET (0 .. IntMax)
      BY <1>0
    <3> HIDE DEF T
    <3> QED BY <1>0, <2>1, <3>1, Greatest
  <2>3. m \in 1 .. IntMax /\ ~Right(m) /\ m \in Nat
    BY <1>0
  <2>4. CASE m < n + 1 /\ m * 2 < IntMax
    <3>1. m * 2 \in 1 .. IntMax /\ ~(m * 2 <= m) /\ m * 2 \in Nat
      BY <1>0, <2>3, <2>4
    <3>2. Right(m * 2)
      BY <2>2, <3>1
    <3>3. g[m] = g[m * 2]
      BY <1>1, <2>3, <2>4
    <3>4. PICK v : v = g[m * 2]
      OBVIOUS
    <3>5. v \in Nat /\ v >= m * 2 /\ (v >= n + 1 \/ v * 2 >= IntMax) /\ (v = m * 2 \/ v < 2 * (n + 1))
      BY <3>2, <3>4
    <3>6. v >= m /\ v < 2 * (n + 1)
      BY <2>3, <2>4, <3>5
    <3> QED BY <2>3, <3>3, <3>4, <3>5, <3>6
  <2>5. CASE ~(m < n + 1 /\ m * 2 < IntMax)
    <3>1. g[m] = m
      BY <1>1, <2>3, <2>5
    <3> QED BY <1>0, <2>3, <2>5, <3>1
  <2> QED BY <2>4, <2>5
<1>5. Right(c)
  <2>1. c \in 1 .. IntMax \/ (c \in Nat /\ c >= IntMax)
    BY <1>0
  <2> QED BY <2>1, <1>3, <1>4
<1> QED BY <1>2, <1>5

\* g is b with more room, as much as n bytes call for.
Roomy(b, g, n) ==
  /\ g \in Buffers
  /\ g.data = b.data /\ g.length = b.length
  /\ g.capacity >= b.capacity
  /\ g.capacity >= n + 1 \/ g.capacity * 2 > IntMax
  /\ b.capacity >= n + 1 \/ b.capacity * 2 > IntMax => g.capacity = b.capacity
  /\ g.capacity = b.capacity \/ g.capacity < 2 * (n + 1)
  /\ g.fault = IF g.capacity < n + 1 THEN "overflow" ELSE b.fault

\* Twice a number is not an INT_MAX.
LEMMA OddMax == IntMax \in Nat /\ \A k \in Nat : k * 2 >= IntMax <=> k * 2 > IntMax
<1>1. IntMax \in Nat /\ (IntMax % 2) = 1
  BY StringsAssumption
<1>2. \A k \in Nat : k * 2 # IntMax
  BY <1>1, SMT
<1> QED BY <1>1, <1>2

\* check_capacity gives room, or overflows at a capacity that is too large to double.
LEMMA CapacityIs ==
  ASSUME NEW b \in Buffers, NEW n \in Nat
  PROVE  Roomy(b, check_capacity(b, n), n)
<1> DEFINE E(g) == g = [c \in Nat |-> IF c < n + 1 /\ c * 2 < IntMax THEN g[c * 2] ELSE c]
<1>1. PICK h : Doubles(h, n, 0)
  BY DoublesExists
<1>2. E(h)
  BY <1>1 DEF Doubles
<1>3. PICK f : f = CHOOSE g : E(g)
  OBVIOUS
<1>4. E(f)
  BY <1>2, <1>3
<1>5. \A c \in Nat : c = 0 \/ c \in Nat \ {0}
  OBVIOUS
<1> DEFINE k == b.capacity
<1>6. k \in Nat \ {0}
  BY DEF Buffers
<1>7. Doubled(k, n + 1) = f[k]
  BY <1>3 DEF Doubled
<1>8. Doubles(f, n, 0)
  BY <1>4 DEF Doubles
<1>9. PICK c : c = f[k]
  OBVIOUS
<1>10. /\ c \in Nat \ {0} /\ c >= k
       /\ c >= n + 1 \/ c * 2 >= IntMax
       /\ k >= n + 1 \/ k * 2 >= IntMax => c = k
       /\ c = k \/ c < 2 * (n + 1)
  BY <1>6, <1>8, <1>9, DoublesTo
<1>11. (c >= n + 1 \/ c * 2 > IntMax) /\ (k >= n + 1 \/ k * 2 > IntMax => c = k)
  BY <1>6, <1>10, OddMax
<1>12. PICK x : x = IF c < n + 1 THEN "overflow" ELSE b.fault
  OBVIOUS
<1>13. (c < n + 1 /\ c * 2 > IntMax) <=> c < n + 1
  BY <1>10, <1>11
<1>14. check_capacity(b, n) = [b EXCEPT !.capacity = c, !.fault = x]
  BY <1>7, <1>9, <1>12, <1>13 DEF check_capacity, Grown
<1>15. x \in Faults /\ b.fault \in Faults
  BY <1>12 DEF Buffers, Faults
<1> QED BY <1>10, <1>11, <1>12, <1>14, <1>15 DEF Roomy, Buffers

----------------------------------------------------------------------------
\* Moves and writes. Memory may hold bytes that nobody wrote.
Memory == TextBytes \cup {Junk}

\* The first n of d are written.
Filled(d, n) == d \in Seq(Memory) /\ n <= Len(d) /\ \A i \in 1 .. n : d[i] \in TextBytes

\* What is all bytes is written as far as one likes.
LEMMA BytesFilled ==
  ASSUME NEW d \in Seq(TextBytes), NEW n \in Nat, n <= Len(d)
  PROVE  Filled(d, n)
<1>1. PICK l \in Nat : l = Len(d) /\ \A i \in 1 .. l : d[i] \in TextBytes
  BY LenProperties, ElementOfSeq
<1>2. d = [i \in 1 .. l |-> d[i]]
  BY <1>1
<1>3. d \in Seq(Memory) /\ Len(d) = l
  BY <1>1, <1>2, FunctionIsSeq DEF Memory
<1> QED BY <1>1, <1>3 DEF Filled

\* e is d with w at offset k.
Moved(d, k, w, e) ==
  /\ e \in Seq(Memory) /\ Len(e) = Larger(Len(d), k + Len(w))
  /\ \A i \in 1 .. Len(e) :
       e[i] = IF i \in k + 1 .. k + Len(w) THEN w[i - k]
              ELSE IF i <= Len(d) THEN d[i] ELSE Junk

\* memmove and memcpy of w to offset k.
LEMMA MoveIs ==
  ASSUME NEW d \in Seq(Memory), NEW k \in Nat, NEW w \in Seq(Memory)
  PROVE  Moved(d, k, w, Move(d, k, w))
<1>1. PICK l \in Nat : l = Len(d) /\ \A i \in 1 .. l : d[i] \in Memory
  BY LenProperties, ElementOfSeq
<1>2. PICK m \in Nat : m = Len(w) /\ \A i \in 1 .. m : w[i] \in Memory
  BY LenProperties, ElementOfSeq
<1>3. PICK n \in Nat : n = Larger(l, k + m) /\ n >= l /\ n >= k + m
  BY DEF Larger
<1>4. PICK e : e = Move(d, k, w)
  OBVIOUS
<1>5. e = [i \in 1 .. n |-> IF i \in k + 1 .. k + m THEN w[i - k]
                            ELSE IF i <= l THEN d[i] ELSE Junk]
  BY <1>1, <1>2, <1>3, <1>4 DEF Move
<1>6. \A i \in 1 .. n : e[i] = IF i \in k + 1 .. k + m THEN w[i - k]
                               ELSE IF i <= l THEN d[i] ELSE Junk
  BY <1>5
<1>7. \A i \in 1 .. n : e[i] \in Memory
  <2>1. \A i \in 1 .. n : i \in k + 1 .. k + m => i - k \in 1 .. m
    OBVIOUS
  <2>2. \A i \in 1 .. n : i <= l => i \in 1 .. l
    OBVIOUS
  <2>3. Junk \in Memory
    BY DEF Memory
  <2> QED BY <1>1, <1>2, <1>6, <2>1, <2>2, <2>3
<1>8. e = [i \in 1 .. n |-> e[i]]
  BY <1>5
<1>9. e \in Seq(Memory) /\ Len(e) = n
  BY <1>7, <1>8, FunctionIsSeq
<1> QED BY <1>1, <1>2, <1>3, <1>4, <1>6, <1>9 DEF Moved

\* A move inside or right behind what is written leaves no gap.
LEMMA MoveFills ==
  ASSUME NEW d, NEW w, NEW k \in Nat, NEW n \in Nat, NEW m \in Nat,
         Filled(d, n), Filled(w, m), Len(w) = m, k <= n
  PROVE  Filled(Move(d, k, w), n) /\ Filled(Move(d, k, w), k + m)
<1>1. PICK e : e = Move(d, k, w) /\ Moved(d, k, w, e)
  BY MoveIs DEF Filled
<1>2. PICK l \in Nat : l = Len(d)
  BY LenProperties DEF Filled
<1>3. Len(e) = Larger(l, k + m) /\ n <= l /\ Len(e) \in Nat /\ n <= Len(e) /\ k + m <= Len(e)
  BY <1>1, <1>2 DEF Moved, Filled, Larger
<1>4. \A i \in 1 .. Len(e) : e[i] = IF i \in k + 1 .. k + m THEN w[i - k]
                                    ELSE IF i <= l THEN d[i] ELSE Junk
  BY <1>1, <1>2 DEF Moved
<1>5. \A i \in 1 .. m : w[i] \in TextBytes
  BY DEF Filled
<1>6. \A i \in 1 .. n : d[i] \in TextBytes
  BY DEF Filled
<1>7. ASSUME NEW i \in 1 .. Len(e), i <= n \/ i <= k + m PROVE e[i] \in TextBytes
  <2>1. CASE i \in k + 1 .. k + m
    <3>1. i - k \in 1 .. m /\ e[i] = w[i - k]
      BY <1>4, <2>1
    <3> QED BY <1>5, <3>1
  <2>2. CASE i \notin k + 1 .. k + m
    BY <1>3, <1>4, <1>6, <1>7, <2>2
  <2> QED BY <2>1, <2>2
<1>8. e \in Seq(Memory)
  BY <1>1 DEF Moved
<1>9. Filled(e, n)
  BY <1>3, <1>7, <1>8 DEF Filled
<1>10. Filled(e, k + m)
  BY <1>3, <1>7, <1>8 DEF Filled
<1> QED BY <1>1, <1>9, <1>10

\* A text moved to k and another of length k put before it leave no gap either.
LEMMA PrependFills ==
  ASSUME NEW d, NEW x, NEW w, NEW n \in Nat, NEW k \in Nat,
         d \in Seq(Memory), Filled(x, n), Len(x) = n, Filled(w, k), Len(w) = k
  PROVE  Filled(Move(Move(d, k, x), 0, w), k + n)
<1>1. PICK e : e = Move(d, k, x) /\ Moved(d, k, x, e)
  BY MoveIs DEF Filled
<1>2. PICK f : f = Move(e, 0, w) /\ Moved(e, 0, w, f)
  <2>1. e \in Seq(Memory) /\ w \in Seq(Memory) /\ 0 \in Nat
    BY <1>1 DEF Filled, Moved
  <2> QED BY <2>1, MoveIs
<1>3. PICK l \in Nat : l = Len(d)
  BY LenProperties
<1>4. PICK m \in Nat : m = Len(e) /\ k + n <= m
  <2>1. Len(e) = Larger(l, k + n)
    BY <1>1, <1>3 DEF Moved
  <2>2. Larger(l, k + n) \in Nat /\ k + n <= Larger(l, k + n)
    BY DEF Larger
  <2> QED BY <2>1, <2>2
<1>5. Len(f) \in Nat /\ k + n <= Len(f) /\ m <= Len(f) /\ f \in Seq(Memory)
  <2>1. Len(f) = Larger(m, 0 + k) /\ f \in Seq(Memory)
    BY <1>2, <1>4 DEF Moved
  <2> QED BY <2>1, <1>4 DEF Larger
<1>6. \A i \in 1 .. Len(f) : f[i] = IF i \in 1 .. k THEN w[i]
                                    ELSE IF i <= m THEN e[i] ELSE Junk
  BY <1>2, <1>4 DEF Moved
<1>7. \A i \in 1 .. m : i \in k + 1 .. k + n => e[i] = x[i - k]
  BY <1>1, <1>4 DEF Moved
<1>8. ASSUME NEW i \in 1 .. k + n PROVE f[i] \in TextBytes
  <2>1. CASE i \in 1 .. k
    <3>1. i \in 1 .. Len(f) /\ f[i] = w[i]
      BY <1>5, <1>6, <2>1
    <3> QED BY <2>1, <3>1 DEF Filled
  <2>2. CASE i \notin 1 .. k
    <3>1. i \in k + 1 .. k + n /\ i - k \in 1 .. n /\ i \in 1 .. m /\ i \in 1 .. Len(f)
      BY <1>4, <1>5, <2>2
    <3>2. f[i] = x[i - k]
      BY <1>6, <1>7, <2>2, <3>1
    <3> QED BY <3>1, <3>2 DEF Filled
  <2> QED BY <2>1, <2>2
<1> QED BY <1>1, <1>2, <1>5, <1>8 DEF Filled

\* e is b with a text of n bytes and its terminator.
Closes(e, b, n) ==
  /\ e \in Buffers /\ e.length = n /\ e.capacity = b.capacity
  /\ Len(e.data) = n + 1 /\ e.data[n + 1] = NUL
  /\ e.fault = IF b.fault = "none" /\ n + 1 > b.capacity THEN "outside" ELSE b.fault

\* The terminator behind the first n bytes.
LEMMA EndedIs ==
  ASSUME NEW b \in Buffers, NEW n \in Nat, NEW d, Filled(d, n)
  PROVE  Closes(Ended(b, d, n), b, n)
<1>1. PICK l \in Nat : l = Len(d) /\ n <= l /\ d \in Seq(Memory)
  BY LenProperties DEF Filled
<1>2. n + 1 \in 1 .. l + 1 /\ (n + 1) - 1 = n
  BY <1>1
<1>3. PICK t : t = SubSeq(d, 1, n)
  OBVIOUS
<1>4. t \in Seq(Memory) /\ Len(t) = n /\ \A i \in 1 .. n : t[i] = d[i]
  <2>1. PICK k : k = n + 1
    OBVIOUS
  <2>2. /\ SubSeq(d, 1, k - 1) \in Seq(Memory) /\ Len(SubSeq(d, 1, k - 1)) = k - 1
        /\ \A j \in 1 .. (k - 1) : SubSeq(d, 1, k - 1)[j] = d[j]
    BY <1>1, <1>2, <2>1, Prefix
  <2> QED BY <1>2, <1>3, <2>1, <2>2
<1>5. t \in Seq(TextBytes)
  <2>1. \A i \in 1 .. n : t[i] \in TextBytes
    BY <1>4 DEF Filled
  <2>2. t = [i \in 1 .. n |-> t[i]]
    BY <1>4
  <2> QED BY <2>1, <2>2, FunctionIsSeq
<1>6. PICK e : e = Append(t, NUL)
  OBVIOUS
<1>7. e \in Seq(TextBytes) /\ Len(e) = n + 1 /\ e[n + 1] = NUL
  BY <1>4, <1>5, <1>6, AppendProperties DEF TextBytes
<1>8. Ended(b, d, n) = [b EXCEPT !.data = e, !.length = n,
                                 !.fault = IF b.fault = "none" /\ n + 1 > b.capacity
                                           THEN "outside" ELSE b.fault]
  BY <1>3, <1>6 DEF Ended
<1> QED BY <1>7, <1>8 DEF Closes, Buffers, Faults

----------------------------------------------------------------------------
\* What a buffer holds, and what is cut out of it.

\* Without a fault.
Whole(b) == Form(b) /\ b.fault = "none"

\* A buffer without a fault is one on which an operation goes on.
LEMMA WholePlain ==
  ASSUME NEW b, Whole(b)
  PROVE  Plain(b) /\ Form(b)
BY DEF Whole, Plain

\* What Form says, part by part.
LEMMA FormFacts ==
  ASSUME NEW b, Form(b)
  PROVE  /\ b \in Buffers /\ b.data \in Seq(TextBytes) /\ b.length \in Nat /\ b.capacity \in Nat
         /\ Len(b.data) = b.length + 1 /\ b.data[b.length + 1] = NUL
         /\ \A i \in 1 .. b.length + 1 : b.data[i] \in TextBytes
<1>1. b.data \in Seq(TextBytes) /\ Len(b.data) = b.length + 1
  BY DEF Form, Buffers
<1>2. \A i \in 1 .. Len(b.data) : b.data[i] \in TextBytes
  BY <1>1, ElementOfSeq
<1> QED BY <1>1, <1>2 DEF Form, Buffers

\* A piece of a sequence of bytes.
LEMMA Piece ==
  ASSUME NEW d \in Seq(TextBytes), NEW i \in Nat \ {0}, NEW j \in Int, j <= Len(d), i <= j + 1
  PROVE  SubSeq(d, i, j) \in Seq(TextBytes) /\ Len(SubSeq(d, i, j)) = j - i + 1
<1>1. PICK l \in Nat : l = Len(d) /\ \A k \in 1 .. l : d[k] \in TextBytes
  BY LenProperties, ElementOfSeq
<1>2. \A k \in i .. j : d[k] \in TextBytes
  BY <1>1
<1>3. i \in Int
  OBVIOUS
<1> QED BY <1>2, <1>3, SubSeqProperties

\* The text without its terminator.
LEMMA TextIs ==
  ASSUME NEW b, Form(b)
  PROVE  Text(b) \in Seq(TextBytes) /\ Len(Text(b)) = b.length /\ Filled(Text(b), b.length)
<1>1. PICK n \in Nat : n = b.length
  BY FormFacts
<1>2. b.data \in Seq(TextBytes) /\ n <= Len(b.data)
  BY <1>1, FormFacts
<1>3. PICK t : t = SubSeq(b.data, 1, n)
  OBVIOUS
<1>4. 1 \in Nat \ {0} /\ n \in Int /\ 1 <= n + 1 /\ n - 1 + 1 = n
  OBVIOUS
<1>5. t \in Seq(TextBytes) /\ Len(t) = n
  BY <1>2, <1>3, <1>4, Piece
<1>6. Filled(t, n)
  BY <1>5, BytesFilled
<1> QED BY <1>1, <1>3, <1>5, <1>6 DEF Text

\* What C sees ends at the first terminator.
LEMMA CTextIs ==
  ASSUME NEW d \in Seq(TextBytes), NEW k \in 1 .. Len(d), d[k] = NUL
  PROVE  CText(d) \in Seq(TextBytes) /\ Len(CText(d)) < k
<1>1. PICK l \in Nat : l = Len(d)
  BY LenProperties
<1> DEFINE S == {i \in DOMAIN d : d[i] = NUL}
<1>2. DOMAIN d = 1 .. l
  BY <1>1, LenProperties
<1>3. S \in SUBSET Nat /\ S \in SUBSET (1 .. l) /\ k \in S
  BY <1>1, <1>2
<1>4. PICK m : m = MinOf(S)
  OBVIOUS
<1>5. m \in S /\ \A j \in S : m <= j
  <2> HIDE DEF S
  <2>1. \E x \in S : \A y \in S : x <= y
    BY <1>3, Least
  <2> QED BY <1>4, <2>1 DEF MinOf
<1>6. m \in 1 .. l /\ m <= k
  BY <1>3, <1>5
<1>7. PICK j : j = m - 1
  OBVIOUS
<1>8. 1 \in Nat \ {0} /\ j \in Int /\ j <= Len(d) /\ 1 <= j + 1 /\ j - 1 + 1 = j /\ j < k
  BY <1>1, <1>6, <1>7
<1>9. PICK t : t = SubSeq(d, 1, j)
  OBVIOUS
<1>10. t \in Seq(TextBytes) /\ Len(t) = j
  BY <1>8, <1>9, Piece
<1>11. CText(d) = t
  BY <1>4, <1>7, <1>9 DEF CText
<1> QED BY <1>8, <1>10, <1>11

\* The least of a set of numbers is one of them.
LEMMA MinOfIn ==
  ASSUME NEW S \in SUBSET Nat, S # {}
  PROVE  MinOf(S) \in S /\ \A j \in S : MinOf(S) <= j
<1>1. \E x \in S : \A y \in S : x <= y
  BY Least
<1> QED BY <1>1 DEF MinOf

\* The text of a buffer as C sees it.
LEMMA CTextOf ==
  ASSUME NEW b, Form(b)
  PROVE  CText(b.data) \in Seq(TextBytes)
<1>1. PICK k : k = b.length + 1
  OBVIOUS
<1>2. b.data \in Seq(TextBytes) /\ k \in 1 .. Len(b.data) /\ b.data[k] = NUL
  BY <1>1, FormFacts
<1> QED BY <1>2, CTextIs

----------------------------------------------------------------------------
\* The operations that ask for room.
LEMMA GrownPlain ==
  ASSUME NEW b, Plain(b), NEW g, NEW n \in Nat, Roomy(b, g, n), n >= b.length,
         NEW e, Closes(e, g, n)
  PROVE  Plain(e)
<1>0. IntMax \in Nat
  BY StringsAssumption
<1>1. PICK l \in Nat, c \in Nat, k \in Nat : l = b.length /\ c = b.capacity /\ k = g.capacity
  BY DEF Plain, Form, Roomy, Buffers
<1>2. /\ k >= c /\ (k >= n + 1 \/ k * 2 > IntMax) /\ (c * 2 > IntMax => k = c)
      /\ b.fault \in {"none", "overflow"} /\ (b.fault = "overflow" => c < l + 1 /\ c * 2 > IntMax)
      /\ g.fault = (IF k < n + 1 THEN "overflow" ELSE b.fault)
      /\ e.fault = (IF g.fault = "none" /\ n + 1 > k THEN "outside" ELSE g.fault)
      /\ e.length = n /\ e.capacity = k
  BY <1>1 DEF Plain, Form, Roomy, Closes
<1>3. e.fault = g.fault /\ e.fault \in {"none", "overflow"}
  BY <1>1, <1>2
<1>4. e.fault = "none" => n + 1 <= k
  BY <1>1, <1>2, <1>3
<1>5. e.fault = "overflow" => k < n + 1 /\ k * 2 > IntMax
  BY <1>0, <1>1, <1>2, <1>3
<1>6. e \in Buffers /\ Len(e.data) = e.length + 1 /\ e.data[e.length + 1] = NUL
  BY DEF Closes
<1> QED BY <1>2, <1>3, <1>4, <1>5, <1>6 DEF Plain, Form

\* More room leaves the text as it is.
LEMMA RoomyForm ==
  ASSUME NEW b, Form(b), NEW g, NEW n \in Nat, Roomy(b, g, n)
  PROVE  /\ g \in Buffers /\ g.data = b.data /\ g.length = b.length
         /\ Filled(g.data, b.length) /\ Filled(g.data, b.length + 1)
<1>1. g \in Buffers /\ g.data = b.data /\ g.length = b.length
  BY DEF Roomy
<1>2. PICK l \in Nat : l = b.length
  BY FormFacts
<1>3. b.data \in Seq(TextBytes) /\ l <= Len(b.data) /\ l + 1 \in Nat /\ l + 1 <= Len(b.data)
  BY <1>2, FormFacts
<1>4. Filled(b.data, l) /\ Filled(b.data, l + 1)
  BY <1>3, BytesFilled
<1> QED BY <1>1, <1>2, <1>4

\* A text behind the text.
LEMMA AppendPlain ==
  ASSUME NEW b, Plain(b), NEW w \in Seq(TextBytes),
         NEW g, g = check_capacity(b, b.length + Len(w))
  PROVE  Plain(Ended(g, Move(g.data, g.length, w), g.length + Len(w)))
<1>1. PICK l \in Nat, m \in Nat : l = b.length /\ m = Len(w)
  BY FormFacts, LenProperties DEF Plain
<1>2. PICK n \in Nat : n = l + m /\ n >= l
  BY <1>1
<1>3. Roomy(b, g, n)
  BY <1>1, <1>2, CapacityIs, FormFacts DEF Plain
<1>4. g \in Buffers /\ g.length = l /\ Filled(g.data, l)
  BY <1>1, <1>3, RoomyForm DEF Plain
<1>5. Filled(w, m)
  BY <1>1, BytesFilled
<1>6. PICK d : d = Move(g.data, l, w)
  OBVIOUS
<1>7. Filled(d, n)
  <2>1. PICK a : a = g.data
    OBVIOUS
  <2>2. Filled(a, l) /\ l <= l
    BY <1>4, <2>1
  <2>3. Filled(Move(a, l, w), l + m)
    BY <1>1, <1>5, <2>2, MoveFills
  <2> QED BY <1>2, <1>6, <2>1, <2>3
<1>8. PICK e : e = Ended(g, d, n)
  OBVIOUS
<1>9. Closes(e, g, n)
  BY <1>4, <1>7, <1>8, EndedIs
<1>10. Plain(e)
  BY <1>1, <1>2, <1>3, <1>9, GrownPlain
<1> QED BY <1>1, <1>2, <1>4, <1>6, <1>8, <1>10

\* String_appendStr.
LEMMA AppendStrPlain ==
  ASSUME NEW b, Plain(b), NEW w \in Seq(TextBytes)
  PROVE  Plain(String_appendStr(b, w))
BY AppendPlain DEF String_appendStr

\* It grows only what is too small, and only until it is large enough.
LEMMA AppendGrows ==
  ASSUME NEW b, Plain(b), NEW w \in Seq(TextBytes),
         NEW e, e = String_appendStr(b, w), e.capacity # b.capacity
  PROVE  e.capacity < 2 * (e.length + 1) /\ b.capacity < b.length + Len(w) + 1
<1>1. PICK l \in Nat, m \in Nat : l = b.length /\ m = Len(w)
  BY FormFacts, LenProperties DEF Plain
<1>2. PICK n \in Nat : n = l + m
  OBVIOUS
<1>3. PICK g : g = check_capacity(b, n) /\ Roomy(b, g, n)
  BY CapacityIs, FormFacts DEF Plain
<1>4. PICK d : d = Move(g.data, g.length, w)
  OBVIOUS
<1>5. e = Ended(g, d, n)
  BY <1>1, <1>2, <1>3, <1>4 DEF String_appendStr, Roomy
<1>6. g \in Buffers
  BY <1>3 DEF Roomy
<1>7. e.length = n /\ e.capacity = g.capacity
  BY <1>5, <1>6 DEF Ended, Buffers
<1>8. b.capacity \in Nat
  BY DEF Plain, Form, Buffers
<1> QED BY <1>1, <1>2, <1>3, <1>7, <1>8 DEF Roomy

\* String_appendChar.
LEMMA AppendCharPlain ==
  ASSUME NEW b, Plain(b), NEW c \in TextBytes
  PROVE  Plain(String_appendChar(b, c))
<1>1. PICK w : w = <<c>>
  OBVIOUS
<1>2. w \in Seq(TextBytes) /\ Len(w) = 1
  BY <1>1
<1>3. PICK g : g = check_capacity(b, b.length + Len(w))
  OBVIOUS
<1>4. Plain(Ended(g, Move(g.data, g.length, w), g.length + Len(w)))
  BY <1>2, <1>3, AppendPlain
<1> QED BY <1>1, <1>2, <1>3, <1>4 DEF String_appendChar

\* A text before the text, with or without room.
LEMMA PrependedIs ==
  ASSUME NEW b, NEW g, NEW m \in Nat, Form(b), Roomy(b, g, m), NEW w \in Seq(TextBytes)
  PROVE  Closes(Prepended(g, w), g, b.length + Len(w))
<1>1. PICK l \in Nat, k \in Nat : l = b.length /\ k = Len(w)
  BY FormFacts, LenProperties
<1>2. g \in Buffers /\ g.length = l /\ g.data = b.data /\ Filled(g.data, l)
  BY <1>1, RoomyForm
<1>3. PICK x : x = Text(g)
  OBVIOUS
<1>4. Text(g) = Text(b)
  BY <1>1, <1>2 DEF Text
<1>5. Filled(x, l) /\ Len(x) = l
  BY <1>1, <1>3, <1>4, TextIs
<1>6. Filled(w, k)
  BY <1>1, BytesFilled
<1>7. PICK a : a = g.data /\ a \in Seq(Memory)
  BY <1>2 DEF Filled
<1>8. PICK d : d = Move(Move(a, k, x), 0, w)
  OBVIOUS
<1>9. Filled(d, k + l)
  BY <1>1, <1>5, <1>6, <1>7, <1>8, PrependFills
<1>10. PICK n \in Nat : n = l + k /\ n = k + l
  OBVIOUS
<1>11. Closes(Ended(g, d, n), g, n)
  BY <1>2, <1>9, <1>10, EndedIs
<1>12. Prepended(g, w) = Ended(g, d, n)
  BY <1>1, <1>2, <1>3, <1>7, <1>8, <1>10 DEF Prepended
<1> QED BY <1>1, <1>10, <1>11, <1>12

\* With room asked for, no fault is new.
LEMMA PrependPlain ==
  ASSUME NEW b, Plain(b), NEW w \in Seq(TextBytes),
         NEW g, g = check_capacity(b, b.length + Len(w))
  PROVE  Plain(Prepended(g, w))
<1>1. PICK l \in Nat, k \in Nat : l = b.length /\ k = Len(w)
  BY FormFacts, LenProperties DEF Plain
<1>2. PICK n \in Nat : n = l + k /\ n >= l
  BY <1>1
<1>3. Roomy(b, g, n)
  BY <1>1, <1>2, CapacityIs, FormFacts DEF Plain
<1>4. PICK e : e = Prepended(g, w)
  OBVIOUS
<1>5. Closes(e, g, n)
  BY <1>1, <1>2, <1>3, <1>4, PrependedIs DEF Plain
<1>6. Plain(e)
  BY <1>1, <1>2, <1>3, <1>5, GrownPlain
<1> QED BY <1>4, <1>6

\* String_prependStr.
LEMMA PrependStrPlain ==
  ASSUME NEW b, Plain(b), NEW w \in Seq(TextBytes)
  PROVE  Plain(String_prependStr(b, w))
BY PrependPlain DEF String_prependStr

\* String_prependChar.
LEMMA PrependCharPlain ==
  ASSUME NEW b, Plain(b), NEW c \in TextBytes
  PROVE  Plain(String_prependChar(b, c))
<1>1. PICK w : w = <<c>>
  OBVIOUS
<1>2. w \in Seq(TextBytes) /\ Len(w) = 1
  BY <1>1
<1>3. PICK g : g = check_capacity(b, b.length + Len(w))
  OBVIOUS
<1>4. Plain(Prepended(g, w))
  BY <1>2, <1>3, PrependPlain
<1> QED BY <1>1, <1>2, <1>3, <1>4 DEF String_prependChar

\* It does not ask: outside the block, the fault is its own.
LEMMA PrependArrForm ==
  ASSUME NEW b, Whole(b), NEW w \in Seq(TextBytes)
  PROVE  Form(String_prependArr(b, w))
<1>1. PICK l \in Nat, k \in Nat, c \in Nat : l = b.length /\ k = Len(w) /\ c = b.capacity /\ c >= 1
  BY FormFacts, LenProperties DEF Whole, Form, Buffers
<1>2. PICK n \in Nat : n = l + k
  OBVIOUS
<1>3. Roomy(b, b, 0)
  BY <1>1 DEF Roomy, Whole, Form
<1>4. PICK e : e = Prepended(b, w)
  OBVIOUS
<1>5. Closes(e, b, n)
  BY <1>1, <1>2, <1>3, <1>4, PrependedIs DEF Whole
<1>6. /\ e \in Buffers /\ Len(e.data) = e.length + 1 /\ e.data[e.length + 1] = NUL
      /\ e.length = n /\ e.capacity = c /\ e.fault = IF n + 1 > c THEN "outside" ELSE "none"
  BY <1>1, <1>5 DEF Closes, Whole
<1>7. CASE e.fault = "outside"
  <2>1. PICK f : f = [e EXCEPT !.fault = "unchecked"]
    OBVIOUS
  <2>2. f \in Buffers /\ f.data = e.data /\ f.length = e.length /\ f.fault = "unchecked"
    BY <1>6, <2>1 DEF Buffers, Faults
  <2>3. f.capacity = c /\ c < n + 1
    BY <1>1, <1>2, <1>6, <1>7, <2>1
  <2>5. Form(f)
    BY <1>6, <2>2, <2>3 DEF Form
  <2>4. String_prependArr(b, w) = f
    BY <1>4, <1>7, <2>1 DEF String_prependArr
  <2> QED BY <2>4, <2>5
<1>8. CASE e.fault # "outside"
  <2>1. e.fault = "none" /\ n + 1 <= c
    BY <1>1, <1>6, <1>8
  <2>2. Form(e)
    BY <1>6, <2>1 DEF Form
  <2>3. String_prependArr(b, w) = e
    BY <1>4, <1>8 DEF String_prependArr
  <2> QED BY <2>2, <2>3
<1> QED BY <1>7, <1>8

\* What is behind the place is kept while the other text is written there.
LEMMA InsertPlain ==
  ASSUME NEW b, Whole(b), NEW that, Whole(that), NEW place \in 0 .. b.length
  PROVE  Plain(String_insert(b, place, that))
<1>1. PICK l \in Nat, m \in Nat : l = b.length /\ m = that.length
  BY FormFacts DEF Whole
<1>2. CASE ~(place < 0 \/ place > l \/ m <= 0)
  <2>1. PICK n \in Nat : n = l + m /\ n >= l
    OBVIOUS
  <2>2. PICK g : g = check_capacity(b, n)
    OBVIOUS
  <2>3. Roomy(b, g, n)
    BY <2>2, CapacityIs, FormFacts DEF Whole
  <2>4. g \in Buffers /\ g.length = l /\ g.data = b.data /\ Filled(g.data, l)
    BY <1>1, <2>3, RoomyForm DEF Whole
  <2>5. PICK a : a = g.data /\ Filled(a, l)
    BY <2>4
  <2>6. PICK k \in Nat : k = l - place /\ place \in Nat /\ place + m \in Nat /\ (place + m) + k = n /\ place <= l
    BY <1>1, <2>1
  <2>7. PICK x : x = Text(that) /\ Filled(x, m) /\ Len(x) = m
    BY <1>1, TextIs DEF Whole
  <2>8. PICK temp : temp = SubSeq(a, place + 1, l)
    OBVIOUS
  <2>9. Filled(temp, k) /\ Len(temp) = k
    <3>1. a \in Seq(TextBytes) /\ Len(a) = l + 1
      BY <1>1, <2>4, <2>5, FormFacts DEF Whole
    <3>2. PICK i \in Nat \ {0} : i = place + 1 /\ i <= l + 1 /\ l - i + 1 = k
      BY <2>6
    <3>3. l \in Int /\ l <= Len(a)
      BY <3>1
    <3>4. temp \in Seq(TextBytes) /\ Len(temp) = k
      BY <2>8, <3>1, <3>2, <3>3, Piece
    <3> QED BY <3>4, BytesFilled
  <2>10. PICK d : d = Move(a, place, x)
    OBVIOUS
  <2>11. Filled(d, place + m)
    BY <2>5, <2>6, <2>7, <2>10, MoveFills
  <2>12. PICK o \in Nat : o = place + m /\ Filled(d, o) /\ o + k = n
    BY <2>6, <2>11
  <2>13. PICK f : f = Move(d, o, temp)
    OBVIOUS
  <2>14. Filled(f, n)
    <3>1. Filled(Move(d, o, temp), o + k)
      BY <2>9, <2>12, MoveFills
    <3> QED BY <2>12, <2>13, <3>1
  <2>15. PICK e : e = Ended(g, f, n)
    OBVIOUS
  <2>16. Closes(e, g, n)
    BY <2>4, <2>14, <2>15, EndedIs
  <2>17. Plain(e)
    BY <1>1, <2>1, <2>3, <2>16, GrownPlain, WholePlain
  <2>18. String_insert(b, place, that) = e
    BY <1>1, <1>2, <2>1, <2>2, <2>4, <2>5, <2>7, <2>8, <2>10, <2>12, <2>13, <2>15 DEF String_insert
  <2> QED BY <2>17, <2>18
<1>3. CASE place < 0 \/ place > l \/ m <= 0
  BY <1>1, <1>3, WholePlain DEF String_insert
<1> QED BY <1>2, <1>3

----------------------------------------------------------------------------
\* The operations that cut.
LEMMA LimitedIs ==
  ASSUME NEW n \in Nat, NEW i \in Int
  PROVE  Limited(n, i) \in Nat /\ (n > 0 => Limited(n, i) < n) /\ (n = 0 => Limited(n, i) = 0)
BY DEF Limited, Larger, Smaller

\* limit_range gives two places of the text in order.
LEMMA LimitsAre ==
  ASSUME NEW n \in Nat, NEW i \in Int, NEW j \in Int
  PROVE  \E f \in Nat, t \in Nat :
           /\ limit_range(n, i, j) = <<f, t>> /\ f <= t
           /\ n > 0 => t < n
           /\ n = 0 => t = 0
<1>1. PICK x \in Nat, y \in Nat : x = Limited(n, i) /\ y = Limited(n, j)
  BY LimitedIs
<1>2. (n > 0 => x < n /\ y < n) /\ (n = 0 => x = 0 /\ y = 0)
  BY <1>1, LimitedIs
<1>3. PICK f, t : f = Smaller(x, y) /\ t = Larger(x, y)
  OBVIOUS
<1>4. f \in Nat /\ t \in Nat /\ f <= t /\ (n > 0 => t < n) /\ (n = 0 => t = 0)
  BY <1>2, <1>3 DEF Smaller, Larger
<1>5. limit_range(n, i, j) = <<f, t>>
  BY <1>1, <1>3 DEF limit_range
<1> QED BY <1>4, <1>5

\* String_delete moves what is behind the piece over it.
LEMMA DeleteWhole ==
  ASSUME NEW b, Whole(b), NEW from \in Int, NEW to \in Int
  PROVE  Whole(String_delete(b, from, to))
<1>1. PICK l \in Nat : l = b.length
  BY FormFacts DEF Whole
<1>2. CASE l <= 0
  BY <1>1, <1>2 DEF String_delete
<1>3. CASE l > 0
  <2>1. PICK i \in Nat, j \in Nat : limit_range(l, from, to) = <<i, j>> /\ i <= j /\ j < l
    BY <1>3, LimitsAre
  <2>2. PICK r : r = <<i, j>> /\ r[1] = i /\ r[2] = j
    <3>1. <<i, j>>[1] = i /\ <<i, j>>[2] = j
      OBVIOUS
    <3> QED BY <3>1
  <2>3. PICK n \in Nat, k \in Nat : n = l - (j - i + 1) /\ k = l - j - 1 /\ n = i + k /\ n < l
    BY <2>1
  <2>4. PICK a : a = b.data /\ a \in Seq(TextBytes) /\ Len(a) = l + 1
    BY <1>1, FormFacts DEF Whole
  <2>5. PICK w : w = SubSeq(a, j + 2, l)
    OBVIOUS
  <2>6. Filled(w, k) /\ Len(w) = k
    <3>1. PICK o \in Nat \ {0} : o = j + 2 /\ o <= l + 1 /\ l - o + 1 = k
      BY <2>1, <2>3
    <3>2. l \in Int /\ l <= Len(a)
      BY <2>4
    <3>3. w \in Seq(TextBytes) /\ Len(w) = k
      BY <2>4, <2>5, <3>1, <3>2, Piece
    <3> QED BY <3>3, BytesFilled
  <2>7. Filled(a, l) /\ i <= l
    BY <2>1, <2>4, BytesFilled
  <2>8. PICK d : d = Move(a, i, w)
    OBVIOUS
  <2>9. Filled(d, n)
    BY <2>3, <2>6, <2>7, <2>8, MoveFills
  <2>10. PICK e : e = Ended(b, d, n)
    OBVIOUS
  <2>11. b \in Buffers /\ b.capacity \in Nat /\ l + 1 <= b.capacity
    BY <1>1, FormFacts DEF Whole, Form
  <2>12. Closes(e, b, n)
    BY <2>9, <2>10, <2>11, EndedIs
  <2>13. e.fault = "none" /\ e \in Buffers /\ e.capacity = b.capacity /\ e.length = n
    BY <2>3, <2>11, <2>12 DEF Closes, Whole
  <2>14. PICK o \in Nat : o = n + 1
    OBVIOUS
  <2>15. PICK g : g = check_capacity(e, o)
    OBVIOUS
  <2>16. Roomy(e, g, o)
    BY <2>13, <2>15, CapacityIs
  <2>17. /\ g \in Buffers /\ g.length = n /\ g.data = e.data
         /\ g.capacity >= b.capacity /\ g.capacity \in Nat
         /\ g.fault = IF g.capacity < o + 1 THEN "overflow" ELSE "none"
    BY <2>13, <2>16 DEF Roomy, Buffers
  <2>18. n + 1 <= g.capacity /\ g.fault = "none"
    BY <2>3, <2>11, <2>14, <2>17
  <2>19. Whole(g)
    BY <2>12, <2>17, <2>18 DEF Whole, Form, Closes
  <2>20. String_delete(b, from, to) = g
    <3>1. ~(b.length <= 0) /\ limit_range(b.length, from, to) = r
      BY <1>1, <1>3, <2>1, <2>2
    <3>2. String_delete(b, from, to) =
            check_capacity(Ended(b, Move(b.data, r[1], SubSeq(b.data, r[2] + 2, b.length)),
                                    b.length - (r[2] - r[1] + 1)),
                           b.length - (r[2] - r[1] + 1) + 1)
      BY <3>1 DEF String_delete
    <3>3. b.length - (r[2] - r[1] + 1) = n /\ SubSeq(b.data, r[2] + 2, b.length) = w /\ n + 1 = o
      BY <1>1, <2>2, <2>3, <2>4, <2>5, <2>14
    <3>4. Move(b.data, r[1], w) = d
      BY <2>2, <2>4, <2>8
    <3> QED BY <3>2, <3>3, <3>4, <2>10, <2>15
  <2> QED BY <2>19, <2>20
<1> QED BY <1>1, <1>2, <1>3

\* A text the application gives is made of bytes.
LEMMA WordsAre ==
  ASSUME NEW w \in Words
  PROVE  w \in Seq(TextBytes)
<1>1. w \in Seq(Chars)
  BY StringsAssumption
<1>2. PICK n \in Nat : n = Len(w) /\ \A i \in 1 .. n : w[i] \in Chars
  BY <1>1, LenProperties, ElementOfSeq
<1>3. w = [i \in 1 .. n |-> w[i]]
  BY <1>1, <1>2
<1>4. \A i \in 1 .. n : w[i] \in TextBytes
  BY <1>2 DEF TextBytes
<1> QED BY <1>3, <1>4, FunctionIsSeq

\* String_new: an empty text in a block with room for it.
LEMMA NewWhole == Whole(String_new)
<1>1. MinCapacity \in Nat
  BY StringsAssumption
<1>2. <<NUL>> \in Seq(TextBytes) /\ Len(<<NUL>>) = 1 /\ <<NUL>>[1] = NUL
  BY DEF TextBytes
<1>3. PICK d : d = <<NUL>>
  OBVIOUS
<1>4. PICK c \in Nat \ {0} : c = MinCapacity + 1
  BY <1>1
<1>5. PICK b : b = [data |-> d, length |-> 0, capacity |-> c, fault |-> "none"]
  OBVIOUS
<1>6. b \in Buffers /\ b.data = d /\ b.length = 0 /\ b.capacity = c /\ b.fault = "none"
  BY <1>2, <1>3, <1>4, <1>5 DEF Buffers, Faults
<1>7. Whole(b)
  BY <1>2, <1>3, <1>4, <1>6 DEF Whole, Form
<1> QED BY <1>3, <1>4, <1>5, <1>7 DEF String_new

\* String_setStr, also with its own text.
LEMMA SetPlain ==
  ASSUME NEW b, Whole(b), NEW w \in Seq(TextBytes)
  PROVE  Plain(String_set(b, w)) /\ Plain(SetToOwn(b))
<1>1. PICK e : e = String_delete(b, 0, -1)
  OBVIOUS
<1>2. Whole(e)
  BY <1>1, DeleteWhole
<1>3. Plain(e) /\ CText(e.data) \in Seq(TextBytes)
  BY <1>2, WholePlain, CTextOf
<1>4. Plain(String_appendStr(e, w)) /\ Plain(String_appendStr(e, CText(e.data)))
  BY <1>3, AppendStrPlain
<1> QED BY <1>1, <1>4 DEF String_set, SetToOwn

\* String_clear.
LEMMA ClearWhole ==
  ASSUME NEW b, Whole(b)
  PROVE  Whole(String_clear(b))
<1>1. <<>> \in Seq(TextBytes) /\ Len(<<>>) = 0
  BY EmptySeq
<1>2. PICK d : d = <<>> /\ Filled(d, 0)
  <2>1. PICK d : d = <<>>
    OBVIOUS
  <2>2. d \in Seq(TextBytes) /\ 0 \in Nat /\ 0 <= Len(d)
    BY <1>1, <2>1
  <2> QED BY <2>1, <2>2, BytesFilled
<1>3. PICK e : e = Ended(b, d, 0)
  OBVIOUS
<1>4. b \in Buffers /\ b.capacity \in Nat /\ b.fault = "none" /\ 0 + 1 <= b.capacity
  BY DEF Whole, Form, Buffers
<1>5. Closes(e, b, 0)
  BY <1>2, <1>3, <1>4, EndedIs
<1>6. Whole(e)
  BY <1>4, <1>5 DEF Closes, Whole, Form
<1> QED BY <1>2, <1>3, <1>6 DEF String_clear

\* String_clone appends the text to a new buffer.
LEMMA ClonePlain ==
  ASSUME NEW b, Form(b)
  PROVE  Plain(String_clone(b))
<1>1. CText(b.data) \in Seq(TextBytes)
  BY CTextOf
<1>2. Plain(String_new)
  BY NewWhole, WholePlain
<1> QED BY <1>1, <1>2, AppendStrPlain DEF String_clone

\* String_subString appends a piece of it.
LEMMA SubStringPlain ==
  ASSUME NEW b, Form(b), NEW from \in Int, NEW to \in Int
  PROVE  Plain(String_subString(b, from, to))
<1>1. PICK l \in Nat : l = b.length
  BY FormFacts
<1>2. PICK i \in Nat, j \in Nat :
        /\ limit_range(l, from, to) = <<i, j>> /\ i <= j
        /\ l > 0 => j < l
        /\ l = 0 => j = 0
  BY LimitsAre
<1>3. PICK r : r = <<i, j>> /\ r[1] = i /\ r[2] = j
  <2>1. <<i, j>>[1] = i /\ <<i, j>>[2] = j
    OBVIOUS
  <2> QED BY <2>1
<1>4. PICK a : a = b.data /\ a \in Seq(TextBytes) /\ Len(a) = l + 1
  BY <1>1, FormFacts
<1>5. PICK t : t = SubSeq(a, i + 1, j + 1)
  OBVIOUS
<1>6. t \in Seq(TextBytes) /\ Len(t) \in Nat
  <2>1. PICK m \in Nat \ {0}, n \in Int : m = i + 1 /\ n = j + 1 /\ n <= l + 1 /\ m <= n + 1
    <3>1. i + 1 \in Nat \ {0} /\ j + 1 \in Int /\ i + 1 <= (j + 1) + 1 /\ j + 1 <= l + 1
      BY <1>2
    <3> QED BY <3>1
  <2>2. t \in Seq(TextBytes)
    BY <1>4, <1>5, <2>1, Piece
  <2> QED BY <2>2, LenProperties
<1>7. PICK u : u = Append(t, NUL)
  OBVIOUS
<1>8. PICK k \in Nat : k = Len(t) + 1
  BY <1>6
<1>9. u \in Seq(TextBytes) /\ Len(u) = k /\ u[k] = NUL /\ k \in 1 .. Len(u)
  BY <1>6, <1>7, <1>8, AppendProperties DEF TextBytes
<1>10. CText(u) \in Seq(TextBytes)
  BY <1>9, CTextIs
<1>11. Plain(String_appendStr(String_new, CText(u)))
  BY <1>10, NewWhole, WholePlain, AppendStrPlain
<1>12. String_subString(b, from, to) = String_appendStr(String_new, CText(u))
  <2>1. limit_range(b.length, from, to) = r
    BY <1>1, <1>2, <1>3
  <2>2. String_subString(b, from, to) =
          String_appendStr(String_new, CText(Append(SubSeq(b.data, r[1] + 1, r[2] + 1), NUL)))
    BY <2>1 DEF String_subString
  <2> QED BY <2>2, <1>3, <1>4, <1>5, <1>7
<1> QED BY <1>11, <1>12

\* A change of the bytes that are there.
LEMMA OtherBytes ==
  ASSUME NEW b, Whole(b), NEW d \in Seq(TextBytes), Len(d) = b.length + 1, d[b.length + 1] = NUL,
         NEW e, e = [b EXCEPT !.data = d]
  PROVE  Whole(e)
<1>1. /\ e \in Buffers /\ e.data = d /\ e.length = b.length /\ e.capacity = b.capacity
      /\ e.fault = "none"
  BY DEF Whole, Form, Buffers
<1> QED BY <1>1 DEF Whole, Form

\* String_setChar.
LEMMA SetCharWhole ==
  ASSUME NEW b, Whole(b), NEW i \in Nat, NEW c \in TextBytes
  PROVE  Whole(String_setChar(b, i, c))
<1>1. PICK l \in Nat : l = b.length
  BY FormFacts DEF Whole
<1>2. CASE i >= l
  BY <1>1, <1>2 DEF String_setChar
<1>3. CASE i < l
  <2>1. PICK a : a = b.data /\ a \in Seq(TextBytes) /\ Len(a) = l + 1 /\ a[l + 1] = NUL
    BY <1>1, FormFacts DEF Whole
  <2>2. PICK d : d = [a EXCEPT ![i + 1] = c]
    OBVIOUS
  <2>3. d \in Seq(TextBytes) /\ Len(d) = l + 1 /\ d[l + 1] = NUL
    BY <1>3, <2>1, <2>2
  <2>4. PICK e : e = [b EXCEPT !.data = d]
    OBVIOUS
  <2>5. Whole(e)
    BY <1>1, <2>3, <2>4, OtherBytes
  <2>6. String_setChar(b, i, c) = e
    <3>1. ~(i < 0 \/ i >= b.length)
      BY <1>1, <1>3
    <3>2. String_setChar(b, i, c) = [b EXCEPT !.data[i + 1] = c]
      BY <3>1 DEF String_setChar
    <3>3. [b EXCEPT !.data[i + 1] = c] = [b EXCEPT !.data = [b.data EXCEPT ![i + 1] = c]]
      BY DEF Whole, Form, Buffers
    <3> QED BY <2>1, <2>2, <2>4, <3>2, <3>3
  <2> QED BY <2>5, <2>6
<1> QED BY <1>1, <1>2, <1>3

\* String_reverse.
LEMMA ReverseWhole ==
  ASSUME NEW b, Whole(b)
  PROVE  Whole(String_reverse(b))
<1>1. PICK l \in Nat : l = b.length
  BY FormFacts DEF Whole
<1>2. PICK x : x = Text(b) /\ x \in Seq(TextBytes) /\ Len(x) = l
  BY <1>1, TextIs DEF Whole
<1>3. PICK y : y = Reverse(x)
  OBVIOUS
<1>4. y = [i \in 1 .. l |-> x[(l - i) + 1]]
  BY <1>2, <1>3 DEF Reverse
<1>5. \A i \in 1 .. l : y[i] \in TextBytes
  <2>1. \A i \in 1 .. l : (l - i) + 1 \in 1 .. l
    OBVIOUS
  <2>2. \A i \in 1 .. l : x[i] \in TextBytes
    BY <1>2, ElementOfSeq
  <2> QED BY <1>4, <2>1, <2>2
<1>6. y = [i \in 1 .. l |-> y[i]]
  BY <1>4
<1>7. y \in Seq(TextBytes) /\ Len(y) = l
  BY <1>5, <1>6, FunctionIsSeq
<1>8. PICK d : d = Append(y, NUL)
  OBVIOUS
<1>9. d \in Seq(TextBytes) /\ Len(d) = l + 1 /\ d[l + 1] = NUL
  BY <1>7, <1>8, AppendProperties DEF TextBytes
<1>10. PICK e : e = [b EXCEPT !.data = d]
  OBVIOUS
<1>11. Whole(e)
  BY <1>1, <1>9, <1>10, OtherBytes
<1> QED BY <1>2, <1>3, <1>8, <1>10, <1>11 DEF String_reverse

\* String_upper and String_lower.
LEMMA MappedWhole ==
  ASSUME NEW b, Whole(b), NEW f \in [Chars -> Chars]
  PROVE  Whole(Mapped(b, f))
<1>1. PICK l \in Nat : l = b.length
  BY FormFacts DEF Whole
<1>2. PICK a : a = b.data /\ a \in Seq(TextBytes) /\ Len(a) = l + 1 /\ a[l + 1] = NUL
  BY <1>1, FormFacts DEF Whole
<1>3. PICK n \in Nat : n = l + 1 /\ DOMAIN a = 1 .. n /\ n \in 1 .. n
  BY <1>2, LenProperties
<1>4. PICK d : d = [i \in 1 .. n |-> IF a[i] = NUL THEN NUL ELSE f[a[i]]]
  OBVIOUS
<1>5. \A i \in 1 .. n : d[i] \in TextBytes
  <2>1. \A i \in 1 .. n : a[i] \in TextBytes
    BY <1>2, <1>3, ElementOfSeq
  <2>2. \A i \in 1 .. n : a[i] # NUL => f[a[i]] \in Chars
    BY <2>1 DEF TextBytes
  <2> QED BY <1>4, <2>2 DEF TextBytes
<1>6. d = [i \in 1 .. n |-> d[i]]
  BY <1>4
<1>7. d \in Seq(TextBytes) /\ Len(d) = n
  BY <1>5, <1>6, FunctionIsSeq
<1>8. d[n] = NUL
  BY <1>2, <1>3, <1>4
<1>9. PICK e : e = [b EXCEPT !.data = d]
  OBVIOUS
<1>10. Whole(e)
  BY <1>1, <1>3, <1>7, <1>8, <1>9, OtherBytes
<1>11. Mapped(b, f) = [b EXCEPT !.data = [i \in DOMAIN b.data |-> IF b.data[i] = NUL THEN NUL ELSE f[b.data[i]]]]
  BY DEF Mapped
<1> QED BY <1>2, <1>3, <1>4, <1>9, <1>10, <1>11

----------------------------------------------------------------------------
\* The loop of String_repeat.
Times(f, b, n) ==
  f = [i \in 1 .. n |-> IF i = 1 THEN b ELSE String_appendStr(f[i - 1], CText(b.data))]

\* It goes on for every count: from the least for which it did not.
LEMMA TimesExists ==
  ASSUME NEW b, NEW n \in Nat
  PROVE  \E f : Times(f, b, n)
<1> DEFINE S == {k \in Nat : ~ \E f : Times(f, b, k)}
<1>1. SUFFICES ASSUME S # {} PROVE FALSE
  OBVIOUS
<1>2. PICK k \in S : \A j \in S : k <= j
  <2>1. S \in SUBSET Nat
    OBVIOUS
  <2> HIDE DEF S
  <2> QED BY <1>1, <2>1, Least
<1>3. k \in Nat /\ ~ \E f : Times(f, b, k)
  OBVIOUS
<1>4. k # 0
  <2>1. Times([i \in 1 .. 0 |-> b], b, 0)
    BY DEF Times
  <2> QED BY <1>3, <2>1
<1>5. PICK j \in Nat : k = j + 1
  <2>1. k - 1 \in Nat /\ k = (k - 1) + 1
    BY <1>3, <1>4
  <2> QED BY <2>1
<1>6. PICK g : Times(g, b, j)
  BY <1>2, <1>5
<1> DEFINE h == [i \in 1 .. k |-> IF i = 1 THEN b ELSE String_appendStr(g[i - 1], CText(b.data))]
<1>7. \A i \in 1 .. j : h[i] = g[i]
  <2>1. \A i \in 1 .. j : i \in 1 .. k
    BY <1>5
  <2>2. \A i \in 1 .. j : h[i] = IF i = 1 THEN b ELSE String_appendStr(g[i - 1], CText(b.data))
    BY <2>1
  <2>3. \A i \in 1 .. j : g[i] = IF i = 1 THEN b ELSE String_appendStr(g[i - 1], CText(b.data))
    BY <1>6 DEF Times
  <2> QED BY <2>2, <2>3
<1>8. \A i \in 1 .. k : i # 1 => i - 1 \in 1 .. j
  BY <1>5
<1>9. h = [i \in 1 .. k |-> IF i = 1 THEN b ELSE String_appendStr(h[i - 1], CText(b.data))]
  <2>1. \A i \in 1 .. k : (IF i = 1 THEN b ELSE String_appendStr(g[i - 1], CText(b.data)))
                        = (IF i = 1 THEN b ELSE String_appendStr(h[i - 1], CText(b.data)))
    BY <1>7, <1>8
  <2>2. h = [i \in 1 .. k |-> IF i = 1 THEN b ELSE String_appendStr(g[i - 1], CText(b.data))]
    OBVIOUS
  <2> HIDE DEF h
  <2> QED BY <2>1, <2>2
<1> HIDE DEF h
<1>10. Times(h, b, k)
  BY <1>9 DEF Times
<1> QED BY <1>3, <1>10

\* String_repeat.
LEMMA RepeatPlain ==
  ASSUME NEW b, Whole(b), NEW n \in Nat \ {0}
  PROVE  Plain(String_repeat(b, n))
<1>1. CText(b.data) \in Seq(TextBytes) /\ Plain(b)
  BY CTextOf, WholePlain
<1>2. PICK f : f = CHOOSE g : Times(g, b, n)
  OBVIOUS
<1>3. Times(f, b, n)
  BY <1>2, TimesExists
<1>4. \A i \in 1 .. n : f[i] = IF i = 1 THEN b ELSE String_appendStr(f[i - 1], CText(b.data))
  BY <1>3 DEF Times
<1> DEFINE S == {i \in 1 .. n : ~Plain(f[i])}
<1>5. S = {}
  <2>1. SUFFICES ASSUME S # {} PROVE FALSE
    OBVIOUS
  <2>2. PICK i \in S : \A j \in S : i <= j
    <3>1. S \in SUBSET Nat
      OBVIOUS
    <3> HIDE DEF S
    <3> QED BY <2>1, <3>1, Least
  <2>3. i \in 1 .. n /\ ~Plain(f[i])
    OBVIOUS
  <2>4. i # 1
    BY <1>1, <1>4, <2>3
  <2>5. i - 1 \in 1 .. n /\ ~(i <= i - 1)
    BY <2>3, <2>4
  <2>6. Plain(f[i - 1])
    BY <2>2, <2>5
  <2>7. Plain(f[i])
    BY <1>1, <1>4, <2>3, <2>4, <2>6, AppendStrPlain
  <2> QED BY <2>3, <2>7
<1>6. Plain(f[n])
  BY <1>5
<1>7. String_repeat(b, n) = b \/ String_repeat(b, n) = f[n]
  <2>1. f = CHOOSE g : g = [i \in 1 .. n |-> IF i = 1 THEN b ELSE String_appendStr(g[i - 1], CText(b.data))]
    BY <1>2 DEF Times
  <2> QED BY <2>1 DEF String_repeat
<1> QED BY <1>1, <1>6, <1>7

----------------------------------------------------------------------------
\* A search gives a place, or -1.
LEMMA StrstrIs ==
  ASSUME NEW w, Len(w) \in Nat, NEW t
  PROVE  strstr(w, t) = -1 \/ strstr(w, t) \in 0 .. Len(w)
<1>1. PICK S : S = Starts(w, t)
  OBVIOUS
<1>2. S \in SUBSET (0 .. Len(w)) /\ S \in SUBSET Nat
  BY <1>1 DEF Starts
<1>3. CASE S = {}
  BY <1>1, <1>3 DEF strstr
<1>4. CASE S # {}
  <2>1. \E x \in S : \A y \in S : x <= y
    BY <1>2, <1>4, Least
  <2>2. MinOf(S) \in S
    BY <2>1 DEF MinOf
  <2> QED BY <1>1, <1>2, <1>4, <2>2 DEF strstr
<1> QED BY <1>3, <1>4

\* String_findNext.
LEMMA FindNextInt ==
  ASSUME NEW b, Form(b), NEW from \in Int, NEW t
  PROVE  String_findNext(b, from, t) \in Int
<1>1. PICK l \in Nat : l = b.length
  BY FormFacts
<1>2. PICK a : a = b.data /\ a \in Seq(TextBytes) /\ Len(a) = l + 1 /\ a[l + 1] = NUL
  BY <1>1, FormFacts
<1>3. PICK k \in Int : k = IF from < 0 THEN from + l ELSE from
  OBVIOUS
<1>4. CASE k < 0 \/ k > l
  <2>1. String_findNext(b, from, t) = -1
    BY <1>1, <1>3, <1>4 DEF String_findNext
  <2> QED BY <2>1
<1>5. CASE ~(k < 0 \/ k > l)
  <2>1. PICK i \in Nat \ {0}, j \in Int : i = k + 1 /\ j = l + 1 /\ i <= j + 1 /\ j <= l + 1
    <3>1. k + 1 \in Nat \ {0} /\ l + 1 \in Int /\ k + 1 <= (l + 1) + 1
      BY <1>5
    <3> QED BY <3>1
  <2>2. PICK d : d = SubSeq(a, i, j)
    OBVIOUS
  <2>3. d \in Seq(TextBytes) /\ Len(d) = j - i + 1
    BY <1>2, <2>1, <2>2, Piece
  <2>4. PICK m \in Nat : m = l - k + 1 /\ m = j - i + 1 /\ m >= 1
    BY <1>5, <2>1
  <2>5. d[m] = NUL
    <3>1. \A x \in i .. j : a[x] \in TextBytes
      BY <1>2, <2>1, ElementOfSeq
    <3>2. \A x \in 1 .. j - i + 1 : d[x] = a[i + x - 1]
      BY <2>1, <2>2, <3>1, SubSeqProperties
    <3>3. m \in 1 .. j - i + 1 /\ i + m - 1 = l + 1
      BY <2>1, <2>4
    <3> QED BY <1>2, <3>2, <3>3
  <2>6. m \in 1 .. Len(d)
    BY <2>3, <2>4
  <2>7. CText(d) \in Seq(TextBytes)
    BY <2>3, <2>5, <2>6, CTextIs
  <2>8. PICK w : w = CText(d) /\ Len(w) \in Nat
    BY <2>7, LenProperties
  <2>9. strstr(w, t) \in Int
    BY <2>8, StrstrIs
  <2>10. FoundFrom(b, k, t) \in Int
    <3>1. CText(SubSeq(b.data, k + 1, b.length + 1)) = w
      BY <1>1, <1>2, <2>1, <2>2, <2>8
    <3>2. FoundFrom(b, k, t) = IF strstr(w, t) = -1 THEN -1 ELSE k + strstr(w, t)
      BY <3>1 DEF FoundFrom
    <3> QED BY <2>9, <3>2
  <2>11. String_findNext(b, from, t) = -1 \/ String_findNext(b, from, t) = FoundFrom(b, k, t)
    BY <1>1, <1>3 DEF String_findNext
  <2> QED BY <2>10, <2>11
<1> QED BY <1>4, <1>5

----------------------------------------------------------------------------
\* The loop of String_replace.
RoundOK(r) ==
  /\ r \in [out : Buffers, next : Int, cut : Int, count : Nat, over : BOOLEAN]
  /\ Plain(r.out)

\* A round appends what is before the place and the new text.
LEMMA RoundKeeps ==
  ASSUME NEW b, Form(b), NEW t \in Words, NEW w \in Words, NEW to \in Nat, NEW n \in Int,
         NEW r, RoundOK(r)
  PROVE  RoundOK(ReplaceStep(b, t, w, to, n, r))
<1>1. r.out \in Buffers /\ r.next \in Int /\ r.cut \in Int /\ r.count \in Nat /\ Plain(r.out)
  BY DEF RoundOK
<1>2. PICK found \in Int : found = String_findNext(b, r.next, t)
  BY <1>1, FindNextInt
<1>3. PICK part : part = String_subString(b, r.cut, found - 1)
  OBVIOUS
<1>4. Form(part)
  BY <1>1, <1>2, <1>3, SubStringPlain DEF Plain
<1>5. CASE r.over \/ found = -1 \/ found >= to
  <2>1. PICK q : q = [r EXCEPT !.over = TRUE]
    OBVIOUS
  <2>2. q \in [out : Buffers, next : Int, cut : Int, count : Nat, over : BOOLEAN] /\ q.out = r.out
    BY <2>1 DEF RoundOK
  <2>3. RoundOK(q)
    BY <1>1, <2>2 DEF RoundOK
  <2>4. ReplaceStep(b, t, w, to, n, r) = q
    BY <1>2, <1>5, <2>1 DEF ReplaceStep
  <2> QED BY <2>3, <2>4
<1>6. CASE ~(r.over \/ found = -1 \/ found >= to)
  <2>1. CText(part.data) \in Seq(TextBytes) /\ w \in Seq(TextBytes) /\ t \in Seq(TextBytes)
    BY <1>4, CTextOf, WordsAre
  <2>2. Plain(String_appendStr(r.out, CText(part.data)))
    BY <1>1, <2>1, AppendStrPlain
  <2>3. PICK o : o = String_appendStr(String_appendStr(r.out, CText(part.data)), w)
    OBVIOUS
  <2>4. Plain(o) /\ o \in Buffers
    BY <2>1, <2>2, <2>3, AppendStrPlain DEF Plain, Form
  <2>5. PICK e \in Int : e = found + Len(t)
    BY <2>1, LenProperties
  <2>6. PICK c \in Nat : c = r.count + 1
    BY <1>1
  <2>7. PICK v \in BOOLEAN : v = (n > 0 /\ c >= n)
    OBVIOUS
  <2>8. PICK q : q = [out |-> o, next |-> e, cut |-> e, count |-> c, over |-> v]
    OBVIOUS
  <2>9. RoundOK(q)
    BY <2>4, <2>8 DEF RoundOK
  <2>10. ReplaceStep(b, t, w, to, n, r) = q
    BY <1>2, <1>3, <1>6, <2>3, <2>5, <2>6, <2>7, <2>8 DEF ReplaceStep
  <2> QED BY <2>9, <2>10
<1> QED BY <1>5, <1>6

\* t is replaced by w from offset `from`, up to `to`, at most count times.
Rounds(f, b, t, w, from, to, count, n) ==
  f = [i \in 0 .. n |->
         IF i = 0
         THEN [out |-> String_new, next |-> from, cut |-> 0, count |-> 0, over |-> FALSE]
         ELSE ReplaceStep(b, t, w, to, count, f[i - 1])]

\* The rounds go on, whatever their number.
LEMMA RoundsExist ==
  ASSUME NEW b, NEW t, NEW w, NEW from, NEW to, NEW count, NEW n \in Nat
  PROVE  \E f : Rounds(f, b, t, w, from, to, count, n)
<1> DEFINE begun == [out |-> String_new, next |-> from, cut |-> 0, count |-> 0, over |-> FALSE]
<1> DEFINE R(f, k) == Rounds(f, b, t, w, from, to, count, k)
<1> DEFINE S == {k \in Nat : ~ \E f : R(f, k)}
<1>1. SUFFICES ASSUME S # {} PROVE FALSE
  OBVIOUS
<1>2. PICK k \in S : \A j \in S : k <= j
  <2>1. S \in SUBSET Nat
    OBVIOUS
  <2> HIDE DEF S
  <2> QED BY <1>1, <2>1, Least
<1>3. k \in Nat /\ ~ \E f : R(f, k)
  OBVIOUS
<1>4. k # 0
  <2>1. R([i \in 0 .. 0 |-> begun], 0)
    BY DEF Rounds
  <2> QED BY <1>3, <2>1
<1>5. PICK j \in Nat : k = j + 1
  <2>1. k - 1 \in Nat /\ k = (k - 1) + 1
    BY <1>3, <1>4
  <2> QED BY <2>1
<1>6. PICK g : R(g, j)
  <2>1. j \notin S /\ j \in Nat
    BY <1>2, <1>5
  <2> QED BY <2>1
<1> DEFINE h == [i \in 0 .. k |-> IF i = 0 THEN begun ELSE ReplaceStep(b, t, w, to, count, g[i - 1])]
<1>7. \A i \in 0 .. j : h[i] = g[i]
  <2>1. \A i \in 0 .. j : i \in 0 .. k
    BY <1>5
  <2>2. \A i \in 0 .. j : h[i] = IF i = 0 THEN begun ELSE ReplaceStep(b, t, w, to, count, g[i - 1])
    BY <2>1
  <2>3. \A i \in 0 .. j : g[i] = IF i = 0 THEN begun ELSE ReplaceStep(b, t, w, to, count, g[i - 1])
    BY <1>6 DEF Rounds
  <2> QED BY <2>2, <2>3
<1>8. \A i \in 0 .. k : i # 0 => i - 1 \in 0 .. j
  BY <1>5
<1>9. h = [i \in 0 .. k |-> IF i = 0 THEN begun ELSE ReplaceStep(b, t, w, to, count, h[i - 1])]
  <2>1. \A i \in 0 .. k : (IF i = 0 THEN begun ELSE ReplaceStep(b, t, w, to, count, g[i - 1]))
                        = (IF i = 0 THEN begun ELSE ReplaceStep(b, t, w, to, count, h[i - 1]))
    BY <1>7, <1>8
  <2>2. h = [i \in 0 .. k |-> IF i = 0 THEN begun ELSE ReplaceStep(b, t, w, to, count, g[i - 1])]
    OBVIOUS
  <2> HIDE DEF h
  <2> QED BY <2>1, <2>2
<1> HIDE DEF h
<1>10. R(h, k)
  BY <1>9 DEF Rounds
<1> QED BY <1>3, <1>10

\* After every round the new buffer is in form.
LEMMA RoundsPlain ==
  ASSUME NEW b, Form(b), NEW t \in Words, NEW w \in Words, NEW from \in Nat, NEW to \in Nat,
         NEW count \in Int, NEW n \in Nat, NEW f, Rounds(f, b, t, w, from, to, count, n)
  PROVE  RoundOK(f[n])
<1>1. \A i \in 0 .. n :
        f[i] = IF i = 0
               THEN [out |-> String_new, next |-> from, cut |-> 0, count |-> 0, over |-> FALSE]
               ELSE ReplaceStep(b, t, w, to, count, f[i - 1])
  BY DEF Rounds
<1>2. RoundOK([out |-> String_new, next |-> from, cut |-> 0, count |-> 0, over |-> FALSE])
  <2>1. PICK o : o = String_new /\ Plain(o) /\ o \in Buffers
    BY NewWhole, WholePlain DEF Form
  <2> QED BY <2>1 DEF RoundOK
<1> DEFINE S == {i \in 0 .. n : ~RoundOK(f[i])}
<1>3. S = {}
  <2>1. SUFFICES ASSUME S # {} PROVE FALSE
    OBVIOUS
  <2>2. PICK i \in S : \A j \in S : i <= j
    <3>1. S \in SUBSET Nat
      OBVIOUS
    <3> HIDE DEF S
    <3> QED BY <2>1, <3>1, Least
  <2>3. i \in 0 .. n /\ ~RoundOK(f[i])
    OBVIOUS
  <2>4. i # 0
    BY <1>1, <1>2, <2>3
  <2>5. i - 1 \in 0 .. n /\ ~(i <= i - 1)
    BY <2>3, <2>4
  <2>6. RoundOK(f[i - 1])
    BY <2>2, <2>5
  <2>7. RoundOK(ReplaceStep(b, t, w, to, count, f[i - 1]))
    BY <2>6, RoundKeeps
  <2>8. RoundOK(f[i])
    BY <1>1, <2>3, <2>4, <2>7
  <2> QED BY <2>3, <2>8
<1> QED BY <1>3

\* String_replace.
LEMMA ReplacePlain ==
  ASSUME NEW b, Whole(b), NEW t \in Words, NEW w \in Words, NEW count \in Int
  PROVE  Plain(String_replace(b, t, w, 0, -1, count))
<1>1. PICK l \in Nat : l = b.length
  BY FormFacts DEF Whole
<1>2. PICK i \in Nat, j \in Nat : limit_range(l, 0, -1) = <<i, j>>
  BY LimitsAre
<1>3. PICK lim : lim = <<i, j>> /\ lim[1] = i /\ lim[2] = j
  <2>1. <<i, j>>[1] = i /\ <<i, j>>[2] = j
    OBVIOUS
  <2> QED BY <2>1
<1>4. PICK n \in Nat : n = l + 1
  OBVIOUS
<1>5. PICK f : f = CHOOSE g : Rounds(g, b, t, w, lim[1], lim[2], count, n)
  OBVIOUS
<1>6. Rounds(f, b, t, w, i, j, count, n)
  BY <1>3, <1>5, RoundsExist
<1>7. PICK r : r = f[n] /\ Plain(r.out) /\ r.cut \in Int
  BY <1>6, RoundsPlain, WholePlain DEF RoundOK
<1>8. PICK rest : rest = String_subString(b, r.cut, l - 1)
  OBVIOUS
<1>9. Form(rest)
  BY <1>7, <1>8, SubStringPlain, WholePlain DEF Plain
<1>10. Plain(String_appendStr(r.out, CText(rest.data)))
  BY <1>7, <1>9, CTextOf, AppendStrPlain
<1>11. PICK o : o = String_appendStr(r.out, CText(rest.data)) /\ Form(o)
  BY <1>10 DEF Plain
<1>12. Plain(String_set(b, CText(o.data)))
  BY <1>11, CTextOf, SetPlain
<1>13. \/ String_replace(b, t, w, 0, -1, count) = b
       \/ String_replace(b, t, w, 0, -1, count) = String_set(b, CText(o.data))
  <2>1. f = CHOOSE g : g = [x \in 0 .. b.length + 1 |->
                              IF x = 0
                              THEN [out |-> String_new, next |-> lim[1], cut |-> 0, count |-> 0, over |-> FALSE]
                              ELSE ReplaceStep(b, t, w, lim[2], count, g[x - 1])]
    BY <1>1, <1>4, <1>5 DEF Rounds
  <2>2. lim = limit_range(b.length, 0, -1)
    BY <1>1, <1>2, <1>3
  <2>3. r = f[b.length + 1] /\ rest = String_subString(b, r.cut, b.length - 1)
    BY <1>1, <1>4, <1>7, <1>8
  <2> QED BY <2>1, <2>2, <2>3, <1>11 DEF String_replace
<1> QED BY <1>12, <1>13, WholePlain

\* The trims cut before or behind what is not blank.
LEMMA TrimsWhole ==
  ASSUME NEW b, Whole(b)
  PROVE  Whole(trim_left(b)) /\ Whole(trim_right(b))
<1>1. PICK l \in Nat : l = b.length
  BY FormFacts DEF Whole
<1> DEFINE A == {i \in 0 .. b.length : i = b.length \/ b.data[i + 1] \notin Blanks}
<1> DEFINE B == {i \in -1 .. b.length - 1 : i = -1 \/ b.data[i + 1] \notin Blanks}
<1>2. MinOf(A) \in Int
  <2>1. A \in SUBSET Nat /\ l \in A
    BY <1>1
  <2> HIDE DEF A, B
  <2>2. MinOf(A) \in A
    BY <2>1, MinOfIn
  <2>3. MinOf(A) \in Nat
    BY <2>1, <2>2
  <2> QED BY <2>3
<1>3. MaxOf(B) \in Int
  <2> DEFINE C == {k \in 0 .. l : k - 1 \in B}
  <2>1. B \in SUBSET Int /\ C \in SUBSET (0 .. l) /\ 0 \in C /\ \A x \in B : x + 1 \in C
    BY <1>1
  <2>2. \A k \in C : k \in Nat /\ k - 1 \in B
    OBVIOUS
  <2> HIDE DEF B, C
  <2>3. PICK k \in C : \A y \in C : y <= k
    BY <2>1, Greatest
  <2>4. k - 1 \in B /\ \A y \in B : k - 1 >= y
    BY <2>1, <2>2, <2>3
  <2>5. MaxOf(B) \in B
    BY <2>4 DEF MaxOf
  <2> QED BY <2>1, <2>5
<1> HIDE DEF A, B
<1>4. Whole(String_delete(b, 0, MinOf(A))) /\ Whole(String_delete(b, MaxOf(B) + 1, l))
  BY <1>2, <1>3, DeleteWhole
<1>5. trim_left(b) = b \/ trim_left(b) = String_delete(b, 0, MinOf(A))
  BY DEF trim_left, String_deleteStarting, A
<1>6. trim_right(b) = b \/ trim_right(b) = String_delete(b, MaxOf(B) + 1, l)
  BY <1>1 DEF trim_right, String_deleteEnding, B
<1> QED BY <1>4, <1>5, <1>6

----------------------------------------------------------------------------
\* Every action keeps the invariant.
LEMMA StoreKeeps ==
  ASSUME StringsInv, NEW s \in Strings, NEW b, Form(b), buf' = [buf EXCEPT ![s] = b]
  PROVE  StringsInv'
<1>1. DOMAIN buf' = Strings /\ buf'[s] = b /\ \A r \in Strings \ {s} : buf'[r] = buf[r]
  BY DEF StringsInv
<1> QED BY <1>1 DEF StringsInv, Alive

\* A string that may be used is without a fault.
LEMMA SoundWhole ==
  ASSUME StringsInv, NEW s, Sound(s)
  PROVE  Whole(buf[s])
BY DEF StringsInv, Sound, Whole

\* A string that changes, or a new one.
LEMMA BecomeKeeps ==
  ASSUME StringsInv, NEW s \in Strings, NEW b, Form(b), Become(s, b) \/ Create(s, b)
  PROVE  StringsInv'
BY StoreKeeps DEF Become, Create

\* Own data: whatever becomes of it, the block is as large as it must be.
LEMMA OwnForm ==
  ASSUME NEW b, Whole(b), NEW e \in OwnAppended(b)
  PROVE  Form(e)
<1>1. PICK g : g = String_appendStr(b, CText(b.data))
  OBVIOUS
<1>2. Plain(g) /\ Plain(b)
  BY <1>1, CTextOf, AppendStrPlain, WholePlain
<1>3. CASE e = g
  BY <1>2, <1>3 DEF Plain
<1>4. CASE e # g
  <2>1. g.fault = "none" /\ g.capacity # b.capacity /\ e = [g EXCEPT !.fault = "stale"]
    BY <1>1, <1>4 DEF OwnAppended
  <2>2. /\ e \in Buffers /\ e.data = g.data /\ e.length = g.length /\ e.capacity = g.capacity
        /\ e.fault = "stale"
    BY <1>2, <2>1 DEF Plain, Form, Buffers, Faults
  <2>3. g.capacity < 2 * (g.length + 1)
    BY <1>1, <1>2, <2>1, AppendGrows, CTextOf DEF Plain
  <2> QED BY <1>2, <2>1, <2>2, <2>3 DEF Plain, Form
<1> QED BY <1>3, <1>4

\* The calls that write a text.
LEMMA StepEdit ==
  ASSUME StringsInv, NEW s \in Strings, Sound(s), Edit(s, buf[s])
  PROVE  StringsInv'
<1>1. PICK b : b = buf[s] /\ Whole(b) /\ Plain(b)
  BY SoundWhole, WholePlain
<1>2. ASSUME NEW e, Plain(e), Become(s, e) PROVE StringsInv'
  BY <1>2, BecomeKeeps DEF Plain
<1>3. Edit(s, b)
  BY <1>1
<1>4. ASSUME NEW c \in TextBytes, Become(s, String_appendChar(b, c)) \/ Become(s, String_prependChar(b, c))
      PROVE  StringsInv'
  BY <1>1, <1>2, <1>4, AppendCharPlain, PrependCharPlain
<1>5. ASSUME NEW w \in Words,
             \/ Become(s, String_appendStr(b, w)) \/ Become(s, String_appendArr(b, w))
             \/ Become(s, String_prependStr(b, w)) \/ Become(s, String_set(b, w))
      PROVE  StringsInv'
  BY <1>1, <1>2, <1>5, WordsAre, AppendStrPlain, PrependStrPlain, SetPlain DEF String_appendArr
<1>6. ASSUME NEW w \in Words, Become(s, String_prependArr(b, w)) PROVE StringsInv'
  BY <1>1, <1>6, WordsAre, PrependArrForm, BecomeKeeps
<1>7. ASSUME Become(s, SetToOwn(b)) PROVE StringsInv'
  <2>1. <<>> \in Seq(TextBytes)
    BY EmptySeq
  <2> QED BY <1>1, <1>2, <1>7, <2>1, SetPlain
<1>8. ASSUME NEW e \in OwnAppended(b), Become(s, e) PROVE StringsInv'
  BY <1>1, <1>8, OwnForm, BecomeKeeps
<1>9. ASSUME NEW that \in {r \in Strings : Sound(r)}, NEW place \in 0 .. b.length,
             Become(s, String_insert(b, place, buf[that]))
      PROVE  StringsInv'
  BY <1>1, <1>2, <1>9, SoundWhole, InsertPlain
<1>10. ASSUME NEW n \in {2, 3}, Become(s, String_repeat(b, n)) PROVE StringsInv'
  <2>1. n \in Nat \ {0}
    OBVIOUS
  <2> QED BY <1>1, <1>2, <1>10, <2>1, RepeatPlain
<1>11. Chars \subseteq TextBytes /\ Chars \cup {NUL} = TextBytes
  BY DEF TextBytes
<1> QED BY <1>3, <1>4, <1>5, <1>6, <1>7, <1>8, <1>9, <1>10, <1>11 DEF Edit

\* The calls that take a piece away.
LEMMA StepCut ==
  ASSUME StringsInv, NEW s \in Strings, Sound(s), Cut(s, buf[s])
  PROVE  StringsInv'
<1>1. PICK b : b = buf[s] /\ Whole(b)
  BY SoundWhole
<1>2. PICK l \in Nat : l = b.length
  BY <1>1, FormFacts DEF Whole
<1>3. ASSUME NEW e, Form(e), Become(s, e) PROVE StringsInv'
  BY <1>3, BecomeKeeps
<1>4. Cut(s, b)
  BY <1>1
<1>5. ASSUME NEW from \in Int, NEW to \in Int, Become(s, String_delete(b, from, to)) PROVE StringsInv'
  BY <1>1, <1>3, <1>5, DeleteWhole, WholePlain
<1>6. ASSUME \/ Become(s, String_clear(b)) \/ Become(s, String_trim(b))
             \/ Become(s, trim_left(b)) \/ Become(s, trim_right(b))
      PROVE  StringsInv'
  <2>1. Form(String_clear(b)) /\ Whole(trim_left(b)) /\ Form(trim_left(b)) /\ Form(trim_right(b))
    BY <1>1, ClearWhole, TrimsWhole, WholePlain
  <2>2. Form(String_trim(b))
    BY <2>1, TrimsWhole, WholePlain DEF String_trim
  <2> QED BY <1>3, <1>6, <2>1, <2>2
<1>7. ASSUME NEW t \in Words, NEW w \in Words, NEW n \in Int, Become(s, String_replace(b, t, w, 0, -1, n))
      PROVE  StringsInv'
  BY <1>1, <1>3, <1>7, ReplacePlain DEF Plain
<1>8. \A from \in 0 .. b.length : from \in Int /\ \A to \in {-1} \cup (from .. b.length) : to \in Int
  BY <1>2
<1>9. \A n \in {-1, 1} : n \in Int
  OBVIOUS
<1> QED BY <1>4, <1>5, <1>6, <1>7, <1>8, <1>9 DEF Cut

\* The calls that change bytes in their place.
LEMMA StepChange ==
  ASSUME StringsInv, NEW s \in Strings, Sound(s), Change(s, buf[s])
  PROVE  StringsInv'
<1>1. PICK b : b = buf[s] /\ Whole(b)
  BY SoundWhole
<1>2. PICK l \in Nat : l = b.length
  BY <1>1, FormFacts DEF Whole
<1>3. ASSUME NEW e, Whole(e), Become(s, e) PROVE StringsInv'
  BY <1>3, BecomeKeeps, WholePlain
<1>4. Change(s, b)
  BY <1>1
<1>5. ASSUME NEW i \in 0 .. b.length, NEW c \in Chars, Become(s, String_setChar(b, i, c)) PROVE StringsInv'
  <2>1. i \in Nat /\ c \in TextBytes
    BY <1>2 DEF TextBytes
  <2> QED BY <1>1, <1>3, <1>5, <2>1, SetCharWhole
<1>6. ASSUME Become(s, String_reverse(b)) PROVE StringsInv'
  BY <1>1, <1>3, <1>6, ReverseWhole
<1>7. ASSUME Become(s, String_upper(b)) \/ Become(s, String_lower(b)) PROVE StringsInv'
  BY <1>1, <1>3, <1>7, MappedWhole, CaseAssumption DEF String_upper, String_lower
<1> QED BY <1>4, <1>5, <1>6, <1>7 DEF Change

\* The calls that give a new string.
LEMMA StepCreate ==
  ASSUME StringsInv, NEW s \in Strings, NEW r \in Strings, Sound(s), Copy(s, r)
  PROVE  StringsInv'
<1>1. Form(buf[s])
  BY SoundWhole, WholePlain
<1>2. PICK l \in Nat : l = buf[s].length
  BY <1>1, FormFacts
<1>3. ASSUME Create(r, String_clone(buf[s])) PROVE StringsInv'
  BY <1>1, <1>3, ClonePlain, BecomeKeeps DEF Plain
<1>4. ASSUME NEW from \in Int, NEW to \in Int, Create(r, String_subString(buf[s], from, to)) PROVE StringsInv'
  BY <1>1, <1>4, SubStringPlain, BecomeKeeps DEF Plain
<1>5. \A from \in 0 .. buf[s].length : from \in Int /\ \A to \in {-1} \cup (from .. buf[s].length) : to \in Int
  BY <1>2
<1> QED BY <1>3, <1>4, <1>5 DEF Copy

\* Every action of the program.
LEMMA StringsKeep == StringsInv /\ [StringsNext]_buf => StringsInv'
<1> SUFFICES ASSUME StringsInv, [StringsNext]_buf PROVE StringsInv'
  OBVIOUS
<1>1. ASSUME NEW s \in Strings, Create(s, String_new) PROVE StringsInv'
  BY <1>1, NewWhole, WholePlain, BecomeKeeps
<1>2. ASSUME NEW s \in Strings, String_free(s) PROVE StringsInv'
  <2>1. DOMAIN buf' = Strings /\ buf'[s] = Dead /\ \A r \in Strings \ {s} : buf'[r] = buf[r]
    BY <1>2 DEF StringsInv, String_free
  <2> QED BY <2>1 DEF StringsInv, Alive
<1>3. CASE UNCHANGED buf
  BY <1>3 DEF StringsInv, Alive
<1> QED BY <1>1, <1>2, <1>3, StepEdit, StepCut, StepChange, StepCreate DEF StringsNext

(* The text of every string ends with its terminator inside the block. No   *)
(* call that asks for room writes outside: it ends inside, or overflows     *)
(* where an int cannot double the capacity. What asks for no room overruns  *)
(* the block only with what did not fit, and own data is read from the      *)
(* block it left only when that had to grow (string.h).                     *)
THEOREM StringsCorrect == StringsSpec => []BufferOK
<1>1. StringsInit => StringsInv
  BY DEF StringsInit, StringsInv, Alive
<1>2. StringsInv => BufferOK
  <2> SUFFICES ASSUME StringsInv, NEW b, Form(b) PROVE
                 /\ b.capacity \in Nat \ {0}
                 /\ b.fault \in {"none", "overflow", "unchecked", "stale"}
                 /\ b.fault = "none" => /\ b.data \in Seq(Chars \cup {NUL})
                                        /\ Len(b.data) = b.length + 1
                                        /\ b.data[b.length + 1] = NUL
                                        /\ ~(b.capacity < b.length + 1)
                 /\ b.fault = "overflow" => b.capacity < b.length + 1 /\ b.capacity * 2 > IntMax
                 /\ b.fault = "unchecked" => b.capacity < b.length + 1
                 /\ b.fault = "stale" => /\ ~(b.capacity < b.length + 1)
                                         /\ b.capacity < 2 * (b.length + 1)
    BY DEF BufferOK, StringsInv
  <2>1. /\ b.capacity \in Nat \ {0} /\ b.length \in Nat
        /\ b.fault \in {"none", "overflow", "unchecked", "stale"}
        /\ b.data \in Seq(Chars \cup {NUL})
    BY DEF Form, Buffers, Faults, TextBytes
  <2>2. /\ b.fault \in {"none", "stale"} => b.length + 1 <= b.capacity
        /\ b.fault \in {"overflow", "unchecked"} => b.capacity < b.length + 1
        /\ b.fault = "overflow" => b.capacity * 2 > IntMax
        /\ b.fault = "stale" => b.capacity < 2 * (b.length + 1)
        /\ Len(b.data) = b.length + 1 /\ b.data[b.length + 1] = NUL
    BY DEF Form
  <2> QED BY <2>1, <2>2
<1> QED BY <1>1, <1>2, StringsKeep, PTL DEF StringsSpec

----------------------------------------------------------------------------
(* What the calls make of the text.                                         *)

\* y is the first n bytes of d.
ReadsAs(y, n, d) == y \in Seq(TextBytes) /\ Len(y) = n /\ \A i \in 1 .. n : y[i] = d[i]

\* The text of what Ended gives.
LEMMA TextEnded ==
  ASSUME NEW b \in Buffers, NEW n \in Nat, NEW d, Filled(d, n)
  PROVE  ReadsAs(Text(Ended(b, d, n)), n, d)
<1>1. PICK l \in Nat : l = Len(d) /\ n <= l /\ d \in Seq(Memory)
  BY LenProperties DEF Filled
<1>2. PICK t : t = SubSeq(d, 1, n)
  OBVIOUS
<1>3. \A i \in 1 .. n : d[i] \in TextBytes
  BY DEF Filled
<1>4. t \in Seq(TextBytes) /\ Len(t) = n /\ \A i \in 1 .. n : t[i] = d[i]
  <2>1. 1 \in Int /\ n \in Int /\ (1 <= n => n - 1 + 1 = n) /\ (~(1 <= n) => n = 0)
    OBVIOUS
  <2>2. /\ SubSeq(d, 1, n) \in Seq(TextBytes)
        /\ Len(SubSeq(d, 1, n)) = IF 1 <= n THEN n - 1 + 1 ELSE 0
        /\ \A i \in 1 .. n - 1 + 1 : SubSeq(d, 1, n)[i] = d[1 + i - 1]
    BY <1>3, <2>1, SubSeqProperties
  <2>3. \A i \in 1 .. n : i \in 1 .. n - 1 + 1 /\ 1 + i - 1 = i
    OBVIOUS
  <2> QED BY <1>2, <2>1, <2>2, <2>3
<1>5. PICK e : e = Append(t, NUL)
  OBVIOUS
<1>6. e \in Seq(TextBytes) /\ Len(e) = n + 1 /\ \A i \in 1 .. n : e[i] = d[i]
  BY <1>4, <1>5, AppendProperties DEF TextBytes
<1>7. PICK y : y = SubSeq(e, 1, n)
  OBVIOUS
<1>8. y \in Seq(TextBytes) /\ Len(y) = n /\ \A i \in 1 .. n : y[i] = e[i]
  <2>1. PICK k : k = n + 1 /\ k - 1 = n /\ k \in 1 .. Len(e) + 1
    BY <1>6
  <2>2. /\ SubSeq(e, 1, k - 1) \in Seq(TextBytes) /\ Len(SubSeq(e, 1, k - 1)) = k - 1
        /\ \A j \in 1 .. (k - 1) : SubSeq(e, 1, k - 1)[j] = e[j]
    BY <1>6, <2>1, Prefix
  <2> QED BY <1>7, <2>1, <2>2
<1>9. ReadsAs(y, n, d)
  BY <1>6, <1>8 DEF ReadsAs
<1>10. Ended(b, d, n).data = e /\ Ended(b, d, n).length = n
  BY <1>2, <1>5 DEF Ended, Buffers
<1>11. Text(Ended(b, d, n)) = y
  BY <1>7, <1>10 DEF Text
<1> QED BY <1>9, <1>11

\* One text behind the other.
Joins(y, x, l, w, m) ==
  /\ l \in Nat /\ m \in Nat
  /\ x \in Seq(TextBytes) /\ Len(x) = l
  /\ w \in Seq(TextBytes) /\ Len(w) = m
  /\ y \in Seq(TextBytes) /\ Len(y) = l + m
  /\ \A i \in 1 .. l : y[i] = x[i]
  /\ \A i \in 1 .. m : y[l + i] = w[i]

\* It is their concatenation.
LEMMA ConcatIs ==
  ASSUME NEW x, NEW w, NEW y, NEW l, NEW m, Joins(y, x, l, w, m)
  PROVE  y = x \o w
<1> USE DEF Joins
<1>1. PICK z : z = x \o w
  OBVIOUS
<1>2. z \in Seq(TextBytes) /\ Len(z) = l + m
  BY <1>1, ConcatProperties
<1>3. \A i \in 1 .. l + m : z[i] = IF i <= l THEN x[i] ELSE w[i - l]
  BY <1>1, ConcatProperties
<1>4. \A i \in 1 .. l + m : y[i] = z[i]
  <2> SUFFICES ASSUME NEW i \in 1 .. l + m PROVE y[i] = z[i]
    OBVIOUS
  <2>1. CASE i <= l
    BY <1>3, <2>1
  <2>2. CASE ~(i <= l)
    <3>1. i - l \in 1 .. m /\ l + (i - l) = i
      BY <2>2
    <3>2. y[l + (i - l)] = w[i - l]
      BY <3>1
    <3> QED BY <1>3, <2>2, <3>1, <3>2
  <2> QED BY <2>1, <2>2
<1> QED BY <1>1, <1>2, <1>4, SeqEqual

\* A piece of a sequence of bytes, byte by byte.
LEMMA PieceIs ==
  ASSUME NEW d \in Seq(TextBytes), NEW i \in Nat \ {0}, NEW j \in Int, j <= Len(d), i <= j + 1
  PROVE  /\ SubSeq(d, i, j) \in Seq(TextBytes) /\ Len(SubSeq(d, i, j)) = j - i + 1
         /\ \A k \in 1 .. j - i + 1 : SubSeq(d, i, j)[k] = d[i + k - 1]
<1>1. PICK l \in Nat : l = Len(d) /\ \A k \in 1 .. l : d[k] \in TextBytes
  BY LenProperties, ElementOfSeq
<1>2. \A k \in i .. j : d[k] \in TextBytes
  BY <1>1
<1>3. i \in Int
  OBVIOUS
<1> QED BY <1>2, <1>3, SubSeqProperties

\* The text, byte by byte, and the bytes as the text and its terminator.
LEMMA TextReads ==
  ASSUME NEW b, Form(b)
  PROVE  ReadsAs(Text(b), b.length, b.data) /\ b.data = Append(Text(b), NUL)
<1>1. PICK n \in Nat : n = b.length
  BY FormFacts
<1>2. PICK a : a = b.data /\ a \in Seq(TextBytes) /\ Len(a) = n + 1 /\ a[n + 1] = NUL
  BY <1>1, FormFacts
<1>3. PICK t : t = SubSeq(a, 1, n)
  OBVIOUS
<1>4. t \in Seq(TextBytes) /\ Len(t) = n /\ \A k \in 1 .. n : t[k] = a[k]
  <2>1. 1 \in Nat \ {0} /\ n \in Int /\ n <= Len(a) /\ 1 <= n + 1 /\ n - 1 + 1 = n
    BY <1>2
  <2>2. /\ SubSeq(a, 1, n) \in Seq(TextBytes) /\ Len(SubSeq(a, 1, n)) = n - 1 + 1
        /\ \A k \in 1 .. n - 1 + 1 : SubSeq(a, 1, n)[k] = a[1 + k - 1]
    BY <1>2, <2>1, PieceIs
  <2>3. \A k \in 1 .. n : 1 + k - 1 = k
    OBVIOUS
  <2> QED BY <1>3, <2>1, <2>2, <2>3
<1>5. PICK e : e = Append(t, NUL)
  OBVIOUS
<1>6. e \in Seq(TextBytes) /\ Len(e) = n + 1 /\ e[n + 1] = NUL /\ \A k \in 1 .. n : e[k] = t[k]
  BY <1>4, <1>5, AppendProperties DEF TextBytes
<1>7. \A k \in 1 .. n + 1 : e[k] = a[k]
  BY <1>2, <1>4, <1>6
<1>8. e = a
  BY <1>2, <1>6, <1>7, SeqEqual
<1> QED BY <1>1, <1>2, <1>3, <1>4, <1>5, <1>8 DEF Text, ReadsAs

\* A text behind the text.
LEMMA AppendText ==
  ASSUME NEW b, Form(b), NEW w \in Seq(TextBytes)
  PROVE  Text(String_appendStr(b, w)) = Text(b) \o w
<1>1. PICK l \in Nat, m \in Nat : l = b.length /\ m = Len(w)
  BY FormFacts, LenProperties
<1>2. PICK x : x = Text(b) /\ x \in Seq(TextBytes) /\ Len(x) = l /\ \A i \in 1 .. l : x[i] = b.data[i]
  BY <1>1, TextReads DEF ReadsAs
<1>3. CASE w = <<>>
  BY <1>2, <1>3, ConcatEmptySeq DEF String_appendStr
<1>4. CASE w # <<>>
  <2>1. PICK n \in Nat : n = l + m
    OBVIOUS
  <2>2. PICK g : g = check_capacity(b, n) /\ Roomy(b, g, n)
    BY CapacityIs, FormFacts
  <2>3. g \in Buffers /\ g.length = l /\ g.data = b.data /\ Filled(g.data, l)
    BY <1>1, <2>2, RoomyForm
  <2>4. PICK a : a = b.data /\ Filled(a, l)
    BY <2>3
  <2>5. Filled(w, m)
    BY <1>1, BytesFilled
  <2>6. PICK d : d = Move(a, l, w)
    OBVIOUS
  <2>7. Filled(d, n)
    <3>1. Filled(Move(a, l, w), l + m)
      BY <1>1, <2>4, <2>5, MoveFills
    <3> QED BY <2>1, <2>6, <3>1
  <2>8. Moved(a, l, w, d)
    BY <2>4, <2>5, <2>6, MoveIs DEF Filled
  <2>9. PICK y : y = Text(Ended(g, d, n)) /\ ReadsAs(y, n, d)
    BY <2>3, <2>7, TextEnded
  <2>10. PICK o \in Nat : o = Len(a) /\ l <= o
    BY <2>4, LenProperties DEF Filled
  <2>11. PICK p \in Nat : p = Len(d) /\ n <= p
    BY <2>7, LenProperties DEF Filled
  <2>12. \A i \in 1 .. p : d[i] = IF i \in l + 1 .. l + m THEN w[i - l] ELSE IF i <= o THEN a[i] ELSE Junk
    BY <1>1, <2>8, <2>10, <2>11 DEF Moved
  <2>13. ASSUME NEW i \in 1 .. l PROVE y[i] = x[i]
    <3>1. i \in 1 .. n /\ i \in 1 .. p /\ i \notin l + 1 .. l + m /\ i <= o
      BY <2>1, <2>10, <2>11
    <3>2. d[i] = a[i]
      BY <2>12, <3>1
    <3> QED BY <1>2, <2>4, <2>9, <3>1, <3>2 DEF ReadsAs
  <2>14. ASSUME NEW i \in 1 .. m PROVE y[l + i] = w[i]
    <3>1. l + i \in 1 .. n /\ l + i \in 1 .. p /\ l + i \in l + 1 .. l + m /\ (l + i) - l = i
      BY <2>1, <2>11
    <3>2. d[l + i] = w[(l + i) - l]
      BY <2>12, <3>1
    <3> QED BY <2>9, <3>1, <3>2 DEF ReadsAs
  <2>15. y \in Seq(TextBytes) /\ Len(y) = l + m
    BY <2>1, <2>9 DEF ReadsAs
  <2>16. y = x \o w
    <3>1. (\A i \in 1 .. l : y[i] = x[i]) /\ \A i \in 1 .. m : y[l + i] = w[i]
      BY <2>13, <2>14
    <3>2. x \in Seq(TextBytes) /\ Len(x) = l
      BY <1>2
    <3>3. Joins(y, x, l, w, m)
      BY <1>1, <2>15, <3>1, <3>2 DEF Joins
    <3> QED BY <3>3, ConcatIs
  <2>17. String_appendStr(b, w) = Ended(g, d, n)
    BY <1>1, <1>4, <2>1, <2>2, <2>3, <2>4, <2>6 DEF String_appendStr
  <2> QED BY <1>2, <2>9, <2>16, <2>17
<1> QED BY <1>3, <1>4

\* e is d with w behind its first k bytes.
Laid(e, k, d, m, w) ==
  /\ \A i \in 1 .. k : e[i] = d[i]
  /\ \A i \in 1 .. m : e[k + i] = w[i]
  /\ \A i \in 1 .. Len(d) : i > k + m => e[i] = d[i]

\* A move inside or right behind what is there, byte by byte.
LEMMA MoveReads ==
  ASSUME NEW d \in Seq(Memory), NEW w \in Seq(Memory), NEW k \in Nat, NEW m \in Nat,
         Len(w) = m, k <= Len(d)
  PROVE  Laid(Move(d, k, w), k, d, m, w)
<1>1. PICK e : e = Move(d, k, w) /\ Moved(d, k, w, e)
  BY MoveIs
<1>2. PICK l \in Nat : l = Len(d) /\ k <= l
  BY LenProperties
<1>3. PICK n \in Nat : n = Len(e) /\ l <= n /\ k + m <= n
  BY <1>1, <1>2 DEF Moved, Larger
<1>4. \A i \in 1 .. n : e[i] = IF i \in k + 1 .. k + m THEN w[i - k] ELSE IF i <= l THEN d[i] ELSE Junk
  BY <1>1, <1>2, <1>3 DEF Moved
<1>5. ASSUME NEW i \in 1 .. k PROVE e[i] = d[i]
  <2>1. i \in 1 .. n /\ i <= l /\ i \notin k + 1 .. k + m
    BY <1>2, <1>3
  <2> QED BY <1>4, <2>1
<1>6. ASSUME NEW i \in 1 .. m PROVE e[k + i] = w[i]
  <2>1. k + i \in 1 .. n /\ k + i \in k + 1 .. k + m /\ (k + i) - k = i
    BY <1>3
  <2>2. e[k + i] = w[(k + i) - k]
    BY <1>4, <2>1
  <2> QED BY <2>1, <2>2
<1>7. ASSUME NEW i \in 1 .. l, i > k + m PROVE e[i] = d[i]
  <2>1. i \in 1 .. n /\ i <= l /\ i \notin k + 1 .. k + m
    BY <1>3, <1>7
  <2> QED BY <1>4, <2>1
<1> QED BY <1>1, <1>2, <1>5, <1>6, <1>7 DEF Laid

\* A text before the text.
LEMMA PrependedText ==
  ASSUME NEW b, NEW g, NEW m \in Nat, Form(b), Roomy(b, g, m), NEW w \in Seq(TextBytes)
  PROVE  Text(Prepended(g, w)) = w \o Text(b)
<1>1. PICK l \in Nat, k \in Nat : l = b.length /\ k = Len(w)
  BY FormFacts, LenProperties
<1>2. PICK x : x = Text(b) /\ x \in Seq(TextBytes) /\ Len(x) = l /\ Filled(x, l)
  BY <1>1, TextIs
<1>3. PICK n \in Nat : n = l + k /\ n = k + l
  OBVIOUS
<1>4. g \in Buffers /\ g.length = l /\ g.data = b.data /\ Filled(g.data, l)
  BY <1>1, RoomyForm
<1>5. PICK a : a = b.data /\ Filled(a, l) /\ a \in Seq(Memory) /\ Len(a) = l + 1
  BY <1>1, <1>4, FormFacts DEF Filled
<1>6. Filled(w, k) /\ w \in Seq(Memory) /\ x \in Seq(Memory)
  BY <1>1, <1>2, BytesFilled DEF Filled
<1>7. PICK d : d = Move(a, k, x) /\ Moved(a, k, x, d)
  BY <1>5, <1>6, MoveIs
<1>8. PICK o \in Nat : o = Len(d) /\ o >= k + l
  BY <1>2, <1>5, <1>7 DEF Moved, Larger
<1>9. ASSUME NEW i \in 1 .. l PROVE d[k + i] = x[i]
  <2>1. k + i \in 1 .. Len(d) /\ k + i \in k + 1 .. k + l /\ (k + i) - k = i
    BY <1>8
  <2>2. d[k + i] = x[(k + i) - k]
    BY <1>2, <1>7, <2>1 DEF Moved
  <2> QED BY <2>1, <2>2
<1>10. PICK f : f = Move(d, 0, w)
  OBVIOUS
<1>11. Laid(f, 0, d, k, w)
  BY <1>1, <1>6, <1>7, <1>8, <1>10, MoveReads DEF Moved
<1>12. Filled(f, n)
  BY <1>2, <1>3, <1>5, <1>6, <1>1, <1>7, <1>10, PrependFills
<1>13. PICK y : y = Text(Ended(g, f, n)) /\ ReadsAs(y, n, f)
  BY <1>4, <1>12, TextEnded
<1>14. ASSUME NEW i \in 1 .. k PROVE y[i] = w[i]
  <2>1. 0 + i = i /\ i \in 1 .. n
    BY <1>3
  <2> QED BY <1>11, <1>13, <2>1 DEF Laid, ReadsAs
<1>15. ASSUME NEW i \in 1 .. l PROVE y[k + i] = x[i]
  <2>1. k + i \in 1 .. n /\ k + i \in 1 .. Len(d) /\ k + i > 0 + k
    BY <1>3, <1>8
  <2> QED BY <1>9, <1>11, <1>13, <2>1 DEF Laid, ReadsAs
<1>16. Joins(y, w, k, x, l)
  BY <1>1, <1>2, <1>3, <1>13, <1>14, <1>15 DEF Joins, ReadsAs
<1>17. y = w \o x
  BY <1>16, ConcatIs
<1>18. Prepended(g, w) = Ended(g, f, n)
  <2>1. Text(g) = x
    BY <1>1, <1>2, <1>4 DEF Text
  <2> QED BY <1>1, <1>3, <1>4, <1>5, <1>7, <1>10, <2>1 DEF Prepended
<1> QED BY <1>2, <1>13, <1>17, <1>18

\* String_prependStr.
LEMMA PrependText ==
  ASSUME NEW b, Form(b), NEW w \in Seq(TextBytes)
  PROVE  Text(String_prependStr(b, w)) = w \o Text(b)
<1>1. PICK l \in Nat, k \in Nat : l = b.length /\ k = Len(w)
  BY FormFacts, LenProperties
<1>2. PICK n \in Nat : n = l + k
  OBVIOUS
<1>3. CASE w = <<>>
  <2>1. Text(b) \in Seq(TextBytes)
    BY TextIs
  <2> QED BY <1>3, <2>1, ConcatEmptySeq DEF String_prependStr
<1>4. CASE w # <<>>
  <2>1. PICK g : g = check_capacity(b, n) /\ Roomy(b, g, n)
    BY CapacityIs, FormFacts
  <2>2. String_prependStr(b, w) = Prepended(g, w)
    BY <1>1, <1>2, <1>4, <2>1 DEF String_prependStr
  <2> QED BY <2>1, <2>2, PrependedText
<1> QED BY <1>3, <1>4

----------------------------------------------------------------------------
\* What a cut leaves.

\* A cut of places i to j.
LEMMA WithoutIs ==
  ASSUME NEW x \in Seq(TextBytes), NEW l \in Nat, l = Len(x),
         NEW i \in Nat, NEW j \in Nat, i <= j, j < l
  PROVE  /\ SubSeq(x, 1, i) \in Seq(TextBytes) /\ Len(SubSeq(x, 1, i)) = i
         /\ \A k \in 1 .. i : SubSeq(x, 1, i)[k] = x[k]
         /\ SubSeq(x, j + 2, l) \in Seq(TextBytes) /\ Len(SubSeq(x, j + 2, l)) = l - j - 1
         /\ \A k \in 1 .. l - j - 1 : SubSeq(x, j + 2, l)[k] = x[j + 1 + k]
<1>1. 1 \in Nat \ {0} /\ i \in Int /\ i <= Len(x) /\ 1 <= i + 1 /\ i - 1 + 1 = i
  OBVIOUS
<1>2. /\ SubSeq(x, 1, i) \in Seq(TextBytes) /\ Len(SubSeq(x, 1, i)) = i - 1 + 1
      /\ \A k \in 1 .. i - 1 + 1 : SubSeq(x, 1, i)[k] = x[1 + k - 1]
  BY <1>1, PieceIs
<1>3. \A k \in 1 .. i : 1 + k - 1 = k
  OBVIOUS
<1>4. PICK m \in Nat \ {0}, n \in Int : m = j + 2 /\ n = l
  OBVIOUS
<1>5. n <= Len(x) /\ m <= n + 1 /\ n - m + 1 = l - j - 1
  BY <1>4
<1>6. /\ SubSeq(x, m, n) \in Seq(TextBytes) /\ Len(SubSeq(x, m, n)) = n - m + 1
      /\ \A k \in 1 .. n - m + 1 : SubSeq(x, m, n)[k] = x[m + k - 1]
  BY <1>5, PieceIs
<1>7. \A k \in 1 .. l - j - 1 : m + k - 1 = j + 1 + k
  BY <1>4
<1>8. /\ SubSeq(x, 1, i) \in Seq(TextBytes) /\ Len(SubSeq(x, 1, i)) = i
      /\ \A k \in 1 .. i : SubSeq(x, 1, i)[k] = x[k]
  BY <1>1, <1>2, <1>3
<1>9. /\ SubSeq(x, m, n) \in Seq(TextBytes) /\ Len(SubSeq(x, m, n)) = l - j - 1
      /\ \A k \in 1 .. l - j - 1 : SubSeq(x, m, n)[k] = x[j + 1 + k]
  BY <1>5, <1>6, <1>7
<1>10. /\ SubSeq(x, j + 2, l) \in Seq(TextBytes) /\ Len(SubSeq(x, j + 2, l)) = l - j - 1
       /\ \A k \in 1 .. l - j - 1 : SubSeq(x, j + 2, l)[k] = x[j + 1 + k]
  BY <1>4, <1>9
<1> QED BY <1>8, <1>10

\* String_delete of the places limit_range gives.
LEMMA DeleteText ==
  ASSUME NEW b, Whole(b), NEW from \in Int, NEW to \in Int,
         NEW i \in Nat, NEW j \in Nat, i <= j, j < b.length,
         limit_range(b.length, from, to) = <<i, j>>
  PROVE  Text(String_delete(b, from, to)) = Without(Text(b), i, j)
<1>1. PICK l \in Nat : l = b.length /\ l > 0
  BY FormFacts DEF Whole
<1>2. PICK x : x = Text(b) /\ x \in Seq(TextBytes) /\ Len(x) = l /\ \A k \in 1 .. l : x[k] = b.data[k]
  BY <1>1, TextReads DEF ReadsAs, Whole
<1>3. PICK n \in Nat, k \in Nat : n = l - (j - i + 1) /\ k = l - j - 1 /\ n = i + k /\ n <= l
  BY <1>1
<1>4. PICK a : a = b.data /\ a \in Seq(TextBytes) /\ Len(a) = l + 1
  BY <1>1, FormFacts DEF Whole
<1>5. PICK w : w = SubSeq(a, j + 2, l)
  OBVIOUS
<1>6. w \in Seq(TextBytes) /\ Len(w) = k /\ \A c \in 1 .. k : w[c] = a[j + 1 + c]
  <2>1. PICK o \in Nat \ {0} : o = j + 2 /\ o <= l + 1 /\ l - o + 1 = k
    <3>1. j + 2 \in Nat \ {0} /\ j + 2 <= l + 1 /\ l - (j + 2) + 1 = k
      BY <1>1, <1>3
    <3> QED BY <3>1
  <2>2. l \in Int /\ l <= Len(a)
    BY <1>4
  <2>3. /\ SubSeq(a, o, l) \in Seq(TextBytes) /\ Len(SubSeq(a, o, l)) = l - o + 1
        /\ \A c \in 1 .. l - o + 1 : SubSeq(a, o, l)[c] = a[o + c - 1]
    BY <1>4, <2>1, <2>2, PieceIs
  <2>4. \A c \in 1 .. k : o + c - 1 = j + 1 + c
    BY <2>1
  <2> QED BY <1>5, <2>1, <2>3, <2>4
<1>7. Filled(w, k) /\ Filled(a, l) /\ w \in Seq(Memory) /\ a \in Seq(Memory)
  <2>1. k <= Len(w) /\ l <= Len(a)
    BY <1>4, <1>6
  <2>2. Filled(w, k)
    BY <1>6, <2>1, BytesFilled
  <2>3. Filled(a, l)
    BY <1>4, <2>1, BytesFilled
  <2> QED BY <2>2, <2>3 DEF Filled
<1>8. PICK d : d = Move(a, i, w)
  OBVIOUS
<1>9. Filled(d, n)
  <2>1. i <= l
    BY <1>1
  <2>2. Filled(Move(a, i, w), i + k)
    BY <1>6, <1>7, <2>1, MoveFills
  <2> QED BY <1>3, <1>8, <2>2
<1>10. Laid(d, i, a, k, w)
  <2>1. i <= Len(a)
    BY <1>1, <1>4
  <2> QED BY <1>6, <1>7, <1>8, <2>1, MoveReads
<1>11. PICK e : e = Ended(b, d, n)
  OBVIOUS
<1>12. PICK y : y = Text(e) /\ ReadsAs(y, n, d)
  BY <1>9, <1>11, TextEnded, FormFacts DEF Whole
<1>13. PICK u, v, len : u = SubSeq(x, 1, i) /\ v = SubSeq(x, j + 2, l) /\ len = l - j - 1
  OBVIOUS
<1>14. /\ u \in Seq(TextBytes) /\ Len(u) = i /\ \A c \in 1 .. i : u[c] = x[c]
       /\ v \in Seq(TextBytes) /\ Len(v) = k /\ \A c \in 1 .. k : v[c] = x[j + 1 + c]
  <2>1. x \in Seq(TextBytes) /\ l = Len(x) /\ i <= j /\ j < l
    BY <1>1, <1>2
  <2>2. SubSeq(x, 1, i) \in Seq(TextBytes) /\ Len(SubSeq(x, 1, i)) = i
    BY <2>1, WithoutIs
  <2>3. \A c \in 1 .. i : SubSeq(x, 1, i)[c] = x[c]
    BY <2>1, WithoutIs
  <2>4. SubSeq(x, j + 2, l) \in Seq(TextBytes) /\ Len(SubSeq(x, j + 2, l)) = l - j - 1
    BY <2>1, WithoutIs
  <2>5. \A c \in 1 .. l - j - 1 : SubSeq(x, j + 2, l)[c] = x[j + 1 + c]
    BY <2>1, WithoutIs
  <2>6. len = k
    BY <1>3, <1>13
  <2>7. v \in Seq(TextBytes) /\ Len(v) = len /\ \A c \in 1 .. len : v[c] = x[j + 1 + c]
    BY <1>13, <2>4, <2>5
  <2>8. u \in Seq(TextBytes) /\ Len(u) = i /\ \A c \in 1 .. i : u[c] = x[c]
    BY <1>13, <2>2, <2>3
  <2> QED BY <2>6, <2>7, <2>8
<1>15. ASSUME NEW c \in 1 .. i PROVE y[c] = u[c]
  <2>1. c \in 1 .. n /\ c \in 1 .. l
    BY <1>1, <1>3
  <2>2. y[c] = d[c] /\ d[c] = a[c]
    BY <1>10, <1>12, <2>1 DEF Laid, ReadsAs
  <2> QED BY <1>2, <1>4, <1>14, <2>1, <2>2
<1>16. ASSUME NEW c \in 1 .. k PROVE y[i + c] = v[c]
  <2>1. i + c \in 1 .. n /\ j + 1 + c \in 1 .. l
    BY <1>1, <1>3
  <2>2. y[i + c] = w[c] /\ w[c] = a[j + 1 + c] /\ a[j + 1 + c] = x[j + 1 + c]
    BY <1>2, <1>4, <1>6, <1>10, <1>12, <2>1 DEF Laid, ReadsAs
  <2> QED BY <1>14, <2>2
<1>17. Joins(y, u, i, v, k)
  BY <1>3, <1>12, <1>14, <1>15, <1>16 DEF Joins, ReadsAs
<1>18. y = u \o v
  BY <1>17, ConcatIs
<1>19. Text(String_delete(b, from, to)) = Text(e)
  <2>1. PICK r : r = <<i, j>> /\ r[1] = i /\ r[2] = j
    <3>1. <<i, j>>[1] = i /\ <<i, j>>[2] = j
      OBVIOUS
    <3> QED BY <3>1
  <2>2. ~(b.length <= 0) /\ limit_range(b.length, from, to) = r
    <3>1. limit_range(b.length, from, to) = <<i, j>>
      OBVIOUS
    <3>2. ~(b.length <= 0)
      BY <1>1
    <3> QED BY <2>1, <3>1, <3>2
  <2>3. String_delete(b, from, to) =
          check_capacity(Ended(b, Move(b.data, r[1], SubSeq(b.data, r[2] + 2, b.length)),
                                  b.length - (r[2] - r[1] + 1)),
                         b.length - (r[2] - r[1] + 1) + 1)
    BY <2>2 DEF String_delete
  <2>4. PICK o \in Nat : o = n + 1
    OBVIOUS
  <2>5. String_delete(b, from, to) = check_capacity(e, o)
    <3>1. b.length - (r[2] - r[1] + 1) = n /\ SubSeq(b.data, r[2] + 2, b.length) = w
      BY <1>1, <1>3, <1>4, <1>5, <2>1
    <3>2. Move(b.data, r[1], w) = d
      BY <1>4, <1>8, <2>1
    <3>3. String_delete(b, from, to) = check_capacity(Ended(b, Move(b.data, r[1], w), n), n + 1)
      BY <2>3, <3>1
    <3> QED BY <1>11, <2>4, <3>2, <3>3
  <2>6. e \in Buffers
    BY <1>9, <1>11, EndedIs, FormFacts DEF Whole, Closes
  <2>7. PICK g : g = check_capacity(e, o) /\ Roomy(e, g, o)
    BY <2>6, CapacityIs
  <2>8. Text(g) = Text(e)
    BY <2>7 DEF Roomy, Text
  <2> QED BY <2>5, <2>7, <2>8
<1> QED BY <1>1, <1>2, <1>12, <1>13, <1>18, <1>19 DEF Without
\* A place of the text, counted from its start or from its end.
LEMMA LimitedOf ==
  ASSUME NEW n \in Nat, NEW i \in Nat, i < n
  PROVE  Limited(n, i) = i /\ Limited(n, i - n) = i
BY DEF Limited, Larger, Smaller

\* Two places in order, counted from either end.
LEMMA LimitsOf ==
  ASSUME NEW n \in Nat, NEW i \in Nat, NEW j \in Nat, i <= j, j < n,
         NEW from \in {i, i - n}, NEW to \in {j, j - n}
  PROVE  limit_range(n, from, to) = <<i, j>>
<1>1. i < n
  OBVIOUS
<1>2. Limited(n, from) = i
  BY <1>1, LimitedOf
<1>3. Limited(n, to) = j
  BY LimitedOf
<1>4. Smaller(i, j) = i /\ Larger(i, j) = j
  BY DEF Smaller, Larger
<1> QED BY <1>2, <1>3, <1>4 DEF limit_range

\* Cut from the first place to the last, nothing is left.
LEMMA DeleteAll ==
  ASSUME NEW b, Whole(b)
  PROVE  Text(String_delete(b, 0, -1)) = <<>>
<1>1. PICK l \in Nat : l = b.length
  BY FormFacts DEF Whole
<1>2. PICK x : x = Text(b) /\ x \in Seq(TextBytes) /\ Len(x) = l
  BY <1>1, TextIs DEF Whole
<1>3. CASE l = 0
  <2>1. x = <<>>
    BY <1>2, <1>3, EmptySeq
  <2>2. String_delete(b, 0, -1) = b
    BY <1>1, <1>3 DEF String_delete
  <2> QED BY <1>2, <2>1, <2>2
<1>4. CASE l # 0
  <2>1. PICK j \in Nat : j = l - 1 /\ j < l /\ 0 <= j /\ -1 = j - l
    <3>1. l - 1 \in Nat /\ l - 1 < l /\ 0 <= l - 1 /\ -1 = (l - 1) - l
      BY <1>4
    <3> QED BY <3>1
  <2>2. limit_range(l, 0, -1) = <<0, j>>
    <3>1. 0 \in Nat /\ 0 \in {0, 0 - l} /\ -1 \in {j, j - l}
      BY <2>1
    <3> QED BY <2>1, <3>1, LimitsOf
  <2>3. Text(String_delete(b, 0, -1)) = Without(x, 0, j)
    <3>1. 0 \in Nat /\ 0 \in Int /\ -1 \in Int
      OBVIOUS
    <3> QED BY <1>1, <1>2, <2>1, <2>2, <3>1, DeleteText
  <2>4. SubSeq(x, 1, 0) = <<>> /\ SubSeq(x, j + 2, l) = <<>>
    <3>1. 1 \in Int /\ 0 \in Int /\ 0 < 1 /\ j + 2 \in Int /\ l \in Int /\ l < j + 2
      BY <2>1
    <3> QED BY <3>1, SubSeqEmpty
  <2>5. <<>> \o <<>> = <<>>
    <3>1. <<>> \in Seq(TextBytes)
      BY EmptySeq
    <3> QED BY <3>1, ConcatEmptySeq
  <2> QED BY <1>2, <2>3, <2>4, <2>5 DEF Without
<1> QED BY <1>3, <1>4

\* String_setStr.
LEMMA SetText ==
  ASSUME NEW b, Whole(b), NEW w \in Seq(TextBytes)
  PROVE  Text(String_set(b, w)) = w
<1>1. PICK e : e = String_delete(b, 0, -1) /\ Whole(e) /\ Text(e) = <<>>
  BY DeleteWhole, DeleteAll
<1>2. Text(String_appendStr(e, w)) = <<>> \o w
  BY <1>1, AppendText, WholePlain
<1>3. <<>> \o w = w
  BY ConcatEmptySeq
<1> QED BY <1>1, <1>2, <1>3 DEF String_set

----------------------------------------------------------------------------
\* What C sees of a text without a terminator inside.

\* The first terminator of d is at place k.
LEMMA CTextFirst ==
  ASSUME NEW d \in Seq(TextBytes), NEW k \in 1 .. Len(d), d[k] = NUL,
         \A i \in 1 .. k - 1 : d[i] # NUL
  PROVE  CText(d) = SubSeq(d, 1, k - 1)
<1>1. PICK l \in Nat : l = Len(d)
  BY LenProperties
<1> DEFINE S == {i \in DOMAIN d : d[i] = NUL}
<1>2. DOMAIN d = 1 .. l
  BY <1>1, LenProperties
<1>3. S \in SUBSET Nat /\ k \in S /\ \A j \in S : k <= j
  BY <1>1, <1>2
<1>4. PICK m : m = MinOf(S)
  OBVIOUS
<1>5. m = k
  <2> HIDE DEF S
  <2>1. m \in S /\ \A j \in S : m <= j
    BY <1>3, <1>4, MinOfIn
  <2>2. m \in Nat /\ k \in Nat
    BY <1>3, <2>1
  <2> QED BY <1>3, <2>1, <2>2
<1> QED BY <1>4, <1>5 DEF CText

\* Of a text of characters and a terminator, C sees the text.
LEMMA CTextChars ==
  ASSUME NEW t \in Seq(Chars)
  PROVE  CText(Append(t, NUL)) = t /\ t \in Seq(TextBytes)
<1>1. PICK n \in Nat : n = Len(t) /\ (\A i \in 1 .. n : t[i] \in Chars) /\ t = [i \in 1 .. n |-> t[i]]
  BY LenProperties, ElementOfSeq
<1>2. \A i \in 1 .. n : t[i] \in TextBytes /\ t[i] # NUL
  BY <1>1, CharsAssumption DEF TextBytes
<1>3. t \in Seq(TextBytes)
  BY <1>1, <1>2, FunctionIsSeq
<1>4. PICK d : d = Append(t, NUL)
  OBVIOUS
<1>5. d \in Seq(TextBytes) /\ Len(d) = n + 1 /\ d[n + 1] = NUL /\ \A i \in 1 .. n : d[i] = t[i]
  BY <1>1, <1>3, <1>4, AppendProperties DEF TextBytes
<1>6. PICK k : k = n + 1 /\ k - 1 = n /\ k \in 1 .. Len(d) /\ k \in 1 .. Len(d) + 1
  BY <1>5
<1>7. CText(d) = SubSeq(d, 1, k - 1)
  BY <1>2, <1>5, <1>6, CTextFirst
<1>8. PICK s : s = SubSeq(d, 1, k - 1)
  OBVIOUS
<1>9. s \in Seq(TextBytes) /\ Len(s) = n /\ \A i \in 1 .. n : s[i] = d[i]
  <2>1. /\ SubSeq(d, 1, k - 1) \in Seq(TextBytes) /\ Len(SubSeq(d, 1, k - 1)) = k - 1
        /\ \A j \in 1 .. (k - 1) : SubSeq(d, 1, k - 1)[j] = d[j]
    BY <1>5, <1>6, Prefix
  <2> QED BY <1>6, <1>8, <2>1
<1>10. \A i \in 1 .. n : s[i] = t[i]
  BY <1>5, <1>9
<1>11. s = t
  BY <1>1, <1>3, <1>9, <1>10, SeqEqual
<1> QED BY <1>3, <1>4, <1>7, <1>8, <1>11

\* A text of bytes in which no terminator is, is one of characters.
LEMMA NoNul ==
  ASSUME NEW x \in Seq(TextBytes), NUL \notin Range(x)
  PROVE  x \in Seq(Chars)
<1>1. PICK n \in Nat : n = Len(x) /\ (\A i \in 1 .. n : x[i] \in TextBytes) /\ DOMAIN x = 1 .. n
                       /\ x = [i \in 1 .. n |-> x[i]]
  BY LenProperties, ElementOfSeq
<1>2. \A i \in 1 .. n : x[i] # NUL
  BY <1>1 DEF Range
<1>3. \A i \in 1 .. n : x[i] \in Chars
  BY <1>1, <1>2 DEF TextBytes
<1> QED BY <1>1, <1>3, FunctionIsSeq

\* A piece of a text of characters.
LEMMA CharsPiece ==
  ASSUME NEW x \in Seq(Chars), NEW i \in Nat \ {0}, NEW j \in Int, j <= Len(x), i <= j + 1
  PROVE  SubSeq(x, i, j) \in Seq(Chars)
<1>1. PICK l \in Nat : l = Len(x) /\ \A k \in 1 .. l : x[k] \in Chars
  BY LenProperties, ElementOfSeq
<1>2. \A k \in i .. j : x[k] \in Chars
  BY <1>1
<1>3. i \in Int
  OBVIOUS
<1> QED BY <1>2, <1>3, SubSeqProperties

\* What C sees of a buffer.
LEMMA CTextIsText ==
  ASSUME NEW b, Form(b), Text(b) \in Seq(Chars)
  PROVE  CText(b.data) = Text(b)
BY TextReads, CTextChars

\* The empty text of a new buffer.
LEMMA NewText == Text(String_new) = <<>> /\ Form(String_new)
<1>1. Form(String_new)
  BY NewWhole, WholePlain
<1>2. String_new.length = 0
  BY DEF String_new
<1>3. Text(String_new) \in Seq(TextBytes) /\ Len(Text(String_new)) = 0
  BY <1>1, <1>2, TextIs
<1> QED BY <1>1, <1>3, EmptySeq

\* String_clone.
LEMMA CloneText ==
  ASSUME NEW b, Form(b), Text(b) \in Seq(Chars)
  PROVE  Text(String_clone(b)) = Text(b)
<1>1. PICK x : x = Text(b) /\ x \in Seq(TextBytes) /\ CText(b.data) = x
  BY CTextIsText, TextIs
<1>2. Text(String_appendStr(String_new, x)) = <<>> \o x
  BY <1>1, NewText, AppendText
<1>3. <<>> \o x = x
  BY <1>1, ConcatEmptySeq
<1> QED BY <1>1, <1>2, <1>3 DEF String_clone

\* String_subString of the places limit_range gives.
LEMMA SubStringText ==
  ASSUME NEW b, Form(b), Text(b) \in Seq(Chars), NEW from \in Int, NEW to \in Int,
         NEW i \in Nat, NEW j \in Nat, i <= j, j < b.length,
         limit_range(b.length, from, to) = <<i, j>>
  PROVE  Text(String_subString(b, from, to)) = SubSeq(Text(b), i + 1, j + 1)
<1>1. PICK l \in Nat : l = b.length
  BY FormFacts
<1>2. PICK x : x = Text(b) /\ x \in Seq(Chars) /\ x \in Seq(TextBytes) /\ Len(x) = l
               /\ \A k \in 1 .. l : x[k] = b.data[k]
  BY <1>1, TextReads DEF ReadsAs
<1>3. PICK a : a = b.data /\ a \in Seq(TextBytes) /\ Len(a) = l + 1
  BY <1>1, FormFacts
<1>4. PICK m \in Nat \ {0}, n \in Int : m = i + 1 /\ n = j + 1 /\ m <= n + 1 /\ n <= l
  <2>1. i + 1 \in Nat \ {0} /\ j + 1 \in Int /\ i + 1 <= (j + 1) + 1 /\ j + 1 <= l
    BY <1>1
  <2> QED BY <2>1
<1>5. PICK s, t : s = SubSeq(a, m, n) /\ t = SubSeq(x, m, n)
  OBVIOUS
<1>6. s \in Seq(TextBytes) /\ Len(s) = n - m + 1 /\ \A k \in 1 .. n - m + 1 : s[k] = a[m + k - 1]
  <2>1. n <= Len(a)
    BY <1>3, <1>4
  <2> QED BY <1>3, <1>4, <1>5, <2>1, PieceIs
<1>7. t \in Seq(TextBytes) /\ Len(t) = n - m + 1 /\ \A k \in 1 .. n - m + 1 : t[k] = x[m + k - 1]
  <2>1. n <= Len(x)
    BY <1>2, <1>4
  <2> QED BY <1>2, <1>4, <1>5, <2>1, PieceIs
<1>8. t \in Seq(Chars)
  BY <1>2, <1>4, <1>5, CharsPiece
<1>9. s = t
  <2>1. \A k \in 1 .. n - m + 1 : m + k - 1 \in 1 .. l
    BY <1>4
  <2>2. \A k \in 1 .. n - m + 1 : s[k] = t[k]
    BY <1>2, <1>3, <1>6, <1>7, <2>1
  <2> QED BY <1>6, <1>7, <2>2, SeqEqual
<1>10. CText(Append(t, NUL)) = t
  BY <1>8, CTextChars
<1>11. Text(String_appendStr(String_new, t)) = <<>> \o t
  BY <1>7, NewText, AppendText
<1>12. <<>> \o t = t
  BY <1>7, ConcatEmptySeq
<1>13. String_subString(b, from, to) = String_appendStr(String_new, t)
  <2>1. PICK r : r = <<i, j>> /\ r[1] = i /\ r[2] = j
    <3>1. <<i, j>>[1] = i /\ <<i, j>>[2] = j
      OBVIOUS
    <3> QED BY <3>1
  <2>2. limit_range(b.length, from, to) = r
    <3>1. limit_range(b.length, from, to) = <<i, j>>
      OBVIOUS
    <3> QED BY <2>1, <3>1
  <2>3. String_subString(b, from, to) =
          String_appendStr(String_new, CText(Append(SubSeq(b.data, r[1] + 1, r[2] + 1), NUL)))
    BY <2>2 DEF String_subString
  <2>4. SubSeq(b.data, r[1] + 1, r[2] + 1) = t
    BY <1>3, <1>4, <1>5, <1>9, <2>1
  <2> QED BY <1>10, <2>3, <2>4
<1>14. SubSeq(Text(b), i + 1, j + 1) = t
  BY <1>2, <1>4, <1>5
<1> QED BY <1>11, <1>12, <1>13, <1>14
\* The text before a place and the text behind it.
LEMMA SplitIs ==
  ASSUME NEW x \in Seq(TextBytes), NEW l \in Nat, l = Len(x), NEW i \in Nat, i <= l
  PROVE  /\ SubSeq(x, 1, i) \in Seq(TextBytes) /\ Len(SubSeq(x, 1, i)) = i
         /\ \A k \in 1 .. i : SubSeq(x, 1, i)[k] = x[k]
         /\ SubSeq(x, i + 1, l) \in Seq(TextBytes) /\ Len(SubSeq(x, i + 1, l)) = l - i
         /\ \A k \in 1 .. l - i : SubSeq(x, i + 1, l)[k] = x[i + k]
<1>1. 1 \in Nat \ {0} /\ i \in Int /\ i <= Len(x) /\ 1 <= i + 1 /\ i - 1 + 1 = i
  OBVIOUS
<1>2. /\ SubSeq(x, 1, i) \in Seq(TextBytes) /\ Len(SubSeq(x, 1, i)) = i - 1 + 1
      /\ \A k \in 1 .. i - 1 + 1 : SubSeq(x, 1, i)[k] = x[1 + k - 1]
  BY <1>1, PieceIs
<1>3. \A k \in 1 .. i : 1 + k - 1 = k
  OBVIOUS
<1>4. PICK m \in Nat \ {0}, n \in Int : m = i + 1 /\ n = l
  <2>1. i + 1 \in Nat \ {0} /\ l \in Int
    OBVIOUS
  <2> QED BY <2>1
<1>5. n <= Len(x) /\ m <= n + 1 /\ n - m + 1 = l - i
  BY <1>4
<1>6. /\ SubSeq(x, m, n) \in Seq(TextBytes) /\ Len(SubSeq(x, m, n)) = n - m + 1
      /\ \A k \in 1 .. n - m + 1 : SubSeq(x, m, n)[k] = x[m + k - 1]
  BY <1>5, PieceIs
<1>7. \A k \in 1 .. l - i : m + k - 1 = i + k
  BY <1>4
<1> QED BY <1>1, <1>2, <1>3, <1>4, <1>5, <1>6, <1>7

\* String_insert: the text behind the place makes room for the other one.
LEMMA InsertText ==
  ASSUME NEW b, Whole(b), NEW that, Form(that), NEW place \in 0 .. b.length
  PROVE  Text(String_insert(b, place, that)) =
           SubSeq(Text(b), 1, place) \o Text(that) \o SubSeq(Text(b), place + 1, b.length)
<1>1. PICK l \in Nat, m \in Nat, p \in Nat : l = b.length /\ m = that.length /\ p = place /\ p <= l
  BY FormFacts DEF Whole
<1>2. PICK x : x = Text(b) /\ x \in Seq(TextBytes) /\ Len(x) = l /\ \A k \in 1 .. l : x[k] = b.data[k]
  BY <1>1, TextReads DEF ReadsAs, Whole
<1>3. PICK y : y = Text(that) /\ y \in Seq(TextBytes) /\ Len(y) = m /\ Filled(y, m)
  BY <1>1, TextIs
<1>4. PICK k \in Nat : k = l - p /\ p + k = l
  BY <1>1
<1>5. PICK u, v : u = SubSeq(x, 1, p) /\ v = SubSeq(x, p + 1, l)
  OBVIOUS
<1>6. /\ u \in Seq(TextBytes) /\ Len(u) = p /\ \A c \in 1 .. p : u[c] = x[c]
      /\ v \in Seq(TextBytes) /\ Len(v) = k /\ \A c \in 1 .. k : v[c] = x[p + c]
  <2>1. x \in Seq(TextBytes) /\ l = Len(x) /\ p <= l /\ l - p = k
    BY <1>1, <1>2, <1>4
  <2>2. /\ SubSeq(x, 1, p) \in Seq(TextBytes) /\ Len(SubSeq(x, 1, p)) = p
        /\ \A c \in 1 .. p : SubSeq(x, 1, p)[c] = x[c]
        /\ SubSeq(x, p + 1, l) \in Seq(TextBytes) /\ Len(SubSeq(x, p + 1, l)) = l - p
        /\ \A c \in 1 .. l - p : SubSeq(x, p + 1, l)[c] = x[p + c]
    BY <2>1, SplitIs
  <2> QED BY <1>5, <2>1, <2>2
<1>7. CASE m = 0
  <2>1. y = <<>>
    BY <1>3, <1>7, EmptySeq
  <2>2. u \o y = u
    BY <1>6, <2>1, ConcatEmptySeq
  <2>3. Joins(x, u, p, v, k)
    BY <1>2, <1>4, <1>6 DEF Joins
  <2>4. x = u \o v
    BY <2>3, ConcatIs
  <2>5. String_insert(b, place, that) = b
    BY <1>1, <1>7 DEF String_insert
  <2> QED BY <1>1, <1>2, <1>3, <1>5, <2>2, <2>4, <2>5
<1>8. CASE m # 0
  <2>1. PICK n \in Nat : n = l + m
    OBVIOUS
  <2>2. PICK g : g = check_capacity(b, n) /\ Roomy(b, g, n)
    BY CapacityIs, FormFacts DEF Whole
  <2>3. PICK a : /\ g \in Buffers /\ g.length = l /\ g.data = a /\ b.data = a
                 /\ Filled(a, l) /\ a \in Seq(Memory) /\ a \in Seq(TextBytes) /\ Len(a) = l + 1
    BY <1>1, <2>2, RoomyForm, FormFacts DEF Whole, Filled
  <2>4. PICK o \in Nat : o = p + m /\ o + k = n
    BY <1>4, <2>1
  <2>5. PICK temp : temp = SubSeq(a, p + 1, l)
    OBVIOUS
  <2>6. temp = v
    <3>1. PICK i \in Nat \ {0}, j \in Int : i = p + 1 /\ j = l /\ j - i + 1 = k /\ i <= j + 1 /\ j <= l
      <4>1. p + 1 \in Nat \ {0} /\ l \in Int /\ l - (p + 1) + 1 = k /\ p + 1 <= l + 1
        BY <1>1, <1>4
      <4> QED BY <4>1
    <3>2. temp \in Seq(TextBytes) /\ Len(temp) = k /\ \A c \in 1 .. k : temp[c] = a[i + c - 1]
      <4>1. j <= Len(a)
        BY <2>3, <3>1
      <4>2. /\ SubSeq(a, i, j) \in Seq(TextBytes) /\ Len(SubSeq(a, i, j)) = j - i + 1
            /\ \A c \in 1 .. j - i + 1 : SubSeq(a, i, j)[c] = a[i + c - 1]
        BY <2>3, <3>1, <4>1, PieceIs
      <4> QED BY <2>5, <3>1, <4>2
    <3>3. \A c \in 1 .. k : i + c - 1 = p + c /\ p + c \in 1 .. l
      BY <1>1, <1>4, <3>1
    <3>4. ASSUME NEW c \in 1 .. k PROVE temp[c] = v[c]
      <4>1. i + c - 1 = p + c /\ p + c \in 1 .. l
        BY <3>3
      <4>2. temp[c] = a[p + c] /\ v[c] = x[p + c]
        BY <1>6, <3>2, <4>1
      <4>3. x[p + c] = a[p + c]
        BY <1>2, <2>3, <4>1
      <4> QED BY <4>2, <4>3
    <3> QED BY <1>6, <3>2, <3>4, SeqEqual
  <2>7. Filled(v, k) /\ v \in Seq(Memory) /\ y \in Seq(Memory)
    BY <1>3, <1>6, BytesFilled DEF Filled
  <2>8. PICK d : d = Move(a, p, y) /\ Moved(a, p, y, d)
    BY <2>3, <2>7, MoveIs
  <2>9. Laid(d, p, a, m, y)
    <3>1. p <= Len(a)
      BY <1>1, <2>3
    <3> QED BY <1>3, <2>3, <2>7, <2>8, <3>1, MoveReads
  <2>10. Filled(d, o)
    BY <1>1, <1>3, <2>3, <2>4, <2>8, MoveFills
  <2>11. PICK f : f = Move(d, o, v)
    OBVIOUS
  <2>12. Filled(f, n)
    <3>1. Filled(Move(d, o, v), o + k)
      BY <1>6, <2>7, <2>10, MoveFills
    <3> QED BY <2>4, <2>11, <3>1
  <2>13. Laid(f, o, d, k, v)
    <3>1. d \in Seq(Memory) /\ o <= Len(d)
      BY <2>10 DEF Filled
    <3> QED BY <1>6, <2>7, <2>11, <3>1, MoveReads
  <2>14. PICK z : z = Text(Ended(g, f, n)) /\ ReadsAs(z, n, f)
    BY <2>3, <2>12, TextEnded
  <2>15. PICK uy : uy = u \o y
    OBVIOUS
  <2>16. /\ uy \in Seq(TextBytes) /\ Len(uy) = o
         /\ \A c \in 1 .. o : uy[c] = IF c <= p THEN u[c] ELSE y[c - p]
    <3>1. /\ u \o y \in Seq(TextBytes) /\ Len(u \o y) = Len(u) + Len(y)
          /\ \A c \in 1 .. Len(u) + Len(y) : (u \o y)[c] = IF c <= Len(u) THEN u[c] ELSE y[c - Len(u)]
      BY <1>3, <1>6, ConcatProperties
    <3>2. Len(u) = p /\ Len(u) + Len(y) = o
      BY <1>3, <1>6, <2>4
    <3> QED BY <2>15, <3>1, <3>2
  <2>17. ASSUME NEW c \in 1 .. o PROVE z[c] = uy[c]
    <3>1. c \in 1 .. n
      BY <2>4
    <3>2. z[c] = d[c]
      BY <2>13, <2>14, <3>1 DEF Laid, ReadsAs
    <3>3. CASE c <= p
      <4>1. c \in 1 .. p /\ c \in 1 .. l
        BY <1>1, <3>3
      <4>2. d[c] = a[c] /\ a[c] = x[c] /\ x[c] = u[c]
        BY <1>2, <1>6, <2>3, <2>9, <4>1 DEF Laid
      <4> QED BY <2>16, <3>2, <3>3, <4>2
    <3>4. CASE ~(c <= p)
      <4>1. c - p \in 1 .. m /\ p + (c - p) = c
        BY <2>4, <3>4
      <4>2. d[p + (c - p)] = y[c - p]
        BY <2>9, <4>1 DEF Laid
      <4> QED BY <2>16, <3>2, <3>4, <4>1, <4>2
    <3> QED BY <3>3, <3>4
  <2>18. ASSUME NEW c \in 1 .. k PROVE z[o + c] = v[c]
    <3>1. o + c \in 1 .. n
      BY <2>4
    <3> QED BY <2>13, <2>14, <3>1 DEF Laid, ReadsAs
  <2>19. Joins(z, uy, o, v, k)
    BY <1>6, <2>4, <2>14, <2>16, <2>17, <2>18 DEF Joins, ReadsAs
  <2>20. z = uy \o v
    BY <2>19, ConcatIs
  <2>21. String_insert(b, place, that) = Ended(g, f, n)
    <3>1. ~(p < 0 \/ p > b.length \/ that.length <= 0)
      BY <1>1, <1>8
    <3>2. String_insert(b, p, that) =
            Ended(g, Move(Move(g.data, p, Text(that)), p + that.length, SubSeq(g.data, p + 1, g.length)),
                  g.length + that.length)
      BY <1>1, <2>1, <2>2, <3>1 DEF String_insert
    <3>3. Move(g.data, p, Text(that)) = d /\ SubSeq(g.data, p + 1, g.length) = v
      BY <1>3, <2>3, <2>5, <2>6, <2>8
    <3>4. g.length + that.length = n /\ p + that.length = o
      BY <1>1, <2>1, <2>3, <2>4
    <3> QED BY <1>1, <2>11, <3>2, <3>3, <3>4
  <2> QED BY <1>1, <1>2, <1>3, <1>5, <2>14, <2>15, <2>20, <2>21
<1> QED BY <1>7, <1>8

\* String_reverse.
LEMMA ReverseText ==
  ASSUME NEW b, Whole(b)
  PROVE  Text(String_reverse(b)) = Reverse(Text(b))
<1>1. PICK l \in Nat : l = b.length
  BY FormFacts DEF Whole
<1>2. PICK x : x = Text(b) /\ x \in Seq(TextBytes) /\ Len(x) = l
  BY <1>1, TextIs DEF Whole
<1>3. PICK y : y = Reverse(x)
  OBVIOUS
<1>4. y = [i \in 1 .. l |-> x[(l - i) + 1]]
  BY <1>2, <1>3 DEF Reverse
<1>5. \A i \in 1 .. l : y[i] \in TextBytes
  <2>1. \A i \in 1 .. l : (l - i) + 1 \in 1 .. l
    OBVIOUS
  <2>2. \A i \in 1 .. l : x[i] \in TextBytes
    BY <1>2, ElementOfSeq
  <2> QED BY <1>4, <2>1, <2>2
<1>6. y = [i \in 1 .. l |-> y[i]]
  BY <1>4
<1>7. y \in Seq(TextBytes) /\ Len(y) = l
  BY <1>5, <1>6, FunctionIsSeq
<1>8. PICK e : e = String_reverse(b) /\ Whole(e)
  BY ReverseWhole
<1>9. e.data = Append(y, NUL) /\ e.length = l
  BY <1>1, <1>2, <1>3, <1>8, FormFacts DEF String_reverse, Whole, Buffers
<1>10. e.data = Append(Text(e), NUL) /\ Text(e) \in Seq(TextBytes)
  BY <1>8, TextReads, TextIs DEF Whole
<1>11. y = Text(e)
  <2>1. NUL \in TextBytes
    BY DEF TextBytes
  <2>2. PICK z : z = Text(e) /\ z \in Seq(TextBytes)
    BY <1>10
  <2>3. Append(y, NUL) = Append(z, NUL)
    BY <1>9, <1>10, <2>2
  <2>4. y = z
    BY <1>7, <2>1, <2>2, <2>3, AppendInjective
  <2> QED BY <2>2, <2>4
<1> QED BY <1>2, <1>3, <1>8, <1>11

----------------------------------------------------------------------------
\* Every edit gives what its name says.
LEMMA EditsOK ==
  ASSUME StringsInv, NEW s \in Strings, Sound(s), Text(buf[s]) \in Seq(Chars)
  PROVE  EditsAgree(buf[s], Text(buf[s]))
<1>1. PICK b : b = buf[s] /\ Whole(b) /\ Form(b)
  BY SoundWhole, WholePlain
<1>2. PICK l \in Nat : l = b.length
  BY <1>1, FormFacts
<1>3. PICK x : x = Text(b) /\ x \in Seq(Chars) /\ Len(x) = l
  BY <1>1, <1>2, TextIs
<1>4. ASSUME NEW w \in Words
      PROVE  /\ Gives(String_appendStr(b, w), x \o w)
             /\ Gives(String_prependStr(b, w), w \o x)
             /\ Gives(String_set(b, w), w)
  <2>1. w \in Seq(TextBytes)
    BY WordsAre
  <2>2. Text(String_appendStr(b, w)) = x \o w /\ Text(String_prependStr(b, w)) = w \o x
    BY <1>1, <1>3, <2>1, AppendText, PrependText
  <2>3. Text(String_set(b, w)) = w
    BY <1>1, <2>1, SetText
  <2> QED BY <2>2, <2>3 DEF Gives
<1>5. ASSUME NEW i \in 0 .. l - 1, NEW j \in 0 .. l - 1, i <= j
      PROVE  /\ Text(String_delete(b, i, j)) = Without(x, i, j)
             /\ Text(String_delete(b, i - l, j - l)) = Without(x, i, j)
             /\ Text(String_subString(b, i, j)) = SubSeq(x, i + 1, j + 1)
  <2>1. i \in Nat /\ j \in Nat /\ i <= j /\ j < l /\ i \in Int /\ j \in Int /\ i - l \in Int /\ j - l \in Int
    BY <1>2, <1>5
  <2>2. limit_range(l, i, j) = <<i, j>> /\ limit_range(l, i - l, j - l) = <<i, j>>
    BY <2>1, LimitsOf
  <2>3. limit_range(b.length, i, j) = <<i, j>> /\ limit_range(b.length, i - l, j - l) = <<i, j>> /\ j < b.length
    BY <1>2, <2>1, <2>2
  <2>4. Text(String_delete(b, i, j)) = Without(x, i, j)
    BY <1>1, <1>3, <2>1, <2>3, DeleteText
  <2>5. Text(String_delete(b, i - l, j - l)) = Without(x, i, j)
    BY <1>1, <1>3, <2>1, <2>3, DeleteText
  <2>6. Text(String_subString(b, i, j)) = SubSeq(x, i + 1, j + 1)
    <3>1. Form(b) /\ Text(b) \in Seq(Chars)
      BY <1>1, <1>3
    <3>2. Text(String_subString(b, i, j)) = SubSeq(Text(b), i + 1, j + 1)
      BY <2>1, <2>3, <3>1, SubStringText
    <3> QED BY <1>3, <3>2
  <2> QED BY <2>4, <2>5, <2>6
<1>6. ASSUME NEW r \in Alive, NEW place \in 0 .. l
      PROVE  Gives(String_insert(b, place, buf[r]),
                   SubSeq(x, 1, place) \o Text(buf[r]) \o SubSeq(x, place + 1, l))
  <2>1. PICK that : that = buf[r] /\ Form(that)
    BY DEF StringsInv
  <2>2. place \in 0 .. b.length
    BY <1>2
  <2>3. Text(String_insert(b, place, that)) =
          SubSeq(x, 1, place) \o Text(that) \o SubSeq(x, place + 1, l)
    BY <1>1, <1>2, <1>3, <2>1, <2>2, InsertText
  <2> QED BY <2>1, <2>3 DEF Gives
<1>7. Text(String_reverse(b)) = Reverse(x) /\ Text(String_clone(b)) = x
  BY <1>1, <1>3, ReverseText, CloneText
<1>8. EditsAgree(b, x)
  BY <1>3, <1>4, <1>5, <1>6, <1>7 DEF EditsAgree
<1> QED BY <1>1, <1>3, <1>8

\* prependArr, and own data.
LEMMA OwnOK ==
  ASSUME NEW b, Whole(b), Text(b) \in Seq(Chars)
  PROVE  OwnAgrees(b, Text(b))
<1>1. PICK l \in Nat, c \in Nat : l = b.length /\ c = b.capacity /\ c >= 1 /\ Form(b) /\ Plain(b)
  BY WholePlain, FormFacts DEF Whole, Form, Buffers
<1>2. PICK x : x = Text(b) /\ x \in Seq(TextBytes) /\ Len(x) = l
  BY <1>1, TextIs
<1>3. CText(b.data) = x
  BY <1>1, <1>2, CTextIsText
<1>4. ASSUME NEW w \in Words
      PROVE  LET p == String_prependArr(b, w)
             IN Text(p) = w \o x /\ (p.fault = "none" <=> Len(w) + l < c)
  <2>1. w \in Seq(TextBytes)
    BY WordsAre
  <2>2. Roomy(b, b, 0)
    BY <1>1 DEF Roomy, Form
  <2>3. PICK k \in Nat : k = Len(w)
    BY <2>1, LenProperties
  <2>4. PICK n \in Nat : n = l + k /\ n = k + l
    OBVIOUS
  <2>5. PICK e : e = Prepended(b, w)
    OBVIOUS
  <2>6. Closes(e, b, n) /\ Text(e) = w \o x
    <3>1. 0 \in Nat
      OBVIOUS
    <3> QED BY <1>1, <1>2, <2>1, <2>2, <2>3, <2>4, <2>5, <3>1, PrependedIs, PrependedText
  <2>7. e \in Buffers /\ e.fault = IF n + 1 > c THEN "outside" ELSE "none"
    BY <1>1, <2>6 DEF Closes, Whole
  <2>8. PICK p : p = String_prependArr(b, w)
    OBVIOUS
  <2>9. p = IF e.fault = "outside" THEN [e EXCEPT !.fault = "unchecked"] ELSE e
    BY <2>5, <2>8 DEF String_prependArr
  <2>10. p.data = e.data /\ p.length = e.length
    BY <2>7, <2>9 DEF Buffers
  <2>11. p.fault = IF n + 1 > c THEN "unchecked" ELSE "none"
    BY <2>7, <2>9 DEF Buffers
  <2>12. Text(p) = w \o x
    BY <2>6, <2>10 DEF Text
  <2>13. p.fault = "none" <=> k + l < c
    BY <1>1, <2>4, <2>11
  <2> QED BY <2>3, <2>8, <2>12, <2>13
<1>5. ASSUME NEW r \in OwnAppended(b)
      PROVE  Text(r) = x \o x /\ (r.fault = "stale" => 2 * l >= c)
  <2>1. PICK g : g = String_appendStr(b, x)
    OBVIOUS
  <2>2. Text(g) = x \o x /\ Plain(g)
    BY <1>1, <1>2, <2>1, AppendText, AppendStrPlain
  <2>3. CASE r = g
    BY <2>2, <2>3 DEF Plain
  <2>4. CASE r # g
    <3>1. g.capacity # b.capacity /\ r = [g EXCEPT !.fault = "stale"]
      BY <1>3, <2>1, <2>4 DEF OwnAppended
    <3>2. r.data = g.data /\ r.length = g.length
      BY <3>1, <2>2 DEF Plain, Form, Buffers
    <3>3. b.capacity < b.length + Len(x) + 1
      BY <1>1, <1>2, <2>1, <3>1, AppendGrows
    <3>4. c < l + l + 1
      BY <1>1, <1>2, <3>3
    <3>5. 2 * l >= c
      BY <3>4
    <3>6. Text(r) = Text(g)
      BY <3>2 DEF Text
    <3> QED BY <2>2, <3>5, <3>6
  <2> QED BY <2>3, <2>4
<1>6. Text(SetToOwn(b)) = <<>>
  <2>1. PICK e : e = String_delete(b, 0, -1) /\ Whole(e) /\ Text(e) = <<>>
    BY DeleteWhole, DeleteAll
  <2>2. <<>> \in Seq(TextBytes) /\ <<>> \in Seq(Chars)
    BY EmptySeq
  <2>3. Form(e) /\ CText(e.data) = <<>>
    BY <2>1, <2>2, WholePlain, CTextIsText
  <2>4. Text(String_appendStr(e, <<>>)) = <<>> \o <<>>
    BY <2>1, <2>2, <2>3, AppendText
  <2>5. <<>> \o <<>> = <<>>
    BY <2>2, ConcatEmptySeq
  <2> QED BY <2>1, <2>3, <2>4, <2>5 DEF SetToOwn
<1>7. OwnAgrees(b, x)
  BY <1>1, <1>2, <1>4, <1>5, <1>6 DEF OwnAgrees
<1> QED BY <1>2, <1>7

----------------------------------------------------------------------------
\* The trims.

\* A cut from the start.
LEMMA DeleteFront ==
  ASSUME NEW b, Whole(b), NEW k \in Nat, b.length > 0
  PROVE  Text(String_delete(b, 0, k)) = SubSeq(Text(b), k + 2, b.length) \/ k > b.length
<1>1. PICK l \in Nat : l = b.length /\ l > 0
  BY FormFacts DEF Whole
<1>2. PICK x : x = Text(b) /\ x \in Seq(TextBytes) /\ Len(x) = l
  BY <1>1, TextIs DEF Whole
<1>3. SUFFICES ASSUME k <= l PROVE Text(String_delete(b, 0, k)) = SubSeq(x, k + 2, l)
  BY <1>1, <1>2
<1>4. PICK j \in Nat : j < l /\ 0 <= j /\ limit_range(l, 0, k) = <<0, j>> /\ (j = k \/ (k = l /\ j = l - 1))
  <2>1. CASE k < l
    <3>1. 0 \in Nat /\ 0 <= k /\ 0 \in {0, 0 - l} /\ k \in {k, k - l}
      OBVIOUS
    <3>2. limit_range(l, 0, k) = <<0, k>>
      BY <2>1, <3>1, LimitsOf
    <3> QED BY <2>1, <3>1, <3>2
  <2>2. CASE k = l
    <3>1. Limited(l, 0) = 0 /\ Limited(l, k) = l - 1 /\ l - 1 \in Nat /\ l - 1 < l
      BY <1>1, <2>2 DEF Limited, Larger, Smaller
    <3>2. Smaller(0, l - 1) = 0 /\ Larger(0, l - 1) = l - 1
      BY <1>1 DEF Smaller, Larger
    <3>3. limit_range(l, 0, k) = <<0, l - 1>>
      BY <3>1, <3>2 DEF limit_range
    <3> QED BY <2>2, <3>1, <3>3
  <2> QED BY <1>3, <2>1, <2>2
<1>5. Text(String_delete(b, 0, k)) = Without(x, 0, j)
  <2>1. 0 \in Nat /\ 0 \in Int /\ k \in Int
    OBVIOUS
  <2>2. limit_range(b.length, 0, k) = <<0, j>> /\ j < b.length
    BY <1>1, <1>4
  <2> QED BY <1>2, <1>4, <2>1, <2>2, DeleteText
<1>6. SubSeq(x, 1, 0) = <<>>
  <2>1. 1 \in Int /\ 0 \in Int /\ 0 < 1
    OBVIOUS
  <2> QED BY <2>1, SubSeqEmpty
<1>7. PICK v : v = SubSeq(x, j + 2, l) /\ v \in Seq(TextBytes)
  <2>1. 0 <= j /\ 0 \in Nat
    BY <1>4
  <2> QED BY <1>2, <1>4, <2>1, WithoutIs
<1>8. <<>> \o v = v
  BY <1>7, ConcatEmptySeq
<1>9. v = SubSeq(x, k + 2, l)
  <2>1. CASE j = k
    BY <1>7, <2>1
  <2>2. CASE k = l /\ j = l - 1
    <3>1. j + 2 \in Int /\ k + 2 \in Int /\ l \in Int /\ l < j + 2 /\ l < k + 2
      BY <2>2
    <3>2. SubSeq(x, j + 2, l) = <<>> /\ SubSeq(x, k + 2, l) = <<>>
      BY <3>1, SubSeqEmpty
    <3> QED BY <1>7, <3>2
  <2> QED BY <1>4, <2>1, <2>2
<1> QED BY <1>2, <1>5, <1>6, <1>7, <1>8, <1>9 DEF Without

\* A cut to the end.
LEMMA DeleteBack ==
  ASSUME NEW b, Whole(b), NEW k \in Nat, k < b.length
  PROVE  Text(String_delete(b, k, b.length)) = SubSeq(Text(b), 1, k)
<1>1. PICK l \in Nat : l = b.length /\ k < l
  BY FormFacts DEF Whole
<1>2. PICK x : x = Text(b) /\ x \in Seq(TextBytes) /\ Len(x) = l
  BY <1>1, TextIs DEF Whole
<1>3. PICK j \in Nat : j = l - 1 /\ j < l /\ k <= j
  <2>1. l - 1 \in Nat /\ l - 1 < l /\ k <= l - 1
    BY <1>1
  <2> QED BY <2>1
<1>4. limit_range(l, k, l) = <<k, j>>
  <2>1. Limited(l, k) = k /\ Limited(l, l) = j
    BY <1>1, <1>3 DEF Limited, Larger, Smaller
  <2>2. Smaller(k, j) = k /\ Larger(k, j) = j
    BY <1>3 DEF Smaller, Larger
  <2> QED BY <2>1, <2>2 DEF limit_range
<1>5. Text(String_delete(b, k, l)) = Without(x, k, j)
  <2>1. k \in Int /\ l \in Int
    OBVIOUS
  <2>2. limit_range(b.length, k, l) = <<k, j>> /\ j < b.length
    BY <1>1, <1>3, <1>4
  <2> QED BY <1>2, <1>3, <2>1, <2>2, DeleteText
<1>6. SubSeq(x, j + 2, l) = <<>>
  <2>1. j + 2 \in Int /\ l \in Int /\ l < j + 2
    BY <1>3
  <2> QED BY <2>1, SubSeqEmpty
<1>7. PICK u : u = SubSeq(x, 1, k) /\ u \in Seq(TextBytes)
  BY <1>2, <1>3, WithoutIs
<1>8. u \o <<>> = u
  BY <1>7, ConcatEmptySeq
<1> QED BY <1>1, <1>2, <1>5, <1>6, <1>7, <1>8 DEF Without

\* The greatest of a set of places is one of them.
LEMMA MaxOfIn ==
  ASSUME NEW n \in Nat, NEW S \in SUBSET (0 .. n), S # {}
  PROVE  MaxOf(S) \in S /\ \A j \in S : j <= MaxOf(S)
<1>1. PICK m \in S : \A j \in S : j <= m
  BY Greatest
<1>2. \A j \in S : m >= j
  BY <1>1
<1>3. PICK k : k = MaxOf(S)
  OBVIOUS
<1>4. k \in S /\ \A j \in S : k >= j
  BY <1>2, <1>3 DEF MaxOf
<1>5. \A j \in S : j <= k
  BY <1>4
<1> QED BY <1>3, <1>4, <1>5

\* trim_left takes the blanks and one character more.
LEMMA TrimLeftText ==
  ASSUME NEW b, Whole(b)
  PROVE  Text(trim_left(b)) = LeftOf(Text(b))
<1>1. PICK l \in Nat : l = b.length
  BY FormFacts DEF Whole
<1>2. PICK x : x = Text(b) /\ x \in Seq(TextBytes) /\ Len(x) = l /\ \A k \in 1 .. l : x[k] = b.data[k]
  BY <1>1, TextReads DEF ReadsAs, Whole
<1> DEFINE A == {i \in 0 .. b.length : i = b.length \/ b.data[i + 1] \notin Blanks}
<1> DEFINE C == {i \in 0 .. Len(x) : i = Len(x) \/ x[i + 1] \notin Blanks}
<1>3. A = C
  <2>1. \A i \in 0 .. l : i # l => x[i + 1] = b.data[i + 1]
    <3>1. \A i \in 0 .. l : i # l => i + 1 \in 1 .. l
      OBVIOUS
    <3> QED BY <1>2, <3>1
  <2> QED BY <1>1, <1>2, <2>1
<1>4. PICK n : n = MinOf(C) /\ n \in 0 .. l
  <2>1. C \in SUBSET Nat /\ C \in SUBSET (0 .. l) /\ l \in C
    BY <1>2
  <2> HIDE DEF A, C
  <2>2. MinOf(C) \in C
    BY <2>1, MinOfIn
  <2> QED BY <2>1, <2>2
<1>5. trim_left(b) = IF n > 0 THEN String_deleteStarting(b, n) ELSE b
  BY <1>3, <1>4 DEF trim_left
<1>6. LeftOf(x) = SubSeq(x, IF n = 0 THEN 1 ELSE n + 2, Len(x))
  BY <1>4 DEF LeftOf
<1> HIDE DEF A, C
<1>7. CASE n = 0
  <2>1. SubSeq(x, 1, l) = x
    BY <1>2, SubSeqFull
  <2> QED BY <1>2, <1>5, <1>6, <1>7, <2>1
<1>8. CASE n # 0
  <2>1. n > 0 /\ n \in Nat /\ l > 0 /\ ~(n > l)
    BY <1>4, <1>8
  <2>2. Text(String_delete(b, 0, n)) = SubSeq(x, n + 2, l)
    BY <1>1, <1>2, <2>1, DeleteFront
  <2> QED BY <1>2, <1>5, <1>6, <1>8, <2>1, <2>2 DEF String_deleteStarting
<1> QED BY <1>7, <1>8

\* trim_right takes the blanks.
LEMMA TrimRightText ==
  ASSUME NEW b, Whole(b)
  PROVE  Text(trim_right(b)) = RightOf(Text(b))
<1>1. PICK l \in Nat : l = b.length
  BY FormFacts DEF Whole
<1>2. PICK x : x = Text(b) /\ x \in Seq(TextBytes) /\ Len(x) = l /\ \A k \in 1 .. l : x[k] = b.data[k]
  BY <1>1, TextReads DEF ReadsAs, Whole
<1> DEFINE B == {i \in -1 .. b.length - 1 : i = -1 \/ b.data[i + 1] \notin Blanks}
<1> DEFINE C == {i \in 0 .. Len(x) : i = 0 \/ x[i] \notin Blanks}
<1>3. (\A i \in B : i + 1 \in C) /\ (\A i \in C : i - 1 \in B) /\ B \in SUBSET Int /\ C \in SUBSET Int
  <2>1. ASSUME NEW i \in B PROVE i + 1 \in C
    <3>1. i + 1 \in 0 .. l /\ (i + 1 = 0 \/ i + 1 \in 1 .. l)
      BY <1>1
    <3>2. i + 1 # 0 => x[i + 1] = b.data[i + 1]
      BY <1>2, <3>1
    <3> QED BY <1>2, <3>1, <3>2
  <2>2. ASSUME NEW i \in C PROVE i - 1 \in B
    <3>1. i - 1 \in -1 .. l - 1 /\ (i = 0 \/ i \in 1 .. l) /\ (i - 1) + 1 = i
      BY <1>2
    <3>2. i # 0 => x[i] = b.data[i]
      BY <1>2, <3>1
    <3> QED BY <1>1, <3>1, <3>2
  <2>3. B \in SUBSET Int /\ C \in SUBSET Int
    BY <1>1, <1>2
  <2> QED BY <2>1, <2>2, <2>3
<1>4. PICK n : n = MaxOf(C) /\ n \in C /\ n \in 0 .. l /\ \A j \in C : j <= n
  <2>1. C \in SUBSET (0 .. l) /\ 0 \in C
    BY <1>2
  <2> HIDE DEF B, C
  <2>2. MaxOf(C) \in C /\ \A j \in C : j <= MaxOf(C)
    BY <2>1, MaxOfIn
  <2> QED BY <2>1, <2>2
<1>5. PICK e : e = MaxOf(B)
  OBVIOUS
<1>6. e = n - 1
  <2> HIDE DEF B, C
  <2>1. n - 1 \in B /\ \A j \in B : n - 1 >= j
    BY <1>3, <1>4
  <2>2. e \in B /\ \A j \in B : e >= j
    BY <1>5, <2>1 DEF MaxOf
  <2>3. e \in Int /\ n - 1 \in Int /\ e >= n - 1 /\ n - 1 >= e
    BY <1>3, <2>1, <2>2
  <2> QED BY <2>3
<1>7. trim_right(b) = IF e < b.length - 1 THEN String_deleteEnding(b, e + 1) ELSE b
  BY <1>5 DEF trim_right
<1>8. RightOf(x) = SubSeq(x, 1, n)
  BY <1>4 DEF RightOf
<1> HIDE DEF B, C
<1>9. CASE n = l
  <2>1. SubSeq(x, 1, l) = x
    BY <1>2, SubSeqFull
  <2>2. ~(e < b.length - 1)
    BY <1>1, <1>6, <1>9
  <2> QED BY <1>2, <1>7, <1>8, <1>9, <2>1, <2>2
<1>10. CASE n # l
  <2>1. n \in Nat /\ n < b.length /\ e + 1 = n /\ e < b.length - 1
    BY <1>1, <1>4, <1>6, <1>10
  <2>2. Text(String_delete(b, n, b.length)) = SubSeq(x, 1, n)
    BY <1>2, <2>1, DeleteBack
  <2> QED BY <1>2, <1>7, <1>8, <2>1, <2>2 DEF String_deleteEnding
<1> QED BY <1>9, <1>10

\* String_trim.
LEMMA TrimText ==
  ASSUME NEW b, Whole(b)
  PROVE  Text(String_trim(b)) = RightOf(LeftOf(Text(b)))
<1>1. PICK c : c = trim_left(b) /\ Whole(c) /\ Text(c) = LeftOf(Text(b))
  BY TrimsWhole, TrimLeftText
<1>2. Text(trim_right(c)) = RightOf(Text(c))
  BY <1>1, TrimRightText
<1> QED BY <1>1, <1>2 DEF String_trim
----------------------------------------------------------------------------
\* The searches.

\* The matches from place k on.
From(x, t, k) == {j \in Starts(x, t) : j >= k}

\* The first of a set of places, or -1.
FirstPlace(S) == IF S = {} THEN -1 ELSE MinOf(S)

\* The first of a set, counted from k on.
LEMMA ShiftFirst ==
  ASSUME NEW S \in SUBSET Nat, NEW T \in SUBSET Nat, NEW k \in Nat,
         \A j \in S : k + j \in T, \A j \in T : j - k \in S
  PROVE  FirstPlace(T) = IF FirstPlace(S) = -1 THEN -1 ELSE k + FirstPlace(S)
<1>1. CASE S = {}
  <2>1. T = {}
    BY <1>1
  <2> QED BY <1>1, <2>1 DEF FirstPlace
<1>2. CASE S # {}
  <2>1. PICK m : m = MinOf(S) /\ m \in S /\ \A j \in S : m <= j
    BY <1>2, MinOfIn
  <2>2. T # {}
    BY <1>2
  <2>3. PICK n : n = MinOf(T) /\ n \in T /\ \A j \in T : n <= j
    BY <2>2, MinOfIn
  <2>4. m \in Nat /\ n \in Nat /\ n <= k + m /\ m <= n - k
    BY <2>1, <2>3
  <2>5. n = k + m /\ m # -1
    BY <2>4
  <2> QED BY <1>2, <2>1, <2>2, <2>3, <2>5 DEF FirstPlace
<1> QED BY <1>1, <1>2

\* A match in what is behind the first k characters is a match in the text.
LEMMA OccursBehind ==
  ASSUME NEW x \in Seq(TextBytes), NEW l \in Nat, l = Len(x), NEW t \in Seq(TextBytes),
         NEW m \in Nat \ {0}, m = Len(t), NEW k \in Nat, k <= l, NEW j \in Nat
  PROVE  Occurs(SubSeq(x, k + 1, l), t, j) <=> Occurs(x, t, k + j)
<1>1. PICK w : w = SubSeq(x, k + 1, l)
  OBVIOUS
<1>2. Len(w) = l - k
  BY <1>1, SplitIs
<1>3. j + m <= l - k <=> (k + j) + m <= l
  OBVIOUS
<1>4. CASE ~(j + m <= l - k)
  BY <1>1, <1>2, <1>3, <1>4 DEF Occurs
<1>5. CASE j + m <= l - k
  <2>1. SubSeq(w, j + 1, j + m) = SubSeq(x, (k + j) + 1, (k + j) + m)
    <3>1. PICK a, z, c, e : a = k + 1 /\ z = l /\ c = j + 1 /\ e = j + m
      OBVIOUS
    <3>2. /\ a \in 1 .. Len(x) /\ z \in 1 .. Len(x) /\ c \in 1 .. z - a + 1 /\ e \in 1 .. z - a + 1
          /\ a + c - 1 = (k + j) + 1 /\ a + e - 1 = (k + j) + m
      BY <1>5, <3>1
    <3>3. SubSeq(SubSeq(x, a, z), c, e) = SubSeq(x, a + c - 1, a + e - 1)
      BY <3>2, SubSeqOfSubSeq
    <3> QED BY <1>1, <3>1, <3>2, <3>3
  <2> QED BY <1>1, <1>2, <1>3, <2>1 DEF Occurs
<1> QED BY <1>4, <1>5

\* What C sees from place k on.
LEMMA CTextBehind ==
  ASSUME NEW b, Form(b), Text(b) \in Seq(Chars), NEW k \in 0 .. b.length
  PROVE  CText(SubSeq(b.data, k + 1, b.length + 1)) = SubSeq(Text(b), k + 1, b.length)
<1>1. PICK l \in Nat : l = b.length /\ k \in Nat /\ k <= l
  BY FormFacts
<1>2. PICK x : x = Text(b) /\ x \in Seq(Chars) /\ x \in Seq(TextBytes) /\ Len(x) = l
               /\ \A i \in 1 .. l : x[i] = b.data[i]
  BY <1>1, TextReads DEF ReadsAs
<1>3. PICK a : a = b.data /\ a \in Seq(TextBytes) /\ Len(a) = l + 1 /\ a[l + 1] = NUL
  BY <1>1, FormFacts
<1>4. PICK i \in Nat \ {0}, n \in Nat : i = k + 1 /\ n = l - k /\ i <= l + 1 /\ l - i + 1 = n /\ (l + 1) - i + 1 = n + 1
  <2>1. k + 1 \in Nat \ {0} /\ l - k \in Nat /\ k + 1 <= l + 1 /\ l - (k + 1) + 1 = l - k
        /\ (l + 1) - (k + 1) + 1 = (l - k) + 1
    BY <1>1
  <2> QED BY <2>1
<1>5. PICK d, w : d = SubSeq(a, i, l + 1) /\ w = SubSeq(x, i, l)
  OBVIOUS
<1>6. d \in Seq(TextBytes) /\ Len(d) = n + 1 /\ \A c \in 1 .. n + 1 : d[c] = a[i + c - 1]
  <2>1. PICK o \in Int : o = l + 1 /\ o <= Len(a) /\ i <= o + 1 /\ o - i + 1 = n + 1
    <3>1. l + 1 \in Int /\ l + 1 <= Len(a) /\ i <= (l + 1) + 1 /\ (l + 1) - i + 1 = n + 1
      BY <1>3, <1>4
    <3> QED BY <3>1
  <2>2. /\ SubSeq(a, i, o) \in Seq(TextBytes) /\ Len(SubSeq(a, i, o)) = o - i + 1
        /\ \A c \in 1 .. o - i + 1 : SubSeq(a, i, o)[c] = a[i + c - 1]
    BY <1>3, <2>1, PieceIs
  <2> QED BY <1>5, <2>1, <2>2
<1>7. w \in Seq(TextBytes) /\ Len(w) = n /\ \A c \in 1 .. n : w[c] = x[i + c - 1]
  <2>1. PICK o \in Int : o = l /\ o <= Len(x) /\ i <= o + 1 /\ o - i + 1 = n
    BY <1>2, <1>4
  <2>2. /\ SubSeq(x, i, o) \in Seq(TextBytes) /\ Len(SubSeq(x, i, o)) = o - i + 1
        /\ \A c \in 1 .. o - i + 1 : SubSeq(x, i, o)[c] = x[i + c - 1]
    BY <1>2, <2>1, PieceIs
  <2> QED BY <1>5, <2>1, <2>2
<1>8. w \in Seq(Chars)
  <2>1. l \in Int /\ l <= Len(x) /\ i <= l + 1
    BY <1>2, <1>4
  <2> QED BY <1>2, <1>5, <2>1, CharsPiece
<1>9. PICK e : e = Append(w, NUL)
  OBVIOUS
<1>10. e \in Seq(TextBytes) /\ Len(e) = n + 1 /\ e[n + 1] = NUL /\ \A c \in 1 .. n : e[c] = w[c]
  BY <1>7, <1>9, AppendProperties DEF TextBytes
<1>11. d = e
  <2>1. ASSUME NEW c \in 1 .. n + 1 PROVE d[c] = e[c]
    <3>1. CASE c = n + 1
      <4>1. i + c - 1 = l + 1
        BY <1>4, <3>1
      <4> QED BY <1>3, <1>6, <1>10, <3>1, <4>1
    <3>2. CASE c # n + 1
      <4>1. c \in 1 .. n /\ i + c - 1 \in 1 .. l
        BY <1>4, <3>2
      <4>2. d[c] = a[i + c - 1] /\ w[c] = x[i + c - 1] /\ x[i + c - 1] = a[i + c - 1]
        BY <1>2, <1>3, <1>6, <1>7, <4>1
      <4> QED BY <1>10, <4>1, <4>2
    <3> QED BY <3>1, <3>2
  <2> QED BY <1>6, <1>10, <2>1, SeqEqual
<1>12. CText(e) = w
  BY <1>8, <1>9, CTextChars
<1> QED BY <1>1, <1>2, <1>3, <1>4, <1>5, <1>11, <1>12

\* strstr from place k on gives the first match there.
LEMMA FoundFromIs ==
  ASSUME NEW b, Form(b), Text(b) \in Seq(Chars), NEW k \in 0 .. b.length,
         NEW t \in Seq(TextBytes), t # <<>>
  PROVE  FoundFrom(b, k, t) = FirstPlace(From(Text(b), t, k))
<1>1. PICK l \in Nat : l = b.length /\ k \in Nat /\ k <= l
  BY FormFacts
<1>2. PICK x : x = Text(b) /\ x \in Seq(TextBytes) /\ Len(x) = l
  BY <1>1, TextIs
<1>3. PICK m \in Nat \ {0} : m = Len(t)
  BY EmptySeq
<1>4. PICK w : w = SubSeq(x, k + 1, l) /\ Len(w) = l - k
  <2>1. l = Len(x) /\ k <= l /\ k \in Nat /\ x \in Seq(TextBytes)
    BY <1>1, <1>2
  <2>2. Len(SubSeq(x, k + 1, l)) = l - k
    BY <2>1, SplitIs
  <2> QED BY <2>2
<1>5. CText(SubSeq(b.data, k + 1, b.length + 1)) = w
  BY <1>1, <1>2, <1>4, CTextBehind
<1>6. PICK S, T : S = Starts(w, t) /\ T = From(x, t, k)
  OBVIOUS
<1>7. S \in SUBSET Nat /\ T \in SUBSET Nat
  BY <1>1, <1>2, <1>4, <1>6 DEF Starts, From
<1>8. ASSUME NEW j \in S PROVE k + j \in T
  <2>1. j \in Nat /\ j <= l - k /\ Occurs(w, t, j)
    BY <1>1, <1>4, <1>6 DEF Starts
  <2>2. Occurs(x, t, k + j)
    BY <1>1, <1>2, <1>3, <1>4, <2>1, OccursBehind
  <2>3. k + j \in 0 .. l /\ k + j >= k
    BY <1>1, <2>1
  <2> QED BY <1>2, <1>6, <2>2, <2>3 DEF From, Starts
<1>9. ASSUME NEW j \in T PROVE j - k \in S
  <2>1. j \in 0 .. l /\ j >= k /\ Occurs(x, t, j)
    BY <1>2, <1>6 DEF From, Starts
  <2>2. PICK i \in Nat : i = j - k /\ k + i = j /\ i <= l - k
    <3>1. j - k \in Nat /\ k + (j - k) = j /\ j - k <= l - k
      BY <1>1, <2>1
    <3> QED BY <3>1
  <2>3. Occurs(w, t, i)
    BY <1>1, <1>2, <1>3, <1>4, <2>1, <2>2, OccursBehind
  <2> QED BY <1>1, <1>4, <1>6, <2>2, <2>3 DEF Starts
<1>10. FirstPlace(T) = IF FirstPlace(S) = -1 THEN -1 ELSE k + FirstPlace(S)
  BY <1>1, <1>7, <1>8, <1>9, ShiftFirst
<1>11. strstr(w, t) = FirstPlace(S)
  BY <1>6 DEF strstr, FirstPlace
<1>12. FoundFrom(b, k, t) = IF strstr(w, t) = -1 THEN -1 ELSE k + strstr(w, t)
  BY <1>5 DEF FoundFrom
<1> QED BY <1>2, <1>6, <1>10, <1>11, <1>12

\* A match ends in the text.
LEMMA MatchFits ==
  ASSUME NEW x \in Seq(TextBytes), NEW t \in Seq(TextBytes), t # <<>>, NEW k \in Starts(x, t)
  PROVE  k \in Nat /\ Len(t) \in Nat \ {0} /\ Len(x) \in Nat /\ k + Len(t) <= Len(x) /\ k < Len(x)
<1>1. Len(t) \in Nat \ {0} /\ Len(x) \in Nat
  BY EmptySeq, LenProperties
<1>2. k \in 0 .. Len(x) /\ k + Len(t) <= Len(x)
  BY DEF Starts, Occurs
<1> QED BY <1>1, <1>2

\* String_findNext from a place of the text.
LEMMA FindNextIs ==
  ASSUME NEW b, Form(b), Text(b) \in Seq(Chars), NEW k \in 0 .. b.length,
         NEW t \in Seq(TextBytes), t # <<>>
  PROVE  String_findNext(b, k, t) = FirstPlace(From(Text(b), t, k))
<1>1. PICK l \in Nat : l = b.length /\ k \in Nat /\ k <= l
  BY FormFacts
<1>2. PICK x : x = Text(b) /\ x \in Seq(TextBytes) /\ Len(x) = l
  BY <1>1, TextIs
<1>3. CASE l = 0
  <2>1. From(x, t, k) = {}
    <3>1. ASSUME NEW j \in Starts(x, t) PROVE FALSE
      <4>1. j \in Nat /\ j < Len(x)
        BY <1>2, MatchFits
      <4> QED BY <1>2, <1>3, <4>1
    <3> QED BY <3>1 DEF From
  <2>2. String_findNext(b, k, t) = -1
    BY <1>1, <1>3 DEF String_findNext
  <2> QED BY <1>2, <2>1, <2>2 DEF FirstPlace
<1>4. CASE l # 0
  <2>1. ~(k < 0) /\ ~(b.length <= 0 \/ k < 0 \/ k > b.length \/ t = <<>>)
    BY <1>1, <1>4
  <2>2. String_findNext(b, k, t) = FoundFrom(b, k, t)
    BY <2>1 DEF String_findNext
  <2> QED BY <2>2, FoundFromIs
<1> QED BY <1>3, <1>4

\* The matches from a match on.
LEMMA FirstMatchIs ==
  ASSUME NEW x \in Seq(TextBytes), NEW t, NEW k \in Nat, NEW f, f = FirstPlace(From(x, t, k))
  PROVE  \/ f = -1 /\ \A j \in Starts(x, t) : j < k
         \/ f \in Starts(x, t) /\ f \in Nat /\ f >= k /\ \A j \in Starts(x, t) : j < k \/ f <= j
<1>1. PICK T : T = From(x, t, k)
  OBVIOUS
<1>2. Starts(x, t) \in SUBSET Nat /\ T \in SUBSET Nat
  <2>1. PICK l \in Nat : l = Len(x)
    BY LenProperties
  <2>2. Starts(x, t) \in SUBSET (0 .. l)
    BY <2>1 DEF Starts
  <2>3. T \in SUBSET Starts(x, t)
    BY <1>1 DEF From
  <2> QED BY <2>2, <2>3
<1>3. CASE T = {}
  BY <1>1, <1>2, <1>3 DEF FirstPlace, From
<1>4. CASE T # {}
  <2>1. f = MinOf(T) /\ f \in T /\ \A j \in T : f <= j
    BY <1>1, <1>2, <1>4, MinOfIn DEF FirstPlace
  <2> QED BY <1>1, <1>2, <2>1 DEF From
<1> QED BY <1>3, <1>4
\* The last of a set of places, or -1.
LastPlace(S) == IF S = {} THEN -1 ELSE MaxOf(S)

\* The matches that end at place e or before.
Until(x, t, e) == {k \in Starts(x, t) : k + Len(t) - 1 <= e}

\* String_findLast goes back from the end until the first match from there is early enough.
LEMMA FindLastIs ==
  ASSUME NEW b, Form(b), Text(b) \in Seq(Chars), NEW e \in 0 .. b.length - 1, NEW to \in Int,
         e = (IF to < 0 THEN to + b.length ELSE to), NEW t \in Seq(TextBytes), t # <<>>
  PROVE  String_findLast(b, to, t) = LastPlace(Until(Text(b), t, e))
<1>1. PICK l \in Nat : l = b.length
  BY FormFacts
<1>2. PICK x : x = Text(b) /\ x \in Seq(TextBytes) /\ Len(x) = l
  BY <1>1, TextIs
<1>3. PICK m \in Nat \ {0} : m = Len(t)
  BY EmptySeq
<1>4. PICK S : S = Until(x, t, e)
  OBVIOUS
<1> DEFINE F(k) == FirstPlace(From(x, t, k))
<1>5. \A k \in 0 .. l - 1 : FoundFrom(b, k, t) = F(k)
  <2> SUFFICES ASSUME NEW k \in 0 .. l - 1 PROVE FoundFrom(b, k, t) = F(k)
    OBVIOUS
  <2>1. k \in 0 .. b.length
    BY <1>1
  <2> QED BY <1>2, <2>1, FoundFromIs
<1>6. PICK G : G = {k \in 0 .. l - 1 : FoundFrom(b, k, t) \in 0 .. e - m + 1}
  OBVIOUS
<1>7. \A k \in S : k \in Starts(x, t) /\ k \in Nat /\ k < l /\ k <= e - m + 1
  <2> SUFFICES ASSUME NEW k \in S PROVE k \in Starts(x, t) /\ k \in Nat /\ k < l /\ k <= e - m + 1
    OBVIOUS
  <2>1. k \in Starts(x, t) /\ k + m - 1 <= e
    BY <1>3, <1>4 DEF Until
  <2>2. k \in Nat /\ k < l
    BY <1>2, <2>1, MatchFits
  <2> QED BY <1>1, <2>1, <2>2
<1>8. ASSUME NEW k \in S PROVE k \in G /\ F(k) = k
  <2>1. k \in Starts(x, t) /\ k \in Nat /\ k < l /\ k <= e - m + 1
    BY <1>7
  <2>2. PICK f : f = F(k)
    OBVIOUS
  <2>3. \/ f = -1 /\ \A j \in Starts(x, t) : j < k
        \/ f \in Starts(x, t) /\ f \in Nat /\ f >= k /\ \A j \in Starts(x, t) : j < k \/ f <= j
    BY <1>2, <2>1, <2>2, FirstMatchIs
  <2>4. f = k
    BY <2>1, <2>3
  <2>5. k \in 0 .. l - 1 /\ k \in 0 .. e - m + 1
    BY <1>1, <2>1
  <2>6. FoundFrom(b, k, t) = k
    BY <1>5, <2>2, <2>4, <2>5
  <2> QED BY <1>6, <2>2, <2>4, <2>5, <2>6
<1>9. ASSUME NEW k \in G PROVE F(k) \in S /\ k <= F(k)
  <2>1. k \in 0 .. l - 1 /\ F(k) \in 0 .. e - m + 1 /\ k \in Nat
    BY <1>5, <1>6
  <2>2. PICK f : f = F(k)
    OBVIOUS
  <2>3. \/ f = -1 /\ \A j \in Starts(x, t) : j < k
        \/ f \in Starts(x, t) /\ f \in Nat /\ f >= k /\ \A j \in Starts(x, t) : j < k \/ f <= j
    BY <1>2, <2>1, <2>2, FirstMatchIs
  <2>4. f \in Starts(x, t) /\ f \in Nat /\ f >= k /\ f <= e - m + 1
    BY <2>1, <2>2, <2>3
  <2>5. f + m - 1 <= e
    BY <1>1, <2>4
  <2> QED BY <1>3, <1>4, <2>1, <2>2, <2>4, <2>5 DEF Until
<1>10. String_findLast(b, to, t) = IF G = {} THEN -1 ELSE FoundFrom(b, MaxOf(G), t)
  <2>1. l > 0 /\ ~(b.length <= 0) /\ ~(e < 0) /\ ~(e > b.length)
    BY <1>1
  <2> QED BY <1>1, <1>3, <1>6, <2>1 DEF String_findLast
<1> HIDE DEF F
<1>11. CASE S = {}
  <2>1. G = {}
    BY <1>9, <1>11
  <2> QED BY <1>2, <1>4, <1>10, <1>11, <2>1 DEF LastPlace
<1>12. CASE S # {}
  <2>1. S \in SUBSET (0 .. l) /\ G \in SUBSET (0 .. l) /\ G # {}
    BY <1>6, <1>7, <1>8, <1>12
  <2>2. PICK s : s = MaxOf(S) /\ s \in S /\ \A j \in S : j <= s
    BY <1>12, <2>1, MaxOfIn
  <2>3. PICK g : g = MaxOf(G) /\ g \in G /\ \A j \in G : j <= g
    BY <2>1, MaxOfIn
  <2>4. s <= g /\ F(g) \in S /\ g <= F(g) /\ F(g) <= s
    BY <1>8, <1>9, <2>2, <2>3
  <2>5. s \in Nat /\ g \in Nat /\ F(g) \in Nat /\ g \in 0 .. l - 1
    <3>1. g \in 0 .. l - 1 /\ g \in Nat
      BY <1>6, <2>3
    <3>2. s \in Nat
      BY <1>7, <2>2
    <3>3. PICK f : f = F(g) /\ f \in S
      BY <2>4
    <3>4. f \in Nat
      BY <1>7, <3>3
    <3> QED BY <3>1, <3>2, <3>3, <3>4
  <2>6. F(g) = s
    BY <2>4, <2>5
  <2>7. FoundFrom(b, g, t) = s
    BY <1>5, <2>5, <2>6
  <2> QED BY <1>2, <1>4, <1>10, <1>12, <2>1, <2>2, <2>3, <2>7 DEF LastPlace
<1> QED BY <1>11, <1>12

\* The m characters of t are in x from place k on.
At(x, l, t, m, k) == k + m <= l /\ \A j \in 1 .. m : x[k + j] = t[j]

\* A match, character by character.
LEMMA OccursIs ==
  ASSUME NEW x \in Seq(TextBytes), NEW l \in Nat, l = Len(x),
         NEW t \in Seq(TextBytes), NEW m \in Nat, m = Len(t), NEW k \in Nat
  PROVE  Occurs(x, t, k) <=> At(x, l, t, m, k)
<1>1. CASE ~(k + m <= l)
  BY <1>1 DEF Occurs, At
<1>2. CASE k + m <= l
  <2>1. PICK i \in Nat \ {0}, n \in Int : i = k + 1 /\ n = k + m /\ n <= l /\ i <= n + 1 /\ n - i + 1 = m
    <3>1. k + 1 \in Nat \ {0} /\ k + m \in Int /\ k + m <= l /\ k + 1 <= (k + m) + 1 /\ (k + m) - (k + 1) + 1 = m
      BY <1>2
    <3> QED BY <3>1
  <2>2. PICK s : s = SubSeq(x, i, n)
    OBVIOUS
  <2>3. s \in Seq(TextBytes) /\ Len(s) = m /\ \A j \in 1 .. m : s[j] = x[i + j - 1]
    <3>1. n <= Len(x)
      BY <2>1
    <3>2. /\ SubSeq(x, i, n) \in Seq(TextBytes) /\ Len(SubSeq(x, i, n)) = n - i + 1
          /\ \A j \in 1 .. n - i + 1 : SubSeq(x, i, n)[j] = x[i + j - 1]
      BY <2>1, <3>1, PieceIs
    <3> QED BY <2>1, <2>2, <3>2
  <2>4. \A j \in 1 .. m : i + j - 1 = k + j
    BY <2>1
  <2>5. s = t <=> \A j \in 1 .. m : s[j] = t[j]
    BY <2>3, SeqEqual
  <2>6. (\A j \in 1 .. m : s[j] = t[j]) <=> \A j \in 1 .. m : x[k + j] = t[j]
    BY <2>3, <2>4
  <2> QED BY <1>2, <2>1, <2>2, <2>5, <2>6 DEF Occurs, At
<1> QED BY <1>1, <1>2

\* The reverse of a text.
LEMMA ReverseIs ==
  ASSUME NEW x \in Seq(TextBytes), NEW l \in Nat, l = Len(x)
  PROVE  Reverse(x) \in Seq(TextBytes) /\ Len(Reverse(x)) = l /\ \A i \in 1 .. l : Reverse(x)[i] = x[(l - i) + 1]
<1>1. PICK y : y = Reverse(x)
  OBVIOUS
<1>2. y = [i \in 1 .. l |-> x[(l - i) + 1]]
  BY <1>1 DEF Reverse
<1>3. \A i \in 1 .. l : y[i] \in TextBytes
  <2>1. \A i \in 1 .. l : (l - i) + 1 \in 1 .. l
    OBVIOUS
  <2>2. \A i \in 1 .. l : x[i] \in TextBytes
    BY ElementOfSeq
  <2> QED BY <1>2, <2>1, <2>2
<1>4. y = [i \in 1 .. l |-> y[i]]
  BY <1>2
<1>5. y \in Seq(TextBytes) /\ Len(y) = l
  BY <1>3, <1>4, FunctionIsSeq
<1> QED BY <1>1, <1>2, <1>5

\* A text that another one ends with is its match at the end.
LEMMA SuffixIs ==
  ASSUME NEW x \in Seq(TextBytes), NEW l \in Nat, l = Len(x),
         NEW t \in Seq(TextBytes), NEW m \in Nat, m = Len(t)
  PROVE  IsSuffix(t, x) <=> m <= l /\ l - m \in Starts(x, t)
<1>1. PICK u, v : u = Reverse(t) /\ v = Reverse(x)
  OBVIOUS
<1>2. /\ u \in Seq(TextBytes) /\ Len(u) = m /\ \A i \in 1 .. m : u[i] = t[(m - i) + 1]
      /\ v \in Seq(TextBytes) /\ Len(v) = l /\ \A i \in 1 .. l : v[i] = x[(l - i) + 1]
  BY <1>1, ReverseIs
<1>3. IsSuffix(t, x) <=> m <= l /\ SubSeq(u, 1, m) = SubSeq(v, 1, m)
  BY <1>1, <1>2 DEF IsSuffix, IsPrefix
<1>4. CASE ~(m <= l)
  BY <1>3, <1>4
<1>5. CASE m <= l
  <2>1. SubSeq(u, 1, m) = u
    BY <1>2, SubSeqFull
  <2>2. PICK w : w = SubSeq(v, 1, m) /\ w \in Seq(TextBytes) /\ Len(w) = m /\ \A i \in 1 .. m : w[i] = v[i]
    <3>1. l = Len(v)
      BY <1>2
    <3>2. /\ SubSeq(v, 1, m) \in Seq(TextBytes) /\ Len(SubSeq(v, 1, m)) = m
          /\ \A i \in 1 .. m : SubSeq(v, 1, m)[i] = v[i]
      BY <1>2, <1>5, <3>1, SplitIs
    <3> QED BY <3>2
  <2>3. u = w <=> \A i \in 1 .. m : u[i] = w[i]
    BY <1>2, <2>2, SeqEqual
  <2>4. \A i \in 1 .. m : u[i] = t[(m - i) + 1] /\ w[i] = x[(l - i) + 1]
    <3>1. \A i \in 1 .. m : i \in 1 .. l
      BY <1>5
    <3> QED BY <1>2, <2>2, <3>1
  <2>5. PICK k \in Nat : k = l - m /\ k + m <= l /\ k \in 0 .. l
    <3>1. l - m \in Nat /\ (l - m) + m <= l /\ l - m \in 0 .. l
      BY <1>5
    <3> QED BY <3>1
  <2>6. Occurs(x, t, k) <=> \A j \in 1 .. m : x[k + j] = t[j]
    <3>1. Occurs(x, t, k) <=> At(x, l, t, m, k)
      BY OccursIs
    <3> QED BY <2>5, <3>1 DEF At
  <2>7. ASSUME \A i \in 1 .. m : u[i] = w[i], NEW j \in 1 .. m PROVE x[k + j] = t[j]
    <3>1. (m - j) + 1 \in 1 .. m /\ (m - ((m - j) + 1)) + 1 = j /\ (l - ((m - j) + 1)) + 1 = k + j
      BY <2>5
    <3>2. u[(m - j) + 1] = t[(m - ((m - j) + 1)) + 1] /\ w[(m - j) + 1] = x[(l - ((m - j) + 1)) + 1]
      BY <2>4, <3>1
    <3> QED BY <2>7, <3>1, <3>2
  <2>8. ASSUME \A j \in 1 .. m : x[k + j] = t[j], NEW i \in 1 .. m PROVE u[i] = w[i]
    <3>1. (m - i) + 1 \in 1 .. m /\ k + ((m - i) + 1) = (l - i) + 1
      BY <2>5
    <3>2. x[k + ((m - i) + 1)] = t[(m - i) + 1]
      BY <2>8, <3>1
    <3> QED BY <2>4, <3>1, <3>2
  <2>9. l - m \in Starts(x, t) <=> Occurs(x, t, k)
    BY <2>5 DEF Starts
  <2> QED BY <1>3, <1>5, <2>1, <2>2, <2>3, <2>6, <2>7, <2>8, <2>9
<1> QED BY <1>4, <1>5
----------------------------------------------------------------------------
\* The loop of String_findAll.
Cells == UNION {[D -> Int] : D \in SUBSET Nat}
Looks == [cells : Cells, size : Nat, last : Int, block : Nat, outside : BOOLEAN, over : BOOLEAN]

\* The matches S up to place k, and the cell of a match behind the first one.
Upto(S, k) == {s \in S : s <= k}
Cell(S, k) == MinOf(S) + Cardinality({j \in S : j < k})

\* f is the first match of S from place i on.
NextMatch(S, i, f) ==
  \/ f = -1 /\ \A j \in S : j < i
  \/ f \in S /\ f >= i /\ \A j \in S : j < i \/ f <= j

\* How far the search is after i rounds.
Seen(S, i, r) ==
  IF r.over THEN /\ r.last = -1 \/ r.last \in S
                 /\ \A s \in S : s <= r.last
  ELSE IF i = 0 THEN r.last = -1
  ELSE r.last # -1 /\ NextMatch(S, i - 1, r.last)

\* What it wrote.
Noted(S, r) ==
  /\ 0 .. FindSize - 1 \subseteq DOMAIN r.cells
  /\ ~r.outside => r.size = FindSize /\ r.block = FindSize * IntBytes
  /\ r.last = -1 => r.cells[0] = -1 /\ ~r.outside
  /\ r.last # -1 =>
       LET n == MinOf(S) + Cardinality(Upto(S, r.last)) - 1
       IN /\ r.cells[0] = n
          /\ r.outside <=> n >= FindSize /\ n > MinOf(S)
          /\ ~r.outside => \A k \in Upto(S, r.last) \ {MinOf(S)} : r.cells[Cell(S, k)] = k

LookOK(S, i, r) == r \in Looks /\ Seen(S, i, r) /\ Noted(S, r)

\* A search that ends leaves the rest as it is.
LEMMA LookEnds ==
  ASSUME NEW l \in Nat, NEW S \in SUBSET (0 .. l), NEW i \in Nat, NEW r, LookOK(S, i, r),
         r.over \/ \A j \in S : j < i,
         NEW q, q = [r EXCEPT !.over = TRUE]
  PROVE  LookOK(S, i + 1, q)
<1>1. /\ q \in Looks /\ q.over = TRUE /\ q.cells = r.cells /\ q.size = r.size /\ q.last = r.last
      /\ q.block = r.block /\ q.outside = r.outside
  BY DEF LookOK, Looks
<1>2. r.last \in Int
  BY DEF LookOK, Looks
<1>3. (r.last = -1 \/ r.last \in S) /\ \A s \in S : s <= r.last
  <2>1. CASE r.over
    BY <2>1 DEF LookOK, Seen
  <2>2. CASE ~r.over /\ i = 0
    <3>1. S = {}
      BY <2>2
    <3> QED BY <2>2, <3>1 DEF LookOK, Seen
  <2>3. CASE ~r.over /\ i # 0
    <3>1. r.last \in S /\ r.last >= i - 1 /\ \A j \in S : j < i
      BY <2>3 DEF LookOK, Seen, NextMatch
    <3>2. \A j \in S : j \in Nat
      OBVIOUS
    <3> QED BY <1>2, <3>1, <3>2
  <2> QED BY <2>1, <2>2, <2>3
<1>4. Seen(S, i + 1, q)
  BY <1>1, <1>3 DEF Seen
<1>5. Noted(S, q)
  BY <1>1 DEF LookOK, Noted
<1> QED BY <1>1, <1>4, <1>5 DEF LookOK

\* A match that was found before is not written again.
LEMMA LookSame ==
  ASSUME NEW S, NEW i \in Nat, NEW r, LookOK(S, i, r), ~r.over, r.last # -1, NextMatch(S, i, r.last)
  PROVE  LookOK(S, i + 1, r)
<1>1. i + 1 # 0 /\ (i + 1) - 1 = i
  OBVIOUS
<1>2. Seen(S, i + 1, r)
  BY <1>1 DEF Seen
<1> QED BY <1>2 DEF LookOK

\* The matches up to the one behind the last.
LEMMA UptoAdds ==
  ASSUME NEW S \in SUBSET Nat, NEW last \in Int, NEW f \in S, last < f,
         \A j \in S : j <= last \/ f <= j
  PROVE  /\ Upto(S, f) = Upto(S, last) \cup {f} /\ f \notin Upto(S, last)
         /\ {j \in S : j < f} = Upto(S, last)
<1>1. \A j \in S : j \in Nat
  OBVIOUS
<1>2. \A j \in S : (j <= f <=> j <= last \/ j = f) /\ (j < f <=> j <= last)
  BY <1>1
<1>3. ~(f <= last)
  BY <1>1
<1>4. Upto(S, f) = Upto(S, last) \cup {f}
  BY <1>2 DEF Upto
<1>5. {j \in S : j < f} = Upto(S, last)
  BY <1>2 DEF Upto
<1> QED BY <1>3, <1>4, <1>5 DEF Upto

\* f is the match behind the last one.
AddsMatch(S, last, f) ==
  /\ f \in S /\ last < f /\ (last # -1 => last \in S)
  /\ \A j \in S : j <= last \/ f <= j
  /\ Upto(S, f) = Upto(S, last) \cup {f} /\ f \notin Upto(S, last)
  /\ {j \in S : j < f} = Upto(S, last)
  /\ last = -1 => \A j \in S : f <= j

\* The next match is the one behind the last.
LEMMA NextBehind ==
  ASSUME NEW l \in Nat, NEW S \in SUBSET (0 .. l), NEW i \in Nat, NEW last \in Int, NEW f,
         IF i = 0 THEN last = -1 ELSE last # -1 /\ NextMatch(S, i - 1, last),
         f # -1, NextMatch(S, i, f), f # last
  PROVE  AddsMatch(S, last, f)
<1>1. \A j \in S : j \in Nat
  OBVIOUS
<1>2. f \in S /\ f >= i /\ f \in Nat /\ \A j \in S : j < i \/ f <= j
  BY <1>1 DEF NextMatch
<1>3. CASE i = 0
  <2>1. last = -1 /\ last < f /\ \A j \in S : f <= j
    BY <1>1, <1>2, <1>3
  <2>2. S \in SUBSET Nat /\ \A j \in S : j <= last \/ f <= j
    BY <1>1, <2>1
  <2>3. Upto(S, f) = Upto(S, last) \cup {f} /\ f \notin Upto(S, last) /\ {j \in S : j < f} = Upto(S, last)
    BY <1>2, <2>1, <2>2, UptoAdds
  <2> QED BY <1>2, <2>1, <2>2, <2>3 DEF AddsMatch
<1>4. CASE i # 0
  <2>1. last \in S /\ last >= i - 1 /\ last # -1 /\ last \in Nat /\ \A j \in S : j < i - 1 \/ last <= j
    BY <1>1, <1>4 DEF NextMatch
  <2>2. last <= f
    BY <1>2, <2>1
  <2>3. last < f /\ last = i - 1
    BY <1>2, <2>1, <2>2
  <2>4. \A j \in S : j <= last \/ f <= j
    BY <1>1, <1>2, <2>3
  <2>5. Upto(S, f) = Upto(S, last) \cup {f} /\ f \notin Upto(S, last) /\ {j \in S : j < f} = Upto(S, last)
    <3>1. S \in SUBSET Nat
      BY <1>1
    <3> QED BY <1>2, <2>3, <2>4, <3>1, UptoAdds
  <2> QED BY <1>2, <2>1, <2>3, <2>4, <2>5 DEF AddsMatch
<1> QED BY <1>3, <1>4

\* The cells of the matches up to a place are one for each.
LEMMA CellsBelow ==
  ASSUME NEW l \in Nat, NEW S \in SUBSET (0 .. l), NEW last \in S
  PROVE  /\ IsFiniteSet(Upto(S, last)) /\ Cardinality(Upto(S, last)) \in Nat \ {0} /\ MinOf(S) \in Nat
         /\ \A k \in Upto(S, last) \ {MinOf(S)} :
              Cell(S, k) \in MinOf(S) + 1 .. MinOf(S) + Cardinality(Upto(S, last)) - 1
<1>1. S \in SUBSET Nat /\ S # {} /\ IsFiniteSet(S)
  <2>1. PICK I : I = 0 .. l
    OBVIOUS
  <2>2. IsFiniteSet(I)
    BY <2>1, FS_Interval
  <2>3. S \in SUBSET I
    BY <2>1
  <2>4. IsFiniteSet(S)
    BY <2>2, <2>3, FS_Subset
  <2> QED BY <2>4
<1>2. PICK m : m = MinOf(S) /\ m \in S /\ m \in Nat /\ \A j \in S : m <= j
  BY <1>1, MinOfIn
<1>3. PICK U : U = Upto(S, last) /\ U \in SUBSET S /\ last \in U
  <2>1. last \in Nat /\ last <= last
    BY <1>1
  <2>2. last \in Upto(S, last) /\ Upto(S, last) \in SUBSET S
    BY <2>1 DEF Upto
  <2> QED BY <2>2
<1>4. IsFiniteSet(U) /\ Cardinality(U) \in Nat /\ Cardinality(U) # 0
  BY <1>1, <1>3, FS_Subset, FS_CardinalityType, FS_EmptySet
<1>5. ASSUME NEW k \in U \ {m} PROVE Cell(S, k) \in m + 1 .. m + Cardinality(U) - 1
  <2>1. PICK V : V = {j \in S : j < k}
    OBVIOUS
  <2>2. k \in Nat /\ k <= last /\ last \in Nat /\ m < k
    BY <1>1, <1>2, <1>3 DEF Upto
  <2>3. V \in SUBSET U /\ k \notin V /\ m \in V
    <3>1. \A j \in S : j \in Nat /\ (j < k => j <= last)
      BY <1>1, <2>2
    <3>2. V \in SUBSET U
      BY <1>3, <2>1, <3>1 DEF Upto
    <3> QED BY <1>2, <2>1, <2>2, <3>2
  <2>4. IsFiniteSet(V) /\ Cardinality(V) \in Nat /\ Cardinality(V) # 0 /\ Cardinality(V) <= Cardinality(U)
    BY <1>4, <2>3, FS_Subset, FS_CardinalityType, FS_EmptySet
  <2>5. Cardinality(V) # Cardinality(U)
    BY <1>4, <2>3, FS_Subset
  <2>6. Cell(S, k) = m + Cardinality(V)
    BY <1>2, <2>1 DEF Cell
  <2>7. PICK v \in Nat, u \in Nat : v = Cardinality(V) /\ u = Cardinality(U) /\ v # 0 /\ v <= u /\ v # u
    BY <1>4, <2>4, <2>5
  <2> QED BY <1>2, <2>6, <2>7
<1> QED BY <1>2, <1>3, <1>4, <1>5
\* The cell n ends behind a block of k bytes.
CellOutside(n, k) == (n + 1) * IntBytes > k

\* Room for one cell more.
LEMMA CellRoom ==
  ASSUME StringsAssumption, NEW n \in Nat
  PROVE  /\ n >= FindSize => CellOutside(n, FindSize * 4)
         /\ n < FindSize => ~CellOutside(n, FindSize * IntBytes)
         /\ FindSize \in Nat \ {0} /\ IntBytes \in Nat /\ FindSize * 4 \in Nat /\ FindSize * IntBytes \in Nat
         /\ FindSize * 4 # FindSize
<1>1. PICK s \in Nat \ {0}, a \in Nat : s = FindSize /\ a = IntBytes /\ a >= 4
  BY DEF StringsAssumption
<1>2. s * 4 \in Nat /\ s * 4 # s /\ (n + 1) * a \in Nat /\ s * a \in Nat
  BY <1>1
<1>3. CASE n >= s
  <2>1. s < n + 1 /\ n + 1 \in Nat
    BY <1>3
  <2>2. 4 * s + 4 <= 4 * (n + 1)
    BY <2>1
  <2>3. (n + 1) * 4 <= (n + 1) * a
    <3>1. CASE a = 4
      BY <3>1
    <3>2. CASE a # 4
      <4>1. PICK p \in Nat : p = n + 1
        OBVIOUS
      <4>2. 4 < a /\ 4 \in Nat
        BY <1>1, <3>2
      <4>3. p * 4 + p <= p * a
        BY <1>1, <4>1, <4>2, MulLess
      <4>4. PICK c \in Nat : c = p * a
        BY <1>1, <4>1
      <4> QED BY <4>1, <4>3, <4>4
    <3> QED BY <3>1, <3>2
  <2>4. PICK c \in Nat : c = (n + 1) * a
    BY <1>2
  <2>5. c > s * 4
    BY <2>2, <2>3, <2>4
  <2> QED BY <1>1, <1>2, <1>3, <2>4, <2>5 DEF CellOutside
<1>4. CASE n < s
  <2>1. (n + 1) * a <= s * a
    <3>1. CASE n + 1 = s
      BY <1>2, <3>1
    <3>2. CASE n + 1 # s
      <4>1. PICK p \in Nat : p = n + 1 /\ p < s
        BY <1>4, <3>2
      <4>2. a * p + a <= a * s
        BY <1>1, <4>1, MulLess
      <4>3. a * p = p * a /\ a * s = s * a
        BY <1>1, <4>1
      <4>4. PICK c \in Nat, d \in Nat : c = p * a /\ d = s * a
        BY <1>1, <4>1
      <4> QED BY <1>1, <4>1, <4>2, <4>3, <4>4
    <3> QED BY <3>1, <3>2
  <2>2. PICK c \in Nat, d \in Nat : c = (n + 1) * a /\ d = s * a
    BY <1>2
  <2>3. ~(c > d)
    BY <2>1, <2>2
  <2> QED BY <1>1, <1>2, <1>4, <2>2, <2>3 DEF CellOutside
<1> QED BY <1>1, <1>2, <1>3, <1>4

\* What a match writes.
CellWritten(r, f, n, z, k, q) ==
  /\ n = r.cells[0] + 1
  /\ z = IF n > r.size - 1 THEN r.size * 4 ELSE r.size
  /\ k = IF z # r.size THEN z ELSE r.block
  /\ q.size = z /\ q.block = k /\ q.last = f /\ q.over = r.over
  /\ q.outside = (r.outside \/ CellOutside(n, k))
  /\ q.cells = [i \in DOMAIN r.cells \cup {n} |-> IF i = n THEN f ELSE IF i = 0 THEN n ELSE r.cells[i]]

\* The first match goes to the first cell.
LEMMA FirstNoted ==
  ASSUME StringsAssumption, NEW l \in Nat, NEW S \in SUBSET (0 .. l), NEW r, r \in Looks, Noted(S, r), r.last = -1,
         NEW f \in S, \A j \in S : f <= j,
         NEW n, NEW z, NEW k, NEW q, CellWritten(r, f, n, z, k, q)
  PROVE  Noted(S, q) /\ n \in Nat
<1>1. /\ 0 .. FindSize - 1 \subseteq DOMAIN r.cells /\ r.cells[0] = -1 /\ ~r.outside
      /\ r.size = FindSize /\ r.block = FindSize * IntBytes
  BY DEF Noted
<1>2. f \in Nat /\ f # -1
  OBVIOUS
<1>3. n = 0
  BY <1>1 DEF CellWritten
<1>4. FindSize \in Nat \ {0} /\ ~CellOutside(n, FindSize * IntBytes)
  BY <1>3, CellRoom
<1>5. z = FindSize /\ k = FindSize * IntBytes /\ ~q.outside
  <2>1. ~(n > r.size - 1)
    BY <1>1, <1>3, <1>4
  <2>2. z = FindSize
    BY <1>1, <2>1 DEF CellWritten
  <2>3. k = FindSize * IntBytes
    BY <1>1, <2>2 DEF CellWritten
  <2>4. ~CellOutside(n, k)
    BY <1>4, <2>3
  <2> QED BY <1>1, <2>2, <2>3, <2>4 DEF CellWritten
<1>6. q.cells[0] = f /\ 0 .. FindSize - 1 \subseteq DOMAIN q.cells
  BY <1>1, <1>3 DEF CellWritten
<1>7. MinOf(S) = f
  <2>1. S \in SUBSET Nat /\ S # {}
    OBVIOUS
  <2>2. PICK m : m = MinOf(S) /\ m \in S /\ \A j \in S : m <= j
    BY <2>1, MinOfIn
  <2>3. m \in Nat /\ m <= f /\ f <= m
    BY <2>2
  <2>4. m = f
    BY <1>2, <2>3
  <2> QED BY <2>2, <2>4
<1>8. Upto(S, f) = {f}
  <2>1. \A j \in S : j \in Nat /\ (j <= f => j = f)
    OBVIOUS
  <2> QED BY <1>2, <2>1 DEF Upto
<1>9. Cardinality(Upto(S, f)) = 1
  BY <1>8, FS_Singleton
<1>10. q.last = f /\ q.size = z /\ q.block = k
  BY DEF CellWritten
<1>11. PICK u : u = Cardinality(Upto(S, q.last)) /\ u = 1
  BY <1>9, <1>10
<1>12. MinOf(S) + u - 1 = f /\ ~(f > MinOf(S)) /\ Upto(S, q.last) \ {MinOf(S)} = {}
  <2>1. f + u - 1 = f /\ ~(f > f)
    BY <1>2, <1>11
  <2>2. Upto(S, q.last) \ {f} = {}
    BY <1>8, <1>10
  <2> QED BY <1>7, <2>1, <2>2
<1>13. Noted(S, q)
  BY <1>2, <1>5, <1>6, <1>10, <1>11, <1>12 DEF Noted
<1> QED BY <1>3, <1>13

\* A later one goes to the cell of its own.
LEMMA LaterNoted ==
  ASSUME StringsAssumption, NEW l \in Nat, NEW S \in SUBSET (0 .. l), NEW r, r \in Looks, Noted(S, r),
         r.last \in S, NEW f \in S,
         Upto(S, f) = Upto(S, r.last) \cup {f}, f \notin Upto(S, r.last),
         {j \in S : j < f} = Upto(S, r.last),
         NEW n, NEW z, NEW k, NEW q, CellWritten(r, f, n, z, k, q)
  PROVE  Noted(S, q) /\ n \in Nat
<1>1. PICK U : U = Upto(S, r.last)
  OBVIOUS
<1>2. PICK u \in Nat \ {0}, m \in Nat :
        /\ u = Cardinality(U) /\ m = MinOf(S) /\ IsFiniteSet(U)
        /\ \A c \in U \ {m} : Cell(S, c) \in m + 1 .. m + u - 1
  BY <1>1, CellsBelow
<1>3. r.last # -1 /\ f # -1 /\ f \in Nat
  OBVIOUS
<1>4. r.cells[0] = m + u - 1
  BY <1>1, <1>2, <1>3 DEF Noted
<1>5. (r.outside <=> m + u - 1 >= FindSize /\ m + u - 1 > m) /\ 0 .. FindSize - 1 \subseteq DOMAIN r.cells
  BY <1>1, <1>2, <1>3 DEF Noted
<1>6. ~r.outside => r.size = FindSize /\ r.block = FindSize * IntBytes
  BY DEF Noted
<1>7. ~r.outside => \A c \in U \ {m} : r.cells[Cell(S, c)] = c
  BY <1>1, <1>2, <1>3 DEF Noted
<1>8. n = m + u /\ n \in Nat /\ n # 0
  <2>1. n = r.cells[0] + 1
    BY DEF CellWritten
  <2>2. n = (m + u - 1) + 1
    BY <1>4, <2>1
  <2> QED BY <1>2, <2>2
<1>9. PICK V : V = Upto(S, f) /\ V = U \cup {f}
  BY <1>1
<1>10. Cardinality(V) = u + 1
  BY <1>1, <1>2, <1>9, FS_AddElement
<1>11. Cell(S, f) = n
  BY <1>1, <1>2, <1>8 DEF Cell
<1>12. q.outside <=> n >= FindSize /\ n > m
  <2>1. FindSize \in Nat \ {0} /\ FindSize * 4 # FindSize
    BY CellRoom
  <2>2. n > m
    BY <1>2, <1>8
  <2>3. CASE r.outside
    <3>1. n >= FindSize
      BY <1>2, <1>5, <1>8, <2>1, <2>3
    <3> QED BY <2>2, <2>3, <3>1 DEF CellWritten
  <2>4. CASE ~r.outside /\ n >= FindSize
    <3>1. n > r.size - 1 /\ z = FindSize * 4 /\ k = FindSize * 4
      BY <1>6, <1>8, <2>1, <2>4 DEF CellWritten
    <3>2. CellOutside(n, k)
      BY <1>8, <2>4, <3>1, CellRoom
    <3> QED BY <2>2, <2>4, <3>2 DEF CellWritten
  <2>5. CASE ~r.outside /\ ~(n >= FindSize)
    <3>1. ~(n > r.size - 1) /\ z = FindSize /\ k = FindSize * IntBytes
      BY <1>6, <1>8, <2>1, <2>5 DEF CellWritten
    <3>2. n < FindSize
      BY <1>8, <2>1, <2>5
    <3>3. ~CellOutside(n, k)
      BY <1>8, <3>1, <3>2, CellRoom
    <3> QED BY <2>5, <3>3 DEF CellWritten
  <2> QED BY <2>3, <2>4, <2>5
<1>13. ~q.outside => q.size = FindSize /\ q.block = FindSize * IntBytes
  <2> SUFFICES ASSUME ~q.outside PROVE q.size = FindSize /\ q.block = FindSize * IntBytes
    OBVIOUS
  <2>1. FindSize \in Nat \ {0} /\ ~r.outside /\ ~(n >= FindSize)
    <3>1. n > m
      BY <1>2, <1>8
    <3> QED BY <1>12, <3>1, CellRoom DEF CellWritten
  <2>2. ~(n > r.size - 1)
    BY <1>6, <1>8, <2>1
  <2> QED BY <1>6, <2>1, <2>2 DEF CellWritten
<1>14. q.cells[0] = n /\ 0 .. FindSize - 1 \subseteq DOMAIN q.cells
  <2>1. 0 \in 0 .. FindSize - 1
    BY CellRoom
  <2>2. DOMAIN q.cells = DOMAIN r.cells \cup {n} /\ 0 \in DOMAIN r.cells
    BY <1>5, <2>1 DEF CellWritten
  <2> QED BY <1>5, <1>8, <2>2 DEF CellWritten
<1>15. ASSUME ~q.outside, NEW c \in V \ {m} PROVE q.cells[Cell(S, c)] = c
  <2>1. FindSize \in Nat /\ ~r.outside /\ n < FindSize
    <3>1. FindSize \in Nat /\ n > m
      BY <1>2, <1>8, CellRoom
    <3>2. ~r.outside
      BY <1>15 DEF CellWritten
    <3> QED BY <1>8, <1>12, <1>15, <3>1, <3>2
  <2>2. CASE c = f
    BY <1>11, <2>2 DEF CellWritten
  <2>3. CASE c # f
    <3>1. c \in U \ {m}
      BY <1>9, <1>15, <2>3
    <3>2. PICK i : i = Cell(S, c) /\ i \in m + 1 .. m + u - 1
      BY <1>2, <3>1
    <3>3. i # n /\ i # 0 /\ i \in 0 .. FindSize - 1
      BY <1>2, <1>8, <2>1, <3>2
    <3>4. r.cells[i] = c /\ i \in DOMAIN r.cells
      BY <1>5, <1>7, <2>1, <3>1, <3>2, <3>3
    <3> QED BY <3>2, <3>3, <3>4 DEF CellWritten
  <2> QED BY <2>2, <2>3
<1>16. q.last = f
  BY DEF CellWritten
<1>17. m + (u + 1) - 1 = n
  BY <1>2, <1>8
<1>18. Noted(S, q)
  BY <1>2, <1>3, <1>9, <1>10, <1>12, <1>13, <1>14, <1>15, <1>16, <1>17 DEF Noted
<1> QED BY <1>8, <1>18

\* A new match is recorded.
LEMMA LookAdds ==
  ASSUME StringsAssumption, NEW l \in Nat, NEW S \in SUBSET (0 .. l), NEW i \in Nat, NEW r, LookOK(S, i, r), ~r.over,
         NEW f, f # -1, NextMatch(S, i, f), f # r.last,
         NEW n, NEW z, NEW k, NEW q, CellWritten(r, f, n, z, k, q),
         q = [r EXCEPT !.size = z, !.block = k, !.last = f, !.outside = q.outside, !.cells = q.cells]
  PROVE  LookOK(S, i + 1, q)
<1>1. r \in Looks /\ Seen(S, i, r) /\ Noted(S, r)
  BY DEF LookOK
<1>2. PICK last \in Int : last = r.last
  BY <1>1 DEF Looks
<1>3. IF i = 0 THEN last = -1 ELSE last # -1 /\ NextMatch(S, i - 1, last)
  BY <1>1, <1>2 DEF Seen
<1>4. /\ f \in S /\ last < f /\ (last # -1 => last \in S)
      /\ Upto(S, f) = Upto(S, last) \cup {f} /\ f \notin Upto(S, last)
      /\ {j \in S : j < f} = Upto(S, last)
      /\ last = -1 => \A j \in S : f <= j
  <2>1. f # last
    BY <1>2
  <2>2. last \in Int /\ f # -1 /\ NextMatch(S, i, f)
    BY <1>2
  <2>3. AddsMatch(S, last, f)
    BY <1>3, <2>1, <2>2, NextBehind
  <2> QED BY <2>3 DEF AddsMatch
<1>5. Noted(S, q) /\ n \in Nat
  <2>1. CASE last = -1
    BY <1>1, <1>2, <1>4, <2>1, FirstNoted
  <2>2. CASE last # -1
    BY <1>1, <1>2, <1>4, <2>2, LaterNoted
  <2> QED BY <2>1, <2>2
<1>6. q \in Looks
  <2>1. PICK D \in SUBSET Nat : r.cells \in [D -> Int]
    BY <1>1 DEF Looks, Cells
  <2>2. f \in Int
    BY <1>4
  <2>3. PICK E : E = D \cup {n} /\ E \in SUBSET Nat
    <3>1. D \cup {n} \in SUBSET Nat
      BY <1>5
    <3> QED BY <3>1
  <2>4. q.cells = [j \in E |-> IF j = n THEN f ELSE IF j = 0 THEN n ELSE r.cells[j]]
    BY <2>1, <2>3 DEF CellWritten
  <2>5. q.cells \in [E -> Int]
    <3>1. \A j \in E : (IF j = n THEN f ELSE IF j = 0 THEN n ELSE r.cells[j]) \in Int
      BY <1>5, <2>1, <2>2, <2>3
    <3> QED BY <2>4, <3>1
  <2>6. q.cells \in Cells
    BY <2>3, <2>5 DEF Cells
  <2>7. r.size \in Nat /\ r.block \in Nat
    BY <1>1 DEF Looks
  <2>8. z \in Nat /\ k \in Nat
    <3>1. z \in Nat
      BY <2>7 DEF CellWritten
    <3> QED BY <2>7, <3>1 DEF CellWritten
  <2>9. q.outside \in BOOLEAN
    BY <1>1 DEF CellWritten, Looks
  <2> QED BY <1>1, <2>2, <2>6, <2>8, <2>9 DEF Looks
<1>7. Seen(S, i + 1, q)
  <2>1. q.over = FALSE /\ q.last = f
    BY <1>1 DEF CellWritten, Looks
  <2>2. i + 1 # 0 /\ (i + 1) - 1 = i
    OBVIOUS
  <2> QED BY <2>1, <2>2 DEF Seen
<1> QED BY <1>5, <1>6, <1>7 DEF LookOK
\* One round of the loop.
LEMMA LookKeeps ==
  ASSUME StringsAssumption, NEW b, Form(b), Text(b) \in Seq(Chars), NEW t \in Seq(TextBytes), t # <<>>,
         NEW S, S = Starts(Text(b), t), NEW i \in 0 .. b.length, NEW r, LookOK(S, i, r)
  PROVE  LookOK(S, i + 1, FindAllStep(b, t, r, i))
<1>1. PICK l \in Nat : l = b.length /\ i \in Nat /\ i <= l
  BY FormFacts
<1>2. PICK x : x = Text(b) /\ x \in Seq(TextBytes) /\ Len(x) = l
  BY <1>1, TextIs
<1>3. S \in SUBSET (0 .. l)
  BY <1>2 DEF Starts
<1>4. PICK f : f = String_findNext(b, i, t)
  OBVIOUS
<1>5. f = FirstPlace(From(x, t, i))
  BY <1>2, <1>4, FindNextIs
<1>6. /\ NextMatch(S, i, f)
      /\ f = -1 => \A j \in S : j < i
  <2>1. \/ f = -1 /\ \A j \in Starts(x, t) : j < i
        \/ f \in Starts(x, t) /\ f \in Nat /\ f >= i /\ \A j \in Starts(x, t) : j < i \/ f <= j
    BY <1>1, <1>2, <1>5, FirstMatchIs
  <2>2. S = Starts(x, t)
    BY <1>2
  <2>3. f \in Nat => f # -1
    OBVIOUS
  <2> QED BY <2>1, <2>2, <2>3 DEF NextMatch
<1>7. CASE r.over \/ f = -1
  <2>1. PICK q : q = [r EXCEPT !.over = TRUE]
    OBVIOUS
  <2>2. FindAllStep(b, t, r, i) = q
    BY <1>4, <1>7, <2>1 DEF FindAllStep
  <2>3. r.over \/ \A j \in S : j < i
    BY <1>6, <1>7
  <2>4. LookOK(S, i + 1, q)
    BY <1>1, <1>3, <2>1, <2>3, LookEnds
  <2> QED BY <2>2, <2>4
<1>8. CASE ~r.over /\ f # -1 /\ f = r.last
  <2>1. FindAllStep(b, t, r, i) = r
    BY <1>4, <1>8 DEF FindAllStep
  <2>2. NextMatch(S, i, r.last) /\ r.last # -1
    BY <1>6, <1>8
  <2>3. LookOK(S, i + 1, r)
    BY <1>1, <1>8, <2>2, LookSame
  <2> QED BY <2>1, <2>3
<1>9. CASE ~r.over /\ f # -1 /\ f # r.last
  <2>1. PICK n, z : n = r.cells[0] + 1 /\ z = IF n > r.size - 1 THEN r.size * 4 ELSE r.size
    OBVIOUS
  <2>2. PICK k : k = IF z # r.size THEN z ELSE r.block
    OBVIOUS
  <2>3. PICK o, c : /\ o = (r.outside \/ CellOutside(n, k))
                    /\ c = [j \in DOMAIN r.cells \cup {n} |-> IF j = n THEN f ELSE IF j = 0 THEN n ELSE r.cells[j]]
    OBVIOUS
  <2>4. PICK q : q = [r EXCEPT !.size = z, !.block = k, !.last = f, !.outside = o, !.cells = c]
    OBVIOUS
  <2>5. FindAllStep(b, t, r, i) = q
    BY <1>4, <1>9, <2>1, <2>2, <2>3, <2>4 DEF FindAllStep, CellOutside, LookOK, Looks
  <2>6. q.size = z /\ q.block = k /\ q.last = f /\ q.outside = o /\ q.cells = c /\ q.over = r.over
    BY <2>4 DEF LookOK, Looks
  <2>7. CellWritten(r, f, n, z, k, q)
    BY <2>1, <2>2, <2>3, <2>6 DEF CellWritten
  <2>8. q = [r EXCEPT !.size = z, !.block = k, !.last = f, !.outside = q.outside, !.cells = q.cells]
    BY <2>4, <2>6
  <2>9. LookOK(S, i + 1, q)
    BY <1>1, <1>3, <1>6, <1>9, <2>7, <2>8, LookAdds
  <2> QED BY <2>5, <2>9
<1> QED BY <1>7, <1>8, <1>9

\* The rounds of findAll.
LookFrom ==
  [cells |-> [j \in 0 .. FindSize - 1 |-> -1], size |-> FindSize, last |-> -1,
   block |-> FindSize * IntBytes, outside |-> FALSE, over |-> FALSE]
Looked(f, b, t, n) ==
  f = [i \in 0 .. n |-> IF i = 0 THEN LookFrom ELSE FindAllStep(b, t, f[i - 1], i - 1)]

LEMMA LookedExist ==
  ASSUME NEW b, NEW t, NEW n \in Nat
  PROVE  \E f : Looked(f, b, t, n)
<1> DEFINE R(f, k) == Looked(f, b, t, k)
<1> DEFINE S == {k \in Nat : ~ \E f : R(f, k)}
<1>1. SUFFICES ASSUME S # {} PROVE FALSE
  OBVIOUS
<1>2. PICK k \in S : \A j \in S : k <= j
  <2>1. S \in SUBSET Nat
    OBVIOUS
  <2> HIDE DEF S
  <2> QED BY <1>1, <2>1, Least
<1>3. k \in Nat /\ ~ \E f : R(f, k)
  OBVIOUS
<1>4. k # 0
  <2>1. R([i \in 0 .. 0 |-> LookFrom], 0)
    BY DEF Looked
  <2> QED BY <1>3, <2>1
<1>5. PICK j \in Nat : k = j + 1
  <2>1. k - 1 \in Nat /\ k = (k - 1) + 1
    BY <1>3, <1>4
  <2> QED BY <2>1
<1>6. PICK g : R(g, j)
  <2>1. j \notin S /\ j \in Nat
    BY <1>2, <1>5
  <2> QED BY <2>1
<1> DEFINE h == [i \in 0 .. k |-> IF i = 0 THEN LookFrom ELSE FindAllStep(b, t, g[i - 1], i - 1)]
<1>7. \A i \in 0 .. j : h[i] = g[i]
  <2>1. \A i \in 0 .. j : i \in 0 .. k
    BY <1>5
  <2>2. \A i \in 0 .. j : h[i] = IF i = 0 THEN LookFrom ELSE FindAllStep(b, t, g[i - 1], i - 1)
    BY <2>1
  <2>3. \A i \in 0 .. j : g[i] = IF i = 0 THEN LookFrom ELSE FindAllStep(b, t, g[i - 1], i - 1)
    BY <1>6 DEF Looked
  <2> QED BY <2>2, <2>3
<1>8. \A i \in 0 .. k : i # 0 => i - 1 \in 0 .. j
  BY <1>5
<1>9. h = [i \in 0 .. k |-> IF i = 0 THEN LookFrom ELSE FindAllStep(b, t, h[i - 1], i - 1)]
  <2>1. \A i \in 0 .. k : (IF i = 0 THEN LookFrom ELSE FindAllStep(b, t, g[i - 1], i - 1))
                        = (IF i = 0 THEN LookFrom ELSE FindAllStep(b, t, h[i - 1], i - 1))
    BY <1>7, <1>8
  <2>2. h = [i \in 0 .. k |-> IF i = 0 THEN LookFrom ELSE FindAllStep(b, t, g[i - 1], i - 1)]
    OBVIOUS
  <2> HIDE DEF h
  <2> QED BY <2>1, <2>2
<1> HIDE DEF h
<1>10. R(h, k)
  BY <1>9 DEF Looked
<1> QED BY <1>3, <1>10

\* It starts with nothing seen.
LEMMA LookStarts ==
  ASSUME StringsAssumption, NEW S
  PROVE  LookOK(S, 0, LookFrom)
<1>1. FindSize \in Nat \ {0} /\ FindSize * IntBytes \in Nat
  BY CellRoom
<1>2. PICK D, c : D = 0 .. FindSize - 1 /\ c = [j \in D |-> -1]
  OBVIOUS
<1>3. D \in SUBSET Nat /\ 0 \in D /\ c \in [D -> Int] /\ c[0] = -1 /\ DOMAIN c = D
  BY <1>1, <1>2
<1>4. c \in Cells
  BY <1>3 DEF Cells
<1>5. PICK r : r = LookFrom
  OBVIOUS
<1>6. /\ r.cells = c /\ r.size = FindSize /\ r.last = -1 /\ r.block = FindSize * IntBytes
      /\ r.outside = FALSE /\ r.over = FALSE
  BY <1>2, <1>5 DEF LookFrom
<1>7. r \in Looks
  <2>1. r = [cells |-> c, size |-> FindSize, last |-> -1, block |-> FindSize * IntBytes,
             outside |-> FALSE, over |-> FALSE]
    BY <1>2, <1>5 DEF LookFrom
  <2> QED BY <1>1, <1>4, <2>1 DEF Looks
<1>8. Seen(S, 0, r)
  BY <1>6 DEF Seen
<1>9. Noted(S, r)
  BY <1>2, <1>3, <1>6 DEF Noted
<1> QED BY <1>5, <1>7, <1>8, <1>9 DEF LookOK

\* After the rounds every match was seen.
LEMMA LookedOK ==
  ASSUME StringsAssumption, NEW b, Form(b), Text(b) \in Seq(Chars), NEW t \in Seq(TextBytes), t # <<>>,
         NEW S, S = Starts(Text(b), t), NEW f, NEW n \in Nat, n = b.length + 1, Looked(f, b, t, n)
  PROVE  LookOK(S, n, f[n])
<1>1. \A i \in 0 .. n : f[i] = IF i = 0 THEN LookFrom ELSE FindAllStep(b, t, f[i - 1], i - 1)
  BY DEF Looked
<1>2. b.length \in Nat
  BY FormFacts
<1> DEFINE B == {i \in 0 .. n : ~LookOK(S, i, f[i])}
<1>3. B = {}
  <2>1. SUFFICES ASSUME B # {} PROVE FALSE
    OBVIOUS
  <2>2. PICK i \in B : \A j \in B : i <= j
    <3>1. B \in SUBSET Nat
      OBVIOUS
    <3> HIDE DEF B
    <3> QED BY <2>1, <3>1, Least
  <2>3. i \in 0 .. n /\ ~LookOK(S, i, f[i])
    OBVIOUS
  <2>4. i # 0
    BY <1>1, <2>3, LookStarts
  <2>5. PICK j : j = i - 1 /\ j \in 0 .. n /\ j \in 0 .. b.length /\ ~(i <= j) /\ i = j + 1
    <3>1. i - 1 \in 0 .. n /\ i - 1 \in 0 .. b.length /\ ~(i <= i - 1) /\ i = (i - 1) + 1
      BY <1>2, <2>3, <2>4
    <3> QED BY <3>1
  <2>6. LookOK(S, j, f[j])
    BY <2>2, <2>5
  <2>7. LookOK(S, j + 1, FindAllStep(b, t, f[j], j))
    BY <2>5, <2>6, LookKeeps
  <2>8. f[i] = FindAllStep(b, t, f[j], j)
    BY <1>1, <2>3, <2>4, <2>5
  <2> QED BY <2>3, <2>5, <2>7, <2>8
<1> QED BY <1>3

\* String_findAll counts from the place of the first match on.
LEMMA FindAllIs ==
  ASSUME StringsAssumption, NEW b, Form(b), Text(b) \in Seq(Chars), NEW t \in Seq(TextBytes), t # <<>>
  PROVE  FindsAll(b, Text(b), t)
<1>1. PICK l \in Nat, n \in Nat : l = b.length /\ n = b.length + 1
  <2>1. PICK l \in Nat : l = b.length
    BY FormFacts
  <2>2. l + 1 \in Nat
    BY <2>1
  <2> QED BY <2>1, <2>2
<1>2. PICK x : x = Text(b) /\ x \in Seq(TextBytes) /\ Len(x) = l
  BY <1>1, TextIs
<1>3. PICK S : S = Starts(x, t)
  OBVIOUS
<1>4. S \in SUBSET (0 .. l) /\ S \in SUBSET Nat
  BY <1>2, <1>3 DEF Starts
<1>5. PICK f : f = CHOOSE g : Looked(g, b, t, n)
  OBVIOUS
<1>6. Looked(f, b, t, n)
  BY <1>5, LookedExist
<1>7. PICK r : r = f[n] /\ LookOK(S, n, r)
  BY <1>1, <1>2, <1>3, <1>6, LookedOK
<1>8. String_findAll(b, t) = r
  <2>1. f = CHOOSE g : g = [i \in 0 .. b.length + 1 |->
             IF i = 0
             THEN [cells |-> [j \in 0 .. FindSize - 1 |-> -1], size |-> FindSize, last |-> -1,
                   block |-> FindSize * IntBytes, outside |-> FALSE, over |-> FALSE]
             ELSE FindAllStep(b, t, g[i - 1], i - 1)]
    BY <1>1, <1>5 DEF Looked, LookFrom
  <2>2. r = f[b.length + 1]
    BY <1>1, <1>7
  <2> QED BY <2>1, <2>2 DEF String_findAll
<1>9. (r.last = -1 \/ r.last \in S) /\ \A s \in S : s <= r.last
  <2>1. CASE r.over
    BY <1>7, <2>1 DEF LookOK, Seen
  <2>2. CASE ~r.over
    <3>1. n # 0 /\ n - 1 = l
      BY <1>1
    <3>2. r.last # -1 /\ NextMatch(S, l, r.last)
      BY <1>7, <2>2, <3>1 DEF LookOK, Seen
    <3>3. PICK k \in S : k >= l
      BY <3>2 DEF NextMatch
    <3>4. k \in Nat /\ k < Len(x)
      BY <1>2, <1>3, <3>3, MatchFits
    <3> QED BY <1>2, <3>3, <3>4
  <2> QED BY <2>1, <2>2
<1>10. Noted(S, r)
  BY <1>7 DEF LookOK
<1>11. CASE S = {}
  <2>1. r.last = -1
    BY <1>9, <1>11
  <2>2. ~r.outside /\ r.cells[0] = -1
    BY <1>10, <2>1 DEF Noted
  <2> QED BY <1>2, <1>3, <1>8, <1>11, <2>2 DEF FindsAll
<1>12. CASE S # {}
  <2>1. x # <<>>
    <3>1. PICK k \in S : TRUE
      BY <1>12
    <3>2. k \in Nat /\ k < Len(x)
      BY <1>2, <1>3, MatchFits
    <3> QED BY <3>2, EmptySeq
  <2>2. r.last # -1
    <3>1. PICK k \in S : k \in Nat
      BY <1>4, <1>12
    <3>2. k <= r.last
      BY <1>9
    <3> QED BY <3>1, <3>2
  <2>3. Upto(S, r.last) = S
    BY <1>9 DEF Upto
  <2>4. PICK m, c : m = MinOf(S) /\ c = m + Cardinality(S) - 1
    OBVIOUS
  <2>5. /\ r.cells[0] = c
        /\ r.outside <=> c >= FindSize /\ c > m
        /\ ~r.outside => \A k \in S \ {m} : r.cells[Cell(S, k)] = k
    BY <1>10, <2>2, <2>3, <2>4 DEF Noted
  <2>6. ~r.outside => \A k \in S \ {m} : r.cells[m + Cardinality({j \in S : j < k})] = k
    BY <2>4, <2>5 DEF Cell
  <2> QED BY <1>2, <1>3, <1>8, <1>12, <2>1, <2>4, <2>5, <2>6 DEF FindsAll
<1> QED BY <1>11, <1>12
\* String_endsWith: a target one longer than the text is taken for one of its ends.
LEMMA EndsWithIs ==
  ASSUME NEW b, Form(b), Text(b) \in Seq(Chars), NEW t \in Seq(TextBytes), t # <<>>
  PROVE  String_endsWith(b, t) <=> IsSuffix(t, Text(b)) \/ Len(t) = Len(Text(b)) + 1
<1>1. PICK l \in Nat : l = b.length
  BY FormFacts
<1>2. PICK x : x = Text(b) /\ x \in Seq(TextBytes) /\ Len(x) = l
  BY <1>1, TextIs
<1>3. PICK m \in Nat \ {0} : m = Len(t)
  BY EmptySeq
<1>4. PICK f : f = String_findLast(b, -1, t)
  OBVIOUS
<1>5. String_endsWith(b, t) <=> f = l - m
  BY <1>1, <1>3, <1>4 DEF String_endsWith
<1>6. PICK S : S = Starts(x, t)
  OBVIOUS
<1>7. IsSuffix(t, x) <=> m <= l /\ l - m \in S
  <2>1. l = Len(x) /\ m = Len(t) /\ m \in Nat
    BY <1>2, <1>3
  <2> QED BY <1>2, <1>6, <2>1, SuffixIs
<1>8. CASE l = 0
  <2>1. f = -1
    BY <1>1, <1>4, <1>8 DEF String_findLast
  <2>2. f = l - m <=> m = l + 1
    BY <1>8, <2>1
  <2>3. ~(m <= l)
    BY <1>8
  <2> QED BY <1>2, <1>3, <1>5, <1>7, <2>2, <2>3
<1>9. CASE l # 0
  <2>1. PICK e : e = l - 1 /\ e \in 0 .. b.length - 1 /\ e = (IF -1 < 0 THEN -1 + b.length ELSE -1)
    <3>1. l - 1 \in 0 .. l - 1 /\ l - 1 = -1 + l /\ -1 < 0
      BY <1>9
    <3> QED BY <1>1, <3>1
  <2>2. f = LastPlace(Until(x, t, e))
    <3>1. -1 \in Int
      OBVIOUS
    <3>2. String_findLast(b, -1, t) = LastPlace(Until(Text(b), t, e))
      BY <2>1, <3>1, FindLastIs
    <3> QED BY <1>2, <1>4, <3>2
  <2>3. \A k \in S : k \in Nat /\ k + m <= l
    <3>1. ASSUME NEW k \in S PROVE k \in Nat /\ k + Len(t) <= Len(x)
      BY <1>2, <1>6, MatchFits
    <3> QED BY <1>2, <1>3, <3>1
  <2>4. Until(x, t, e) = S
    <3>1. \A k \in S : k + m - 1 <= e
      BY <2>1, <2>3
    <3> QED BY <1>3, <1>6, <3>1 DEF Until
  <2>5. CASE S = {}
    <3>1. f = -1
      BY <2>2, <2>4, <2>5 DEF LastPlace
    <3>2. f = l - m <=> m = l + 1
      BY <3>1
    <3> QED BY <1>2, <1>3, <1>5, <1>7, <2>5, <3>2
  <2>6. CASE S # {}
    <3>1. S \in SUBSET (0 .. l)
      BY <2>3
    <3>2. PICK s : s = MaxOf(S) /\ s \in S /\ \A j \in S : j <= s
      BY <2>6, <3>1, MaxOfIn
    <3>3. f = s
      BY <2>2, <2>4, <2>6, <3>2 DEF LastPlace
    <3>4. s \in Nat /\ s + m <= l
      BY <2>3, <3>2
    <3>5. m # l + 1 /\ m <= l
      BY <3>4
    <3>6. l - m \in S => s = l - m
      <4>1. l - m \in S => l - m <= s
        BY <3>2
      <4> QED BY <3>4, <4>1
    <3>7. f = l - m <=> l - m \in S
      BY <3>2, <3>3, <3>6
    <3> QED BY <1>2, <1>3, <1>5, <1>7, <3>5, <3>7
  <2> QED BY <2>5, <2>6
<1> QED BY <1>8, <1>9

\* Every search gives what its name says.
LEMMA SearchesOK ==
  ASSUME StringsAssumption, CharsAssumption, NEW b, Form(b), Text(b) \in Seq(Chars)
  PROVE  SearchesAgree(b, Text(b))
<1>1. PICK l \in Nat : l = b.length
  BY FormFacts
<1>2. PICK x : x = Text(b) /\ x \in Seq(TextBytes) /\ Len(x) = l
  BY <1>1, TextIs
<1>3. ASSUME NEW t \in Words \ {<<>>}
      PROVE  /\ \A i \in 0 .. Len(x) :
                  LET S == {k \in Starts(x, t) : k >= i}
                  IN String_findNext(b, i, t) = IF S = {} THEN -1 ELSE MinOf(S)
             /\ \A i \in 0 .. Len(x) - 1 :
                  LET S == {k \in Starts(x, t) : k + Len(t) - 1 <= i}
                  IN String_findLast(b, i, t) = IF S = {} THEN -1 ELSE MaxOf(S)
             /\ String_startsWith(b, t) <=> 0 \in Starts(x, t)
             /\ String_contains(b, t) <=> Starts(x, t) # {}
             /\ String_endsWith(b, t) <=> IsSuffix(t, x) \/ Len(t) = Len(x) + 1
             /\ FindsAll(b, x, t)
  <2>1. t \in Seq(TextBytes) /\ t # <<>>
    BY <1>3, WordsAre
  <2>2. ASSUME NEW i \in 0 .. Len(x) PROVE String_findNext(b, i, t) = FirstPlace(From(x, t, i))
    <3>1. i \in 0 .. b.length
      BY <1>1, <1>2
    <3> QED BY <1>2, <2>1, <3>1, FindNextIs
  <2>3. ASSUME NEW i \in 0 .. Len(x) - 1 PROVE String_findLast(b, i, t) = LastPlace(Until(x, t, i))
    <3>1. i \in 0 .. b.length - 1 /\ i \in Int /\ i = (IF i < 0 THEN i + b.length ELSE i)
      BY <1>1, <1>2
    <3>2. String_findLast(b, i, t) = LastPlace(Until(Text(b), t, i))
      BY <2>1, <3>1, FindLastIs
    <3> QED BY <1>2, <3>2
  <2>4. PICK f : f = String_findNext(b, 0, t)
    OBVIOUS
  <2>5. \/ f = -1 /\ \A j \in Starts(x, t) : j < 0
        \/ f \in Starts(x, t) /\ f \in Nat /\ f >= 0 /\ \A j \in Starts(x, t) : j < 0 \/ f <= j
    <3>1. 0 \in 0 .. Len(x) /\ 0 \in Nat
      BY <1>2
    <3>2. f = FirstPlace(From(x, t, 0))
      BY <2>2, <2>4, <3>1
    <3> QED BY <1>2, <3>1, <3>2, FirstMatchIs
  <2>6. \A j \in Starts(x, t) : j \in Nat
    BY <1>2 DEF Starts
  <2>7. f = 0 <=> 0 \in Starts(x, t)
    BY <2>5, <2>6
  <2>8. f >= 0 <=> Starts(x, t) # {}
    BY <2>5, <2>6
  <2>9. String_startsWith(b, t) <=> 0 \in Starts(x, t)
    BY <2>4, <2>7 DEF String_startsWith
  <2>10. String_contains(b, t) <=> Starts(x, t) # {}
    BY <2>4, <2>8 DEF String_contains
  <2>11. String_endsWith(b, t) <=> IsSuffix(t, x) \/ Len(t) = Len(x) + 1
    BY <1>2, <2>1, EndsWithIs
  <2>12. FindsAll(b, x, t)
    BY <1>2, <2>1, FindAllIs
  <2>13. ASSUME NEW i \in 0 .. Len(x)
         PROVE  LET S == {k \in Starts(x, t) : k >= i}
                IN String_findNext(b, i, t) = IF S = {} THEN -1 ELSE MinOf(S)
    BY <2>2 DEF FirstPlace, From
  <2>14. ASSUME NEW i \in 0 .. Len(x) - 1
         PROVE  LET S == {k \in Starts(x, t) : k + Len(t) - 1 <= i}
                IN String_findLast(b, i, t) = IF S = {} THEN -1 ELSE MaxOf(S)
    BY <2>3 DEF LastPlace, Until
  <2> QED BY <2>9, <2>10, <2>11, <2>12, <2>13, <2>14
<1> QED BY <1>2, <1>3 DEF SearchesAgree
----------------------------------------------------------------------------
\* What replace makes of a text.

\* The text behind each place from k on, rewritten.
Rewrite(f, x, t, w, k) ==
  f = [i \in k .. Len(x) |->
         IF i = Len(x) THEN <<>>
         ELSE IF Occurs(x, t, i) THEN w \o f[i + Len(t)] ELSE <<x[i + 1]>> \o f[i + 1]]

\* It is there from every place on: from the greatest for which it were not.
LEMMA RewriteExists ==
  ASSUME NEW x \in Seq(TextBytes), NEW t \in Seq(TextBytes), t # <<>>, NEW w, NEW k \in 0 .. Len(x)
  PROVE  \E f : Rewrite(f, x, t, w, k)
<1>1. PICK l \in Nat, m \in Nat \ {0} : l = Len(x) /\ m = Len(t)
  BY LenProperties, EmptySeq
<1> DEFINE E(g, i) == IF i = l THEN <<>> ELSE IF Occurs(x, t, i) THEN w \o g[i + m] ELSE <<x[i + 1]>> \o g[i + 1]
<1> DEFINE S == {c \in 0 .. l : ~ \E f : Rewrite(f, x, t, w, c)}
<1>2. SUFFICES ASSUME S # {} PROVE FALSE
  BY <1>1
<1>3. \A f, c : Rewrite(f, x, t, w, c) <=> f = [i \in c .. l |-> E(f, i)]
  BY <1>1 DEF Rewrite
<1>4. PICK c \in S : \A j \in S : j <= c
  <2>1. S \in SUBSET (0 .. l)
    OBVIOUS
  <2> HIDE DEF S
  <2> QED BY <1>2, <2>1, Greatest
<1>5. c \in 0 .. l /\ ~ \E f : Rewrite(f, x, t, w, c)
  OBVIOUS
<1>6. c # l
  <2>1. PICK f : f = [i \in l .. l |-> <<>>]
    OBVIOUS
  <2>2. \A i \in l .. l : i = l
    OBVIOUS
  <2>3. \A i \in l .. l : E(f, i) = <<>>
    BY <2>2
  <2> HIDE DEF E
  <2>4. f = [i \in l .. l |-> E(f, i)]
    BY <2>1, <2>3
  <2>5. Rewrite(f, x, t, w, l)
    BY <1>3, <2>4
  <2> QED BY <1>5, <2>5
<1>7. PICK d \in Nat : d = c + 1 /\ d <= l
  BY <1>5, <1>6
<1>8. PICK g : Rewrite(g, x, t, w, d)
  <2>1. d \in 0 .. l /\ ~(d <= c)
    BY <1>5, <1>7
  <2>2. d \notin S
    BY <1>4, <2>1
  <2> QED BY <2>1, <2>2
<1>9. PICK h : h = [i \in c .. l |-> E(g, i)]
  OBVIOUS
<1>10. \A i \in d .. l : h[i] = g[i]
  <2>1. \A i \in d .. l : i \in c .. l
    BY <1>5, <1>7
  <2>2. g = [i \in d .. l |-> E(g, i)]
    BY <1>3, <1>8
  <2> HIDE DEF E
  <2>3. \A i \in d .. l : g[i] = E(g, i)
    BY <2>2
  <2>4. \A i \in d .. l : h[i] = E(g, i)
    BY <1>9, <2>1
  <2> QED BY <2>3, <2>4
<1>11. ASSUME NEW i \in c .. l PROVE E(g, i) = E(h, i)
  <2>1. CASE i = l
    BY <2>1
  <2>2. CASE i # l /\ Occurs(x, t, i)
    <3>1. i + m <= l
      BY <1>1, <2>2 DEF Occurs
    <3>2. i + m \in d .. l
      BY <1>5, <1>7, <3>1
    <3>3. h[i + m] = g[i + m]
      BY <1>10, <3>2
    <3> QED BY <2>2, <3>3
  <2>3. CASE i # l /\ ~Occurs(x, t, i)
    <3>1. i + 1 \in d .. l
      BY <1>5, <1>7, <2>3
    <3>2. h[i + 1] = g[i + 1]
      BY <1>10, <3>1
    <3> QED BY <2>3, <3>2
  <2> QED BY <2>1, <2>2, <2>3
<1>12. h = [i \in c .. l |-> E(h, i)]
  <2> HIDE DEF E
  <2> QED BY <1>9, <1>11
<1>13. Rewrite(h, x, t, w, c)
  BY <1>3, <1>12
<1> QED BY <1>5, <1>13

\* Its value at a place.
RewrittenAt(f, x, t, w, i) ==
  /\ i = Len(x) => f[i] = <<>>
  /\ i # Len(x) /\ Occurs(x, t, i) => f[i] = w \o f[i + Len(t)]
  /\ i # Len(x) /\ ~Occurs(x, t, i) => f[i] = <<x[i + 1]>> \o f[i + 1]

LEMMA RewriteAt ==
  ASSUME NEW x, NEW t, NEW w, NEW f, Rewrite(f, x, t, w, 0), NEW i \in 0 .. Len(x)
  PROVE  RewrittenAt(f, x, t, w, i)
BY DEF Rewrite, RewrittenAt

\* All of it is a text.
LEMMA RewriteText ==
  ASSUME NEW C, NEW x \in Seq(C), NEW w \in Seq(C), NEW t \in Seq(TextBytes), t # <<>>,
         NEW f, Rewrite(f, x, t, w, 0), NEW i \in 0 .. Len(x)
  PROVE  f[i] \in Seq(C)
<1>1. PICK l \in Nat, m \in Nat \ {0} : l = Len(x) /\ m = Len(t)
  BY LenProperties, EmptySeq
<1> DEFINE S == {c \in 0 .. l : f[c] \notin Seq(C)}
<1>2. SUFFICES ASSUME S # {} PROVE FALSE
  BY <1>1
<1>3. PICK c \in S : \A j \in S : j <= c
  <2>1. S \in SUBSET (0 .. l)
    OBVIOUS
  <2> HIDE DEF S
  <2> QED BY <1>2, <2>1, Greatest
<1>4. c \in 0 .. l /\ f[c] \notin Seq(C)
  OBVIOUS
<1>5. \A j \in 0 .. l : j > c => f[j] \in Seq(C)
  <2>1. \A j \in 0 .. l : j > c => ~(j <= c)
    BY <1>4
  <2> QED BY <1>3, <2>1
<1> HIDE DEF S
<1>6. /\ c = l => f[c] = <<>>
      /\ c # l /\ Occurs(x, t, c) => f[c] = w \o f[c + m]
      /\ c # l /\ ~Occurs(x, t, c) => f[c] = <<x[c + 1]>> \o f[c + 1]
  <2>1. RewrittenAt(f, x, t, w, c)
    BY <1>1, <1>4, RewriteAt
  <2> QED BY <1>1, <2>1 DEF RewrittenAt
<1>7. CASE c = l
  <2>1. <<>> \in Seq(C)
    BY EmptySeq
  <2> QED BY <1>4, <1>6, <1>7, <2>1
<1>8. CASE c # l /\ Occurs(x, t, c)
  <2>1. c + m <= l
    BY <1>1, <1>8 DEF Occurs
  <2>2. c + m \in 0 .. l /\ c + m > c
    BY <1>4, <2>1
  <2>3. PICK u : u = f[c + m] /\ u \in Seq(C)
    BY <1>5, <2>2
  <2>4. w \o u \in Seq(C)
    BY <2>3, ConcatProperties
  <2> QED BY <1>4, <1>6, <1>8, <2>3, <2>4
<1>9. CASE c # l /\ ~Occurs(x, t, c)
  <2>1. c + 1 \in 0 .. l /\ c + 1 > c /\ c + 1 \in 1 .. l
    BY <1>4, <1>9
  <2>2. PICK u : u = f[c + 1] /\ u \in Seq(C)
    BY <1>5, <2>1
  <2>3. PICK v : v = <<x[c + 1]>> /\ v \in Seq(C)
    <3>1. x[c + 1] \in C
      BY <1>1, <2>1, ElementOfSeq
    <3>2. <<x[c + 1]>> \in Seq(C)
      BY <3>1
    <3> QED BY <3>2
  <2>4. v \o u \in Seq(C)
    BY <2>2, <2>3, ConcatProperties
  <2> QED BY <1>4, <1>6, <1>9, <2>2, <2>3, <2>4
<1> QED BY <1>7, <1>8, <1>9

\* Three texts, one behind the other.
LEMMA ThreeTexts ==
  ASSUME NEW p \in Seq(TextBytes), NEW q \in Seq(TextBytes), NEW u \in Seq(TextBytes)
  PROVE  (p \o q) \o u = p \o (q \o u)
BY ConcatAssociative

\* No place of S from a on and before k.
NoneFrom(S, a, k) == \A j \in S : j < a \/ k <= j

\* What is behind place a are the characters up to k and what is behind k.
Stays(f, x, a, k) == f[a] = SubSeq(x, a + 1, k) \o f[k]

\* Between two matches the text stays.
LEMMA RewriteGap ==
  ASSUME NEW x \in Seq(TextBytes), NEW w \in Seq(TextBytes), NEW t \in Seq(TextBytes), t # <<>>,
         NEW f, Rewrite(f, x, t, w, 0), NEW k \in 0 .. Len(x), NEW a \in 0 .. k,
         NoneFrom(Starts(x, t), a, k)
  PROVE  Stays(f, x, a, k)
<1>1. PICK l \in Nat, m \in Nat \ {0} : l = Len(x) /\ m = Len(t) /\ k \in 0 .. l
  BY LenProperties, EmptySeq
<1> DEFINE S == {c \in 0 .. k : c >= a /\ f[c] # SubSeq(x, c + 1, k) \o f[k]}
<1>2. SUFFICES ASSUME S # {} PROVE FALSE
  <2>1. a \in 0 .. k /\ a >= a
    OBVIOUS
  <2>2. S = {} => a \notin S
    OBVIOUS
  <2>3. S = {} => f[a] = SubSeq(x, a + 1, k) \o f[k]
    BY <2>1, <2>2
  <2> QED BY <2>3 DEF Stays
<1>3. PICK c \in S : \A j \in S : j <= c
  <2>1. S \in SUBSET (0 .. k) /\ k \in Nat
    BY <1>1
  <2> HIDE DEF S
  <2> QED BY <1>2, <2>1, Greatest
<1>4. c \in 0 .. k /\ c >= a /\ f[c] # SubSeq(x, c + 1, k) \o f[k]
  OBVIOUS
<1>5. \A j \in 0 .. k : j > c => f[j] = SubSeq(x, j + 1, k) \o f[k]
  <2>1. \A j \in 0 .. k : j > c => ~(j <= c) /\ j >= a
    BY <1>4
  <2> QED BY <1>3, <2>1
<1> HIDE DEF S
<1>6. PICK u : u = f[k] /\ u \in Seq(TextBytes)
  BY <1>1, RewriteText
<1>7. CASE c = k
  <2>1. SubSeq(x, c + 1, k) = <<>>
    <3>1. c + 1 > k
      BY <1>1, <1>7
    <3> QED BY <1>1, <1>4, <3>1, SubSeqEmpty
  <2>2. <<>> \o u = u
    BY <1>6, ConcatEmptySeq
  <2> QED BY <1>4, <1>6, <1>7, <2>1, <2>2
<1>8. CASE c # k
  <2>1. PICK d \in Nat : d = c + 1 /\ d <= k /\ d \in 0 .. k /\ d > c /\ d \in 1 .. l /\ c \in 0 .. l /\ c # l
    <3>1. c + 1 \in Nat /\ c + 1 <= k /\ c + 1 \in 0 .. k /\ c + 1 > c /\ c + 1 \in 1 .. l /\ c \in 0 .. l /\ c # l
      BY <1>1, <1>4, <1>8
    <3> QED BY <3>1
  <2>2. ~Occurs(x, t, c)
    <3>1. c \notin Starts(x, t)
      BY <1>4, <2>1 DEF NoneFrom
    <3> QED BY <1>1, <2>1, <3>1 DEF Starts
  <2>3. f[c] = <<x[d]>> \o f[d]
    <3>1. /\ c = l => f[c] = <<>>
          /\ c # l /\ Occurs(x, t, c) => f[c] = w \o f[c + m]
          /\ c # l /\ ~Occurs(x, t, c) => f[c] = <<x[c + 1]>> \o f[c + 1]
      <4>1. RewrittenAt(f, x, t, w, c)
        BY <1>1, <2>1, RewriteAt
      <4> QED BY <1>1, <4>1 DEF RewrittenAt
    <3> QED BY <2>1, <2>2, <3>1
  <2>4. PICK p, q, o : p = <<x[d]>> /\ q = SubSeq(x, d + 1, k) /\ o = SubSeq(x, d, k)
    OBVIOUS
  <2>5. f[d] = q \o u
    BY <1>5, <1>6, <2>1, <2>4
  <2>6. p \in Seq(TextBytes)
    <3>1. PICK v \in TextBytes : v = x[d]
      BY <1>1, <2>1, ElementOfSeq
    <3>2. <<v>> \in Seq(TextBytes)
      OBVIOUS
    <3> QED BY <2>4, <3>1, <3>2
  <2>7. q \in Seq(TextBytes)
    <3>1. PICK e \in Nat \ {0} : e = d + 1 /\ e <= k + 1 /\ k \in Int /\ k <= Len(x)
      <4>1. d + 1 \in Nat \ {0} /\ d + 1 <= k + 1 /\ k \in Int /\ k <= Len(x)
        BY <1>1, <2>1
      <4> QED BY <4>1
    <3> QED BY <2>4, <3>1, PieceIs
  <2>8. o = p \o q
    <3>1. d \in 1 .. Len(x) /\ k \in d .. Len(x)
      BY <1>1, <2>1
    <3>2. SubSeq(x, d, k) = <<x[d]>> \o SubSeq(x, d + 1, k)
      BY <3>1, SubSeqRecursiveFirst
    <3> QED BY <2>4, <3>2
  <2>9. (p \o q) \o u = p \o (q \o u)
    <3>1. u \in Seq(TextBytes)
      BY <1>6
    <3> QED BY <2>6, <2>7, <3>1, ThreeTexts
  <2> QED BY <1>4, <1>6, <2>1, <2>3, <2>4, <2>5, <2>6, <2>8, <2>9
<1> QED BY <1>7, <1>8
----------------------------------------------------------------------------
\* The rounds of String_replace, for a target whose matches lie apart: what is
\* written so far and the rest rewritten are the whole text rewritten.
RewrittenTo(f, b, t, i, r) ==
  /\ RoundOK(r)
  /\ r.cut = r.next /\ r.cut \in 0 .. b.length
  /\ r.cut = 0 \/ r.cut - Len(t) \in Starts(Text(b), t)
  /\ Text(r.out) \o f[r.cut] = f[0]
  /\ r.over => \A j \in Starts(Text(b), t) : j < r.cut
  /\ ~r.over => r.next >= i

\* What is written and what is behind place k are the whole.
Completes(f, o, k) == Text(o) \o f[k] = f[0]

\* What a round adds.
LEMMA RoundText ==
  ASSUME NEW b, Form(b), Text(b) \in Seq(Chars), NEW t \in Words, t # <<>>, NEW w \in Words,
         NEW f, Rewrite(f, Text(b), t, w, 0),
         NEW cut \in Nat, NEW found \in Starts(Text(b), t), cut < found,
         NoneFrom(Starts(Text(b), t), cut, found),
         NEW out, Plain(out), Completes(f, out, cut),
         NEW o, o = String_appendStr(String_appendStr(out, CText(String_subString(b, cut, found - 1).data)), w)
  PROVE  Plain(o) /\ Completes(f, o, found + Len(t))
<1>1. PICK l \in Nat : l = b.length
  BY FormFacts
<1>2. PICK x : x = Text(b) /\ x \in Seq(TextBytes) /\ Len(x) = l /\ x \in Seq(Chars)
  BY <1>1, TextIs
<1>3. t \in Seq(TextBytes) /\ w \in Seq(TextBytes) /\ t # <<>>
  BY WordsAre
<1>4. PICK m \in Nat \ {0} : m = Len(t)
  BY <1>3, EmptySeq
<1>5. found \in Nat /\ found + m <= l /\ found < l /\ Occurs(x, t, found)
  <2>1. found \in Starts(x, t)
    BY <1>2
  <2>2. found \in Nat /\ found + Len(t) <= Len(x) /\ found < Len(x)
    BY <1>2, <1>3, <2>1, MatchFits
  <2>3. Occurs(x, t, found)
    BY <2>1 DEF Starts
  <2> QED BY <1>2, <1>4, <2>2, <2>3
<1>6. PICK j \in Nat : j = found - 1 /\ cut <= j /\ j < l /\ j + 1 = found
  <2>1. found - 1 \in Nat /\ cut <= found - 1 /\ found - 1 < l /\ (found - 1) + 1 = found
    BY <1>5
  <2> QED BY <2>1
<1>7. PICK part : part = String_subString(b, cut, j)
  OBVIOUS
<1>8. PICK p : p = SubSeq(x, cut + 1, found)
  OBVIOUS
<1>9. p \in Seq(Chars) /\ p \in Seq(TextBytes)
  <2>1. PICK i \in Nat \ {0} : i = cut + 1 /\ found \in Int /\ found <= Len(x) /\ i <= found + 1
    <3>1. cut + 1 \in Nat \ {0} /\ found \in Int /\ found <= Len(x) /\ cut + 1 <= found + 1
      BY <1>2, <1>5
    <3> QED BY <3>1
  <2>2. SubSeq(x, i, found) \in Seq(Chars)
    BY <1>2, <2>1, CharsPiece
  <2>3. SubSeq(x, i, found) \in Seq(TextBytes)
    BY <1>2, <2>1, PieceIs
  <2> QED BY <1>8, <2>1, <2>2, <2>3
<1>10. Text(part) = p /\ Form(part)
  <2>1. cut \in {cut, cut - l} /\ j \in {j, j - l}
    OBVIOUS
  <2>2. limit_range(l, cut, j) = <<cut, j>>
    BY <1>6, <2>1, LimitsOf
  <2>3. limit_range(b.length, cut, j) = <<cut, j>> /\ j < b.length /\ cut \in Int /\ j \in Int
    BY <1>1, <1>6, <2>2
  <2>4. Text(String_subString(b, cut, j)) = SubSeq(Text(b), cut + 1, j + 1)
    BY <1>6, <2>3, SubStringText
  <2>5. Plain(part)
    BY <1>7, <2>3, SubStringPlain
  <2> QED BY <1>2, <1>6, <1>7, <1>8, <2>4, <2>5 DEF Plain
<1>11. CText(part.data) = p
  <2>1. Text(part) \in Seq(Chars)
    BY <1>9, <1>10
  <2> QED BY <1>10, <2>1, CTextIsText
<1>12. PICK u : u = String_appendStr(out, p)
  OBVIOUS
<1>13. o = String_appendStr(u, w)
  BY <1>6, <1>7, <1>11, <1>12
<1>14. PICK s : s = Text(out) /\ s \in Seq(TextBytes)
  BY TextIs DEF Plain
<1>15. Plain(u) /\ Text(u) = s \o p
  <2>1. Plain(u)
    BY <1>9, <1>12, AppendStrPlain
  <2>2. Form(out)
    BY DEF Plain
  <2>3. Text(String_appendStr(out, p)) = Text(out) \o p
    BY <1>9, <2>2, AppendText
  <2> QED BY <1>12, <1>14, <2>1, <2>3
<1>16. PICK v : v = Text(u) /\ v \in Seq(TextBytes) /\ v = s \o p
  <2>1. Form(u)
    BY <1>15 DEF Plain
  <2>2. Text(u) \in Seq(TextBytes)
    BY <2>1, TextIs
  <2> QED BY <1>15, <2>2
<1>17. Plain(o) /\ Text(o) = v \o w
  <2>1. Plain(o)
    BY <1>3, <1>13, <1>15, AppendStrPlain
  <2>2. Form(u)
    BY <1>15 DEF Plain
  <2>3. Text(String_appendStr(u, w)) = Text(u) \o w
    BY <1>3, <2>2, AppendText
  <2> QED BY <1>13, <1>16, <2>1, <2>3
<1>18. PICK e \in Nat : e = found + m /\ e <= l
  BY <1>5
<1>19. PICK fe, ff : fe = f[e] /\ ff = f[found] /\ fe \in Seq(TextBytes) /\ ff \in Seq(TextBytes)
  <2>1. Rewrite(f, x, t, w, 0) /\ e \in 0 .. Len(x) /\ found \in 0 .. Len(x)
    BY <1>2, <1>5, <1>18
  <2>2. f[e] \in Seq(TextBytes)
    BY <1>2, <1>3, <2>1, RewriteText
  <2>3. f[found] \in Seq(TextBytes)
    BY <1>2, <1>3, <2>1, RewriteText
  <2> QED BY <2>2, <2>3
<1>20. ff = w \o fe
  <2>1. Rewrite(f, x, t, w, 0) /\ found \in 0 .. Len(x) /\ found # Len(x)
    BY <1>2, <1>5
  <2>2. RewrittenAt(f, x, t, w, found)
    BY <2>1, RewriteAt
  <2> QED BY <1>4, <1>5, <1>18, <1>19, <2>1, <2>2 DEF RewrittenAt
<1>21. f[cut] = p \o ff
  <2>1. Rewrite(f, x, t, w, 0) /\ found \in 0 .. Len(x) /\ cut \in 0 .. found
    BY <1>2, <1>5
  <2>2. NoneFrom(Starts(x, t), cut, found)
    BY <1>2
  <2>3. Stays(f, x, cut, found)
    BY <1>2, <1>3, <2>1, <2>2, RewriteGap
  <2>4. f[cut] = SubSeq(x, cut + 1, found) \o f[found]
    BY <2>3 DEF Stays
  <2> QED BY <1>8, <1>19, <2>4
<1>22. (v \o w) \o fe = v \o ff
  <2>1. (v \o w) \o fe = v \o (w \o fe)
    BY <1>3, <1>16, <1>19, ThreeTexts
  <2> QED BY <1>20, <2>1
<1>23. v \o ff = s \o f[cut]
  <2>1. (s \o p) \o ff = s \o (p \o ff)
    BY <1>9, <1>14, <1>19, ThreeTexts
  <2> QED BY <1>16, <1>21, <2>1
<1>24. Text(o) \o f[found + Len(t)] = f[0]
  <2>1. Text(out) \o f[cut] = f[0]
    BY DEF Completes
  <2> QED BY <1>4, <1>14, <1>17, <1>18, <1>19, <1>22, <1>23, <2>1
<1> QED BY <1>17, <1>24 DEF Completes

\* One round.
LEMMA ReplaceKeeps ==
  ASSUME NEW b, Form(b), Text(b) \in Seq(Chars), NEW t \in Words, t # <<>>, NEW w \in Words,
         Apart(Text(b), t), NEW f, Rewrite(f, Text(b), t, w, 0),
         NEW to \in Nat, to >= b.length - 1, NEW i \in Nat, NEW r, RewrittenTo(f, b, t, i, r)
  PROVE  RewrittenTo(f, b, t, i + 1, ReplaceStep(b, t, w, to, -1, r))
<1>1. PICK l \in Nat : l = b.length
  BY FormFacts
<1>2. PICK x : x = Text(b) /\ x \in Seq(TextBytes) /\ Len(x) = l
  BY <1>1, TextIs
<1>3. t \in Seq(TextBytes) /\ t # <<>>
  BY WordsAre
<1>4. PICK m \in Nat \ {0} : m = Len(t)
  BY <1>3, EmptySeq
<1>5. PICK S : S = Starts(x, t) /\ S = Starts(Text(b), t)
  BY <1>2
<1>6. \A k \in S : k \in Nat /\ 0 < k /\ k + m < l /\ \A j \in S : j <= k \/ j > k + m
  <2>1. \A k \in S : k \in Nat
    BY <1>2, <1>5 DEF Starts
  <2> QED BY <1>2, <1>4, <1>5, <2>1 DEF Apart
<1>7. PICK c \in Nat : c = r.cut /\ c = r.next /\ c <= l
  BY <1>1 DEF RewrittenTo
<1>8. RoundOK(r) /\ (c = 0 \/ c - m \in S) /\ Text(r.out) \o f[c] = f[0]
      /\ (r.over => \A j \in S : j < c) /\ (~r.over => c >= i)
  BY <1>4, <1>5, <1>7 DEF RewrittenTo
<1>9. PICK found : found = String_findNext(b, r.next, t)
  OBVIOUS
<1>10. \/ found = -1 /\ \A j \in S : j < c
       \/ found \in S /\ found \in Nat /\ found >= c /\ \A j \in S : j < c \/ found <= j
  <2>1. c \in 0 .. b.length
    BY <1>1, <1>7
  <2>2. found = FirstPlace(From(x, t, c))
    BY <1>2, <1>3, <1>7, <1>9, <2>1, FindNextIs
  <2> QED BY <1>2, <1>5, <2>2, FirstMatchIs
<1>11. PICK q : q = ReplaceStep(b, t, w, to, -1, r)
  OBVIOUS
<1>12. RoundOK(q)
  <2>1. -1 \in Int
    OBVIOUS
  <2> QED BY <1>8, <1>11, <2>1, RoundKeeps
<1>13. CASE r.over \/ found = -1
  <2>1. q = [r EXCEPT !.over = TRUE]
    BY <1>9, <1>11, <1>13 DEF ReplaceStep
  <2>2. q.out = r.out /\ q.next = r.next /\ q.cut = r.cut /\ q.over = TRUE
    BY <1>8, <2>1 DEF RoundOK
  <2>3. \A j \in S : j < c
    BY <1>8, <1>10, <1>13
  <2>4. r.cut = r.next /\ r.cut \in 0 .. b.length
    BY DEF RewrittenTo
  <2> QED BY <1>4, <1>5, <1>7, <1>8, <1>11, <1>12, <2>2, <2>3, <2>4 DEF RewrittenTo
<1>14. CASE ~(r.over \/ found = -1)
  <2>1. found \in S /\ found \in Nat /\ found >= c /\ \A j \in S : j < c \/ found <= j
    BY <1>10, <1>14
  <2>2. 0 < found /\ found + m < l /\ ~(found >= to)
    <3>1. 0 < found /\ found + m < l
      BY <1>6, <2>1
    <3> QED BY <1>1, <2>1, <3>1
  <2>3. c < found
    <3>1. CASE c = 0
      BY <2>2, <3>1
    <3>2. CASE c # 0
      <4>1. PICK k : k = c - m /\ k \in S
        BY <1>8, <3>2
      <4>2. found <= k \/ found > k + m
        BY <1>6, <2>1, <4>1
      <4>3. k \in Nat /\ k + m = c /\ k < c
        BY <1>6, <4>1
      <4> QED BY <2>1, <4>2, <4>3
    <3> QED BY <3>1, <3>2
  <2>4. PICK o : o = String_appendStr(String_appendStr(r.out, CText(String_subString(b, c, found - 1).data)), w)
    OBVIOUS
  <2>5. Plain(o) /\ Completes(f, o, found + Len(t))
    <3>1. Plain(r.out)
      BY <1>8 DEF RoundOK
    <3>2. found \in Starts(Text(b), t) /\ NoneFrom(Starts(Text(b), t), c, found)
      BY <1>5, <2>1 DEF NoneFrom
    <3>3. Completes(f, r.out, c)
      BY <1>8 DEF Completes
    <3> QED BY <2>3, <2>4, <3>1, <3>2, <3>3, RoundText
  <2>6. PICK e \in Nat : e = found + m /\ e = found + Len(t) /\ e <= l /\ e - m = found
    <3>1. found + m \in Nat /\ found + m <= l /\ (found + m) - m = found
      BY <2>1, <2>2
    <3> QED BY <1>4, <3>1
  <2>7. q = [out |-> o, next |-> e, cut |-> e, count |-> r.count + 1, over |-> -1 > 0 /\ r.count + 1 >= -1]
    <3>1. ~(r.over \/ found = -1 \/ found >= to)
      BY <1>14, <2>2
    <3>2. ReplaceStep(b, t, w, to, -1, r) =
            [out |-> String_appendStr(String_appendStr(r.out, CText(String_subString(b, r.cut, found - 1).data)), w),
             next |-> found + Len(t), cut |-> found + Len(t), count |-> r.count + 1,
             over |-> -1 > 0 /\ r.count + 1 >= -1]
      BY <1>9, <3>1 DEF ReplaceStep
    <3> QED BY <1>7, <1>11, <2>4, <2>6, <3>2
  <2>8. q.out = o /\ q.next = e /\ q.cut = e
    BY <2>7
  <2>9. ~q.over
    <3>1. ~(-1 > 0)
      OBVIOUS
    <3> QED BY <2>7, <3>1
  <2>10. e \in 0 .. b.length /\ e >= i + 1
    BY <1>1, <1>8, <1>14, <2>1, <2>6
  <2>11. e - Len(t) \in Starts(Text(b), t) /\ Text(o) \o f[e] = f[0]
    BY <1>4, <1>5, <2>1, <2>5, <2>6 DEF Completes
  <2> QED BY <1>11, <1>12, <2>8, <2>9, <2>10, <2>11 DEF RewrittenTo
<1> QED BY <1>13, <1>14
\* One byte more.
LEMMA AppendNul ==
  ASSUME NEW d \in Seq(TextBytes), NEW n \in Nat, Len(d) = n
  PROVE  /\ Append(d, NUL) \in Seq(TextBytes) /\ Len(Append(d, NUL)) = n + 1
         /\ \A i \in 1 .. n : Append(d, NUL)[i] = d[i]
<1>1. PICK e : e = Append(d, NUL)
  OBVIOUS
<1>2. e \in Seq(TextBytes) /\ Len(e) = n + 1 /\ \A i \in 1 .. n : e[i] = d[i]
  BY <1>1, AppendProperties DEF TextBytes
<1> QED BY <1>1, <1>2

\* What is behind the last match.
LEMMA RestText ==
  ASSUME NEW b, Form(b), Text(b) \in Seq(Chars), NEW k \in 0 .. b.length, k < b.length \/ b.length = 0
  PROVE  /\ Text(String_subString(b, k, b.length - 1)) = SubSeq(Text(b), k + 1, b.length)
         /\ SubSeq(Text(b), k + 1, b.length) \in Seq(Chars)
         /\ Form(String_subString(b, k, b.length - 1))
<1>1. PICK l \in Nat : l = b.length /\ k \in Nat /\ k <= l
  BY FormFacts
<1>2. PICK x : x = Text(b) /\ x \in Seq(TextBytes) /\ Len(x) = l /\ x \in Seq(Chars)
  BY <1>1, TextIs
<1>3. PICK y : y = SubSeq(x, k + 1, l)
  OBVIOUS
<1>4. y \in Seq(Chars)
  <2>1. PICK i \in Nat \ {0} : i = k + 1 /\ l \in Int /\ l <= Len(x) /\ i <= l + 1
    <3>1. k + 1 \in Nat \ {0} /\ l \in Int /\ l <= Len(x) /\ k + 1 <= l + 1
      BY <1>1, <1>2
    <3> QED BY <3>1
  <2> QED BY <1>2, <1>3, <2>1, CharsPiece
<1>5. PICK j \in Int : j = l - 1 /\ j + 1 = l
  <2>1. l - 1 \in Int /\ (l - 1) + 1 = l
    OBVIOUS
  <2> QED BY <2>1
<1>6. PICK r : r = String_subString(b, k, j) /\ r = String_subString(b, k, b.length - 1)
  BY <1>1, <1>5
<1>7. Form(r)
  <2>1. k \in Int
    BY <1>1
  <2> QED BY <1>6, <2>1, SubStringPlain DEF Plain
<1>8. Text(r) = y
  <2>1. CASE l # 0
    <3>1. j \in Nat /\ k <= j /\ j < l /\ k \in {k, k - l} /\ j \in {j, j - l}
      BY <1>1, <1>5, <2>1
    <3>2. limit_range(l, k, j) = <<k, j>>
      BY <1>1, <3>1, LimitsOf
    <3>3. limit_range(b.length, k, j) = <<k, j>> /\ j < b.length /\ k \in Int
      BY <1>1, <3>1, <3>2
    <3>4. Text(String_subString(b, k, j)) = SubSeq(Text(b), k + 1, j + 1)
      BY <1>1, <3>1, <3>3, SubStringText
    <3> QED BY <1>2, <1>3, <1>5, <1>6, <3>4
  <2>2. CASE l = 0
    <3>1. k = 0 /\ j = -1
      BY <1>1, <1>5, <2>2
    <3>2. y = <<>>
      <4>1. k + 1 \in Int /\ l \in Int /\ l < k + 1
        BY <1>1, <2>2, <3>1
      <4> QED BY <1>3, <4>1, SubSeqEmpty
    <3>3. PICK lim : lim = <<0, 0>> /\ lim[1] = 0 /\ lim[2] = 0
      <4>1. <<0, 0>>[1] = 0 /\ <<0, 0>>[2] = 0
        OBVIOUS
      <4> QED BY <4>1
    <3>4. limit_range(b.length, k, j) = lim
      <4>1. Limited(0, 0) = 0 /\ Limited(0, -1) = 0
        BY DEF Limited, Larger, Smaller
      <4>2. Smaller(0, 0) = 0 /\ Larger(0, 0) = 0
        BY DEF Smaller, Larger
      <4> QED BY <1>1, <2>2, <3>1, <3>3, <4>1, <4>2 DEF limit_range
    <3>5. PICK a : a = b.data /\ a \in Seq(TextBytes) /\ Len(a) = 1 /\ a[1] = NUL
      <4>1. b.data \in Seq(TextBytes) /\ Len(b.data) = l + 1 /\ b.data[l + 1] = NUL
        BY <1>1, FormFacts
      <4>2. l + 1 = 1
        BY <2>2
      <4> QED BY <4>1, <4>2
    <3>6. PICK d : d = SubSeq(a, 1, 1)
      OBVIOUS
    <3>7. d = a
      <4>1. SubSeq(a, 1, Len(a)) = a
        BY <3>5, SubSeqFull
      <4> QED BY <3>5, <3>6, <4>1
    <3>8. PICK e : e = Append(d, NUL)
      OBVIOUS
    <3>9. e \in Seq(TextBytes) /\ Len(e) = 2 /\ e[1] = NUL
      <4>1. d \in Seq(TextBytes) /\ Len(d) = 1 /\ d[1] = NUL
        BY <3>5, <3>7
      <4>2. PICK n \in Nat : n = 1 /\ Len(d) = n
        BY <4>1
      <4>3. /\ Append(d, NUL) \in Seq(TextBytes) /\ Len(Append(d, NUL)) = n + 1
            /\ \A i \in 1 .. n : Append(d, NUL)[i] = d[i]
        BY <4>1, <4>2, AppendNul
      <4> QED BY <3>8, <4>1, <4>2, <4>3
    <3>10. CText(e) = SubSeq(e, 1, 1 - 1)
      <4>1. 1 \in 1 .. Len(e) /\ \A i \in 1 .. 1 - 1 : e[i] # NUL
        BY <3>9
      <4> QED BY <3>9, <4>1, CTextFirst
    <3>11. CText(e) = <<>>
      <4>1. 1 \in Int /\ 1 - 1 \in Int /\ 1 - 1 < 1
        OBVIOUS
      <4>2. SubSeq(e, 1, 1 - 1) = <<>>
        BY <4>1, SubSeqEmpty
      <4> QED BY <3>10, <4>2
    <3>12. r = String_appendStr(String_new, CText(e))
      <4>1. lim[1] + 1 = 1 /\ lim[2] + 1 = 1
        BY <3>3
      <4>2. r = String_appendStr(String_new, CText(Append(SubSeq(b.data, lim[1] + 1, lim[2] + 1), NUL)))
        BY <1>6, <3>4 DEF String_subString
      <4> QED BY <3>5, <3>6, <3>8, <4>1, <4>2
    <3>13. r = String_new
      BY <3>11, <3>12 DEF String_appendStr
    <3> QED BY <3>2, <3>13, NewText
  <2> QED BY <2>1, <2>2
<1> QED BY <1>1, <1>2, <1>3, <1>4, <1>6, <1>7, <1>8

\* Replace starts with nothing written.
LEMMA ReplaceStarts ==
  ASSUME NEW b, Form(b), Text(b) \in Seq(Chars), NEW t \in Words, t # <<>>, NEW w \in Words,
         NEW f, Rewrite(f, Text(b), t, w, 0)
  PROVE  RewrittenTo(f, b, t, 0, [out |-> String_new, next |-> 0, cut |-> 0, count |-> 0, over |-> FALSE])
<1>1. PICK l \in Nat : l = b.length
  BY FormFacts
<1>2. PICK x : x = Text(b) /\ x \in Seq(TextBytes) /\ Len(x) = l
  BY <1>1, TextIs
<1>3. PICK r : r = [out |-> String_new, next |-> 0, cut |-> 0, count |-> 0, over |-> FALSE]
  OBVIOUS
<1>4. RoundOK(r)
  <2>1. PICK o : o = String_new /\ Plain(o) /\ o \in Buffers
    BY NewWhole, WholePlain DEF Form
  <2> QED BY <1>3, <2>1 DEF RoundOK
<1>5. f[0] \in Seq(TextBytes)
  <2>1. 0 \in 0 .. Len(x) /\ t \in Seq(TextBytes) /\ w \in Seq(TextBytes) /\ Rewrite(f, x, t, w, 0)
    BY <1>2, WordsAre
  <2> QED BY <1>2, <2>1, RewriteText
<1>6. Text(r.out) \o f[r.cut] = f[0]
  <2>1. <<>> \o f[0] = f[0]
    BY <1>5, ConcatEmptySeq
  <2> QED BY <1>3, <2>1, NewText
<1>7. r.cut = 0 /\ r.next = 0 /\ ~r.over /\ 0 \in 0 .. b.length
  BY <1>1, <1>3
<1> QED BY <1>3, <1>4, <1>6, <1>7 DEF RewrittenTo

\* After the rounds.
LEMMA AllReplaced ==
  ASSUME NEW b, Form(b), Text(b) \in Seq(Chars), NEW t \in Words, t # <<>>, NEW w \in Words,
         Apart(Text(b), t), NEW f, Rewrite(f, Text(b), t, w, 0),
         NEW to \in Nat, to >= b.length - 1, NEW n \in Nat, NEW g, Rounds(g, b, t, w, 0, to, -1, n)
  PROVE  RewrittenTo(f, b, t, n, g[n])
<1> DEFINE begun == [out |-> String_new, next |-> 0, cut |-> 0, count |-> 0, over |-> FALSE]
<1>1. \A i \in 0 .. n : g[i] = IF i = 0 THEN begun ELSE ReplaceStep(b, t, w, to, -1, g[i - 1])
  BY DEF Rounds
<1>2. RewrittenTo(f, b, t, 0, begun)
  BY ReplaceStarts
<1> HIDE DEF begun
<1> DEFINE B == {i \in 0 .. n : ~RewrittenTo(f, b, t, i, g[i])}
<1>3. B = {}
  <2>1. SUFFICES ASSUME B # {} PROVE FALSE
    OBVIOUS
  <2>2. PICK i \in B : \A j \in B : i <= j
    <3>1. B \in SUBSET Nat
      OBVIOUS
    <3> HIDE DEF B
    <3> QED BY <2>1, <3>1, Least
  <2>3. i \in 0 .. n /\ ~RewrittenTo(f, b, t, i, g[i])
    OBVIOUS
  <2>4. i # 0
    BY <1>1, <1>2, <2>3
  <2>5. PICK j \in Nat : j = i - 1 /\ j \in 0 .. n /\ ~(i <= j) /\ i = j + 1
    <3>1. i - 1 \in Nat /\ i - 1 \in 0 .. n /\ ~(i <= i - 1) /\ i = (i - 1) + 1
      BY <2>3, <2>4
    <3> QED BY <3>1
  <2>6. RewrittenTo(f, b, t, j, g[j])
    BY <2>2, <2>5
  <2>7. RewrittenTo(f, b, t, j + 1, ReplaceStep(b, t, w, to, -1, g[j]))
    BY <2>6, ReplaceKeeps
  <2>8. g[i] = ReplaceStep(b, t, w, to, -1, g[j])
    BY <1>1, <2>3, <2>4, <2>5
  <2> QED BY <2>3, <2>5, <2>7, <2>8
<1> QED BY <1>3
\* String_replace of matches that lie apart.
LEMMA ReplaceText ==
  ASSUME NEW b, Whole(b), Text(b) \in Seq(Chars), NEW t \in Words, t # <<>>, NEW w \in Words,
         Apart(Text(b), t)
  PROVE  Text(String_replace(b, t, w, 0, -1, -1)) = Replacing(Text(b), t, w)
<1>1. Form(b)
  BY WholePlain
<1>2. PICK l \in Nat : l = b.length
  BY <1>1, FormFacts
<1>3. PICK x : x = Text(b) /\ x \in Seq(TextBytes) /\ Len(x) = l /\ x \in Seq(Chars)
  BY <1>1, <1>2, TextIs
<1>4. t \in Seq(TextBytes) /\ w \in Seq(TextBytes) /\ w \in Seq(Chars)
  BY WordsAre, StringsAssumption
<1>5. PICK f : f = CHOOSE h : Rewrite(h, x, t, w, 0)
  OBVIOUS
<1>6. Rewrite(f, x, t, w, 0)
  <2>1. 0 \in 0 .. Len(x)
    BY <1>3
  <2> QED BY <1>3, <1>4, <1>5, <2>1, RewriteExists
<1>7. Replacing(x, t, w) = f[0]
  BY <1>5 DEF Replacing, Rewrite
<1>8. PICK whole : whole = f[0] /\ whole \in Seq(Chars) /\ whole \in Seq(TextBytes)
  <2>1. 0 \in 0 .. Len(x)
    BY <1>3
  <2>2. f[0] \in Seq(Chars)
    BY <1>3, <1>4, <1>6, <2>1, RewriteText
  <2>3. f[0] \in Seq(TextBytes)
    BY <1>3, <1>4, <1>6, <2>1, RewriteText
  <2> QED BY <2>2, <2>3
<1>9. PICK to \in Nat : limit_range(l, 0, -1) = <<0, to>> /\ to >= l - 1
  <2>1. CASE l = 0
    <3>1. Limited(0, 0) = 0 /\ Limited(0, -1) = 0
      BY DEF Limited, Larger, Smaller
    <3>2. Smaller(0, 0) = 0 /\ Larger(0, 0) = 0
      BY DEF Smaller, Larger
    <3>3. limit_range(l, 0, -1) = <<0, 0>>
      BY <2>1, <3>1, <3>2 DEF limit_range
    <3>4. 0 \in Nat /\ 0 >= l - 1
      BY <2>1
    <3> QED BY <3>3, <3>4
  <2>2. CASE l # 0
    <3>1. PICK j \in Nat : j = l - 1 /\ j < l /\ 0 <= j /\ j >= l - 1 /\ -1 = j - l
      <4>1. l - 1 \in Nat /\ l - 1 < l /\ 0 <= l - 1 /\ l - 1 >= l - 1 /\ -1 = (l - 1) - l
        BY <2>2
      <4> QED BY <4>1
    <3>2. 0 \in Nat /\ 0 \in {0, 0 - l} /\ -1 \in {j, j - l}
      BY <3>1
    <3>3. limit_range(l, 0, -1) = <<0, j>>
      BY <3>1, <3>2, LimitsOf
    <3> QED BY <3>1, <3>3
  <2> QED BY <2>1, <2>2
<1>10. PICK lim : lim = <<0, to>> /\ lim[1] = 0 /\ lim[2] = to
  <2>1. <<0, to>>[1] = 0 /\ <<0, to>>[2] = to
    OBVIOUS
  <2> QED BY <2>1
<1>11. PICK n \in Nat : n = l + 1
  OBVIOUS
<1>12. PICK g : g = CHOOSE h : Rounds(h, b, t, w, lim[1], lim[2], -1, n)
  OBVIOUS
<1>13. Rounds(g, b, t, w, 0, to, -1, n)
  BY <1>10, <1>12, RoundsExist
<1>14. PICK r : r = g[n] /\ RewrittenTo(f, b, t, n, r)
  <2>1. to >= b.length - 1 /\ Rewrite(f, Text(b), t, w, 0)
    BY <1>2, <1>3, <1>6, <1>9
  <2>2. RewrittenTo(f, b, t, n, g[n])
    BY <1>1, <1>13, <2>1, AllReplaced
  <2> QED BY <2>2
<1>15. PICK k \in Nat : k = r.cut /\ k = r.next /\ k \in 0 .. l
  BY <1>2, <1>14 DEF RewrittenTo
<1>16. PICK S : S = Starts(x, t) /\ S = Starts(Text(b), t) /\ S \in SUBSET Nat
  <2>1. Starts(x, t) \in SUBSET Nat
    BY <1>3 DEF Starts
  <2> QED BY <1>3, <2>1
<1>17. \A j \in S : j < k
  <2>1. CASE r.over
    BY <1>14, <1>15, <1>16, <2>1 DEF RewrittenTo
  <2>2. CASE ~r.over
    <3>1. k >= n
      BY <1>14, <1>15, <2>2 DEF RewrittenTo
    <3> QED BY <1>11, <1>15, <3>1
  <2> QED BY <2>1, <2>2
<1>18. k < l \/ l = 0
  <2>1. k = 0 \/ k - Len(t) \in S
    BY <1>14, <1>15, <1>16 DEF RewrittenTo
  <2>2. CASE k = 0
    BY <2>2
  <2>3. CASE k - Len(t) \in S
    <3>1. (k - Len(t)) + Len(t) < Len(x)
      BY <1>3, <1>16, <2>3 DEF Apart
    <3>2. Len(t) \in Nat
      BY <1>4, LenProperties
    <3>3. PICK m \in Nat : m = Len(t)
      BY <3>2
    <3>4. (k - m) + m = k
      OBVIOUS
    <3> QED BY <1>3, <3>1, <3>3, <3>4
  <2> QED BY <2>1, <2>2, <2>3
<1>19. PICK rest, y : rest = String_subString(b, k, l - 1) /\ y = SubSeq(x, k + 1, l)
  OBVIOUS
<1>20. Text(rest) = y /\ y \in Seq(Chars) /\ Form(rest)
  <2>1. k \in 0 .. b.length /\ (k < b.length \/ b.length = 0)
    BY <1>2, <1>15, <1>18
  <2> QED BY <1>1, <1>2, <1>3, <1>19, <2>1, RestText
<1>21. CText(rest.data) = y /\ y \in Seq(TextBytes)
  <2>1. CText(rest.data) = Text(rest)
    BY <1>20, CTextIsText
  <2>2. y \in Seq(TextBytes)
    BY <1>20, CTextChars
  <2> QED BY <1>20, <2>1, <2>2
<1>22. f[k] = y
  <2>1. t # <<>> /\ l \in 0 .. Len(x) /\ k \in 0 .. l
    BY <1>3, <1>15
  <2>2. NoneFrom(Starts(x, t), k, l)
    BY <1>16, <1>17 DEF NoneFrom
  <2>3. Stays(f, x, k, l)
    BY <1>3, <1>4, <1>6, <2>1, <2>2, RewriteGap
  <2>4. f[l] = <<>>
    <3>1. RewrittenAt(f, x, t, w, l)
      BY <1>6, <2>1, RewriteAt
    <3> QED BY <1>3, <3>1 DEF RewrittenAt
  <2>5. y \o <<>> = y
    BY <1>21, ConcatEmptySeq
  <2> QED BY <1>19, <2>3, <2>4, <2>5 DEF Stays
<1>23. Plain(r.out) /\ Form(r.out) /\ Text(r.out) \o f[k] = whole
  BY <1>8, <1>14, <1>15 DEF RewrittenTo, RoundOK, Plain
<1>24. PICK o : o = String_appendStr(r.out, CText(rest.data))
  OBVIOUS
<1>25. Text(o) = whole /\ Form(o)
  <2>1. Text(String_appendStr(r.out, y)) = Text(r.out) \o y
    BY <1>21, <1>23, AppendText
  <2>2. Plain(String_appendStr(r.out, y))
    BY <1>21, <1>23, AppendStrPlain
  <2> QED BY <1>21, <1>22, <1>23, <1>24, <2>1, <2>2 DEF Plain
<1>26. CText(o.data) = whole
  <2>1. Text(o) \in Seq(Chars)
    BY <1>8, <1>25
  <2> QED BY <1>25, <2>1, CTextIsText
<1>27. String_replace(b, t, w, 0, -1, -1) = String_set(b, whole)
  <2>1. g = CHOOSE h : h = [i \in 0 .. b.length + 1 |->
                              IF i = 0
                              THEN [out |-> String_new, next |-> lim[1], cut |-> 0, count |-> 0, over |-> FALSE]
                              ELSE ReplaceStep(b, t, w, lim[2], -1, h[i - 1])]
    BY <1>2, <1>11, <1>12 DEF Rounds
  <2>2. lim = limit_range(b.length, 0, -1)
    BY <1>2, <1>9, <1>10
  <2>3. r = g[b.length + 1] /\ rest = String_subString(b, r.cut, b.length - 1)
    BY <1>2, <1>11, <1>14, <1>15, <1>19
  <2>4. ~(t = <<>> \/ -1 = 0)
    OBVIOUS
  <2>5. String_replace(b, t, w, 0, -1, -1) = String_set(b, CText(o.data))
    BY <2>1, <2>2, <2>3, <2>4, <1>24 DEF String_replace
  <2> QED BY <1>26, <2>5
<1>28. Text(String_set(b, whole)) = whole
  BY <1>8, SetText
<1> QED BY <1>3, <1>7, <1>8, <1>27, <1>28

\* What the application may expect of every call.
LEMMA CallsOK ==
  ASSUME StringsInv, NEW s \in Strings, Sound(s), NUL \notin Range(Text(buf[s]))
  PROVE  /\ EditsAgree(buf[s], Text(buf[s]))
         /\ OwnAgrees(buf[s], Text(buf[s]))
         /\ RewritesAgree(buf[s], Text(buf[s]))
         /\ SearchesAgree(buf[s], Text(buf[s]))
<1>1. PICK b : b = buf[s] /\ Whole(b) /\ Form(b)
  BY SoundWhole, WholePlain
<1>2. Text(b) \in Seq(Chars)
  <2>1. Text(b) \in Seq(TextBytes)
    BY <1>1, TextIs
  <2> QED BY <1>1, <2>1, NoNul
<1>3. EditsAgree(b, Text(b))
  BY <1>1, <1>2, EditsOK
<1>4. SearchesAgree(b, Text(b))
  BY <1>1, <1>2, StringsAssumption, CharsAssumption, SearchesOK
<1>5. Text(String_trim(b)) = RightOf(LeftOf(Text(b)))
  BY <1>1, <1>2, TrimText
<1>6. ASSUME NEW t \in Words, NEW w \in Words, t # <<>>, Apart(Text(b), t)
      PROVE  Gives(String_replace(b, t, w, 0, -1, -1), Replacing(Text(b), t, w))
  <2>1. Text(String_replace(b, t, w, 0, -1, -1)) = Replacing(Text(b), t, w)
    BY <1>1, <1>2, <1>6, ReplaceText
  <2> QED BY <2>1 DEF Gives
<1>7. RewritesAgree(b, Text(b))
  BY <1>5, <1>6 DEF RewritesAgree
<1>8. OwnAgrees(b, Text(b))
  BY <1>1, <1>2, OwnOK
<1> QED BY <1>1, <1>3, <1>4, <1>7, <1>8

(* Every call of string.h on a text without a NUL inside gives what its     *)
(* name says: the edits, the cuts, the searches, and replace where no match *)
(* lies at an end or next to another one. prependArr stays inside exactly   *)
(* where there is room, and a string's own data may be appended as long as  *)
(* it fits.                                                                 *)
THEOREM CallsCorrect == StringsSpec => []CallsAgree
<1>1. StringsInit => StringsInv
  BY DEF StringsInit, StringsInv, Alive
<1>2. StringsInv => CallsAgree
  BY CallsOK DEF CallsAgree
<1> QED BY <1>1, <1>2, StringsKeep, PTL DEF StringsSpec
=============================================================================
