------------------------------ MODULE TimerProof ------------------------------
(* The queue of timer.h stays one sorted list, and the activations on the   *)
(* stack hold timers they may go on with, for any timers, delays and        *)
(* lengths of a day; no timer is taken early, and a cancellation is final.  *)
EXTENDS TimerEntries, ListLemmas

(* The timers of Q are numbered along nx from hd, with no gap, and no       *)
(* number before another has the later time.                                *)
Numbered(p, Q, hd, tm, nx) ==
  /\ p \in [Q -> 1 .. Cardinality(Q)]
  /\ hd = NULL <=> Q = {}
  /\ hd # NULL => hd \in Q /\ p[hd] = 1
  /\ \A x, y \in Q : p[x] = p[y] => x = y
  /\ \A x, y \in Q : p[x] < p[y] => tm[x] <= tm[y]
  /\ \A x \in Q : IF p[x] = Cardinality(Q) THEN nx[x] = NULL
                  ELSE nx[x] \in Q /\ p[nx[x]] = p[x] + 1
Sorted(Q, hd, tm, nx) == \E p \in [Q -> 1 .. Cardinality(Q)] : Numbered(p, Q, hd, tm, nx)

(* A walk along the queue stays in it; its head is due first.               *)
LEMMA SortedFacts ==
  ASSUME NEW Q \in SUBSET Timers, NEW hd, NEW tm \in [Timers -> Nat], NEW nx,
         Sorted(Q, hd, tm, nx)
  PROVE  /\ hd \in Q \cup {NULL} /\ (hd = NULL <=> Q = {})
         /\ \A x \in Q : nx[x] \in Q \cup {NULL}
         /\ \A x \in Q : tm[hd] <= tm[x]
<1>1. PICK p : Numbered(p, Q, hd, tm, nx)
  BY DEF Sorted
<1>2. hd \in Q \cup {NULL} /\ (hd = NULL <=> Q = {})
  BY <1>1 DEF Numbered
<1>3. \A x \in Q : nx[x] \in Q \cup {NULL}
  BY <1>1 DEF Numbered
<1>4. ASSUME NEW x \in Q PROVE tm[hd] <= tm[x]
  <2>1. hd \in Q /\ p[hd] = 1
    BY <1>1 DEF Numbered
  <2>2. p[x] \in 1 .. Cardinality(Q) /\ IsFiniteSet(Q)
    BY <1>1, TimerAssumption, FS_Subset DEF Numbered
  <2>3. Cardinality(Q) \in Nat
    BY <2>2, FS_CardinalityType
  <2>4. CASE p[x] = 1
    <3>1. x = hd
      BY <2>1, <2>4, <1>1 DEF Numbered
    <3>2. tm[x] \in Nat
      OBVIOUS
    <3> QED BY <3>1, <3>2
  <2>5. CASE p[x] # 1
    <3>1. p[hd] < p[x]
      BY <2>1, <2>2, <2>3, <2>5
    <3> QED BY <2>1, <3>1, <1>1 DEF Numbered
  <2> QED BY <2>4, <2>5
<1> QED BY <1>2, <1>3, <1>4

(* A timer in an empty queue.                                               *)
LEMMA InsertEmpty ==
  ASSUME NEW t \in Timers, NEW tm, NEW nx, nx[t] = NULL
  PROVE  Sorted({t}, t, tm, nx)
<1>1. Cardinality({t}) = 1
  <2>1. IsFiniteSet({}) /\ Cardinality({}) = 0
    BY FS_EmptySet
  <2>2. Cardinality({} \cup {t}) = 0 + 1
    BY <2>1, FS_AddElement
  <2> QED BY <2>2
<1> DEFINE p == [x \in {t} |-> 1]
<1>2. p \in [{t} -> 1 .. Cardinality({t})]
  BY <1>1
<1>3. Numbered(p, {t}, t, tm, nx)
  BY <1>1, <1>2, TimerAssumption DEF Numbered
<1> QED BY <1>2, <1>3 DEF Sorted

(* A timer before the head, which is due later.                             *)
LEMMA InsertHead ==
  ASSUME NEW Q \in SUBSET Timers, NEW hd \in Q, NEW t \in Timers \ Q,
         NEW tm \in [Timers -> Nat], NEW nx \in [Timers -> Timers \cup {NULL}],
         NEW due \in Nat, due < tm[hd], Sorted(Q, hd, tm, nx)
  PROVE  Sorted(Q \cup {t}, t, [tm EXCEPT ![t] = due], [nx EXCEPT ![t] = hd])
<1>1. PICK p : Numbered(p, Q, hd, tm, nx)
  BY DEF Sorted
<1> DEFINE n == Cardinality(Q)
           R == Q \cup {t}
           q == [x \in R |-> IF x = t THEN 1 ELSE p[x] + 1]
           tm2 == [tm EXCEPT ![t] = due]
           nx2 == [nx EXCEPT ![t] = hd]
<1>2. IsFiniteSet(Q)
  BY TimerAssumption, FS_Subset
<1>3. n \in Nat /\ Cardinality(R) = n + 1
  BY <1>2, FS_CardinalityType, FS_AddElement
<1>4. \A x \in Q : p[x] \in 1 .. n /\ p[x] \in Nat /\ p[x] >= 1 /\ p[x] <= n /\ x # t
  BY <1>1, <1>3 DEF Numbered
<1>5. hd # NULL /\ p[hd] = 1 /\ n >= 1
  BY <1>1, <1>3, <1>4, TimerAssumption DEF Numbered
<1>6. q[t] = 1 /\ \A x \in Q : q[x] = p[x] + 1
  BY <1>4
<1>7. tm2[t] = due /\ \A x \in Q : tm2[x] = tm[x] /\ tm[x] \in Nat
  BY <1>4
<1>8. nx2[t] = hd /\ \A x \in Q : nx2[x] = nx[x]
  BY <1>4
<1>9. q \in [R -> 1 .. n + 1]
  BY <1>3, <1>4
<1> HIDE DEF q, tm2, nx2, n
<1>10. t # NULL /\ R # {} /\ t \in R
  BY TimerAssumption
<1>11. \A x, y \in R : q[x] = q[y] => x = y
  <2> SUFFICES ASSUME NEW x \in R, NEW y \in R, q[x] = q[y] PROVE x = y
    OBVIOUS
  <2>1. CASE x = t
    BY <2>1, <1>4, <1>6
  <2>2. CASE y = t
    BY <2>2, <1>4, <1>6
  <2>3. CASE x # t /\ y # t
    <3>1. x \in Q /\ y \in Q /\ p[x] = p[y]
      BY <2>3, <1>4, <1>6
    <3> QED BY <3>1, <1>1 DEF Numbered
  <2> QED BY <2>1, <2>2, <2>3
<1>12. \A x, y \in R : q[x] < q[y] => tm2[x] <= tm2[y]
  <2> SUFFICES ASSUME NEW x \in R, NEW y \in R, q[x] < q[y] PROVE tm2[x] <= tm2[y]
    OBVIOUS
  <2>1. y \in Q
    BY <1>4, <1>6
  <2>2. CASE x = t
    <3>1. tm[hd] <= tm[y]
      BY <2>1, SortedFacts
    <3> QED BY <2>1, <2>2, <3>1, <1>7
  <2>3. CASE x # t
    <3>1. x \in Q /\ p[x] < p[y]
      BY <2>1, <2>3, <1>4, <1>6
    <3>2. tm[x] <= tm[y]
      BY <2>1, <3>1, <1>1 DEF Numbered
    <3> QED BY <2>1, <3>1, <3>2, <1>7
  <2> QED BY <2>2, <2>3
<1>13. ASSUME NEW x \in R
       PROVE  IF q[x] = n + 1 THEN nx2[x] = NULL ELSE nx2[x] \in R /\ q[nx2[x]] = q[x] + 1
  <2>1. CASE x = t
    BY <2>1, <1>3, <1>5, <1>6, <1>8
  <2>2. CASE x # t
    <3>1. x \in Q /\ nx2[x] = nx[x] /\ q[x] = p[x] + 1 /\ p[x] \in Nat
      BY <2>2, <1>4, <1>6, <1>8
    <3>2. IF p[x] = n THEN nx[x] = NULL ELSE nx[x] \in Q /\ p[nx[x]] = p[x] + 1
      BY <3>1, <1>1 DEF Numbered, n
    <3> QED BY <3>1, <3>2, <1>3, <1>6
  <2> QED BY <2>1, <2>2
<1>14. Numbered(q, R, t, tm2, nx2)
  BY <1>3, <1>6, <1>9, <1>10, <1>11, <1>12, <1>13 DEF Numbered
<1> QED BY <1>3, <1>9, <1>14 DEF Sorted, tm2, nx2

(* A timer behind pre, which is due no later, and before the next, which is *)
(* due later.                                                               *)
LEMMA InsertAfter ==
  ASSUME NEW Q \in SUBSET Timers, NEW hd, NEW t \in Timers \ Q, NEW pre \in Q,
         NEW tm \in [Timers -> Nat], NEW nx \in [Timers -> Timers \cup {NULL}],
         NEW due \in Nat, tm[pre] <= due, nx[pre] # NULL => due < tm[nx[pre]],
         Sorted(Q, hd, tm, nx)
  PROVE  Sorted(Q \cup {t}, hd, [tm EXCEPT ![t] = due],
                [nx EXCEPT ![t] = nx[pre], ![pre] = t])
<1>1. PICK p : Numbered(p, Q, hd, tm, nx)
  BY DEF Sorted
<1> DEFINE n == Cardinality(Q)
           R == Q \cup {t}
           k == p[pre]
           q == [x \in R |-> IF x = t THEN k + 1 ELSE IF p[x] > k THEN p[x] + 1 ELSE p[x]]
           tm2 == [tm EXCEPT ![t] = due]
           nx2 == [nx EXCEPT ![t] = nx[pre], ![pre] = t]
<1>2. IsFiniteSet(Q)
  BY TimerAssumption, FS_Subset
<1>3. n \in Nat /\ Cardinality(R) = n + 1
  BY <1>2, FS_CardinalityType, FS_AddElement
<1>4. \A x \in Q : p[x] \in Nat /\ p[x] >= 1 /\ p[x] <= n /\ x # t
  BY <1>1, <1>3 DEF Numbered
<1>5. k \in Nat /\ k >= 1 /\ k <= n
  BY <1>4
<1>6. /\ q[t] = k + 1
      /\ \A x \in Q : q[x] = IF p[x] > k THEN p[x] + 1 ELSE p[x]
  BY <1>4
<1>7. tm2[t] = due /\ \A x \in Q : tm2[x] = tm[x] /\ tm[x] \in Nat
  BY <1>4
<1>8. /\ nx2[t] = nx[pre] /\ nx2[pre] = t
      /\ \A x \in Q : x # pre => nx2[x] = nx[x]
  BY <1>4
<1>9. q \in [R -> 1 .. n + 1]
  <2>1. \A x \in R : q[x] \in 1 .. n + 1
    BY <1>3, <1>4, <1>5, <1>6
  <2> QED BY <2>1
<1>10. \A x \in Q : IF p[x] = n THEN nx[x] = NULL ELSE nx[x] \in Q /\ p[nx[x]] = p[x] + 1
  BY <1>1 DEF Numbered
<1>11. \A x, y \in Q : p[x] = p[y] => x = y
  BY <1>1 DEF Numbered
<1>12. \A x, y \in Q : p[x] < p[y] => tm[x] <= tm[y]
  BY <1>1 DEF Numbered
<1>13. hd # NULL /\ hd \in Q /\ p[hd] = 1
  BY <1>1 DEF Numbered
<1>14. p[pre] = k
  OBVIOUS
<1> HIDE DEF q, tm2, nx2, n, k
<1>15. \A x, y \in R : q[x] = q[y] => x = y
  <2> SUFFICES ASSUME NEW x \in R, NEW y \in R, q[x] = q[y] PROVE x = y
    OBVIOUS
  <2>1. CASE x = t \/ y = t
    BY <2>1, <1>4, <1>5, <1>6
  <2>2. CASE x # t /\ y # t
    <3>1. x \in Q /\ y \in Q /\ p[x] = p[y]
      BY <2>2, <1>4, <1>5, <1>6
    <3> QED BY <3>1, <1>11
  <2> QED BY <2>1, <2>2
<1>16. \A x, y \in R : q[x] < q[y] => tm2[x] <= tm2[y]
  <2> SUFFICES ASSUME NEW x \in R, NEW y \in R, q[x] < q[y] PROVE tm2[x] <= tm2[y]
    OBVIOUS
  <2>1. CASE x = t
    <3>1. y \in Q /\ p[y] > k
      BY <2>1, <1>4, <1>5, <1>6
    <3>2. nx[pre] \in Q /\ p[nx[pre]] = k + 1 /\ nx[pre] # NULL
      BY <3>1, <1>4, <1>5, <1>10, <1>14, TimerAssumption
    <3>3. tm[nx[pre]] <= tm[y]
      <4>1. CASE p[nx[pre]] = p[y]
        <5>1. nx[pre] = y
          BY <4>1, <3>1, <3>2, <1>11
        <5>2. tm[y] \in Nat
          BY <3>1, <1>7
        <5> QED BY <5>1, <5>2
      <4>2. CASE p[nx[pre]] # p[y]
        <5>1. p[nx[pre]] < p[y]
          BY <4>2, <3>1, <3>2, <1>4, <1>5
        <5> QED BY <5>1, <3>1, <3>2, <1>12
      <4> QED BY <4>1, <4>2
    <3>4. tm[nx[pre]] \in Nat /\ tm[y] \in Nat /\ due < tm[nx[pre]]
      BY <3>1, <3>2, <1>7
    <3>5. due <= tm[y]
      BY <3>3, <3>4
    <3> QED BY <2>1, <3>1, <3>5, <1>7
  <2>2. CASE y = t
    <3>1. x \in Q /\ p[x] <= k
      BY <2>2, <1>4, <1>5, <1>6
    <3>2. tm[x] <= tm[pre]
      <4>1. CASE p[x] = k
        BY <4>1, <3>1, <1>11, <1>14, <1>7
      <4>2. CASE p[x] # k
        <5>1. p[x] < p[pre]
          BY <4>2, <3>1, <1>4, <1>5, <1>14
        <5> QED BY <5>1, <3>1, <1>12
      <4> QED BY <4>1, <4>2
    <3>3. tm[x] \in Nat /\ tm[pre] \in Nat
      BY <3>1, <1>7
    <3>4. tm[x] <= due
      BY <3>2, <3>3
    <3> QED BY <2>2, <3>1, <3>4, <1>7
  <2>3. CASE x # t /\ y # t
    <3>1. x \in Q /\ y \in Q /\ p[x] < p[y]
      BY <2>3, <1>4, <1>5, <1>6
    <3> QED BY <3>1, <1>7, <1>12
  <2> QED BY <2>1, <2>2, <2>3
<1>17. ASSUME NEW x \in R
       PROVE  IF q[x] = n + 1 THEN nx2[x] = NULL ELSE nx2[x] \in R /\ q[nx2[x]] = q[x] + 1
  <2>1. CASE x = t
    <3>1. q[x] = k + 1 /\ nx2[x] = nx[pre]
      BY <2>1, <1>6, <1>8
    <3>2. IF k = n THEN nx[pre] = NULL ELSE nx[pre] \in Q /\ p[nx[pre]] = k + 1
      BY <1>10, <1>14
    <3>3. k # n => q[nx[pre]] = k + 1 + 1
      BY <3>2, <1>5, <1>6
    <3> QED BY <3>1, <3>2, <3>3, <1>3, <1>5
  <2>2. CASE x = pre
    <3>1. q[x] = k /\ nx2[x] = t /\ q[t] = k + 1
      BY <2>2, <1>5, <1>6, <1>8, <1>14
    <3> QED BY <3>1, <1>3, <1>5
  <2>3. CASE x # t /\ x # pre
    <3>1. x \in Q /\ nx2[x] = nx[x] /\ p[x] \in Nat /\ p[x] <= n /\ p[x] # k
      BY <2>3, <1>4, <1>8, <1>11, <1>14
    <3>2. IF p[x] = n THEN nx[x] = NULL ELSE nx[x] \in Q /\ p[nx[x]] = p[x] + 1
      BY <3>1, <1>10
    <3>3. CASE p[x] > k
      <4>1. q[x] = p[x] + 1 /\ (p[x] # n => q[nx[x]] = p[x] + 1 + 1)
        BY <3>1, <3>2, <3>3, <1>5, <1>6
      <4> QED BY <3>1, <3>2, <4>1, <1>3
    <3>4. CASE p[x] < k
      <4>1. q[x] = p[x] /\ p[x] # n /\ q[nx[x]] = p[x] + 1
        BY <3>1, <3>2, <3>4, <1>3, <1>5, <1>6
      <4> QED BY <3>1, <3>2, <4>1, <1>3
    <3> QED BY <3>1, <3>3, <3>4, <1>5
  <2> QED BY <2>1, <2>2, <2>3
<1>18. q[hd] = 1
  BY <1>5, <1>6, <1>13
<1>19. Numbered(q, R, hd, tm2, nx2)
  BY <1>3, <1>9, <1>13, <1>15, <1>16, <1>17, <1>18 DEF Numbered
<1> QED BY <1>3, <1>9, <1>19 DEF Sorted, tm2, nx2

(* The head goes, and the next becomes the head.                            *)
LEMMA RemoveHead ==
  ASSUME NEW Q \in SUBSET Timers, NEW hd \in Q,
         NEW tm \in [Timers -> Nat], NEW nx \in [Timers -> Timers \cup {NULL}],
         Sorted(Q, hd, tm, nx)
  PROVE  Sorted(Q \ {hd}, nx[hd], [tm EXCEPT ![hd] = 0], [nx EXCEPT ![hd] = NULL])
<1>1. PICK p : Numbered(p, Q, hd, tm, nx)
  BY DEF Sorted
<1> DEFINE n == Cardinality(Q)
           R == Q \ {hd}
           q == [x \in R |-> p[x] - 1]
           tm2 == [tm EXCEPT ![hd] = 0]
           nx2 == [nx EXCEPT ![hd] = NULL]
<1>2. IsFiniteSet(Q)
  BY TimerAssumption, FS_Subset
<1>3. n \in Nat /\ Cardinality(R) = n - 1
  BY <1>2, FS_CardinalityType, FS_RemoveElement
<1>4. \A x \in Q : p[x] \in Nat /\ p[x] >= 1 /\ p[x] <= n
  BY <1>1, <1>3 DEF Numbered
<1>5. \A x, y \in Q : p[x] = p[y] => x = y
  BY <1>1 DEF Numbered
<1>6. hd # NULL /\ p[hd] = 1 /\ n >= 1
  BY <1>1, <1>4, <1>3, TimerAssumption DEF Numbered
<1>7. \A x \in Q : IF p[x] = n THEN nx[x] = NULL ELSE nx[x] \in Q /\ p[nx[x]] = p[x] + 1
  BY <1>1 DEF Numbered
<1>8. \A x, y \in Q : p[x] < p[y] => tm[x] <= tm[y]
  BY <1>1 DEF Numbered
<1>9. \A x \in R : x \in Q /\ q[x] = p[x] - 1 /\ tm2[x] = tm[x] /\ nx2[x] = nx[x]
  OBVIOUS
<1>10. \A x \in R : p[x] >= 2
  <2> SUFFICES ASSUME NEW x \in R PROVE p[x] >= 2
    OBVIOUS
  <2>1. p[x] # 1
    BY <1>5, <1>6
  <2> QED BY <2>1, <1>4
<1>11. q \in [R -> 1 .. n - 1]
  <2>1. \A x \in R : q[x] \in 1 .. n - 1
    BY <1>3, <1>4, <1>9, <1>10
  <2> QED BY <2>1
<1> HIDE DEF q, tm2, nx2, n
<1>12. /\ nx[hd] = NULL <=> R = {}
       /\ nx[hd] # NULL => nx[hd] \in R /\ q[nx[hd]] = 1
  <2>1. CASE n = 1
    <3>1. nx[hd] = NULL
      BY <2>1, <1>6, <1>7
    <3>2. R = {}
      BY <2>1, <1>3, <1>4, <1>9, <1>10
    <3> QED BY <3>1, <3>2
  <2>2. CASE n # 1
    <3>1. nx[hd] \in Q /\ p[nx[hd]] = 1 + 1
      BY <2>2, <1>6, <1>7
    <3>2. nx[hd] # hd /\ nx[hd] # NULL
      BY <3>1, <1>6, TimerAssumption
    <3>3. nx[hd] \in R
      BY <3>1, <3>2
    <3>4. q[nx[hd]] = 1
      BY <3>1, <3>3, <1>9
    <3> QED BY <3>2, <3>3, <3>4
  <2> QED BY <2>1, <2>2
<1>13. \A x, y \in R : q[x] = q[y] => x = y
  BY <1>4, <1>5, <1>9
<1>14. \A x, y \in R : q[x] < q[y] => tm2[x] <= tm2[y]
  BY <1>4, <1>8, <1>9
<1>15. ASSUME NEW x \in R
       PROVE  IF q[x] = n - 1 THEN nx2[x] = NULL ELSE nx2[x] \in R /\ q[nx2[x]] = q[x] + 1
  <2>1. x \in Q /\ p[x] \in Nat /\ p[x] >= 2 /\ q[x] = p[x] - 1 /\ nx2[x] = nx[x]
    BY <1>4, <1>9, <1>10
  <2>2. CASE p[x] = n
    BY <2>1, <2>2, <1>7
  <2>3. CASE p[x] # n
    <3>1. nx[x] \in Q /\ p[nx[x]] = p[x] + 1
      BY <2>1, <2>3, <1>7
    <3>2. nx[x] # hd
      BY <2>1, <3>1, <1>6
    <3>3. nx[x] \in R
      BY <3>1, <3>2
    <3>4. q[nx[x]] = p[nx[x]] - 1
      BY <3>3, <1>9
    <3> QED BY <2>1, <2>3, <3>1, <3>3, <3>4, <1>3
  <2> QED BY <2>2, <2>3
<1>16. Numbered(q, R, nx[hd], tm2, nx2)
  BY <1>3, <1>11, <1>12, <1>13, <1>14, <1>15 DEF Numbered
<1> QED BY <1>3, <1>11, <1>16 DEF Sorted, tm2, nx2

----------------------------------------------------------------------------
(* The stack: a function runs in one activation for each timer of R; the    *)
(* cursor of timer_each is in Q, and no other activation is above it.       *)
FrameType == [pc : {"loop", "check", "func", "each"}, at : Timers \cup {NULL}]
StackOK(st, R, Q) ==
  /\ st \in Seq(FrameType)
  /\ \A i \in 1 .. Len(st) : st[i].pc = "func" => st[i].at \in R
  /\ \A t \in R : \E i \in 1 .. Len(st) : st[i].pc = "func" /\ st[i].at = t
  /\ \A i, j \in 1 .. Len(st) :
       st[i].pc = "func" /\ st[j].pc = "func" /\ st[i].at = st[j].at => i = j
  /\ \A i \in 1 .. Len(st) : st[i].pc = "each" => i = Len(st) /\ st[i].at \in Q \cup {NULL}

LEMMA Frames1 ==
  ASSUME NEW pc \in {"loop", "check", "func", "each"}, NEW at \in Timers \cup {NULL}
  PROVE  Frame(pc, at) \in FrameType /\ Frame(pc, at).pc = pc /\ Frame(pc, at).at = at
BY DEF Frame, FrameType

(* The stack below its top.                                                 *)
LEMMA Front1 ==
  ASSUME NEW S, NEW st \in Seq(S), NEW n \in Nat, Len(st) = n + 1
  PROVE  /\ SubSeq(st, 1, n) \in Seq(S)
         /\ Len(SubSeq(st, 1, n)) = n
         /\ \A i \in 1 .. n : SubSeq(st, 1, n)[i] = st[i]
<1>1. SubSeq(st, 1, n) \in Seq(S)
  OBVIOUS
<1>2. Len(SubSeq(st, 1, n)) = n
  OBVIOUS
<1>3. \A i \in 1 .. n : SubSeq(st, 1, n)[i] = st[i]
  OBVIOUS
<1> QED BY <1>1, <1>2, <1>3

LEMMA Below ==
  ASSUME NEW st \in Seq(FrameType), st # <<>>
  PROVE  /\ SubSeq(st, 1, Len(st) - 1) \in Seq(FrameType)
         /\ Len(st) \in Nat /\ Len(st) >= 1 /\ Len(SubSeq(st, 1, Len(st) - 1)) = Len(st) - 1
         /\ \A i \in 1 .. Len(st) - 1 : SubSeq(st, 1, Len(st) - 1)[i] = st[i]
<1> DEFINE n == Len(st) - 1
<1>1. n \in Nat /\ Len(st) = n + 1 /\ Len(st) \in Nat /\ Len(st) >= 1
  OBVIOUS
<1> HIDE DEF n
<1>2. /\ SubSeq(st, 1, n) \in Seq(FrameType)
      /\ Len(SubSeq(st, 1, n)) = n
      /\ \A i \in 1 .. n : SubSeq(st, 1, n)[i] = st[i]
  BY <1>1, Front1, Zenon
<1> QED BY <1>1, <1>2, Zenon DEF n

(* The queue may change while no timer_each is under way, and may grow at   *)
(* any time.                                                                *)
LEMMA QueueChanges ==
  ASSUME NEW st, NEW R, NEW Q, NEW Q2, StackOK(st, R, Q),
         Q \subseteq Q2 \/ st = <<>> \/ st[Len(st)].pc # "each"
  PROVE  StackOK(st, R, Q2)
BY DEF StackOK

(* An activation that is no function is entered from outside or from one    *)
(* that is no timer_each.                                                   *)
LEMMA Entering ==
  ASSUME NEW st, NEW R, NEW Q, StackOK(st, R, Q),
         st = <<>> \/ st[Len(st)].pc # "each",
         NEW pc \in {"loop", "check", "each"}, NEW at \in Q \cup {NULL},
         Q \subseteq Timers
  PROVE  StackOK(Append(st, Frame(pc, at)), R, Q)
<1> DEFINE f == Frame(pc, at)
           s == Append(st, f)
<1>1. f \in FrameType /\ f.pc = pc /\ f.at = at
  BY Frames1
<1> HIDE DEF f
<1>2. st \in Seq(FrameType)
  BY DEF StackOK
<1>3. /\ s \in Seq(FrameType) /\ Len(st) \in Nat /\ Len(s) = Len(st) + 1
      /\ s[Len(s)] = f /\ \A i \in 1 .. Len(st) : s[i] = st[i]
  BY <1>1, <1>2
<1> HIDE DEF s
<1>4. \A i \in 1 .. Len(s) : i = Len(s) \/ i \in 1 .. Len(st)
  BY <1>3
<1>5. \A i \in 1 .. Len(st) : s[i].pc # "each"
  <2> SUFFICES ASSUME NEW i \in 1 .. Len(st) PROVE s[i].pc # "each"
    OBVIOUS
  <2>1. st # <<>> /\ st[Len(st)].pc # "each"
    BY <1>2
  <2>2. st[i].pc # "each"
    BY <2>1 DEF StackOK
  <2> QED BY <2>2, <1>3
<1>6. \A i \in 1 .. Len(s) : s[i].pc = "func" => i \in 1 .. Len(st)
  BY <1>1, <1>3, <1>4
<1>7. \A i \in 1 .. Len(s) : s[i].pc = "func" => s[i].at \in R
  BY <1>3, <1>6 DEF StackOK
<1>8. ASSUME NEW t \in R PROVE \E i \in 1 .. Len(s) : s[i].pc = "func" /\ s[i].at = t
  <2>1. PICK i \in 1 .. Len(st) : st[i].pc = "func" /\ st[i].at = t
    BY DEF StackOK
  <2>2. i \in 1 .. Len(s) /\ s[i] = st[i]
    BY <1>3
  <2> QED BY <2>1, <2>2
<1>9. \A i, j \in 1 .. Len(s) :
        s[i].pc = "func" /\ s[j].pc = "func" /\ s[i].at = s[j].at => i = j
  BY <1>3, <1>6 DEF StackOK
<1>10. \A i \in 1 .. Len(s) : s[i].pc = "each" => i = Len(s) /\ s[i].at \in Q \cup {NULL}
  BY <1>1, <1>3, <1>4, <1>5
<1> QED BY <1>3, <1>7, <1>8, <1>9, <1>10 DEF StackOK, s, f

(* The function of a timer that does not run yet is entered.                *)
LEMMA Running1 ==
  ASSUME NEW st, NEW R, NEW Q, NEW Q2, StackOK(st, R, Q),
         st = <<>> \/ st[Len(st)].pc # "each",
         NEW t \in Timers, t \notin R
  PROVE  StackOK(Append(st, Frame("func", t)), R \cup {t}, Q2)
<1> DEFINE f == Frame("func", t)
           s == Append(st, f)
<1>1. f \in FrameType /\ f.pc = "func" /\ f.at = t
  BY Frames1
<1> HIDE DEF f
<1>2. st \in Seq(FrameType)
  BY DEF StackOK
<1>3. /\ s \in Seq(FrameType) /\ Len(st) \in Nat /\ Len(s) = Len(st) + 1
      /\ s[Len(s)] = f /\ \A i \in 1 .. Len(st) : s[i] = st[i]
  BY <1>1, <1>2
<1> HIDE DEF s
<1>4. \A i \in 1 .. Len(s) : i = Len(s) \/ i \in 1 .. Len(st)
  BY <1>3
<1>5. \A i \in 1 .. Len(st) : s[i].pc # "each"
  <2> SUFFICES ASSUME NEW i \in 1 .. Len(st) PROVE s[i].pc # "each"
    OBVIOUS
  <2>1. st # <<>> /\ st[Len(st)].pc # "each"
    BY <1>2
  <2>2. st[i].pc # "each"
    BY <2>1 DEF StackOK
  <2> QED BY <2>2, <1>3
<1>6. \A i \in 1 .. Len(st) : s[i].pc = "func" => s[i].at \in R
  BY <1>3 DEF StackOK
<1>7. \A i \in 1 .. Len(s) : s[i].pc = "func" => s[i].at \in R \cup {t}
  BY <1>1, <1>3, <1>4, <1>6
<1>8. ASSUME NEW x \in R \cup {t}
      PROVE  \E i \in 1 .. Len(s) : s[i].pc = "func" /\ s[i].at = x
  <2>1. CASE x = t
    <3>1. Len(s) \in 1 .. Len(s)
      BY <1>3
    <3> QED BY <2>1, <3>1, <1>1, <1>3
  <2>2. CASE x \in R
    <3>1. PICK i \in 1 .. Len(st) : st[i].pc = "func" /\ st[i].at = x
      BY <2>2 DEF StackOK
    <3>2. i \in 1 .. Len(s) /\ s[i] = st[i]
      BY <1>3
    <3> QED BY <3>1, <3>2
  <2> QED BY <2>1, <2>2
<1>9. ASSUME NEW i \in 1 .. Len(s), NEW j \in 1 .. Len(s),
             s[i].pc = "func", s[j].pc = "func", s[i].at = s[j].at
      PROVE  i = j
  <2>1. CASE i \in 1 .. Len(st) /\ j \in 1 .. Len(st)
    BY <2>1, <1>3, <1>9 DEF StackOK
  <2>2. CASE i = Len(s) \/ j = Len(s)
    <3>1. s[i].at = t
      BY <2>2, <1>1, <1>3, <1>9
    <3>2. i \notin 1 .. Len(st) /\ j \notin 1 .. Len(st)
      BY <3>1, <1>6, <1>9
    <3> QED BY <3>2, <1>4
  <2> QED BY <2>1, <2>2, <1>4
<1>10. \A i \in 1 .. Len(s) : s[i].pc # "each"
  BY <1>1, <1>3, <1>4, <1>5
<1> QED BY <1>3, <1>7, <1>8, <1>9, <1>10 DEF StackOK, s, f

(* An activation that is no function returns.                               *)
LEMMA Returning ==
  ASSUME NEW st, NEW R, NEW Q, NEW Q2, StackOK(st, R, Q),
         st # <<>>, st[Len(st)].pc # "func"
  PROVE  LET s == SubSeq(st, 1, Len(st) - 1)
         IN StackOK(s, R, Q2) /\ (s = <<>> \/ s[Len(s)].pc # "each")
<1> DEFINE s == SubSeq(st, 1, Len(st) - 1)
<1>1. st \in Seq(FrameType)
  BY DEF StackOK
<1>2. /\ s \in Seq(FrameType) /\ Len(st) \in Nat /\ Len(st) >= 1 /\ Len(s) = Len(st) - 1
      /\ \A i \in 1 .. Len(s) : s[i] = st[i]
  BY <1>1, Below
<1> HIDE DEF s
<1>3. \A i \in 1 .. Len(s) : i \in 1 .. Len(st) /\ i # Len(st)
  BY <1>2
<1>4. \A i \in 1 .. Len(s) : s[i].pc # "each"
  BY <1>2, <1>3 DEF StackOK
<1>5. \A i \in 1 .. Len(s) : s[i].pc = "func" => s[i].at \in R
  BY <1>2, <1>3 DEF StackOK
<1>6. ASSUME NEW t \in R PROVE \E i \in 1 .. Len(s) : s[i].pc = "func" /\ s[i].at = t
  <2>1. PICK i \in 1 .. Len(st) : st[i].pc = "func" /\ st[i].at = t
    BY DEF StackOK
  <2>2. i # Len(st)
    BY <2>1
  <2>3. i \in 1 .. Len(s)
    BY <2>2, <1>2
  <2> QED BY <2>1, <2>3, <1>2
<1>7. \A i, j \in 1 .. Len(s) :
        s[i].pc = "func" /\ s[j].pc = "func" /\ s[i].at = s[j].at => i = j
  BY <1>2, <1>3 DEF StackOK
<1>8. StackOK(s, R, Q2)
  BY <1>2, <1>4, <1>5, <1>6, <1>7 DEF StackOK
<1>9. s = <<>> \/ s[Len(s)].pc # "each"
  <2>1. s # <<>> => Len(s) \in 1 .. Len(s)
    BY <1>2
  <2> QED BY <2>1, <1>4
<1> QED BY <1>8, <1>9 DEF s

(* A function returns: its timer runs no more.                              *)
LEMMA FunctionReturning ==
  ASSUME NEW st, NEW R, NEW Q, NEW Q2, StackOK(st, R, Q),
         st # <<>>, st[Len(st)].pc = "func"
  PROVE  LET s == SubSeq(st, 1, Len(st) - 1)
         IN /\ StackOK(s, R \ {st[Len(st)].at}, Q2) /\ (s = <<>> \/ s[Len(s)].pc # "each")
            /\ st[Len(st)].at \in R
<1> DEFINE s == SubSeq(st, 1, Len(st) - 1)
           t == st[Len(st)].at
<1>1. st \in Seq(FrameType)
  BY DEF StackOK
<1>2. /\ s \in Seq(FrameType) /\ Len(st) \in Nat /\ Len(st) >= 1 /\ Len(s) = Len(st) - 1
      /\ \A i \in 1 .. Len(s) : s[i] = st[i]
  BY <1>1, Below
<1> HIDE DEF s
<1>3. \A i \in 1 .. Len(s) : i \in 1 .. Len(st) /\ i # Len(st)
  BY <1>2
<1>4. Len(st) \in 1 .. Len(st)
  BY <1>2
<1>5. \A i \in 1 .. Len(s) : s[i].pc # "each"
  BY <1>2, <1>3 DEF StackOK
<1>6. \A i \in 1 .. Len(s) : s[i].pc = "func" => s[i].at \in R \ {t}
  BY <1>2, <1>3, <1>4 DEF StackOK
<1>7. ASSUME NEW x \in R \ {t}
      PROVE  \E i \in 1 .. Len(s) : s[i].pc = "func" /\ s[i].at = x
  <2>1. PICK i \in 1 .. Len(st) : st[i].pc = "func" /\ st[i].at = x
    BY DEF StackOK
  <2>2. i # Len(st)
    BY <2>1
  <2>3. i \in 1 .. Len(s)
    BY <2>2, <1>2
  <2> QED BY <2>1, <2>3, <1>2
<1>8. \A i, j \in 1 .. Len(s) :
        s[i].pc = "func" /\ s[j].pc = "func" /\ s[i].at = s[j].at => i = j
  BY <1>2, <1>3 DEF StackOK
<1>9. StackOK(s, R \ {t}, Q2)
  BY <1>2, <1>5, <1>6, <1>7, <1>8 DEF StackOK
<1>10. s = <<>> \/ s[Len(s)].pc # "each"
  <2>1. s # <<>> => Len(s) \in 1 .. Len(s)
    BY <1>2
  <2> QED BY <2>1, <1>5
<1>11. t \in R
  BY <1>4 DEF StackOK
<1> QED BY <1>9, <1>10, <1>11 DEF s
----------------------------------------------------------------------------
(* The inductive invariant: what holds of the queue and of the functions,   *)
(* and what holds of the stack.                                             *)
Run == {t \in Timers : place[t] = "run"}
Types ==
  /\ clock \in 0..(Day - 1)
  /\ head \in Timers \cup {NULL}
  /\ time \in [Timers -> Nat]
  /\ next \in [Timers -> Timers \cup {NULL}]
  /\ func \in [Timers -> BOOLEAN]
  /\ place \in [Timers -> {"free", "queue", "run", "lost"}]
  /\ left \in [Timers -> Nat]
LeftOK == \A t \in Timers : left[t] = 0 \/ left[t] <= time[t] - Now
LostOK == \A t \in Timers : place[t] = "lost" => ~func[t]
QInv == Types /\ Sorted(Queued, head, time, next) /\ UnqueuedUnlinked /\ LeftOK /\ LostOK
IInv == QInv /\ StackOK(stack, Run, Queued)

LEMMA Implied ==
  ASSUME IInv
  PROVE  QueueOK
<1>1. /\ stack \in Seq(FrameType)
      /\ \A i \in 1 .. Len(stack) : stack[i].pc = "func" => stack[i].at \in Run
      /\ \A t \in Run : \E i \in 1 .. Len(stack) : stack[i].pc = "func" /\ stack[i].at = t
      /\ \A i, j \in 1 .. Len(stack) :
           stack[i].pc = "func" /\ stack[j].pc = "func" /\ stack[i].at = stack[j].at => i = j
      /\ \A i \in 1 .. Len(stack) : stack[i].pc = "each" => stack[i].at \in Queued \cup {NULL}
  BY DEF IInv, StackOK
<1>2. TypeOK
  BY <1>1 DEF IInv, QInv, Types, TypeOK, FrameType
<1>3. SortedList
  BY DEF IInv, QInv, Sorted, Numbered, SortedList
<1>4. RunsOnce
  <2>1. ASSUME NEW t \in Timers, place[t] = "run" PROVE Frame("func", t) \in Frames
    <3>1. PICK i \in 1 .. Len(stack) : stack[i].pc = "func" /\ stack[i].at = t
      BY <1>1, <2>1 DEF Run
    <3>2. stack[i] \in FrameType
      BY <1>1
    <3>3. stack[i] = [pc |-> stack[i].pc, at |-> stack[i].at]
      BY <3>2 DEF FrameType
    <3>4. stack[i] = Frame("func", t)
      BY <3>1, <3>3, Zenon DEF Frame
    <3> QED BY <3>4 DEF Frames
  <2>2. ASSUME NEW t \in Timers, Frame("func", t) \in Frames PROVE place[t] = "run"
    <3>1. PICK i \in 1 .. Len(stack) : stack[i] = Frame("func", t)
      BY <2>2 DEF Frames
    <3>2. stack[i].pc = "func" /\ stack[i].at = t
      BY <3>1 DEF Frame
    <3> QED BY <3>2, <1>1 DEF Run
  <2>3. \A i, j \in 1 .. Len(stack) : stack[i].pc = "func" /\ stack[i] = stack[j] => i = j
    BY <1>1
  <2> QED BY <2>1, <2>2, <2>3 DEF RunsOnce
<1>5. EachOnQueue
  BY <1>1 DEF EachOnQueue, Frames
<1>6. UnqueuedUnlinked
  BY DEF IInv, QInv
<1> QED BY <1>2, <1>3, <1>4, <1>5, <1>6 DEF QueueOK

(* What the head and the links are, from QInv.                              *)
LEMMA QueueFacts ==
  ASSUME QInv
  PROVE  /\ head \in Queued \cup {NULL} /\ (head = NULL <=> Queued = {})
         /\ \A x \in Queued : next[x] \in Queued \cup {NULL}
         /\ Now \in Nat /\ Now <= 2 * (Day - 1)
<1>1. Queued \in SUBSET Timers /\ time \in [Timers -> Nat] /\ Sorted(Queued, head, time, next)
  BY DEF Queued, QInv, Types
<1>2. /\ head \in Queued \cup {NULL} /\ (head = NULL <=> Queued = {})
      /\ \A x \in Queued : next[x] \in Queued \cup {NULL}
  BY <1>1, SortedFacts
<1>3. Now \in Nat /\ Now <= 2 * (Day - 1)
  BY TimerAssumption DEF QInv, Types, Now
<1> QED BY <1>2, <1>3

(* An empty queue, and a queue whose timers keep their times and links.     *)
LEMMA NothingSorted ==
  ASSUME NEW tm, NEW nx
  PROVE  Sorted({}, NULL, tm, nx)
<1> DEFINE p == [x \in {} |-> 1]
<1>1. p \in [{} -> 1 .. Cardinality({})]
  OBVIOUS
<1>2. Numbered(p, {}, NULL, tm, nx)
  BY <1>1 DEF Numbered
<1> QED BY <1>1, <1>2 DEF Sorted

LEMMA SortedAgain ==
  ASSUME NEW Q, NEW hd, NEW tm, NEW nx, NEW tm2, NEW nx2, Sorted(Q, hd, tm, nx),
         \A x \in Q : tm2[x] = tm[x] /\ nx2[x] = nx[x]
  PROVE  Sorted(Q, hd, tm2, nx2)
<1>1. PICK p \in [Q -> 1 .. Cardinality(Q)] : Numbered(p, Q, hd, tm, nx)
  BY DEF Sorted
<1>2. Numbered(p, Q, hd, tm2, nx2)
  BY <1>1 DEF Numbered
<1> QED BY <1>1, <1>2 DEF Sorted

(* _timer_insert keeps the queue one sorted list, with one timer more.      *)
LEMMA Inserting ==
  ASSUME QInv, NEW t \in Timers \ Queued, NEW d \in Nat, _timer_insert(t, d), clock' = clock,
         func' \in [Timers -> BOOLEAN], \A x \in Timers : x # t => func'[x] = func[x]
  PROVE  QInv' /\ Queued' = Queued \cup {t} /\ Run' = Run \ {t}
<1> DEFINE due == Now + d
<1>1. due \in Nat /\ Now \in Nat /\ Now' = Now
  BY QueueFacts DEF Now
<1>2. /\ time' = [time EXCEPT ![t] = due]
      /\ left' = [left EXCEPT ![t] = d]
      /\ place' = [place EXCEPT ![t] = "queue"]
  BY DEF _timer_insert
<1>3. Types /\ Queued \in SUBSET Timers /\ Sorted(Queued, head, time, next)
  BY DEF QInv, Queued
<1>4. next[t] = NULL
  BY DEF QInv, UnqueuedUnlinked
<1>5. Queued' = Queued \cup {t}
  BY <1>2, <1>3 DEF Queued, Types
<1>6. Run' = Run \ {t}
  BY <1>2, <1>3 DEF Run, Types
<1>7. /\ Sorted(Queued \cup {t}, head', time', next')
      /\ head' \in Timers
      /\ next' \in [Timers -> Timers \cup {NULL}]
      /\ \A x \in Timers \ (Queued \cup {t}) : next'[x] = next[x]
  <2>1. CASE head = NULL
    <3>1. Queued = {} /\ head' = t /\ next' = next
      BY <2>1, QueueFacts DEF _timer_insert
    <3>2. Sorted({t}, t, time', next')
      BY <3>1, <1>4, InsertEmpty
    <3>3. Queued \cup {t} = {t}
      BY <3>1
    <3> QED BY <3>1, <3>2, <3>3, <1>3 DEF Types
  <2>2. CASE head # NULL /\ due < time[head]
    <3>1. time[head] \in Nat
      BY <2>2, <1>3 DEF Types
    <3>2. ~(time[head] <= due)
      BY <3>1, <2>2, <1>1
    <3> HIDE DEF due
    <3>3. head' = t /\ next' = [next EXCEPT ![t] = head]
      BY <2>2, <3>2 DEF _timer_insert, due
    <3>4. head \in Queued
      BY <2>2, QueueFacts
    <3>5. Sorted(Queued \cup {t}, t, [time EXCEPT ![t] = due], [next EXCEPT ![t] = head])
      BY <3>4, <2>2, <1>1, <1>3, InsertHead DEF Types
    <3>6. Sorted(Queued \cup {t}, head', time', next')
      BY <3>3, <3>5, <1>2
    <3>7. next' \in [Timers -> Timers \cup {NULL}]
      BY <3>3, <3>4, <1>3 DEF Types
    <3>8. \A x \in Timers \ (Queued \cup {t}) : next'[x] = next[x]
      BY <3>3, <1>3 DEF Types
    <3> QED BY <3>3, <3>6, <3>7, <3>8
  <2>3. CASE head # NULL /\ ~(due < time[head])
    <3> HIDE DEF due
    <3>1. PICK pre \in Timers :
            /\ StopsAt(pre, due) /\ head' = head
            /\ next' = [next EXCEPT ![t] = next[pre], ![pre] = t]
      BY <2>3 DEF _timer_insert, due
    <3>2. pre \in Queued /\ time[pre] <= due /\ (next[pre] # NULL => due < time[next[pre]])
      BY <3>1 DEF StopsAt
    <3>3. Sorted(Queued \cup {t}, head, [time EXCEPT ![t] = due],
                 [next EXCEPT ![t] = next[pre], ![pre] = t])
      BY <3>2, <1>1, <1>3, InsertAfter DEF Types
    <3>4. Sorted(Queued \cup {t}, head', time', next')
      BY <3>1, <3>3, <1>2
    <3>5. next' \in [Timers -> Timers \cup {NULL}]
      BY <3>1, <1>3 DEF Types
    <3>6. \A x \in Timers \ (Queued \cup {t}) : next'[x] = next[x]
      BY <3>1, <3>2, <1>3 DEF Types
    <3>7. head' \in Timers
      BY <2>3, <3>1, <1>3 DEF Types
    <3> QED BY <3>4, <3>5, <3>6, <3>7
  <2> QED BY <2>1, <2>2, <2>3
<1>8. Types'
  BY <1>1, <1>2, <1>3, <1>7 DEF Types
<1>9. UnqueuedUnlinked'
  BY <1>5, <1>7 DEF QInv, UnqueuedUnlinked
<1>10. LeftOK'
  <2> SUFFICES ASSUME NEW x \in Timers PROVE left'[x] = 0 \/ left'[x] <= time'[x] - Now
    BY <1>1 DEF LeftOK
  <2>1. CASE x = t
    BY <2>1, <1>1, <1>2, <1>3 DEF Types
  <2>2. CASE x # t
    BY <2>2, <1>2, <1>3 DEF Types, QInv, LeftOK
  <2> QED BY <2>1, <2>2
<1>11. LostOK'
  BY <1>2, <1>3 DEF Types, QInv, LostOK
<1> QED BY <1>5, <1>6, <1>7, <1>8, <1>9, <1>10, <1>11 DEF QInv

(* timer_delay queues one more timer, which does not run.                   *)
LEMMA Delaying ==
  ASSUME QInv, NEW t \in Timers, NEW d \in Int, timer_delay(t, d), clock' = clock
  PROVE  QInv' /\ Queued' = Queued \cup {t} /\ Run' = Run
<1>1. Clamp(d) \in Nat
  BY DEF Clamp
<1>2. t \in Timers \ Queued /\ t \notin Run
  BY DEF timer_delay, Allocated, Queued, Run
<1>3. _timer_insert(t, Clamp(d)) /\ func' = [func EXCEPT ![t] = TRUE]
  BY DEF timer_delay
<1>4. func' \in [Timers -> BOOLEAN] /\ \A x \in Timers : x # t => func'[x] = func[x]
  BY <1>3 DEF QInv, Types
<1>5. QInv' /\ Queued' = Queued \cup {t} /\ Run' = Run \ {t}
  BY <1>1, <1>2, <1>3, <1>4, Inserting
<1> QED BY <1>2, <1>5

(* timer_cancel writes the function of a timer and nothing else.            *)
LEMMA Cancelling ==
  ASSUME QInv, NEW t \in Timers, timer_cancel(t), clock' = clock
  PROVE  QInv' /\ Queued' = Queued /\ Run' = Run
<1>1. /\ func' = [func EXCEPT ![t] = FALSE]
      /\ head' = head /\ time' = time /\ next' = next /\ place' = place /\ left' = left
  BY DEF timer_cancel
<1>2. Queued' = Queued /\ Run' = Run
  BY <1>1 DEF Queued, Run
<1>3. Types'
  BY <1>1 DEF QInv, Types
<1>4. UnqueuedUnlinked' /\ LeftOK'
  BY <1>1, <1>2 DEF QInv, UnqueuedUnlinked, LeftOK, Now
<1>5. LostOK'
  BY <1>1 DEF QInv, Types, LostOK
<1>6. Sorted(Queued', head', time', next')
  BY <1>1, <1>2 DEF QInv
<1> QED BY <1>2, <1>3, <1>4, <1>5, <1>6 DEF QInv

(* The head leaves the queue.                                               *)
LEMMA Unlinking ==
  ASSUME QInv, head # NULL, NEW where \in {"run", "lost"}, where = "lost" => ~func[head],
         Unlink(head, where)
  PROVE  /\ QInv' /\ Queued' = Queued \ {head} /\ head \in Queued /\ head \notin Run
         /\ Run' = IF where = "run" THEN Run \cup {head} ELSE Run
<1>1. /\ head' = next[head]
      /\ next' = [next EXCEPT ![head] = NULL]
      /\ time' = [time EXCEPT ![head] = 0]
      /\ left' = [left EXCEPT ![head] = 0]
      /\ place' = [place EXCEPT ![head] = where]
      /\ func' = func /\ clock' = clock
  BY DEF Unlink
<1>2. Types /\ Queued \in SUBSET Timers /\ Sorted(Queued, head, time, next)
  BY DEF QInv, Queued
<1>3. head \in Queued /\ head \in Timers /\ head \notin Run
  BY QueueFacts DEF Queued, Run
<1>4. Queued' = Queued \ {head}
  BY <1>1, <1>2, <1>3 DEF Queued, Types
<1>5. Run' = IF where = "run" THEN Run \cup {head} ELSE Run
  BY <1>1, <1>2, <1>3 DEF Run, Types
<1>6. Types'
  BY <1>1, <1>2, <1>3 DEF Types
<1>7. Sorted(Queued \ {head}, next[head], [time EXCEPT ![head] = 0], [next EXCEPT ![head] = NULL])
  BY <1>2, <1>3, RemoveHead DEF Types
<1>8. Sorted(Queued', head', time', next')
  BY <1>1, <1>4, <1>7
<1>9. UnqueuedUnlinked'
  BY <1>1, <1>2, <1>3, <1>4 DEF QInv, UnqueuedUnlinked, Types
<1>10. LeftOK'
  BY <1>1, <1>2, <1>3 DEF QInv, LeftOK, Now, Types
<1>11. LostOK'
  BY <1>1, <1>2, <1>3 DEF QInv, LostOK, Types
<1> QED BY <1>3, <1>4, <1>5, <1>6, <1>8, <1>9, <1>10, <1>11 DEF QInv

(* What is freed leaves the queue, which is as it was or empty.             *)
LEMMA Freeing ==
  ASSUME QInv, NEW F \in SUBSET Timers, Freed(F), clock' = clock,
         \/ F = Queued /\ head' = NULL
         \/ F \cap Queued = {} /\ head' = head
  PROVE  QInv' /\ Queued' = Queued \ F /\ Run' = Run \ F
<1>1. /\ place' = [t \in Timers |-> IF t \in F THEN "free" ELSE place[t]]
      /\ next' = [t \in Timers |-> IF t \in F THEN NULL ELSE next[t]]
      /\ time' = [t \in Timers |-> IF t \in F THEN 0 ELSE time[t]]
      /\ left' = [t \in Timers |-> IF t \in F THEN 0 ELSE left[t]]
      /\ func' = [t \in Timers |-> IF t \in F THEN FALSE ELSE func[t]]
  BY DEF Freed
<1>2. Types /\ Queued \in SUBSET Timers /\ Sorted(Queued, head, time, next)
  BY DEF QInv, Queued
<1>3. Queued' = Queued \ F /\ Run' = Run \ F
  BY <1>1, <1>2 DEF Queued, Run, Types
<1>4. Types'
  BY <1>1, <1>2 DEF Types
<1>5. UnqueuedUnlinked'
  BY <1>1, <1>2, <1>3 DEF QInv, UnqueuedUnlinked, Types
<1>6. LeftOK'
  BY <1>1, <1>2 DEF QInv, LeftOK, Now, Types
<1>7. LostOK'
  BY <1>1, <1>2 DEF QInv, LostOK, Types
<1>8. Sorted(Queued', head', time', next')
  <2>1. CASE F = Queued /\ head' = NULL
    <3>1. Queued' = {}
      BY <2>1, <1>3
    <3>2. Sorted({}, NULL, time', next')
      BY NothingSorted
    <3> QED BY <2>1, <3>1, <3>2
  <2>2. CASE F \cap Queued = {} /\ head' = head
    <3>1. Queued' = Queued
      BY <2>2, <1>3
    <3>2. \A x \in Queued : time'[x] = time[x] /\ next'[x] = next[x]
      BY <2>2, <1>1, <1>2
    <3>3. Sorted(Queued, head, time', next')
      BY <3>2, <1>2, SortedAgain
    <3> QED BY <2>2, <3>1, <3>3
  <2> QED BY <2>1, <2>2
<1> QED BY <1>3, <1>4, <1>5, <1>6, <1>7, <1>8 DEF QInv

----------------------------------------------------------------------------
(* The stack of Timer, with what the lemmas on stacks say of it.            *)
LEMMA CallerOK ==
  ASSUME NEW R, NEW Q, NEW Q2, StackOK(stack, R, Q), stack # <<>>, Top.pc # "func"
  PROVE  StackOK(Caller, R, Q2) /\ (Caller = <<>> \/ Caller[Len(Caller)].pc # "each")
BY Returning DEF Caller, Top

LEMMA FunctionCallerOK ==
  ASSUME NEW R, NEW Q, NEW Q2, StackOK(stack, R, Q), stack # <<>>, Top.pc = "func"
  PROVE  /\ StackOK(Caller, R \ {Top.at}, Q2) /\ (Caller = <<>> \/ Caller[Len(Caller)].pc # "each")
         /\ Top.at \in R
BY FunctionReturning DEF Caller, Top

LEMMA Sets ==
  Queued \subseteq Timers /\ Run \subseteq Timers
BY DEF Queued, Run

(* A stack on which the application runs, or a check, is no timer_each.     *)
LEMMA NotEach ==
  ASSUME AppRuns \/ Running("loop") \/ Running("check")
  PROVE  stack = <<>> \/ stack[Len(stack)].pc # "each"
BY DEF AppRuns, Running, Top

(* A step that changes the queue at most, where no timer_each is under way. *)
LEMMA QueueStep ==
  ASSUME IInv, QInv', Run' = Run, Queued \subseteq Queued' \/ AppRuns, stack' = stack
  PROVE  IInv'
<1>1. StackOK(stack, Run, Queued')
  <2>1. Queued \subseteq Queued' \/ stack = <<>> \/ stack[Len(stack)].pc # "each"
    BY NotEach
  <2>2. StackOK(stack, Run, Queued)
    BY DEF IInv
  <2> QED BY <2>1, <2>2, QueueChanges
<1> QED BY <1>1 DEF IInv

LEMMA AppDelayStep ==
  ASSUME IInv, AppDelay
  PROVE  IInv'
<1>1. PICK t \in Timers, d \in Delays : timer_delay(t, d)
  BY DEF AppDelay
<1>2. d \in Int /\ clock' = clock /\ stack' = stack /\ QInv
  BY TimerAssumption DEF AppDelay, IInv
<1>3. QInv' /\ Queued' = Queued \cup {t} /\ Run' = Run
  BY <1>1, <1>2, Delaying
<1> QED BY <1>2, <1>3, QueueStep

LEMMA AppCancelStep ==
  ASSUME IInv, AppCancel
  PROVE  IInv'
<1>1. PICK t \in Timers : timer_cancel(t)
  BY DEF AppCancel
<1>2. clock' = clock /\ stack' = stack /\ QInv
  BY DEF AppCancel, IInv
<1>3. QInv' /\ Queued' = Queued /\ Run' = Run
  BY <1>1, <1>2, Cancelling
<1> QED BY <1>2, <1>3, QueueStep

LEMMA CleanStep ==
  ASSUME IInv, timer_clean
  PROVE  IInv'
<1>1. Freed(Queued) /\ head' = NULL /\ clock' = clock /\ stack' = stack /\ QInv /\ AppRuns
  BY DEF timer_clean, IInv
<1>2. QInv' /\ Run' = Run \ Queued
  BY <1>1, Sets, Freeing
<1>3. Run \ Queued = Run
  BY DEF Run, Queued
<1> QED BY <1>1, <1>2, <1>3, QueueStep

(* A step that changes the stack at most.                                   *)
LEMMA QueueUnchanged ==
  ASSUME QInv, UNCHANGED <<clock, queueVars>>
  PROVE  QInv' /\ Queued' = Queued /\ Run' = Run
<1>1. /\ clock' = clock /\ head' = head /\ time' = time /\ next' = next
      /\ func' = func /\ place' = place /\ left' = left
  BY DEF queueVars
<1>2. Queued' = Queued /\ Run' = Run
  BY <1>1 DEF Queued, Run
<1>3. Types' /\ UnqueuedUnlinked' /\ LeftOK' /\ LostOK'
  BY <1>1, <1>2 DEF QInv, Types, UnqueuedUnlinked, LeftOK, LostOK, Now
<1>4. Sorted(Queued', head', time', next')
  BY <1>1, <1>2 DEF QInv
<1> QED BY <1>2, <1>3, <1>4 DEF QInv

LEMMA StackStep ==
  ASSUME IInv, UNCHANGED <<clock, queueVars>>, StackOK(stack', Run, Queued)
  PROVE  IInv'
BY QueueUnchanged DEF IInv

LEMMA AppEnterStep ==
  ASSUME IInv, AppEnter
  PROVE  IInv'
<1>1. StackOK(stack, Run, Queued) /\ QInv /\ AppRuns /\ UNCHANGED <<clock, queueVars>>
  BY DEF IInv, AppEnter
<1>2. head \in Queued \cup {NULL}
  BY <1>1, QueueFacts
<1>3. stack = <<>> \/ stack[Len(stack)].pc # "each"
  BY <1>1, NotEach
<1>4. PICK pc \in {"loop", "check", "each"}, at \in Queued \cup {NULL} : Call(pc, at)
  BY <1>2 DEF AppEnter
<1>5. StackOK(Append(stack, Frame(pc, at)), Run, Queued)
  BY <1>1, <1>3, Sets, Entering
<1> QED BY <1>1, <1>4, <1>5, StackStep DEF Call

LEMMA LoopStepStep ==
  ASSUME IInv, LoopStep
  PROVE  IInv'
<1>1. StackOK(stack, Run, Queued) /\ Running("loop") /\ UNCHANGED <<clock, queueVars>>
  BY DEF IInv, LoopStep
<1>2. stack = <<>> \/ stack[Len(stack)].pc # "each"
  BY <1>1, NotEach
<1>3. StackOK(Append(stack, Frame("check", NULL)), Run, Queued)
  BY <1>1, <1>2, Sets, Entering
<1> QED BY <1>1, <1>3, StackStep DEF LoopStep, Call

(* A check that returns leaves a stack that does not depend on the queue.   *)
LEMMA CheckReturning ==
  ASSUME NEW R, NEW Q, NEW Q2, StackOK(stack, R, Q), Running("check"), CheckReturns
  PROVE  StackOK(stack', R, Q2)
<1>1. stack # <<>> /\ Top.pc # "func"
  BY DEF Running
<1>2. StackOK(Caller, R, Q2)
  BY <1>1, CallerOK
<1>3. CASE Caller # <<>> /\ Caller[Len(Caller)].pc = "loop" /\ head' = NULL
  <2>1. stack' = SubSeq(Caller, 1, Len(Caller) - 1)
    BY <1>3 DEF CheckReturns
  <2> HIDE DEF Caller
  <2>2. StackOK(SubSeq(Caller, 1, Len(Caller) - 1), R, Q2)
    BY <1>2, <1>3, Returning
  <2> QED BY <2>1, <2>2
<1>4. CASE ~(Caller # <<>> /\ Caller[Len(Caller)].pc = "loop" /\ head' = NULL)
  BY <1>2, <1>4 DEF CheckReturns, Return
<1> QED BY <1>3, <1>4

LEMMA NoneStep ==
  ASSUME IInv, ExecuteNone
  PROVE  IInv'
<1>1. StackOK(stack, Run, Queued) /\ Running("check") /\ CheckReturns
      /\ UNCHANGED <<clock, queueVars>>
  BY DEF IInv, ExecuteNone
<1>2. StackOK(stack', Run, Queued)
  BY <1>1, CheckReturning
<1> QED BY <1>1, <1>2, StackStep

LEMMA CancelledStep ==
  ASSUME IInv, ExecuteCancelled
  PROVE  IInv'
<1>1. /\ StackOK(stack, Run, Queued) /\ QInv /\ Running("check") /\ CheckReturns
      /\ head # NULL /\ ~func[head] /\ Unlink(head, "lost")
  BY DEF IInv, ExecuteCancelled
<1>2. QInv' /\ Run' = Run
  BY <1>1, Unlinking
<1>3. StackOK(stack', Run, Queued')
  BY <1>1, CheckReturning
<1> QED BY <1>2, <1>3 DEF IInv

LEMMA DueStep ==
  ASSUME IInv, ExecuteDue
  PROVE  IInv'
<1>1. /\ StackOK(stack, Run, Queued) /\ QInv /\ Running("check") /\ head # NULL
      /\ Unlink(head, "run") /\ GoOn("func", head)
  BY DEF IInv, ExecuteDue
<1>2. QInv' /\ Run' = Run \cup {head} /\ head \in Queued /\ head \notin Run
  BY <1>1, Unlinking
<1>3. StackOK(Caller, Run, Queued) /\ (Caller = <<>> \/ Caller[Len(Caller)].pc # "each")
  BY <1>1, CallerOK DEF Running
<1> HIDE DEF Caller
<1>4. head \in Timers
  BY <1>2, Sets
<1>5. StackOK(Append(Caller, Frame("func", head)), Run \cup {head}, Queued')
  BY <1>2, <1>3, <1>4, Running1
<1>6. StackOK(stack', Run', Queued')
  BY <1>1, <1>2, <1>5 DEF GoOn
<1> QED BY <1>2, <1>6 DEF IInv

LEMMA FuncStep ==
  ASSUME IInv, FuncReturns
  PROVE  IInv'
<1>1. StackOK(stack, Run, Queued) /\ QInv /\ stack # <<>> /\ Top.pc = "func" /\ clock' = clock
  BY DEF IInv, FuncReturns, Running
<1>2. /\ StackOK(Caller, Run \ {Top.at}, Queued')
      /\ (Caller = <<>> \/ Caller[Len(Caller)].pc # "each") /\ Top.at \in Run
  BY <1>1, FunctionCallerOK
<1>3. PICK seconds \in Returns :
        IF seconds > 0 THEN _timer_insert(Top.at, seconds) /\ UNCHANGED func
                       ELSE Freed({Top.at}) /\ UNCHANGED head
  BY DEF FuncReturns
<1>4. stack' = Append(Caller, Frame("check", NULL))
  BY DEF FuncReturns, GoOn
<1> DEFINE t == Top.at
<1>5. t \in Timers /\ t \notin Queued
  BY <1>2 DEF Run, Queued
<1> HIDE DEF t
<1>6. QInv' /\ Run' = Run \ {t}
  <2>1. CASE seconds > 0
    <3>1. seconds \in Nat
      BY <2>1, TimerAssumption
    <3>2. _timer_insert(t, seconds) /\ func' = func
      BY <2>1, <1>3 DEF t
    <3>3. func' \in [Timers -> BOOLEAN] /\ \A x \in Timers : x # t => func'[x] = func[x]
      BY <1>1, <3>2 DEF QInv, Types
    <3> QED BY <1>1, <1>5, <3>1, <3>2, <3>3, Inserting
  <2>2. CASE ~(seconds > 0)
    <3>1. Freed({t}) /\ head' = head
      BY <2>2, <1>3 DEF t
    <3>2. {t} \in SUBSET Timers /\ {t} \cap Queued = {}
      BY <1>5
    <3> QED BY <1>1, <3>1, <3>2, Freeing
  <2> QED BY <2>1, <2>2
<1>7. Queued' \subseteq Timers
  BY DEF Queued
<1> HIDE DEF Caller
<1>8. StackOK(Append(Caller, Frame("check", NULL)), Run \ {t}, Queued')
  BY <1>2, <1>7, Entering DEF t
<1>9. StackOK(stack', Run', Queued')
  BY <1>4, <1>6, <1>8
<1> QED BY <1>6, <1>9 DEF IInv

LEMMA EachStepStep ==
  ASSUME IInv, EachStep
  PROVE  IInv'
<1>1. StackOK(stack, Run, Queued) /\ QInv /\ stack # <<>> /\ Top.pc = "each" /\ clock' = clock
  BY DEF IInv, EachStep, Running
<1>2. CASE Top.at = NULL
  <2>1. UNCHANGED <<clock, queueVars>> /\ stack' = Caller
    BY <1>1, <1>2 DEF EachStep, Return
  <2>2. StackOK(Caller, Run, Queued)
    BY <1>1, CallerOK
  <2> QED BY <2>1, <2>2, StackStep
<1>3. CASE Top.at # NULL
  <2>1. stack' = Append(Caller, Frame("each", next[Top.at]))
    BY <1>3 DEF EachStep, GoOn
  <2>2. next[Top.at] \in Queued \cup {NULL}
    <3>1. Len(stack) \in 1 .. Len(stack)
      BY <1>1 DEF StackOK
    <3>2. Top.at \in Queued \cup {NULL}
      BY <1>1, <3>1 DEF StackOK, Top
    <3> QED BY <1>1, <1>3, <3>2, QueueFacts
  <2>3. QInv' /\ Run' = Run /\ Queued \subseteq Queued'
    <3>1. CASE UNCHANGED queueVars
      BY <1>1, <3>1, QueueUnchanged
    <3>2. CASE \E t \in Timers : timer_cancel(t)
      BY <1>1, <3>2, Cancelling
    <3>3. CASE \E t \in Timers, d \in Delays : timer_delay(t, d)
      <4>1. PICK t \in Timers, d \in Delays : timer_delay(t, d)
        BY <3>3
      <4>2. d \in Int
        BY TimerAssumption
      <4> QED BY <1>1, <4>1, <4>2, Delaying
    <3> QED BY <1>3, <3>1, <3>2, <3>3 DEF EachStep
  <2>4. StackOK(Caller, Run, Queued') /\ (Caller = <<>> \/ Caller[Len(Caller)].pc # "each")
    BY <1>1, CallerOK
  <2> HIDE DEF Caller
  <2> DEFINE at == next[Top.at]
  <2>5. at \in Queued' \cup {NULL} /\ Queued' \subseteq Timers
    BY <2>2, <2>3 DEF Queued
  <2> HIDE DEF at
  <2>6. StackOK(Append(Caller, Frame("each", at)), Run, Queued')
    BY <2>4, <2>5, Entering
  <2> QED BY <2>1, <2>3, <2>6 DEF IInv, at
<1> QED BY <1>2, <1>3

(* A second passes: what remains of a delay shrinks with it, and at         *)
(* midnight, when the clock is set back, the times are far off.             *)
LEMMA TickStep ==
  ASSUME IInv, Tick
  PROVE  IInv'
<1>1. /\ head' = head /\ time' = time /\ next' = next /\ func' = func /\ place' = place
      /\ stack' = stack /\ left' = [t \in Timers |-> IF left[t] > 2 THEN left[t] - 2 ELSE 0]
      /\ clock' = (clock + 1) % Day
  BY DEF Tick
<1>2. Types /\ LeftOK /\ UnqueuedUnlinked /\ LostOK /\ Sorted(Queued, head, time, next)
      /\ StackOK(stack, Run, Queued)
  BY DEF IInv, QInv
<1>3. clock' \in 0 .. (Day - 1) /\ clock' <= clock + 1
  <2>1. clock \in Nat /\ clock < Day /\ Day \in Nat /\ Day > 0
    BY <1>2, TimerAssumption DEF Types
  <2>2. CASE clock + 1 < Day
    <3>1. (clock + 1) % Day = clock + 1
      BY <2>1, <2>2
    <3> QED BY <1>1, <2>1, <2>2, <3>1
  <2>3. CASE clock + 1 = Day
    <3>1. (clock + 1) % Day = 0
      BY <2>1, <2>3
    <3> QED BY <1>1, <2>1, <3>1
  <2> QED BY <2>1, <2>2, <2>3
<1>4. Queued' = Queued /\ Run' = Run
  BY <1>1 DEF Queued, Run
<1>5. Types'
  <2>1. left' \in [Timers -> Nat]
    BY <1>1, <1>2 DEF Types
  <2> QED BY <1>1, <1>2, <1>3, <2>1 DEF Types
<1>6. LeftOK'
  <2> SUFFICES ASSUME NEW t \in Timers PROVE left'[t] = 0 \/ left'[t] <= time[t] - 2 * clock'
    BY <1>1 DEF LeftOK, Now
  <2>1. left[t] \in Nat /\ time[t] \in Nat /\ clock \in Int /\ clock' \in Int
    BY <1>2, <1>3, TimerAssumption DEF Types
  <2>2. left[t] = 0 \/ left[t] <= time[t] - 2 * clock
    BY <1>2 DEF LeftOK, Now
  <2>3. left'[t] = IF left[t] > 2 THEN left[t] - 2 ELSE 0
    BY <1>1
  <2> QED BY <2>1, <2>2, <2>3, <1>3
<1>7. UnqueuedUnlinked' /\ LostOK' /\ Sorted(Queued', head', time', next')
      /\ StackOK(stack', Run', Queued')
  BY <1>1, <1>2, <1>4 DEF UnqueuedUnlinked, LostOK
<1> QED BY <1>5, <1>6, <1>7 DEF IInv, QInv

LEMMA Initially ==
  ASSUME Init
  PROVE  IInv
<1>1. Queued = {} /\ Run = {}
  BY DEF Init, Queued, Run
<1>2. Sorted({}, NULL, time, next)
  BY NothingSorted
<1>3. Types
  BY TimerAssumption DEF Init, Types
<1>4. UnqueuedUnlinked /\ LeftOK /\ LostOK
  BY DEF Init, UnqueuedUnlinked, LeftOK, LostOK
<1>5. StackOK(stack, {}, {})
  BY DEF Init, StackOK
<1> QED BY <1>1, <1>2, <1>3, <1>4, <1>5 DEF IInv, QInv, Init

LEMMA Stuttering ==
  ASSUME IInv, UNCHANGED vars
  PROVE  IInv'
<1>1. UNCHANGED <<clock, queueVars>> /\ stack' = stack
  BY DEF vars
<1>2. StackOK(stack, Run, Queued)
  BY DEF IInv
<1> QED BY <1>1, <1>2, StackStep

LEMMA Inductive == Spec => []IInv
<1>1. Init => IInv
  BY Initially
<1>2. IInv /\ [Next]_vars => IInv'
  <2> SUFFICES ASSUME IInv, [Next]_vars PROVE IInv'
    OBVIOUS
  <2>1. CASE App
    BY <2>1, AppDelayStep, AppCancelStep, CleanStep, AppEnterStep DEF App
  <2>2. CASE Step
    BY <2>2, LoopStepStep, NoneStep, CancelledStep, DueStep, FuncStep, EachStepStep DEF Step
  <2>3. CASE Tick
    BY <2>3, TickStep
  <2>4. CASE UNCHANGED vars
    BY <2>4, Stuttering
  <2> QED BY <2>1, <2>2, <2>3, <2>4 DEF Next
<1> QED BY <1>1, <1>2, PTL DEF Spec

(* The queue of _timer_insert and _timer_execute is one list sorted by due  *)
(* time with every timer queued and not taken in it, and timer_check,       *)
(* timer_loop and timer_each go on with timers that are still there,        *)
(* whatever the functions of timers call.                                   *)
THEOREM QueueCorrect == Spec => []QueueOK
BY Inductive, Implied, PTL

(* What a step does to the place of a timer that is in the queue, and to    *)
(* the function of one that is allocated.                                   *)
LEMMA DelayKeeps ==
  ASSUME QInv, NEW t \in Timers, NEW d, timer_delay(t, d), NEW x \in Allocated
  PROVE  place'[x] = place[x] /\ func'[x] = func[x]
<1>1. x # t /\ x \in Timers
  BY DEF timer_delay, Allocated
<1>2. _timer_insert(t, Clamp(d)) /\ func' = [func EXCEPT ![t] = TRUE]
  BY DEF timer_delay
<1>3. place' = [place EXCEPT ![t] = "queue"]
  BY <1>2 DEF _timer_insert
<1> QED BY <1>1, <1>2, <1>3 DEF QInv, Types

LEMMA CancelKeeps ==
  ASSUME QInv, NEW t \in Timers, timer_cancel(t), NEW x \in Allocated
  PROVE  place'[x] = place[x] /\ (~func[x] => ~func'[x])
<1>1. place' = place /\ func' = [func EXCEPT ![t] = FALSE] /\ x \in Timers
  BY DEF timer_cancel, Allocated
<1> QED BY <1>1 DEF QInv, Types

(* In every step: a timer that is taken has waited and is due on the clock, *)
(* a function is not given back, and a timer without one is not run.        *)
Taken(x) ==
  /\ x \in Queued => /\ place'[x] \in {"run", "lost"} => left[x] = 0 /\ time[x] <= Now
                     /\ place'[x] \in {"queue", "run", "lost", "free"}
  /\ ~func[x] => ~func'[x] /\ (place'[x] = "run" => place[x] = "run")
  /\ place'[x] = "lost" => ~func[x]

LEMMA Keeping ==
  ASSUME IInv, NEW x \in Allocated, place'[x] = place[x], ~func[x] => ~func'[x]
  PROVE  Taken(x)
<1>1. x \in Timers
  BY DEF Allocated
<1> QED BY <1>1 DEF Taken, Queued, IInv, QInv, LostOK, Types

LEMMA Dueness ==
  ASSUME QInv, head # NULL, Due(head)
  PROVE  left[head] = 0 /\ time[head] <= Now /\ head \in Timers
<1>1. head \in Timers
  BY QueueFacts DEF Queued
<1>2. left[head] \in Nat /\ time[head] \in Nat /\ Now \in Nat
  BY <1>1, QueueFacts DEF QInv, Types
<1>3. left[head] = 0 \/ left[head] <= time[head] - Now
  BY <1>1 DEF QInv, LeftOK
<1> QED BY <1>1, <1>2, <1>3 DEF Due

LEMMA TakenStep ==
  ASSUME IInv, [Next]_vars, NEW x \in Allocated
  PROVE  Taken(x)
<1>1. QInv /\ x \in Timers /\ Types
  BY DEF IInv, QInv, Allocated
<1>2. CASE AppDelay
  <2>1. PICK t \in Timers, d \in Delays : timer_delay(t, d)
    BY <1>2 DEF AppDelay
  <2> QED BY <1>1, <2>1, DelayKeeps, Keeping
<1>3. CASE AppCancel
  <2>1. PICK t \in Timers : timer_cancel(t)
    BY <1>3 DEF AppCancel
  <2> QED BY <1>1, <2>1, CancelKeeps, Keeping
<1>4. ASSUME NEW F, Freed(F) PROVE Taken(x)
  <2>1. /\ place' = [t \in Timers |-> IF t \in F THEN "free" ELSE place[t]]
        /\ func' = [t \in Timers |-> IF t \in F THEN FALSE ELSE func[t]]
    BY <1>4 DEF Freed
  <2>2. CASE x \in F
    BY <1>1, <2>1, <2>2 DEF Taken
  <2>3. CASE x \notin F
    <3>1. place'[x] = place[x] /\ func'[x] = func[x]
      BY <1>1, <2>1, <2>3
    <3> QED BY <3>1, Keeping
  <2> QED BY <2>2, <2>3
<1>5. CASE timer_clean
  BY <1>4, <1>5 DEF timer_clean
<1>6. ASSUME UNCHANGED queueVars PROVE Taken(x)
  BY <1>6, Keeping DEF queueVars
<1>7. CASE AppEnter \/ LoopStep \/ ExecuteNone
  BY <1>6, <1>7 DEF AppEnter, LoopStep, ExecuteNone
<1>8. ASSUME NEW where \in {"run", "lost"}, head # NULL, Due(head), Unlink(head, where),
             where = "run" <=> func[head]
      PROVE  Taken(x)
  <2>1. place' = [place EXCEPT ![head] = where] /\ func' = func
    BY <1>8 DEF Unlink
  <2>2. CASE x = head
    BY <1>1, <1>8, <2>1, <2>2, Dueness DEF Taken, Types
  <2>3. CASE x # head
    <3>1. place'[x] = place[x] /\ func'[x] = func[x]
      BY <1>1, <2>1, <2>3 DEF Types
    <3> QED BY <3>1, Keeping
  <2> QED BY <2>2, <2>3
<1>9. CASE ExecuteCancelled
  BY <1>8, <1>9 DEF ExecuteCancelled
<1>10. CASE ExecuteDue
  BY <1>8, <1>10 DEF ExecuteDue
<1>11. CASE FuncReturns
  <2>1. PICK seconds \in Returns :
          IF seconds > 0 THEN _timer_insert(Top.at, seconds) /\ UNCHANGED func
                         ELSE Freed({Top.at}) /\ UNCHANGED head
    BY <1>11 DEF FuncReturns
  <2>2. CASE seconds > 0
    <3>1. place' = [place EXCEPT ![Top.at] = "queue"] /\ func' = func
      BY <2>1, <2>2 DEF _timer_insert
    <3>2. CASE x = Top.at
      <4>1. place'[x] = "queue" /\ func'[x] = func[x]
        BY <1>1, <3>1, <3>2 DEF Types
      <4> QED BY <4>1 DEF Taken
    <3>3. CASE x # Top.at
      <4>1. place'[x] = place[x] /\ func'[x] = func[x]
        BY <1>1, <3>1, <3>3 DEF Types
      <4> QED BY <4>1, Keeping
    <3> QED BY <3>2, <3>3
  <2>3. CASE ~(seconds > 0)
    BY <1>4, <2>1, <2>3
  <2> QED BY <2>2, <2>3
<1>12. CASE EachStep
  <2>1. CASE UNCHANGED queueVars
    BY <1>6, <2>1
  <2>2. CASE \E t \in Timers : timer_cancel(t)
    BY <1>1, <2>2, CancelKeeps, Keeping
  <2>3. CASE \E t \in Timers, d \in Delays : timer_delay(t, d)
    BY <1>1, <2>3, DelayKeeps, Keeping
  <2> QED BY <1>12, <2>1, <2>2, <2>3 DEF EachStep
<1>13. CASE Tick
  <2>1. place' = place /\ func' = func
    BY <1>13 DEF Tick
  <2> QED BY <2>1, Keeping
<1>14. CASE UNCHANGED vars
  BY <1>6, <1>14 DEF vars
<1> QED BY <1>2, <1>3, <1>5, <1>7, <1>9, <1>10, <1>11, <1>12, <1>13, <1>14 DEF Next, App, Step

(* timer_cancel is final: neither the timer that queues itself again nor     *)
(* any other call gives a cancelled timer its function back, and what is    *)
(* taken from the queue without being run was cancelled.                    *)
THEOREM CancelFinal == Spec => CancelIsFinal
<1>1. IInv /\ [Next]_vars =>
        \A t \in Allocated : /\ ~func[t] => ~func'[t] /\ (place'[t] = "run" => place[t] = "run")
                             /\ place'[t] = "lost" => ~func[t]
  BY TakenStep DEF Taken
<1> QED BY <1>1, Inductive, PTL DEF Spec, CancelIsFinal

(* timer_check takes no timer before the delay it was given has passed, nor *)
(* one that is due after the last second of the day.                        *)
THEOREM NeverEarlyCorrect == Spec => NeverEarly
<1>1. ASSUME IInv, [Next]_vars, NEW t \in Queued
      PROVE  /\ place'[t] \in {"run", "lost"} => left[t] = 0
             /\ time[t] > 2 * (Day - 1) => place'[t] \in {"queue", "free"}
  <2>1. t \in Allocated /\ t \in Timers
    BY DEF Queued, Allocated
  <2>2. Taken(t)
    BY <1>1, <2>1, TakenStep
  <2>3. time[t] \in Nat /\ Now \in Nat /\ Now <= 2 * (Day - 1) /\ Day \in Nat
    BY <1>1, <2>1, QueueFacts, TimerAssumption DEF IInv, QInv, Types
  <2>4. place'[t] \in {"run", "lost"} => left[t] = 0 /\ time[t] <= Now
    BY <2>2 DEF Taken
  <2>5. place'[t] \in {"queue", "run", "lost", "free"}
    BY <2>2 DEF Taken
  <2>6. time[t] > 2 * (Day - 1) => ~(time[t] <= Now)
    BY <2>3
  <2> QED BY <2>4, <2>5, <2>6
<1>2. IInv /\ [Next]_vars =>
        \A t \in Queued : /\ place'[t] \in {"run", "lost"} => left[t] = 0
                          /\ time[t] > 2 * (Day - 1) => place'[t] \in {"queue", "free"}
  BY <1>1
<1> QED BY <1>2, Inductive, PTL DEF Spec, NeverEarly

----------------------------------------------------------------------------
(* The queue implements TimerQueue.  What a change of the links makes of    *)
(* the order comes first, then what the calls make of the entries.          *)

(* The walk through a sorted queue: s meets every timer once, by due time.  *)
Meets(s, Q, hd, tm, nx) ==
  /\ s \in [1 .. Cardinality(Q) -> Q] /\ s = Order(Q, hd, nx)
  /\ Walk(s, Cardinality(Q), hd, nx, NULL)
  /\ \A x \in Q : \E i \in 1 .. Cardinality(Q) : s[i] = x
  /\ \A i, j \in 1 .. Cardinality(Q) : s[i] = s[j] => i = j
  /\ \A i, j \in 1 .. Cardinality(Q) : i < j => tm[s[i]] <= tm[s[j]]

LEMMA OrderFacts ==
  ASSUME NEW Q \in SUBSET Timers, NEW hd, NEW tm, NEW nx, Sorted(Q, hd, tm, nx)
  PROVE  Cardinality(Q) \in Nat /\ \E s : Meets(s, Q, hd, tm, nx)
<1>1. PICK p \in [Q -> 1 .. Cardinality(Q)] : Numbered(p, Q, hd, tm, nx)
  BY DEF Sorted
<1>2. IsFiniteSet(Q) /\ Cardinality(Q) \in Nat
  BY TimerAssumption, FS_Subset, FS_CardinalityType
<1>3. /\ Q # {} => hd \in Q /\ p[hd] = 1
      /\ \A x, y \in Q : p[x] = p[y] => x = y
      /\ \A x \in Q : IF p[x] = Cardinality(Q) THEN nx[x] = NULL
                      ELSE nx[x] \in Q /\ p[nx[x]] = p[x] + 1
      /\ \A x, y \in Q : p[x] < p[y] => tm[x] <= tm[y]
  BY <1>1 DEF Numbered
<1>9. CountsAlong(p, Q, hd, nx, NULL)
  BY <1>1, <1>3 DEF CountsAlong
<1>4. PICK s \in [1 .. Cardinality(Q) -> Q] :
        /\ Walk(s, Cardinality(Q), hd, nx, NULL)
        /\ \A x \in Q : s[p[x]] = x
        /\ \A i \in 1 .. Cardinality(Q) : p[s[i]] = i
  BY <1>2, <1>9, WalkExists
<1>5. s = Order(Q, hd, nx)
  BY <1>2, <1>4, OrderIs
<1>6. \A x \in Q : \E i \in 1 .. Cardinality(Q) : s[i] = x
  BY <1>4
<1>7. \A i, j \in 1 .. Cardinality(Q) : s[i] = s[j] => i = j
  BY <1>4
<1>8. \A i, j \in 1 .. Cardinality(Q) : i < j => tm[s[i]] <= tm[s[j]]
  BY <1>3, <1>4
<1> QED BY <1>2, <1>4, <1>5, <1>6, <1>7, <1>8 DEF Meets

(* The entries read off such a walk.                                        *)
EntryType == [id : Timers, due : Nat, on : BOOLEAN]
Reads(e, s, n, tm, fn) ==
  /\ e \in Seq(EntryType) /\ Len(e) = n
  /\ \A i \in 1 .. n : e[i] = [id |-> s[i], due |-> tm[s[i]], on |-> fn[s[i]]]

LEMMA ReadsAs ==
  ASSUME NEW Q \in SUBSET Timers, NEW n \in Nat, NEW s \in [1 .. n -> Q],
         NEW tm \in [Timers -> Nat], NEW fn \in [Timers -> BOOLEAN], NEW e,
         e = [i \in 1 .. n |-> [id |-> s[i], due |-> tm[s[i]], on |-> fn[s[i]]]]
  PROVE  Reads(e, s, n, tm, fn)
<1>1. \A i \in 1 .. n : e[i] = [id |-> s[i], due |-> tm[s[i]], on |-> fn[s[i]]]
  OBVIOUS
<1>2. ASSUME NEW i \in 1 .. n PROVE e[i] \in EntryType
  <2>1. s[i] \in Timers /\ tm[s[i]] \in Nat /\ fn[s[i]] \in BOOLEAN
    OBVIOUS
  <2> QED BY <2>1, <1>1 DEF EntryType
<1>3. e = [i \in 1 .. n |-> e[i]]
  BY <1>1
<1>4. e \in Seq(EntryType) /\ Len(e) = n
  BY <1>2, <1>3, FunctionIsSeq
<1> QED BY <1>1, <1>4 DEF Reads

LEMMA Entries ==
  ASSUME QInv
  PROVE  /\ Cardinality(Queued) \in Nat
         /\ \E s : /\ Meets(s, Queued, head, time, next)
                   /\ Reads(entries, s, Cardinality(Queued), time, func)
<1>1. /\ Queued \in SUBSET Timers /\ time \in [Timers -> Nat] /\ func \in [Timers -> BOOLEAN]
      /\ Sorted(Queued, head, time, next)
  BY DEF QInv, Types, Queued
<1>2. Cardinality(Queued) \in Nat /\ \E s : Meets(s, Queued, head, time, next)
  BY <1>1, OrderFacts
<1>3. PICK s : Meets(s, Queued, head, time, next)
  BY <1>2
<1>4. s \in [1 .. Cardinality(Queued) -> Queued] /\ s = Order(Queued, head, next)
  BY <1>3 DEF Meets
<1>5. PICK e : e = entries
  OBVIOUS
<1>6. e = [i \in 1 .. Cardinality(Queued) |-> [id |-> s[i], due |-> time[s[i]], on |-> func[s[i]]]]
  BY <1>4, <1>5 DEF entries
<1>7. Reads(e, s, Cardinality(Queued), time, func)
  BY <1>1, <1>2, <1>4, <1>6, ReadsAs
<1> QED BY <1>2, <1>3, <1>5, <1>7

LEMMA EntriesAfter ==
  ASSUME QInv'
  PROVE  /\ Cardinality(Queued') \in Nat
         /\ \E s : /\ Meets(s, Queued', head', time', next')
                   /\ Reads(entries', s, Cardinality(Queued'), time', func')
<1>1. /\ Queued' \in SUBSET Timers /\ time' \in [Timers -> Nat] /\ func' \in [Timers -> BOOLEAN]
      /\ Sorted(Queued', head', time', next')
  BY DEF QInv, Types, Queued
<1>2. Cardinality(Queued') \in Nat /\ \E s : Meets(s, Queued', head', time', next')
  BY <1>1, OrderFacts
<1>3. PICK s : Meets(s, Queued', head', time', next')
  BY <1>2
<1>4. s \in [1 .. Cardinality(Queued') -> Queued'] /\ s = Order(Queued', head', next')
  BY <1>3 DEF Meets
<1>5. PICK e : e = entries'
  OBVIOUS
<1>6. e = [i \in 1 .. Cardinality(Queued') |-> [id |-> s[i], due |-> time'[s[i]], on |-> func'[s[i]]]]
  BY <1>4, <1>5 DEF entries
<1>7. Reads(e, s, Cardinality(Queued'), time', func')
  BY <1>1, <1>2, <1>4, <1>6, ReadsAs
<1> QED BY <1>2, <1>3, <1>5, <1>7

(* Where the links, times and functions of the queue stay, so do the        *)
(* entries.                                                                 *)
LEMMA EntriesStay ==
  ASSUME QInv, QInv', Queued' = Queued, head' = head,
         \A x \in Queued : next'[x] = next[x] /\ time'[x] = time[x] /\ func'[x] = func[x]
  PROVE  entries' = entries
<1>0. IsFiniteSet(Queued)
  BY TimerAssumption, FS_Subset DEF Queued
<1>1. PICK s : /\ Meets(s, Queued, head, time, next)
               /\ Reads(entries, s, Cardinality(Queued), time, func)
  BY Entries
<1>2. PICK t : /\ Meets(t, Queued, head, time', next')
               /\ Reads(entries', t, Cardinality(Queued), time', func')
  BY EntriesAfter
<1>3. Cardinality(Queued) \in Nat /\ Queued \in SUBSET Timers
  BY Entries DEF Queued
<1>4. s \in [1 .. Cardinality(Queued) -> Queued] /\ Walk(s, Cardinality(Queued), head, next, NULL)
  BY <1>1 DEF Meets
<1>5. Walk(s, Cardinality(Queued), head, next', NULL)
  BY <1>4 DEF Walk
<1>6. t = s
  <2>1. Order(Queued, head, next') = s
    BY <1>0, <1>3, <1>4, <1>5, OrderIs
  <2> QED BY <1>2, <2>1 DEF Meets
<1>7. PICK e, f : e = entries /\ f = entries'
  OBVIOUS
<1>8. /\ e \in Seq(EntryType) /\ f \in Seq(EntryType) /\ Len(e) = Len(f) /\ Len(e) = Cardinality(Queued)
      /\ \A i \in 1 .. Cardinality(Queued) : e[i] = f[i]
  <2>1. /\ Reads(e, s, Cardinality(Queued), time, func)
        /\ Reads(f, s, Cardinality(Queued), time', func')
    BY <1>1, <1>2, <1>6, <1>7
  <2>2. \A i \in 1 .. Cardinality(Queued) : time'[s[i]] = time[s[i]] /\ func'[s[i]] = func[s[i]]
    BY <1>4
  <2>3. PICK tm2, fn2 : tm2 = time' /\ fn2 = func'
    OBVIOUS
  <2> QED BY <2>1, <2>2, <2>3 DEF Reads
<1>9. e = f
  BY <1>8, SeqEqual
<1> QED BY <1>7, <1>9

(* A new entry goes behind those due no later.                              *)
Inserted(e, f, x) ==
  \E k \in 0 .. Len(e) :
    /\ \A i \in 1 .. Len(e) : e[i].due <= x.due <=> i <= k
    /\ f = SubSeq(e, 1, k) \o <<x>> \o SubSeq(e, k + 1, Len(e))

LEMMA ReadsInsert ==
  ASSUME NEW n \in Nat, NEW s, NEW e, NEW tm, NEW fn, Reads(e, s, n, tm, fn),
         NEW t, NEW k \in 0 .. n, NEW o, Spliced(o, s, n, k, t),
         NEW f, NEW tm2, NEW fn2, Reads(f, o, n + 1, tm2, fn2),
         \A i \in 1 .. n : tm2[s[i]] = tm[s[i]] /\ fn2[s[i]] = fn[s[i]],
         \A i \in 1 .. n : tm[s[i]] <= tm2[t] <=> i <= k
  PROVE  Inserted(e, f, [id |-> t, due |-> tm2[t], on |-> fn2[t]])
<1> DEFINE x == [id |-> t, due |-> tm2[t], on |-> fn2[t]]
<1>1. /\ e \in Seq(EntryType) /\ Len(e) = n /\ f \in Seq(EntryType) /\ Len(f) = n + 1
      /\ \A i \in 1 .. n : e[i] = [id |-> s[i], due |-> tm[s[i]], on |-> fn[s[i]]]
      /\ \A i \in 1 .. n + 1 : f[i] = [id |-> o[i], due |-> tm2[o[i]], on |-> fn2[o[i]]]
  BY DEF Reads
<1>2. /\ \A i \in 1 .. n + 1 : i <= k => o[i] = s[i] /\ i \in 1 .. n
      /\ o[k + 1] = t /\ k + 1 \in 1 .. n + 1
      /\ \A i \in 1 .. n + 1 : i > k + 1 => o[i] = s[i - 1] /\ i - 1 \in 1 .. n
  BY DEF Spliced
<1>3. f[k + 1] = x
  BY <1>1, <1>2
<1>4. x \in EntryType
  BY <1>1, <1>2, <1>3, ElementOfSeq
<1> HIDE DEF x
<1>5. ASSUME NEW j \in 1 .. n + 1
      PROVE  f[j] = IF j < k + 1 THEN e[j] ELSE IF j = k + 1 THEN x ELSE e[j - 1]
  <2>1. CASE j < k + 1
    <3>1. o[j] = s[j] /\ j \in 1 .. n
      BY <2>1, <1>2
    <3>2. tm2[s[j]] = tm[s[j]] /\ fn2[s[j]] = fn[s[j]]
      BY <3>1
    <3>3. f[j] = e[j]
      BY <3>1, <3>2, <1>1
    <3> QED BY <2>1, <3>3
  <2>2. CASE j = k + 1
    BY <2>2, <1>3
  <2>3. CASE j > k + 1
    <3>1. PICK m : m = j - 1
      OBVIOUS
    <3>2. o[j] = s[m] /\ m \in 1 .. n
      BY <2>3, <3>1, <1>2
    <3>3. tm2[s[m]] = tm[s[m]] /\ fn2[s[m]] = fn[s[m]]
      BY <3>2
    <3>4. f[j] = e[m]
      BY <3>2, <3>3, <1>1
    <3> QED BY <2>3, <3>1, <3>4
  <2> QED BY <2>1, <2>2, <2>3
<1>6. PICK kk : kk = k + 1
  OBVIOUS
<1>7. kk \in 1 .. (Len(e) + 1) /\ kk - 1 = k
  BY <1>1, <1>6
<1>8. \A j \in 1 .. Len(f) : f[j] = IF j < kk THEN e[j] ELSE IF j = kk THEN x ELSE e[j - 1]
  BY <1>1, <1>5, <1>6
<1>9. f = SubSeq(e, 1, kk - 1) \o <<x>> \o SubSeq(e, kk, Len(e))
  BY <1>1, <1>4, <1>7, <1>8, SequenceInsert
<1>10. \A i \in 1 .. n : e[i].due <= x.due <=> i <= k
  BY <1>1 DEF x
<1> HIDE DEF x
<1>11. f = SubSeq(e, 1, k) \o <<x>> \o SubSeq(e, k + 1, Len(e))
  BY <1>6, <1>7, <1>9
<1>12. k \in 0 .. Len(e)
  BY <1>1
<1> QED BY <1>1, <1>10, <1>11, <1>12 DEF Inserted, x

(* Where _timer_insert puts a timer.                                        *)
LEMMA SplicePlace ==
  ASSUME QInv, NEW t \in Timers \ Queued, NEW d \in Nat, _timer_insert(t, d),
         NEW s, Meets(s, Queued, head, time, next)
  PROVE  \E k \in 0 .. Cardinality(Queued) :
           /\ Splices(s, Queued, head, next, head', next', NULL, t, k)
           /\ \A i \in 1 .. Cardinality(Queued) : time[s[i]] <= Now + d <=> i <= k
<1> DEFINE due == Now + d
           n == Cardinality(Queued)
<1>1. Now \in Nat /\ due \in Nat /\ n \in Nat /\ head \in Queued \cup {NULL}
  BY QueueFacts, Entries
<1>2. /\ time \in [Timers -> Nat] /\ next \in [Timers -> Timers \cup {NULL}]
      /\ next[t] = NULL /\ Queued \in SUBSET Timers /\ (head = NULL <=> Queued = {})
  BY QueueFacts DEF QInv, Types, UnqueuedUnlinked, Queued
<1>3. /\ s \in [1 .. n -> Queued]
      /\ \A x \in Queued : \E i \in 1 .. n : s[i] = x
      /\ \A i, j \in 1 .. n : s[i] = s[j] => i = j
      /\ \A i, j \in 1 .. n : i < j => time[s[i]] <= time[s[j]]
      /\ \A i \in 1 .. n : (i = 1 => s[i] = head) /\ next[s[i]] = IF i = n THEN NULL ELSE s[i + 1]
  BY DEF Meets, Walk
<1>4. \A i \in 1 .. n : s[i] \in Queued /\ s[i] # t /\ s[i] \in Timers /\ time[s[i]] \in Nat /\ s[i] # NULL
  BY <1>2, <1>3, TimerAssumption
<1>5. SUFFICES \E k \in 0 .. n :
                 /\ /\ head' = IF k = 0 THEN t ELSE head
                    /\ next'[t] = IF k = n THEN NULL ELSE s[k + 1]
                    /\ k # 0 => next'[s[k]] = t
                    /\ \A i \in 1 .. n : i # k => next'[s[i]] = next[s[i]]
                 /\ \A i \in 1 .. n : time[s[i]] <= due <=> i <= k
  BY DEF Splices
<1>6. n = 0 \/ (1 \in 1 .. n /\ s[1] = head)
  BY <1>1, <1>3
<1>7. n = 0 <=> head = NULL
  <2>1. n = 0 => Queued = {}
    BY <1>3
  <2>2. n # 0 => head # NULL
    BY <1>4, <1>6
  <2> QED BY <2>1, <2>2, <1>2
<1>8. CASE head = NULL
  <2>1. head' = t /\ next' = next
    BY <1>8 DEF _timer_insert
  <2>2. n = 0 /\ 0 \in 0 .. n
    BY <1>7, <1>8
  <2> QED BY <2>1, <2>2, <1>2
<1>9. CASE head # NULL /\ due < time[head]
  <2>1. head \in Queued /\ time[head] \in Nat /\ ~(time[head] <= due) /\ n # 0 /\ s[1] = head /\ 1 \in 1 .. n
    BY <1>1, <1>2, <1>6, <1>7, <1>9
  <2> HIDE DEF due
  <2>2. head' = t /\ next' = [next EXCEPT ![t] = head]
    BY <1>9, <2>1 DEF _timer_insert, due
  <2>3. ASSUME NEW i \in 1 .. n PROVE ~(time[s[i]] <= due) /\ next'[s[i]] = next[s[i]]
    <3>1. time[head] <= time[s[i]]
      BY <2>1, <1>3, <1>4
    <3> QED BY <3>1, <2>1, <2>2, <1>1, <1>4, <1>9
  <2>4. next'[t] = head /\ 0 \in 0 .. n /\ 0 + 1 = 1
    BY <2>2, <1>1, <1>2
  <2> QED BY <2>1, <2>2, <2>3, <2>4
<1>10. CASE head # NULL /\ ~(due < time[head])
  <2> HIDE DEF due
  <2>1. PICK pre \in Timers :
          /\ StopsAt(pre, due) /\ head' = head
          /\ next' = [next EXCEPT ![t] = next[pre], ![pre] = t]
    BY <1>10 DEF _timer_insert, due
  <2>2. pre \in Queued /\ time[pre] <= due /\ (next[pre] # NULL => due < time[next[pre]])
    BY <2>1 DEF StopsAt
  <2>3. PICK k \in 1 .. n : s[k] = pre
    BY <2>2, <1>3
  <2>4. pre # t /\ next'[t] = next[pre] /\ next'[pre] = t
        /\ \A x \in Timers : x # t /\ x # pre => next'[x] = next[x]
    BY <2>1, <2>2, <1>2
  <2>5. next[pre] = IF k = n THEN NULL ELSE s[k + 1]
    BY <2>3, <1>3
  <2>6. \A i \in 1 .. n : i # k => next'[s[i]] = next[s[i]]
    BY <2>3, <2>4, <1>3, <1>4
  <2>7. ASSUME NEW i \in 1 .. n PROVE time[s[i]] <= due <=> i <= k
    <3>1. CASE i <= k
      <4>1. time[s[i]] <= time[s[k]]
        <5>1. i = k \/ i < k
          BY <3>1
        <5> QED BY <5>1, <1>3, <1>4
      <4> QED BY <4>1, <3>1, <2>2, <2>3, <1>1, <1>4
    <3>2. CASE i > k
      <4>1. k # n /\ k + 1 \in 1 .. n /\ (i = k + 1 \/ k + 1 < i)
        BY <3>2, <1>1
      <4>2. due < time[s[k + 1]]
        BY <4>1, <2>2, <2>5, <1>4
      <4>3. time[s[k + 1]] <= time[s[i]]
        BY <4>1, <1>3, <1>4
      <4> QED BY <4>1, <4>2, <4>3, <3>2, <1>1, <1>4
    <3> QED BY <3>1, <3>2
  <2>8. k \in 0 .. n /\ k # 0
    BY <1>1
  <2> QED BY <2>1, <2>3, <2>4, <2>5, <2>6, <2>7, <2>8
<1> QED BY <1>8, <1>9, <1>10

(* _timer_insert inserts an entry.                                          *)
LEMMA InsertsEntry ==
  ASSUME QInv, QInv', NEW t \in Timers \ Queued, NEW d \in Nat, _timer_insert(t, d),
         Queued' = Queued \cup {t}, \A x \in Timers : x # t => func'[x] = func[x]
  PROVE  Inserted(entries, entries', [id |-> t, due |-> Now + d, on |-> func'[t]])
<1>0. IsFiniteSet(Queued)
  BY TimerAssumption, FS_Subset DEF Queued
<1>1. PICK s : /\ Meets(s, Queued, head, time, next)
               /\ Reads(entries, s, Cardinality(Queued), time, func)
  BY Entries
<1>2. PICK o : /\ Meets(o, Queued \cup {t}, head', time', next')
               /\ Reads(entries', o, Cardinality(Queued \cup {t}), time', func')
  BY EntriesAfter
<1>3. Cardinality(Queued) \in Nat /\ Queued \in SUBSET Timers
  BY Entries DEF Queued
<1>4. s \in [1 .. Cardinality(Queued) -> Queued] /\ Walk(s, Cardinality(Queued), head, next, NULL)
  BY <1>1 DEF Meets
<1>5. PICK k \in 0 .. Cardinality(Queued) :
        /\ Splices(s, Queued, head, next, head', next', NULL, t, k)
        /\ \A i \in 1 .. Cardinality(Queued) : time[s[i]] <= Now + d <=> i <= k
  BY <1>1, SplicePlace
<1>6. /\ Cardinality(Queued \cup {t}) = Cardinality(Queued) + 1
      /\ Spliced(Order(Queued \cup {t}, head', next'), s, Cardinality(Queued), k, t)
  BY <1>0, <1>3, <1>4, <1>5, OrderInsert
<1>7. Spliced(o, s, Cardinality(Queued), k, t)
  <2>1. o = Order(Queued \cup {t}, head', next')
    BY <1>2 DEF Meets
  <2> QED BY <1>6, <2>1
<1>8. time' = [time EXCEPT ![t] = Now + d]
  BY DEF _timer_insert
<1>9. time'[t] = Now + d /\ \A i \in 1 .. Cardinality(Queued) : time'[s[i]] = time[s[i]] /\ func'[s[i]] = func[s[i]]
  <2>1. time \in [Timers -> Nat]
    BY DEF QInv, Types
  <2>2. \A i \in 1 .. Cardinality(Queued) : s[i] \in Timers /\ s[i] # t
    BY <1>3, <1>4
  <2> QED BY <2>1, <2>2, <1>8
<1>10. PICK n, e, f, fn2, tm2 : /\ n = Cardinality(Queued) /\ e = entries /\ f = entries'
                                /\ fn2 = func' /\ tm2 = time'
  OBVIOUS
<1>11. Reads(e, s, n, time, func) /\ Reads(f, o, n + 1, tm2, fn2) /\ Spliced(o, s, n, k, t) /\ n \in Nat
  BY <1>1, <1>2, <1>3, <1>6, <1>7, <1>10
<1>12. /\ \A i \in 1 .. n : tm2[s[i]] = time[s[i]] /\ fn2[s[i]] = func[s[i]]
       /\ \A i \in 1 .. n : time[s[i]] <= tm2[t] <=> i <= k
       /\ k \in 0 .. n
  BY <1>5, <1>9, <1>10
<1>13. Inserted(e, f, [id |-> t, due |-> tm2[t], on |-> fn2[t]])
  BY <1>11, <1>12, ReadsInsert
<1> QED BY <1>9, <1>10, <1>13

(* The first entry goes with the head.                                      *)
Keeps(s, n, tm, fn, tm2, fn2) ==
  \A i \in 1 .. n : i # 1 => tm2[s[i]] = tm[s[i]] /\ fn2[s[i]] = fn[s[i]]

LEMMA ReadsTail ==
  ASSUME NEW n \in Nat, n >= 1, NEW s, NEW e, NEW tm, NEW fn, Reads(e, s, n, tm, fn),
         NEW o, Behind(o, s, n), NEW f, NEW tm2, NEW fn2, Reads(f, o, n - 1, tm2, fn2),
         Keeps(s, n, tm, fn, tm2, fn2)
  PROVE  e # <<>> /\ Head(e).due = tm[s[1]] /\ f = Tail(e)
<1>1. /\ e \in Seq(EntryType) /\ Len(e) = n /\ f \in Seq(EntryType) /\ Len(f) = n - 1
      /\ \A i \in 1 .. n : e[i] = [id |-> s[i], due |-> tm[s[i]], on |-> fn[s[i]]]
      /\ \A i \in 1 .. n - 1 : f[i] = [id |-> o[i], due |-> tm2[o[i]], on |-> fn2[o[i]]]
  BY DEF Reads
<1>2. e # <<>> /\ Head(e) = e[1] /\ 1 \in 1 .. n
  BY <1>1
<1>3. Tail(e) \in Seq(EntryType) /\ Len(Tail(e)) = n - 1 /\ \A i \in 1 .. n - 1 : Tail(e)[i] = e[i + 1]
  BY <1>1, <1>2, HeadTailProperties
<1>4. ASSUME NEW i \in 1 .. n - 1 PROVE f[i] = Tail(e)[i]
  <2>1. PICK m : m = i + 1
    OBVIOUS
  <2>2. m \in 1 .. n /\ m # 1
    BY <2>1
  <2>3. o[i] = s[m] /\ tm2[s[m]] = tm[s[m]] /\ fn2[s[m]] = fn[s[m]]
    BY <2>1, <2>2 DEF Behind, Keeps
  <2>4. f[i] = e[m]
    BY <2>2, <2>3, <1>1
  <2> QED BY <2>1, <2>4, <1>3
<1>5. f = Tail(e)
  BY <1>1, <1>3, <1>4, SeqEqual
<1> QED BY <1>1, <1>2, <1>5

LEMMA TakesEntry ==
  ASSUME QInv, QInv', head # NULL, NEW where, Unlink(head, where), Queued' = Queued \ {head}
  PROVE  entries # <<>> /\ Head(entries).due = time[head] /\ entries' = Tail(entries)
<1>0. IsFiniteSet(Queued)
  BY TimerAssumption, FS_Subset DEF Queued
<1>1. PICK s : /\ Meets(s, Queued, head, time, next)
               /\ Reads(entries, s, Cardinality(Queued), time, func)
  BY Entries
<1>2. PICK o : /\ Meets(o, Queued \ {head}, head', time', next')
               /\ Reads(entries', o, Cardinality(Queued \ {head}), time', func')
  BY EntriesAfter
<1>3. /\ Cardinality(Queued) \in Nat /\ Queued \in SUBSET Timers /\ head \in Queued
      /\ time \in [Timers -> Nat] /\ next \in [Timers -> Timers \cup {NULL}]
  BY Entries, QueueFacts DEF Queued, QInv, Types
<1>4. /\ s \in [1 .. Cardinality(Queued) -> Queued] /\ Walk(s, Cardinality(Queued), head, next, NULL)
      /\ Once(s, Cardinality(Queued))
      /\ \E i \in 1 .. Cardinality(Queued) : s[i] = head
  BY <1>1, <1>3 DEF Meets, Once
<1>5. Cardinality(Queued) >= 1
  BY <1>3, <1>4
<1>6. /\ head' = next[head] /\ next' = [next EXCEPT ![head] = NULL]
      /\ time' = [time EXCEPT ![head] = 0] /\ func' = func
  BY DEF Unlink
<1>7. \A x \in Queued : x # head => next'[x] = next[x] /\ time'[x] = time[x]
  BY <1>3, <1>6
<1>8. /\ Cardinality(Queued \ {head}) = Cardinality(Queued) - 1 /\ s[1] = head
      /\ Behind(Order(Queued \ {head}, next[head], next'), s, Cardinality(Queued))
  BY <1>0, <1>3, <1>4, <1>5, <1>7, OrderRemove
<1>9. Behind(o, s, Cardinality(Queued))
  <2>1. o = Order(Queued \ {head}, head', next')
    BY <1>2 DEF Meets
  <2> QED BY <1>6, <1>8, <2>1
<1>10. PICK n, e, f, fn2, tm2 : /\ n = Cardinality(Queued) /\ e = entries /\ f = entries'
                                /\ fn2 = func' /\ tm2 = time'
  OBVIOUS
<1>11. Reads(e, s, n, time, func) /\ Reads(f, o, n - 1, tm2, fn2) /\ n \in Nat /\ n >= 1
  BY <1>1, <1>2, <1>3, <1>5, <1>8, <1>10
<1>12. ASSUME NEW i \in 1 .. n, i # 1 PROVE tm2[s[i]] = time[s[i]] /\ fn2[s[i]] = func[s[i]]
  <2>1. s[i] \in Queued /\ s[i] # head
    BY <1>4, <1>8, <1>10, <1>11, <1>12 DEF Once
  <2> QED BY <2>1, <1>6, <1>7, <1>10
<1>13. Behind(o, s, n)
  BY <1>9, <1>10
<1>14. Keeps(s, n, time, func, tm2, fn2)
  BY <1>12 DEF Keeps
<1>15. e # <<>> /\ Head(e).due = time[s[1]] /\ f = Tail(e)
  BY <1>11, <1>13, <1>14, ReadsTail
<1> QED BY <1>8, <1>10, <1>15

(* An entry loses its function and nothing else.                            *)
LEMMA CancelsEntry ==
  ASSUME QInv, QInv', NEW t \in Timers, timer_cancel(t), Queued' = Queued
  PROVE  entries' = [i \in 1 .. Len(entries) |->
                       IF entries[i].id = t THEN [id |-> t, due |-> entries[i].due, on |-> FALSE]
                       ELSE entries[i]]
<1>1. PICK s : /\ Meets(s, Queued, head, time, next)
               /\ Reads(entries, s, Cardinality(Queued), time, func)
  BY Entries
<1>2. PICK o : /\ Meets(o, Queued, head, time, next)
               /\ Reads(entries', o, Cardinality(Queued), time, func')
  BY EntriesAfter DEF timer_cancel
<1>3. o = s
  <2>1. o = Order(Queued, head, next) /\ s = Order(Queued, head, next)
    BY <1>1, <1>2 DEF Meets
  <2> QED BY <2>1
<1>4. Cardinality(Queued) \in Nat /\ Queued \in SUBSET Timers
  BY Entries DEF Queued
<1>5. s \in [1 .. Cardinality(Queued) -> Queued]
  BY <1>1 DEF Meets
<1>6. func' = [func EXCEPT ![t] = FALSE] /\ func \in [Timers -> BOOLEAN]
  BY DEF timer_cancel, QInv, Types
<1>7. PICK n, e, f, fn2 : n = Cardinality(Queued) /\ e = entries /\ f = entries' /\ fn2 = func'
  OBVIOUS
<1>8. /\ e \in Seq(EntryType) /\ Len(e) = n /\ f \in Seq(EntryType) /\ Len(f) = n /\ n \in Nat
      /\ \A i \in 1 .. n : e[i] = [id |-> s[i], due |-> time[s[i]], on |-> func[s[i]]]
      /\ \A i \in 1 .. n : f[i] = [id |-> s[i], due |-> time[s[i]], on |-> fn2[s[i]]]
  <2>1. Reads(e, s, n, time, func) /\ Reads(f, s, n, time, fn2)
    BY <1>1, <1>2, <1>3, <1>7
  <2> QED BY <2>1, <1>4, <1>7 DEF Reads
<1> DEFINE g == [i \in 1 .. n |-> IF e[i].id = t THEN [id |-> t, due |-> e[i].due, on |-> FALSE] ELSE e[i]]
<1>9. ASSUME NEW i \in 1 .. n PROVE g[i] = f[i]
  <2>1. s[i] \in Timers
    BY <1>4, <1>5, <1>7
  <2>2. fn2[s[i]] = IF s[i] = t THEN FALSE ELSE func[s[i]]
    BY <2>1, <1>6, <1>7
  <2>3. g[i] = IF e[i].id = t THEN [id |-> t, due |-> e[i].due, on |-> FALSE] ELSE e[i]
    OBVIOUS
  <2>4. e[i].id = s[i] /\ e[i] = [id |-> s[i], due |-> time[s[i]], on |-> func[s[i]]]
    BY <1>8
  <2>5. f[i] = [id |-> s[i], due |-> time[s[i]], on |-> fn2[s[i]]]
    BY <1>8
  <2>6. CASE s[i] = t
    <3>1. g[i] = [id |-> t, due |-> e[i].due, on |-> FALSE] /\ fn2[s[i]] = FALSE
      BY <2>2, <2>3, <2>4, <2>6
    <3>2. e[i].due = time[s[i]]
      BY <2>4
    <3> QED BY <3>1, <3>2, <2>5, <2>6
  <2>7. CASE s[i] # t
    <3>1. g[i] = e[i] /\ fn2[s[i]] = func[s[i]]
      BY <2>2, <2>3, <2>4, <2>7
    <3> QED BY <3>1, <2>4, <2>5
  <2> QED BY <2>6, <2>7
<1>10. \A i \in 1 .. n : f[i] \in EntryType
  BY <1>8, ElementOfSeq
<1>11. g = [i \in 1 .. n |-> g[i]]
  OBVIOUS
<1>12. \A i \in 1 .. n : g[i] \in EntryType
  BY <1>9, <1>10
<1> HIDE DEF g
<1>13. g \in Seq(EntryType) /\ Len(g) = n
  BY <1>8, <1>11, <1>12, FunctionIsSeq
<1>14. f = g
  BY <1>8, <1>9, <1>13, SeqEqual
<1> QED BY <1>7, <1>8, <1>14 DEF g

LEMMA CleansEntries ==
  ASSUME QInv', Queued' = {}
  PROVE  entries' = <<>>
<1>1. PICK s : Reads(entries', s, Cardinality(Queued'), time', func')
  BY EntriesAfter
<1>2. Cardinality(Queued') = 0
  BY FS_EmptySet
<1>3. PICK f : f = entries'
  OBVIOUS
<1>4. f \in Seq(EntryType) /\ Len(f) = 0
  BY <1>1, <1>2, <1>3 DEF Reads
<1> QED BY <1>3, <1>4, EmptySeq

LEMMA WaitingIs ==
  ASSUME QInv
  PROVE  Abstract!Waiting = Queued
<1>1. PICK s : /\ Meets(s, Queued, head, time, next)
               /\ Reads(entries, s, Cardinality(Queued), time, func)
  BY Entries
<1>2. PICK e : e = entries
  OBVIOUS
<1>3. /\ Len(e) = Cardinality(Queued)
      /\ \A i \in 1 .. Cardinality(Queued) : e[i].id = s[i]
  BY <1>1, <1>2 DEF Reads
<1>4. /\ \A i \in 1 .. Cardinality(Queued) : s[i] \in Queued
      /\ \A x \in Queued : \E i \in 1 .. Cardinality(Queued) : s[i] = x
  BY <1>1 DEF Meets
<1>5. {e[i].id : i \in 1 .. Len(e)} = Queued
  BY <1>3, <1>4
<1> QED BY <1>2, <1>5 DEF Abstract!Waiting

(* An insertion of _timer_insert is one of the abstract queue.              *)
LEMMA InsertImplements ==
  ASSUME QInv, QInv', NEW t \in Timers \ Queued, NEW d \in Nat, _timer_insert(t, d), clock' = clock,
         Queued' = Queued \cup {t}, \A x \in Timers : x # t => func'[x] = func[x]
  PROVE  Abstract!Next
<1> DEFINE due == Now + d
           x == [id |-> t, due |-> due, on |-> func'[t]]
<1>1. Now \in Nat /\ due \in Nat /\ due >= Now /\ Now' = Now
  BY QueueFacts DEF Now
<1> HIDE DEF due
<1>2. Inserted(entries, entries', x)
  BY InsertsEntry DEF due
<1>3. x \in EntryType
  <2>1. func'[t] \in BOOLEAN
    BY DEF QInv, Types
  <2> QED BY <1>1, <2>1 DEF EntryType
<1>4. x.id = t /\ x.due = due /\ x.on = func'[t] /\ x = Abstract!Entry(t, due, x.on)
  BY DEF Abstract!Entry
<1> HIDE DEF x
<1>5. PICK e, f : e = entries /\ f = entries'
  OBVIOUS
<1>6. e \in Seq(EntryType)
  BY <1>5, Entries DEF Reads
<1>7. PICK k \in 0 .. Len(e) :
        /\ \A i \in 1 .. Len(e) : e[i].due <= x.due <=> i <= k
        /\ f = SubSeq(e, 1, k) \o <<x>> \o SubSeq(e, k + 1, Len(e))
  BY <1>2, <1>5 DEF Inserted
<1>8. k + 1 \in 1 .. Len(f) /\ f[k + 1] = x
  <2>1. SubSeq(e, 1, k) \in Seq(EntryType) /\ Len(SubSeq(e, 1, k)) = k
    BY <1>6
  <2>2. SubSeq(e, k + 1, Len(e)) \in Seq(EntryType) /\ Len(SubSeq(e, k + 1, Len(e))) \in Nat
    BY <1>6
  <2>3. PICK a, b : a = SubSeq(e, 1, k) /\ b = SubSeq(e, k + 1, Len(e))
    OBVIOUS
  <2>4. PICK c : c = a \o <<x>>
    OBVIOUS
  <2>5. a \in Seq(EntryType) /\ Len(a) = k /\ b \in Seq(EntryType) /\ Len(b) \in Nat /\ k \in Nat
    BY <2>1, <2>2, <2>3
  <2>6. c \in Seq(EntryType) /\ Len(c) = k + 1 /\ c[k + 1] = x
    <3>1. c = Append(a, x)
      BY <1>3, <2>4, <2>5, AppendIsConcat
    <3> QED BY <1>3, <2>5, <3>1, AppendProperties
  <2>7. f = c \o b
    BY <1>7, <2>3, <2>4
  <2>8. Len(f) = (k + 1) + Len(b) /\ f[k + 1] = c[k + 1]
    <3>1. /\ Len(c \o b) = Len(c) + Len(b)
          /\ \A i \in 1 .. Len(c) + Len(b) :
               (c \o b)[i] = IF i <= Len(c) THEN c[i] ELSE b[i - Len(c)]
      BY <2>5, <2>6, ConcatProperties
    <3>2. k + 1 \in 1 .. Len(c) + Len(b) /\ k + 1 <= Len(c)
      BY <2>5, <2>6
    <3> QED BY <2>6, <2>7, <3>1, <3>2
  <2> QED BY <2>5, <2>6, <2>8
<1>9. t \notin Abstract!Waiting
  BY WaitingIs
<1>10. Abstract!Insert(t, due, x.on)
  <2>1. \E j \in 0 .. Len(entries) :
          /\ \A i \in 1 .. Len(entries) : entries[i].due <= due <=> i <= j
          /\ entries' = SubSeq(entries, 1, j) \o <<Abstract!Entry(t, due, x.on)>>
                         \o SubSeq(entries, j + 1, Len(entries))
    BY <1>4, <1>5, <1>7
  <2> QED BY <1>1, <1>9, <2>1 DEF Abstract!Insert
<1>11. \E i \in 1 .. Len(entries') :
         entries'[i].id = t /\ Abstract!Insert(t, entries'[i].due, entries'[i].on)
  BY <1>4, <1>5, <1>8, <1>10
<1> QED BY <1>11 DEF Abstract!Next

LEMMA DelayImplements ==
  ASSUME QInv, NEW t \in Timers, NEW d \in Int, timer_delay(t, d), clock' = clock
  PROVE  Abstract!Next
<1>1. QInv' /\ Queued' = Queued \cup {t}
  BY Delaying
<1>2. t \in Timers \ Queued /\ Clamp(d) \in Nat /\ _timer_insert(t, Clamp(d))
  BY DEF timer_delay, Allocated, Queued, Clamp
<1>3. \A x \in Timers : x # t => func'[x] = func[x]
  BY DEF timer_delay, QInv, Types
<1> QED BY <1>1, <1>2, <1>3, InsertImplements

(* A cancellation of a timer out of the queue changes no entry.             *)
LEMMA CancelImplements ==
  ASSUME QInv, NEW t \in Timers, timer_cancel(t), clock' = clock
  PROVE  [Abstract!Next]_(Abstract!qvars)
<1>1. QInv' /\ Queued' = Queued
  BY Cancelling
<1>2. Now' = Now
  BY DEF Now
<1>3. CASE t \in Queued
  <2>1. entries' = [i \in 1 .. Len(entries) |->
                      IF entries[i].id = t THEN Abstract!Entry(t, entries[i].due, FALSE)
                      ELSE entries[i]]
    BY <1>1, CancelsEntry DEF Abstract!Entry
  <2>2. t \in Abstract!Waiting
    BY <1>3, WaitingIs
  <2>3. Abstract!Cancel(t)
    BY <1>2, <2>1, <2>2 DEF Abstract!Cancel
  <2> QED BY <2>3 DEF Abstract!Next
<1>4. CASE t \notin Queued
  <2>1. /\ head' = head /\ next' = next /\ time' = time
        /\ \A x \in Queued : func'[x] = func[x]
    BY <1>4 DEF timer_cancel, QInv, Types, Queued
  <2>2. entries' = entries
    BY <1>1, <2>1, EntriesStay
  <2> QED BY <1>2, <2>2 DEF Abstract!qvars
<1> QED BY <1>3, <1>4

LEMMA UnlinkImplements ==
  ASSUME QInv, head # NULL, Due(head), NEW where \in {"run", "lost"}, where = "lost" => ~func[head],
         Unlink(head, where)
  PROVE  Abstract!Next
<1>1. QInv' /\ Queued' = Queued \ {head}
  BY Unlinking
<1>2. entries # <<>> /\ Head(entries).due = time[head] /\ entries' = Tail(entries)
  BY <1>1, TakesEntry
<1>3. Now' = Now
  BY DEF Unlink, Now
<1>4. Abstract!Take
  BY <1>2, <1>3 DEF Due, Abstract!Take
<1> QED BY <1>4 DEF Abstract!Next

(* A function that returns queues its timer again or frees it, which is in  *)
(* no queue then.                                                           *)
LEMMA ReturnImplements ==
  ASSUME IInv, IInv', FuncReturns
  PROVE  [Abstract!Next]_(Abstract!qvars)
<1>1. StackOK(stack, Run, Queued) /\ QInv /\ QInv' /\ stack # <<>> /\ Top.pc = "func" /\ clock' = clock
  BY DEF IInv, FuncReturns, Running
<1>2. PICK seconds \in Returns :
        IF seconds > 0 THEN _timer_insert(Top.at, seconds) /\ UNCHANGED func
                       ELSE Freed({Top.at}) /\ UNCHANGED head
  BY DEF FuncReturns
<1> DEFINE t == Top.at
<1>3. t \in Timers \ Queued
  <2>1. t \in Run
    BY <1>1, FunctionCallerOK
  <2> QED BY <2>1 DEF Run, Queued
<1> HIDE DEF t
<1>4. CASE seconds > 0
  <2>1. seconds \in Nat
    BY <1>4, TimerAssumption
  <2>2. _timer_insert(t, seconds) /\ func' = func
    BY <1>2, <1>4 DEF t
  <2>3. func' \in [Timers -> BOOLEAN] /\ \A x \in Timers : x # t => func'[x] = func[x]
    BY <1>1, <2>2 DEF QInv, Types
  <2>4. Queued' = Queued \cup {t}
    BY <1>1, <1>3, <2>1, <2>2, <2>3, Inserting
  <2> QED BY <1>1, <1>3, <2>1, <2>2, <2>3, <2>4, InsertImplements
<1>5. CASE ~(seconds > 0)
  <2>1. Freed({t}) /\ head' = head
    BY <1>2, <1>5 DEF t
  <2>2. {t} \in SUBSET Timers /\ {t} \cap Queued = {} /\ Queued \ {t} = Queued
    BY <1>3
  <2>3. Queued' = Queued
    BY <1>1, <2>1, <2>2, Freeing
  <2>4. \A x \in Queued : next'[x] = next[x] /\ time'[x] = time[x] /\ func'[x] = func[x]
    BY <1>3, <2>1 DEF Freed, Queued
  <2>5. entries' = entries
    BY <1>1, <2>1, <2>3, <2>4, EntriesStay
  <2> QED BY <1>1, <2>5 DEF Abstract!qvars, Now
<1> QED BY <1>4, <1>5

LEMMA SameQueue ==
  ASSUME QInv, UNCHANGED <<clock, queueVars>>
  PROVE  UNCHANGED Abstract!qvars
<1>1. QInv' /\ Queued' = Queued
  BY QueueUnchanged
<1>2. head' = head /\ time' = time /\ next' = next /\ func' = func /\ clock' = clock
  BY DEF queueVars
<1>3. entries' = entries
  BY <1>1, <1>2, EntriesStay
<1> QED BY <1>2, <1>3 DEF Abstract!qvars, Now

LEMMA CleanImplements ==
  ASSUME IInv, IInv', timer_clean
  PROVE  Abstract!Next
<1>1. Freed(Queued) /\ head' = NULL /\ clock' = clock /\ QInv /\ QInv'
  BY DEF timer_clean, IInv
<1>2. Queued' = {}
  BY <1>1, Sets, Freeing
<1>3. entries' = <<>> /\ Now' = Now
  BY <1>1, <1>2, CleansEntries DEF Now
<1> QED BY <1>3 DEF Abstract!Clean, Abstract!Next

LEMMA EachImplements ==
  ASSUME IInv, EachStep
  PROVE  [Abstract!Next]_(Abstract!qvars)
<1>1. QInv /\ clock' = clock
  BY DEF IInv, EachStep
<1>2. CASE UNCHANGED queueVars
  BY <1>1, <1>2, SameQueue
<1>3. CASE \E t \in Timers : timer_cancel(t)
  BY <1>1, <1>3, CancelImplements
<1>4. CASE \E t \in Timers, d \in Delays : timer_delay(t, d)
  BY <1>1, <1>4, TimerAssumption, DelayImplements
<1> QED BY <1>2, <1>3, <1>4 DEF EachStep

LEMMA TickImplements ==
  ASSUME IInv, IInv', Tick
  PROVE  Abstract!Next
<1>1. /\ head' = head /\ time' = time /\ next' = next /\ func' = func /\ place' = place
      /\ QInv /\ QInv'
  BY DEF Tick, IInv
<1>2. Queued' = Queued
  BY <1>1 DEF Queued
<1>3. entries' = entries
  BY <1>1, <1>2, EntriesStay
<1>4. Now' \in Nat
  <2>1. clock' \in 0 .. (Day - 1)
    BY <1>1 DEF QInv, Types
  <2>2. clock' \in Nat
    BY <2>1, TimerAssumption
  <2>3. Now' = 2 * clock'
    BY DEF Now
  <2>4. PICK c \in Nat : c = clock'
    BY <2>2
  <2>5. 2 * c \in Nat
    OBVIOUS
  <2> QED BY <2>3, <2>4, <2>5
<1> QED BY <1>3, <1>4 DEF Abstract!Pass, Abstract!Next

LEMMA StepImplements ==
  ASSUME IInv, IInv', [Next]_vars
  PROVE  [Abstract!Next]_(Abstract!qvars)
<1>1. QInv
  BY DEF IInv
<1>2. CASE AppDelay
  <2>1. PICK t \in Timers, d \in Delays : timer_delay(t, d)
    BY <1>2 DEF AppDelay
  <2>2. d \in Int /\ clock' = clock
    BY <1>2, TimerAssumption DEF AppDelay
  <2> QED BY <1>1, <2>1, <2>2, DelayImplements
<1>3. CASE AppCancel
  <2>1. PICK t \in Timers : timer_cancel(t)
    BY <1>3 DEF AppCancel
  <2>2. clock' = clock
    BY <1>3 DEF AppCancel
  <2> QED BY <1>1, <2>1, <2>2, CancelImplements
<1>4. CASE timer_clean
  BY <1>4, CleanImplements
<1>5. CASE AppEnter \/ LoopStep \/ ExecuteNone \/ UNCHANGED vars
  <2>1. UNCHANGED <<clock, queueVars>>
    BY <1>5 DEF AppEnter, LoopStep, ExecuteNone, vars
  <2> QED BY <1>1, <2>1, SameQueue
<1>6. CASE ExecuteCancelled
  BY <1>1, <1>6, UnlinkImplements DEF ExecuteCancelled
<1>7. CASE ExecuteDue
  BY <1>1, <1>7, UnlinkImplements DEF ExecuteDue
<1>8. CASE FuncReturns
  BY <1>8, ReturnImplements
<1>9. CASE EachStep
  BY <1>9, EachImplements
<1>10. CASE Tick
  BY <1>10, TickImplements
<1> QED BY <1>2, <1>3, <1>4, <1>5, <1>6, <1>7, <1>8, <1>9, <1>10 DEF Next, App, Step

(* The links, times and functions of the timers, read along the queue, are  *)
(* the list of timer.h: sorted, with a timer behind those due at the same   *)
(* time, taken from the front when it is due, and cancelled in place.       *)
THEOREM QueueImplemented == Spec => ImplementsQueue
<1>1. Init => Abstract!Init
  <2> SUFFICES ASSUME Init PROVE Abstract!Init
    OBVIOUS
  <2>1. Queued = {} /\ Now \in Nat
    BY TimerAssumption DEF Init, Queued, Now
  <2>2. QInv
    BY Initially DEF IInv
  <2>3. PICK s : Reads(entries, s, Cardinality(Queued), time, func)
    BY <2>2, Entries
  <2>4. PICK e : e = entries
    OBVIOUS
  <2>5. e \in Seq(EntryType) /\ Len(e) = 0
    BY <2>1, <2>3, <2>4, FS_EmptySet DEF Reads
  <2> QED BY <2>1, <2>4, <2>5, EmptySeq DEF Abstract!Init
<1>2. IInv /\ IInv' /\ [Next]_vars => [Abstract!Next]_(Abstract!qvars)
  BY StepImplements
<1> QED BY <1>1, <1>2, Inductive, PTL DEF Spec, ImplementsQueue, Abstract!Spec
=============================================================================
