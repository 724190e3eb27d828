----------------------------- MODULE ListLemmas -----------------------------
(* Lemmas about numbers, sequences and linked lists that know nothing of    *)
(* this program and that its proofs share.                                  *)
EXTENDS Links, FiniteSetTheorems, SequenceTheorems, TLAPS

(* Least and greatest numbers, which is what an induction comes to.         *)

LEMMA Least ==
  ASSUME NEW S \in SUBSET Nat, S # {}
  PROVE  \E x \in S : \A y \in S : x <= y
<1>1. PICK R : R = OpToRel(<, Nat)
  OBVIOUS
<1>2. IsWellFoundedOn(R, Nat)
  BY <1>1, NatLessThanWellFounded
<1>3. \E x \in S : \A y \in S : ~(<<y, x>> \in R)
  BY <1>2, WFMin
<1>4. PICK x \in S : \A y \in S : ~(<<y, x>> \in R)
  BY <1>3
<1>5. R = {ss \in Nat \X Nat : ss[1] < ss[2]}
  BY <1>1, Zenon DEF OpToRel
<1>6. ASSUME NEW y \in S PROVE x <= y
  <2>1. y \in Nat /\ x \in Nat /\ ~(<<y, x>> \in {ss \in Nat \X Nat : ss[1] < ss[2]})
    BY <1>4, <1>5
  <2> QED BY <2>1
<1> QED BY <1>6

LEMMA Greatest ==
  ASSUME NEW n \in Nat, NEW S \in SUBSET (0 .. n), S # {}
  PROVE  \E x \in S : \A y \in S : y <= x
<1> DEFINE T == {k \in Nat : n - k \in S}
<1>1. T \in SUBSET Nat
  OBVIOUS
<1>2. \A y \in S : n - y \in T
  <2> SUFFICES ASSUME NEW y \in S PROVE n - y \in T
    OBVIOUS
  <2>1. y \in Nat /\ y <= n
    OBVIOUS
  <2>2. n - y \in Nat /\ n - (n - y) = y
    BY <2>1
  <2> QED BY <2>2
<1>3. T # {}
  BY <1>2
<1>4. PICK k \in T : \A j \in T : k <= j
  BY <1>1, <1>3, Least
<1>5. ASSUME NEW y \in S PROVE y <= n - k
  <2>1. k <= n - y
    BY <1>2, <1>4
  <2>2. y \in Int /\ k \in Int
    OBVIOUS
  <2> QED BY <2>1, <2>2
<1>6. n - k \in S
  OBVIOUS
<1> QED BY <1>5, <1>6

-----------------------------------------------------------------------------
(* Quotients and remainders.                                                 *)

(* Division with a remainder. The equation is behind a name, so that it     *)
(* stays whole where the quotient and the remainder are looked for.         *)
Divided(a, b, q, r) == q \in Nat /\ r \in Nat /\ r < b /\ a = b * q + r

(* Every number has a quotient and a remainder.                             *)
LEMMA DivMod ==
  ASSUME NEW a \in Nat, NEW b \in Nat \ {0}
  PROVE  \E q, r : q = a \div b /\ r = a % b /\ Divided(a, b, q, r)
<1>1. PICK q \in Nat, r \in Nat : q = a \div b /\ r = a % b /\ r < b /\ a = b * q + r
  OBVIOUS
<1> QED BY <1>1 DEF Divided

(* Multiples are at least a factor apart.                                   *)
LEMMA MulLess ==
  ASSUME NEW a \in Nat, NEW p \in Nat, NEW q \in Nat, p < q
  PROVE  a * p + a <= a * q
<1>1. PICK d \in Nat : q = p + 1 + d
  <2>1. q - p - 1 \in Nat /\ q = p + 1 + (q - p - 1)
    OBVIOUS
  <2> QED BY <2>1
<1>2. a * q = a * p + a + a * d
  BY <1>1
<1>3. a * d \in Nat
  OBVIOUS
<1>4. a * p \in Nat /\ a * q \in Nat
  OBVIOUS
<1> QED BY <1>2, <1>3, <1>4

(* There is one quotient and one remainder.                                 *)
LEMMA Quotient ==
  ASSUME NEW b \in Nat \ {0}, NEW a, NEW q, NEW r, Divided(a, b, q, r)
  PROVE  a \div b = q /\ a % b = r
<1>0. a \in Nat /\ q \in Nat /\ r \in Nat /\ r < b /\ a = b * q + r
  BY DEF Divided
<1>1. PICK p \in Nat, s \in Nat : p = a \div b /\ s = a % b /\ s < b /\ a = b * p + s
  BY <1>0, DivMod DEF Divided
<1>2. b * p \in Nat /\ b * q \in Nat
  BY <1>0
<1>3. ~(p < q)
  <2>1. p < q => b * p + b <= b * q
    BY <1>0, MulLess
  <2> QED BY <1>0, <1>1, <1>2, <2>1
<1>4. ~(q < p)
  <2>1. q < p => b * q + b <= b * p
    BY <1>0, MulLess
  <2> QED BY <1>0, <1>1, <1>2, <2>1
<1>5. p = q
  BY <1>0, <1>3, <1>4
<1>6. s = r
  BY <1>0, <1>1, <1>2, <1>5
<1> QED BY <1>1, <1>5, <1>6

(* Dividing twice is dividing by the product.                               *)
LEMMA DivDiv ==
  ASSUME NEW x \in Nat, NEW a \in Nat \ {0}, NEW b \in Nat \ {0}
  PROVE  (x \div a) \div b = x \div (b * a) /\ b * a \in Nat \ {0}
<1>1. PICK q, r : q = x \div a /\ Divided(x, a, q, r)
  BY DivMod
<1>2. q \in Nat /\ r \in Nat /\ r < a /\ x = a * q + r
  BY <1>1 DEF Divided
<1>3. PICK p, s : p = q \div b /\ Divided(q, b, p, s)
  BY <1>2, DivMod
<1>4. p \in Nat /\ s \in Nat /\ s < b /\ q = b * p + s
  BY <1>3 DEF Divided
<1>5. x = (b * a) * p + (a * s + r)
  <2>1. a * q = a * (b * p) + a * s
    BY <1>4
  <2>2. a * (b * p) = (b * a) * p
    BY <1>4
  <2> QED BY <1>2, <1>4, <2>1, <2>2
<1>6. a * s + r \in Nat /\ a * s + r < b * a
  <2>1. a * s + a <= a * b
    BY <1>4, MulLess
  <2>2. a * b = b * a /\ a * s \in Nat /\ a * b \in Nat
    BY <1>4
  <2> QED BY <1>2, <2>1, <2>2
<1>7. b * a \in Nat \ {0}
  OBVIOUS
<1>8. PICK ba, r2 : ba = b * a /\ r2 = a * s + r
  OBVIOUS
<1>9. Divided(x, ba, p, r2)
  BY <1>4, <1>5, <1>6, <1>8 DEF Divided
<1>10. x \div ba = p
  BY <1>7, <1>8, <1>9, Quotient
<1> QED BY <1>1, <1>3, <1>7, <1>8, <1>10

(* Whole multiples do not change a remainder.                               *)
LEMMA ModAdd ==
  ASSUME NEW b \in Nat \ {0}, NEW u \in Nat, NEW s \in Nat
  PROVE  (b * u + s) % b = s % b
<1>1. PICK p, t : t = s % b /\ Divided(s, b, p, t)
  BY DivMod
<1>2. p \in Nat /\ t \in Nat /\ t < b /\ s = b * p + t
  BY <1>1 DEF Divided
<1>3. PICK v, x : v = u + p /\ x = b * u + s
  OBVIOUS
<1>4. Divided(x, b, v, t)
  <2>1. b * v = b * u + b * p /\ b * u \in Nat /\ b * p \in Nat
    BY <1>2, <1>3
  <2>2. x = b * v + t
    BY <1>2, <1>3, <2>1
  <2> QED BY <1>2, <1>3, <2>2 DEF Divided
<1>5. x % b = t
  BY <1>4, Quotient
<1> QED BY <1>1, <1>3, <1>5

-----------------------------------------------------------------------------
(* Sequences as functions, and what an insertion, a removal and an          *)
(* extension make of them.                                                  *)

LEMMA FunctionIsSeq ==
  ASSUME NEW S, NEW n \in Nat, NEW f, f = [i \in 1 .. n |-> f[i]], \A i \in 1 .. n : f[i] \in S
  PROVE  f \in Seq(S) /\ Len(f) = n
<1>1. f \in [1 .. n -> S]
  OBVIOUS
<1>2. f \in Seq(S)
  BY <1>1, SeqDef
<1>3. DOMAIN f = 1 .. n
  BY <1>1
<1> QED BY <1>2, <1>3, LenProperties

LEMMA Prefix ==
  ASSUME NEW S, NEW s \in Seq(S), NEW k \in 1 .. (Len(s) + 1)
  PROVE  /\ SubSeq(s, 1, k - 1) \in Seq(S) /\ Len(SubSeq(s, 1, k - 1)) = k - 1
         /\ \A j \in 1 .. (k - 1) : SubSeq(s, 1, k - 1)[j] = s[j]
<1>1. Len(s) \in Nat
  BY LenProperties
<1>2. PICK n : n = k - 1
  OBVIOUS
<1>3. n \in Nat /\ n <= Len(s)
  BY <1>1, <1>2
<1>4. \A j \in 1 .. n : s[j] \in S
  BY <1>1, <1>3, ElementOfSeq
<1>5. /\ SubSeq(s, 1, n) \in Seq(S) /\ Len(SubSeq(s, 1, n)) = IF 1 <= n THEN n - 1 + 1 ELSE 0
      /\ \A j \in 1 .. n - 1 + 1 : SubSeq(s, 1, n)[j] = s[1 + j - 1]
  BY <1>3, <1>4, SubSeqProperties
<1>6. \A j \in 1 .. n : j \in 1 .. n - 1 + 1 /\ 1 + j - 1 = j
  BY <1>3
<1> QED BY <1>2, <1>3, <1>5, <1>6

LEMMA SequenceInsert ==
  ASSUME NEW S, NEW s \in Seq(S), NEW k \in 1 .. (Len(s) + 1), NEW v \in S, NEW t \in Seq(S),
         Len(t) = Len(s) + 1,
         \A j \in 1 .. Len(t) : t[j] = IF j < k THEN s[j] ELSE IF j = k THEN v ELSE s[j - 1]
  PROVE  t = SubSeq(s, 1, k - 1) \o <<v>> \o SubSeq(s, k, Len(s))
<1> DEFINE x == SubSeq(s, 1, k - 1)
           y == <<v>>
           z == SubSeq(s, k, Len(s))
<1>1. Len(s) \in Nat
  BY LenProperties
<1>2. /\ x \in Seq(S) /\ Len(x) = k - 1
      /\ \A j \in 1 .. (k - 1) : x[j] = s[j]
  BY <1>1, Prefix
<1>3. y \in Seq(S) /\ Len(y) = 1 /\ y[1] = v
  OBVIOUS
<1>4. /\ z \in Seq(S) /\ Len(z) = Len(s) - k + 1
      /\ \A j \in 1 .. (Len(s) - k + 1) : z[j] = s[k + j - 1]
  BY <1>1, SubSeqProperties
<1> HIDE DEF x, y, z
<1>5. /\ x \o y \in Seq(S) /\ Len(x \o y) = k
      /\ \A j \in 1 .. k : (x \o y)[j] = IF j < k THEN s[j] ELSE v
  <2>1. k - 1 \in Nat /\ (k - 1) + 1 = k /\ 1 .. Len(x) + Len(y) = 1 .. k
    BY <1>1, <1>2, <1>3
  <2>2. /\ x \o y \in Seq(S) /\ Len(x \o y) = k
        /\ \A j \in 1 .. k : (x \o y)[j] = IF j <= Len(x) THEN x[j] ELSE y[j - Len(x)]
    <3>1. /\ x \o y \in Seq(S) /\ Len(x \o y) = Len(x) + Len(y)
          /\ \A j \in 1 .. Len(x) + Len(y) :
               (x \o y)[j] = IF j <= Len(x) THEN x[j] ELSE y[j - Len(x)]
      BY <1>2, <1>3, ConcatProperties
    <3>2. Len(x) + Len(y) = k
      BY <2>1, <1>2, <1>3
    <3> QED BY <3>1, <3>2, Zenon
  <2>3. ASSUME NEW j \in 1 .. k PROVE (x \o y)[j] = IF j < k THEN s[j] ELSE v
    <3>1. CASE j < k
      BY <2>1, <2>2, <3>1, <1>2
    <3>2. CASE j = k
      <4>1. j - Len(x) = 1 /\ ~(j <= Len(x))
        BY <3>2, <2>1, <1>2
      <4>2. (x \o y)[j] = y[j - Len(x)]
        BY <4>1, <2>2
      <4> QED BY <3>2, <4>1, <4>2, <1>3
    <3>3. j < k \/ j = k
      BY <1>1
    <3> QED BY <3>1, <3>2, <3>3, Zenon
  <2> QED BY <2>2, <2>3
<1>6. PICK xy \in Seq(S) : xy = x \o y
  BY <1>5
<1>7. /\ xy \o z \in Seq(S) /\ Len(xy \o z) = Len(s) + 1
      /\ \A j \in 1 .. (Len(s) + 1) : (xy \o z)[j] = IF j <= k THEN xy[j] ELSE z[j - k]
  BY <1>1, <1>4, <1>5, <1>6, ConcatProperties
<1>8. ASSUME NEW j \in 1 .. Len(t) PROVE t[j] = (xy \o z)[j]
  <2>1. CASE j <= k
    <3>1. xy[j] = IF j < k THEN s[j] ELSE v
      BY <1>5, <1>6, <2>1
    <3>2. (xy \o z)[j] = xy[j]
      BY <1>7, <2>1
    <3> QED BY <2>1, <3>1, <3>2
  <2>2. CASE j > k
    <3>1. j - k \in 1 .. (Len(s) - k + 1) /\ k + (j - k) - 1 = j - 1
      BY <2>2, <1>1
    <3>2. z[j - k] = s[j - 1]
      BY <3>1, <1>4
    <3>3. j \in 1 .. (Len(s) + 1) /\ ~(j <= k) /\ ~(j < k) /\ j # k
      BY <2>2
    <3>4. (xy \o z)[j] = z[j - k]
      BY <3>3, <1>7
    <3>5. t[j] = s[j - 1]
      BY <3>3
    <3> QED BY <3>2, <3>4, <3>5
  <2>3. j <= k \/ j > k
    BY <1>1
  <2> QED BY <2>1, <2>2, <2>3, Zenon
<1>9. t = xy \o z
  BY <1>7, <1>8, SeqEqual
<1> QED BY <1>6, <1>9 DEF x, y, z

LEMMA SequenceRemove ==
  ASSUME NEW S, NEW s \in Seq(S), NEW k \in 1 .. Len(s), NEW t \in Seq(S),
         Len(t) = Len(s) - 1,
         \A j \in 1 .. Len(t) : t[j] = IF j < k THEN s[j] ELSE s[j + 1]
  PROVE  t = SubSeq(s, 1, k - 1) \o SubSeq(s, k + 1, Len(s))
<1> DEFINE x == SubSeq(s, 1, k - 1)
           z == SubSeq(s, k + 1, Len(s))
<1>1. Len(s) \in Nat
  BY LenProperties
<1>2. /\ x \in Seq(S) /\ Len(x) = k - 1
      /\ \A j \in 1 .. (k - 1) : x[j] = s[j]
  BY <1>1, Prefix
<1>3. /\ z \in Seq(S) /\ Len(z) = Len(s) - k
      /\ \A j \in 1 .. (Len(s) - k) : z[j] = s[k + j]
  <2>1. \A j \in (k + 1) .. Len(s) : s[j] \in S
    BY <1>1, ElementOfSeq
  <2>2. k + 1 \in Int /\ Len(s) \in Int
    BY <1>1
  <2>3. /\ z \in Seq(S) /\ Len(z) = IF k + 1 <= Len(s) THEN Len(s) - (k + 1) + 1 ELSE 0
        /\ \A j \in 1 .. Len(s) - (k + 1) + 1 : z[j] = s[k + 1 + j - 1]
    BY <2>1, <2>2, SubSeqProperties, SMTT(30)
  <2> HIDE DEF z
  <2>4. ASSUME NEW j \in 1 .. (Len(s) - k) PROVE z[j] = s[k + j]
    <3>1. j \in 1 .. Len(s) - (k + 1) + 1 /\ k + 1 + j - 1 = k + j
      BY <1>1
    <3> QED BY <2>3, <3>1
  <2>5. Len(z) = Len(s) - k
    BY <1>1, <2>3
  <2> QED BY <2>3, <2>4, <2>5
<1> HIDE DEF x, z
<1>4. /\ x \o z \in Seq(S) /\ Len(x \o z) = Len(s) - 1
      /\ \A j \in 1 .. (Len(s) - 1) : (x \o z)[j] = IF j <= k - 1 THEN x[j] ELSE z[j - (k - 1)]
  <2>1. Len(x) + Len(z) = Len(s) - 1 /\ 1 .. Len(x) + Len(z) = 1 .. (Len(s) - 1)
    BY <1>1, <1>2, <1>3
  <2>2. /\ x \o z \in Seq(S) /\ Len(x \o z) = Len(x) + Len(z)
        /\ \A j \in 1 .. Len(x) + Len(z) :
             (x \o z)[j] = IF j <= Len(x) THEN x[j] ELSE z[j - Len(x)]
    BY <1>2, <1>3, ConcatProperties
  <2> QED BY <1>1, <2>1, <2>2, <1>2
<1>5. ASSUME NEW j \in 1 .. Len(t) PROVE t[j] = (x \o z)[j]
  <2>1. CASE j < k
    BY <2>1, <1>1, <1>2, <1>4
  <2>2. CASE ~(j < k)
    <3>1. j - (k - 1) \in 1 .. (Len(s) - k) /\ k + (j - (k - 1)) = j + 1
      BY <2>2, <1>1
    <3>2. z[j - (k - 1)] = s[j + 1]
      BY <3>1, <1>3
    <3>3. j \in 1 .. (Len(s) - 1) /\ ~(j <= k - 1)
      BY <2>2
    <3>4. (x \o z)[j] = z[j - (k - 1)]
      BY <3>3, <1>4
    <3> QED BY <2>2, <3>2, <3>4
  <2> QED BY <2>1, <2>2
<1>6. t = x \o z
  BY <1>4, <1>5, SeqEqual
<1> QED BY <1>6 DEF x, z

LEMMA SequenceExtend ==
  ASSUME NEW S, NEW s \in Seq(S), NEW k \in Nat \ {0}, NEW v \in S, NEW null \in S,
         NEW t \in Seq(S), Len(t) = Len(s) + k,
         \A j \in 1 .. Len(t) :
           t[j] = IF j <= Len(s) THEN s[j] ELSE IF j = Len(t) THEN v ELSE null
  PROVE  t = s \o [j \in 1 .. k |-> IF j = k THEN v ELSE null]
<1> DEFINE e == [j \in 1 .. k |-> IF j = k THEN v ELSE null]
<1>1. Len(s) \in Nat
  BY LenProperties
<1>2. e \in Seq(S) /\ Len(e) = k
  <2>1. e = [j \in 1 .. k |-> e[j]] /\ \A j \in 1 .. k : e[j] \in S
    OBVIOUS
  <2> HIDE DEF e
  <2> QED BY <2>1, FunctionIsSeq
<1>3. \A j \in 1 .. k : e[j] = IF j = k THEN v ELSE null
  OBVIOUS
<1> HIDE DEF e
<1>4. /\ s \o e \in Seq(S) /\ Len(s \o e) = Len(s) + k
      /\ \A j \in 1 .. (Len(s) + k) : (s \o e)[j] = IF j <= Len(s) THEN s[j] ELSE e[j - Len(s)]
  BY <1>1, <1>2, ConcatProperties
<1>5. ASSUME NEW j \in 1 .. Len(t) PROVE t[j] = (s \o e)[j]
  <2>1. CASE j <= Len(s)
    BY <2>1, <1>1, <1>4
  <2>2. CASE ~(j <= Len(s))
    <3>1. j - Len(s) \in 1 .. k /\ (j - Len(s) = k <=> j = Len(t))
      BY <2>2, <1>1
    <3>2. e[j - Len(s)] = IF j = Len(t) THEN v ELSE null
      BY <3>1, <1>3
    <3> QED BY <2>2, <3>2, <1>1, <1>4
  <2> QED BY <2>1, <2>2
<1>6. t = s \o e
  BY <1>4, <1>5, SeqEqual
<1> QED BY <1>6 DEF e

-----------------------------------------------------------------------------
(* Linked lists.  s are the n elements met from hd along nx, to nil.        *)

Walk(s, n, hd, nx, nil) ==
  /\ s = [i \in 1 .. n |-> s[i]]
  /\ \A i \in 1 .. n : /\ i = 1 => s[i] = hd
                       /\ nx[s[i]] = IF i = n THEN nil ELSE s[i + 1]

(* There is one walk: two could only part at a first place.                 *)
LEMMA WalkUnique ==
  ASSUME NEW n \in Nat, NEW s, NEW t, NEW hd, NEW nx, NEW nil,
         Walk(s, n, hd, nx, nil), Walk(t, n, hd, nx, nil)
  PROVE  s = t
<1> DEFINE A == {i \in 1 .. n : s[i] # t[i]}
<1>1. SUFFICES ASSUME A # {} PROVE FALSE
  BY DEF Walk
<1>2. A \in SUBSET Nat
  OBVIOUS
<1>3. PICK i \in A : \A j \in A : i <= j
  BY <1>1, <1>2, Least
<1>4. i \in 1 .. n /\ s[i] # t[i]
  OBVIOUS
<1>5. i # 1
  BY <1>4 DEF Walk
<1> DEFINE k == i - 1
<1>6. k \in 1 .. n /\ k + 1 = i /\ k # n /\ ~(i <= k)
  BY <1>4, <1>5
<1> HIDE DEF k
<1>7. s[k] = t[k]
  BY <1>3, <1>6
<1>8. nx[s[k]] = s[i] /\ nx[t[k]] = t[i]
  BY <1>6 DEF Walk
<1> QED BY <1>4, <1>7, <1>8

(* A set that is numbered from hd along nx, without a gap, has a walk, and  *)
(* it is the numbering read backwards.                                      *)
CountsAlong(p, Q, hd, nx, nil) ==
  /\ p \in [Q -> 1 .. Cardinality(Q)]
  /\ Q # {} => hd \in Q /\ p[hd] = 1
  /\ \A x, y \in Q : p[x] = p[y] => x = y
  /\ \A x \in Q : IF p[x] = Cardinality(Q) THEN nx[x] = nil
                  ELSE nx[x] \in Q /\ p[nx[x]] = p[x] + 1

LEMMA WalkExists ==
  ASSUME NEW Q, IsFiniteSet(Q), NEW p, NEW hd, NEW nx, NEW nil, CountsAlong(p, Q, hd, nx, nil)
  PROVE  \E s \in [1 .. Cardinality(Q) -> Q] :
           /\ Walk(s, Cardinality(Q), hd, nx, nil)
           /\ \A x \in Q : s[p[x]] = x
           /\ \A i \in 1 .. Cardinality(Q) : p[s[i]] = i
<1> DEFINE n == Cardinality(Q)
<1>0. /\ p \in [Q -> 1 .. n]
      /\ Q # {} => hd \in Q /\ p[hd] = 1
      /\ \A x, y \in Q : p[x] = p[y] => x = y
      /\ \A x \in Q : IF p[x] = n THEN nx[x] = nil ELSE nx[x] \in Q /\ p[nx[x]] = p[x] + 1
  BY DEF CountsAlong
<1>1. n \in Nat
  BY FS_CardinalityType
<1>2. IsFiniteSet(1 .. n) /\ Cardinality(1 .. n) = n
  BY <1>1, FS_Interval
<1>3. p \in Injection(Q, 1 .. n)
  BY <1>0 DEF Injection, IsInjective
<1>4. p \in Surjection(Q, 1 .. n)
  BY <1>2, <1>3, FS_Injection
<1>5. \A i \in 1 .. n : \E x \in Q : p[x] = i
  BY <1>4 DEF Surjection
<1> DEFINE s == [i \in 1 .. n |-> CHOOSE x \in Q : p[x] = i]
<1>6. \A i \in 1 .. n : s[i] \in Q /\ p[s[i]] = i
  BY <1>5
<1>7. s \in [1 .. n -> Q]
  BY <1>6
<1> HIDE DEF s
<1>8. \A x \in Q : p[x] \in 1 .. n /\ s[p[x]] = x
  <2> SUFFICES ASSUME NEW x \in Q PROVE p[x] \in 1 .. n /\ s[p[x]] = x
    OBVIOUS
  <2>1. p[x] \in 1 .. n
    BY <1>0
  <2>2. s[p[x]] \in Q /\ p[s[p[x]]] = p[x]
    BY <2>1, <1>6
  <2> QED BY <1>0, <2>1, <2>2
<1>9. ASSUME NEW i \in 1 .. n
      PROVE  /\ i = 1 => s[i] = hd
             /\ nx[s[i]] = IF i = n THEN nil ELSE s[i + 1]
  <2>1. s[i] \in Q /\ p[s[i]] = i
    BY <1>6
  <2>2. i = 1 => s[i] = hd
    BY <1>0, <2>1
  <2>3. i = n => nx[s[i]] = nil
    BY <1>0, <2>1
  <2>4. i # n => nx[s[i]] \in Q /\ p[nx[s[i]]] = i + 1
    BY <1>0, <2>1
  <2>5. i # n => s[p[nx[s[i]]]] = nx[s[i]]
    BY <2>4, <1>8
  <2> QED BY <2>2, <2>3, <2>4, <2>5
<1>10. Walk(s, n, hd, nx, nil)
  BY <1>7, <1>9 DEF Walk
<1> QED BY <1>6, <1>7, <1>8, <1>10

(* The order along the links is the walk, and what an insertion and a       *)
(* removal make of it.                                                      *)
LEMMA OrderIs ==
  ASSUME NEW Q, IsFiniteSet(Q), NEW hd, NEW nx, NEW nil, NEW s \in [1 .. Cardinality(Q) -> Q],
         Walk(s, Cardinality(Q), hd, nx, nil)
  PROVE  Order(Q, hd, nx) = s
<1> DEFINE n == Cardinality(Q)
           P(x) == x = [i \in 1 .. n |-> IF i = 1 THEN hd ELSE nx[x[i - 1]]]
<1>1. n \in Nat
  BY FS_CardinalityType
<1>2. \A i \in 1 .. n : (i = 1 => s[i] = hd) /\ nx[s[i]] = IF i = n THEN nil ELSE s[i + 1]
  BY DEF Walk
<1>3. ASSUME NEW i \in 1 .. n PROVE s[i] = IF i = 1 THEN hd ELSE nx[s[i - 1]]
  <2>1. i # 1 => i - 1 \in 1 .. n /\ i - 1 # n /\ (i - 1) + 1 = i
    BY <1>1
  <2> QED BY <2>1, <1>2
<1>4. P(s)
  BY <1>3
<1>5. PICK o : o = CHOOSE x : P(x)
  OBVIOUS
<1>6. P(o)
  BY <1>4, <1>5
<1>7. \A i \in 1 .. n : o[i] = IF i = 1 THEN hd ELSE nx[o[i - 1]]
  BY <1>6
<1>8. o = s
  <2> DEFINE A == {i \in 1 .. n : o[i] # s[i]}
  <2>1. SUFFICES ASSUME A # {} PROVE FALSE
    BY <1>6
  <2>2. A \in SUBSET Nat
    OBVIOUS
  <2>3. PICK i \in A : \A j \in A : i <= j
    BY <2>1, <2>2, Least
  <2>4. i \in 1 .. n /\ o[i] # s[i] /\ i # 1
    BY <1>3, <1>7
  <2>5. PICK j : j = i - 1
    OBVIOUS
  <2>6. j \in 1 .. n /\ ~(i <= j)
    BY <2>4, <2>5, <1>1
  <2>7. o[j] = s[j]
    BY <2>3, <2>6
  <2> QED BY <2>4, <2>5, <2>7, <1>3, <1>7
<1> QED BY <1>5, <1>8 DEF Order

(* An element t is linked in behind the first k of the walk s.              *)
Splices(s, Q, hd, nx, hd2, nx2, nil, t, k) ==
  /\ hd2 = IF k = 0 THEN t ELSE hd
  /\ nx2[t] = IF k = Cardinality(Q) THEN nil ELSE s[k + 1]
  /\ k # 0 => nx2[s[k]] = t
  /\ \A i \in 1 .. Cardinality(Q) : i # k => nx2[s[i]] = nx[s[i]]
Spliced(o, s, n, k, t) ==
  o = [i \in 1 .. n + 1 |-> IF i <= k THEN s[i] ELSE IF i = k + 1 THEN t ELSE s[i - 1]]

LEMMA OrderInsert ==
  ASSUME NEW Q, IsFiniteSet(Q), NEW hd, NEW nx, NEW nil, NEW s \in [1 .. Cardinality(Q) -> Q],
         Walk(s, Cardinality(Q), hd, nx, nil), NEW t, t \notin Q, NEW k \in 0 .. Cardinality(Q),
         NEW hd2, NEW nx2, Splices(s, Q, hd, nx, hd2, nx2, nil, t, k)
  PROVE  /\ Cardinality(Q \cup {t}) = Cardinality(Q) + 1
         /\ Spliced(Order(Q \cup {t}, hd2, nx2), s, Cardinality(Q), k, t)
<1> DEFINE n == Cardinality(Q)
           R == Q \cup {t}
           o == [i \in 1 .. n + 1 |-> IF i <= k THEN s[i] ELSE IF i = k + 1 THEN t ELSE s[i - 1]]
<1>0. /\ hd2 = IF k = 0 THEN t ELSE hd
      /\ nx2[t] = IF k = n THEN nil ELSE s[k + 1]
      /\ k # 0 => nx2[s[k]] = t
      /\ \A i \in 1 .. n : i # k => nx2[s[i]] = nx[s[i]]
  BY DEF Splices
<1>1. IsFiniteSet(Q) /\ n \in Nat
  BY FS_CardinalityType
<1>2. Cardinality(R) = n + 1
  BY <1>1, FS_AddElement
<1>3. \A i \in 1 .. n : s[i] \in Q
  OBVIOUS
<1>4. /\ \A i \in 1 .. n + 1 : i <= k => o[i] = s[i] /\ i \in 1 .. n
      /\ o[k + 1] = t
      /\ \A i \in 1 .. n + 1 : i > k + 1 => o[i] = s[i - 1] /\ i - 1 \in 1 .. n
  BY <1>1
<1>5. o \in [1 .. n + 1 -> R]
  BY <1>1, <1>3
<1> HIDE DEF o
<1>6. /\ \A i \in 1 .. n : (i = 1 => s[i] = hd) /\ nx[s[i]] = IF i = n THEN nil ELSE s[i + 1]
  BY DEF Walk
<1> HIDE DEF n
<1>7. ASSUME NEW i \in 1 .. n + 1
      PROVE  (i = 1 => o[i] = hd2) /\ nx2[o[i]] = IF i = n + 1 THEN nil ELSE o[i + 1]
  <2>1. CASE i < k
    <3>1. i \in 1 .. n /\ i # k /\ i # n /\ i + 1 \in 1 .. n + 1 /\ i + 1 <= k /\ k # 0 /\ i <= k /\ i # n + 1
      BY <1>1, <2>1 DEF n
    <3>2. o[i] = s[i] /\ o[i + 1] = s[i + 1]
      BY <3>1, <1>4
    <3>3. nx2[s[i]] = nx[s[i]] /\ nx[s[i]] = s[i + 1]
      BY <3>1, <1>0, <1>6
    <3>4. i = 1 => s[i] = hd
      BY <3>1, <1>6
    <3> QED BY <3>1, <3>2, <3>3, <3>4, <1>0
  <2>2. CASE i = k
    <3>1. i \in 1 .. n /\ i + 1 = k + 1 /\ k # 0 /\ i <= k /\ i # n + 1
      BY <1>1, <2>2 DEF n
    <3>2. o[i] = s[i] /\ o[i + 1] = t /\ nx2[s[i]] = t
      BY <3>1, <2>2, <1>0, <1>4
    <3>3. i = 1 => s[i] = hd
      BY <3>1, <1>6
    <3> QED BY <3>1, <3>2, <3>3, <1>0
  <2>3. CASE i = k + 1
    <3>1. o[i] = t /\ (i = 1 <=> k = 0) /\ (i = n + 1 <=> k = n)
      BY <2>3, <1>1, <1>4 DEF n
    <3>2. k # n => o[i + 1] = s[k + 1]
      <4>1. k # n => i + 1 \in 1 .. n + 1 /\ i + 1 > k + 1 /\ (i + 1) - 1 = k + 1
        BY <2>3, <1>1 DEF n
      <4> QED BY <4>1, <1>4
    <3> QED BY <3>1, <3>2, <1>0
  <2>4. CASE i > k + 1
    <3>1. PICK j : j = i - 1
      OBVIOUS
    <3>2. j \in 1 .. n /\ j # k /\ i # 1 /\ (j = n <=> i = n + 1) /\ j + 1 = i
      BY <2>4, <3>1, <1>1 DEF n
    <3>3. o[i] = s[j] /\ nx2[s[j]] = nx[s[j]] /\ nx[s[j]] = IF j = n THEN nil ELSE s[j + 1]
      BY <2>4, <3>1, <3>2, <1>0, <1>4, <1>6
    <3>4. j # n => o[i + 1] = s[i]
      <4>1. j # n => i + 1 \in 1 .. n + 1 /\ i + 1 > k + 1 /\ (i + 1) - 1 = i
        BY <2>4, <3>1, <1>1 DEF n
      <4> QED BY <4>1, <1>4
    <3> QED BY <3>2, <3>3, <3>4
  <2> QED BY <2>1, <2>2, <2>3, <2>4, <1>1 DEF n
<1>8. Walk(o, Cardinality(R), hd2, nx2, nil)
  BY <1>2, <1>5, <1>7 DEF Walk
<1>9. IsFiniteSet(R)
  BY <1>1, FS_AddElement
<1>10. o \in [1 .. Cardinality(R) -> R]
  BY <1>2, <1>5
<1> HIDE DEF R
<1>11. Order(R, hd2, nx2) = o
  BY <1>8, <1>9, <1>10, OrderIs
<1> QED BY <1>2, <1>11 DEF n, o, R, Spliced

(* The head is unlinked.                                                    *)
Once(s, n) == \A i, j \in 1 .. n : s[i] = s[j] => i = j
Behind(o, s, n) == o = [i \in 1 .. n - 1 |-> s[i + 1]]

LEMMA OrderRemove ==
  ASSUME NEW Q, IsFiniteSet(Q), NEW hd \in Q, NEW nx, NEW nil, NEW s \in [1 .. Cardinality(Q) -> Q],
         Walk(s, Cardinality(Q), hd, nx, nil), NEW nx2, Cardinality(Q) >= 1,
         Once(s, Cardinality(Q)),
         \A x \in Q : x # hd => nx2[x] = nx[x]
  PROVE  /\ Cardinality(Q \ {hd}) = Cardinality(Q) - 1 /\ s[1] = hd
         /\ Behind(Order(Q \ {hd}, nx[hd], nx2), s, Cardinality(Q))
<1> DEFINE n == Cardinality(Q)
           R == Q \ {hd}
           o == [i \in 1 .. n - 1 |-> s[i + 1]]
<1>1. IsFiniteSet(Q) /\ n \in Nat
  BY FS_CardinalityType
<1>2. Cardinality(R) = n - 1
  BY <1>1, FS_RemoveElement
<1>3. \A i \in 1 .. n : (i = 1 => s[i] = hd) /\ nx[s[i]] = IF i = n THEN nil ELSE s[i + 1]
  BY DEF Walk
<1>4. s[1] = hd /\ 1 \in 1 .. n
  BY <1>1, <1>3
<1>5. \A i \in 1 .. n - 1 : i + 1 \in 1 .. n /\ i + 1 # 1 /\ i \in 1 .. n /\ i # n
  BY <1>1
<1>6. ASSUME NEW i \in 1 .. n - 1 PROVE s[i + 1] \in Q /\ s[i + 1] # hd
  <2>1. i + 1 \in 1 .. n /\ i + 1 # 1
    BY <1>5
  <2> QED BY <2>1, <1>4 DEF Once
<1>7. o \in [1 .. n - 1 -> R]
  BY <1>6
<1>8. \A i \in 1 .. n - 1 : o[i] = s[i + 1]
  OBVIOUS
<1> HIDE DEF o
<1>9. ASSUME NEW i \in 1 .. n - 1
      PROVE  /\ i = 1 => o[i] = nx[hd]
             /\ nx2[o[i]] = IF i = n - 1 THEN nil ELSE o[i + 1]
  <2>1. i + 1 \in 1 .. n /\ i \in 1 .. n /\ i # n /\ s[i + 1] \in Q /\ s[i + 1] # hd /\ o[i] = s[i + 1]
    BY <1>5, <1>6, <1>8
  <2>2. i = 1 => o[i] = nx[hd]
    BY <2>1, <1>3, <1>4
  <2>3. nx2[o[i]] = nx[s[i + 1]]
    BY <2>1
  <2>4. i # n - 1 => i + 1 \in 1 .. n - 1 /\ i + 1 # n
    BY <1>1
  <2>5. i # n - 1 => o[i + 1] = s[(i + 1) + 1] /\ nx[s[i + 1]] = s[(i + 1) + 1]
    BY <2>1, <2>4, <1>3, <1>8
  <2>6. i = n - 1 => nx[s[i + 1]] = nil
    BY <2>1, <1>1, <1>3
  <2> QED BY <2>2, <2>3, <2>5, <2>6
<1>10. Walk(o, Cardinality(R), nx[hd], nx2, nil)
  BY <1>2, <1>7, <1>9 DEF Walk
<1>11. IsFiniteSet(R)
  BY <1>1, FS_RemoveElement
<1>12. o \in [1 .. Cardinality(R) -> R]
  BY <1>2, <1>7
<1> HIDE DEF R
<1>13. Order(R, nx[hd], nx2) = o
  BY <1>10, <1>11, <1>12, OrderIs
<1> QED BY <1>2, <1>4, <1>13 DEF n, o, R, Behind

(* The final element is unlinked, which leaves the first n.                 *)
Unlinks(s, n, hd, nx, hd2, nx2, nil) ==
  /\ n # 0 => hd2 = hd /\ nx2[s[n]] = nil
  /\ \A i \in 1 .. n : i # n => nx2[s[i]] = nx[s[i]]
Shortened(o, s, n) == o = [i \in 1 .. n |-> s[i]]

LEMMA OrderRemoveLast ==
  ASSUME NEW Q, IsFiniteSet(Q), NEW hd, NEW nx, NEW nil, NEW n \in Nat, Cardinality(Q) = n + 1,
         NEW s \in [1 .. n + 1 -> Q], Walk(s, n + 1, hd, nx, nil), Once(s, n + 1),
         NEW hd2, NEW nx2, Unlinks(s, n, hd, nx, hd2, nx2, nil), NEW b, b = s[n + 1]
  PROVE  /\ Cardinality(Q \ {b}) = n
         /\ Shortened(Order(Q \ {b}, hd2, nx2), s, n)
<1> DEFINE R == Q \ {b}
           o == [i \in 1 .. n |-> s[i]]
<1>1. b \in Q
  OBVIOUS
<1>2. IsFiniteSet(R) /\ Cardinality(R) = n
  BY <1>1, FS_RemoveElement
<1>3. \A i \in 1 .. n : i \in 1 .. n + 1 /\ i # n + 1 /\ n + 1 \in 1 .. n + 1
  OBVIOUS
<1>4. \A i \in 1 .. n : s[i] \in R
  BY <1>3 DEF Once
<1>5. o \in [1 .. n -> R]
  BY <1>4
<1>6. \A i \in 1 .. n : o[i] = s[i]
  OBVIOUS
<1>7. \A i \in 1 .. n : (i = 1 => s[i] = hd) /\ nx[s[i]] = s[i + 1]
  BY <1>3 DEF Walk
<1> HIDE DEF o, R
<1>8. ASSUME NEW i \in 1 .. n
      PROVE  (i = 1 => o[i] = hd2) /\ nx2[o[i]] = IF i = n THEN nil ELSE o[i + 1]
  <2>1. i # n => i + 1 \in 1 .. n
    OBVIOUS
  <2>2. n # 0
    OBVIOUS
  <2> QED BY <2>1, <2>2, <1>6, <1>7 DEF Unlinks
<1>9. Walk(o, Cardinality(R), hd2, nx2, nil)
  BY <1>2, <1>5, <1>8 DEF Walk
<1>10. o \in [1 .. Cardinality(R) -> R]
  BY <1>2, <1>5
<1>11. Order(R, hd2, nx2) = o
  BY <1>2, <1>9, <1>10, OrderIs
<1> QED BY <1>2, <1>11 DEF o, R, Shortened

=============================================================================
