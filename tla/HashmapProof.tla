----------------------------- MODULE HashmapProof -----------------------------
(* The reference counts of the values of hashmap.h are exact, a key has one *)
(* node but for refused replacements, foreachItem shows every key, a copy   *)
(* agrees with what was copied and the buckets implement KeyMap, for any    *)
(* maps, texts, sizes and hash, whatever the callbacks do.                  *)
EXTENDS HashmapEntries, ListLemmas, FiniteSetTheorems, SequenceTheorems, TLAPS

Nodes == [key : Texts, value : Objs]

----------------------------------------------------------------------------
(* Counting in one bucket.                                                  *)

Hits(s, o) == {i \in 1 .. Len(s) : s[i].value = o}
Cnt(s, o) == Cardinality(Hits(s, o))
Same(x, y) == IF x = y THEN 1 ELSE 0

LEMMA SameSize ==
  ASSUME NEW S, NEW T, NEW f \in [S -> T], IsFiniteSet(S),
         \A x, y \in S : f[x] = f[y] => x = y,
         \A y \in T : \E x \in S : f[x] = y
  PROVE  IsFiniteSet(T) /\ Cardinality(T) = Cardinality(S)
<1>1. f \in Bijection(S, T)
  BY DEF Bijection, Injection, Surjection, IsInjective
<1>2. ExistsBijection(S, T)
  BY <1>1 DEF ExistsBijection
<1> QED BY <1>2, FS_Bijection

LEMMA HitsFinite ==
  ASSUME NEW V, NEW s \in Seq(V), NEW o
  PROVE  IsFiniteSet(Hits(s, o)) /\ Cnt(s, o) \in Nat
<1>1. IsFiniteSet(1 .. Len(s))
  BY FS_Interval
<1>2. Hits(s, o) \in SUBSET (1 .. Len(s))
  BY DEF Hits
<1> QED BY <1>1, <1>2, FS_Subset, FS_CardinalityType DEF Cnt

LEMMA CntEmpty ==
  ASSUME NEW o
  PROVE  Hits(<<>>, o) = {} /\ Cnt(<<>>, o) = 0
BY FS_EmptySet DEF Hits, Cnt

LEMMA CntPrepend ==
  ASSUME NEW V, NEW s \in Seq(V), NEW n \in V, NEW o
  PROVE  Cnt(<<n>> \o s, o) = Cnt(s, o) + Same(n.value, o)
<1> DEFINE t == <<n>> \o s
           S == Hits(s, o)
           T == {i \in 2 .. Len(t) : t[i].value = o}
           f == [i \in S |-> i + 1]
<1>1. /\ t \in Seq(V) /\ Len(t) = Len(s) + 1 /\ Len(s) \in Nat /\ t[1] = n
      /\ \A i \in 1 .. Len(s) : t[i + 1] = s[i]
  OBVIOUS
<1>2. IsFiniteSet(S) /\ Cardinality(S) = Cnt(s, o) /\ Cnt(s, o) \in Nat
  BY HitsFinite DEF Cnt
<1> HIDE DEF t
<1>3. f \in [S -> T]
  BY <1>1 DEF Hits
<1>4. \A x, y \in S : f[x] = f[y] => x = y
  BY DEF Hits
<1>5. \A y \in T : \E x \in S : f[x] = y
  <2> SUFFICES ASSUME NEW y \in T PROVE \E x \in S : f[x] = y
    OBVIOUS
  <2>1. y - 1 \in 1 .. Len(s) /\ t[(y - 1) + 1] = s[y - 1] /\ (y - 1) + 1 = y
    BY <1>1
  <2>2. y - 1 \in S /\ f[y - 1] = y
    BY <2>1 DEF Hits
  <2> QED BY <2>2
<1> HIDE DEF S, f, T
<1>6. IsFiniteSet(T) /\ Cardinality(T) = Cardinality(S)
  BY <1>2, <1>3, <1>4, <1>5, SameSize
<1>7. CASE n.value = o
  <2>1. Hits(t, o) = T \cup {1} /\ 1 \notin T
    BY <1>1, <1>7 DEF Hits, T
  <2>2. Cardinality(T \cup {1}) = Cardinality(T) + 1
    BY <1>6, <2>1, FS_AddElement
  <2> QED BY <1>2, <1>6, <1>7, <2>1, <2>2 DEF Cnt, Same, t
<1>8. CASE n.value # o
  <2>1. Hits(t, o) = T
    BY <1>1, <1>8 DEF Hits, T
  <2> QED BY <1>2, <1>6, <1>8, <2>1 DEF Cnt, Same, t
<1> QED BY <1>7, <1>8

(* The value of node i becomes v.                                           *)
Replaced(s, i, v, t) == t = [s EXCEPT ![i].value = v]
SameBut(s, i, v, t) ==
  /\ t \in Seq(Nodes) /\ Len(t) = Len(s)
  /\ \A j \in 1 .. Len(s) : t[j].key = s[j].key
  /\ \A j \in 1 .. Len(s) : t[j].value = IF j = i THEN v ELSE s[j].value

LEMMA ReplacedIs ==
  ASSUME NEW s \in Seq(Nodes), NEW i \in 1 .. Len(s), NEW v \in Objs,
         NEW t, Replaced(s, i, v, t)
  PROVE  SameBut(s, i, v, t)
<1>0. DOMAIN s = 1 .. Len(s) /\ Len(s) \in Nat /\ \A j \in 1 .. Len(s) : s[j] \in Nodes
  OBVIOUS
<1>1. PICK n : n = [s[i] EXCEPT !.value = v]
  OBVIOUS
<1>2. n \in Nodes /\ n.key = s[i].key /\ n.value = v
  BY <1>0, <1>1 DEF Nodes
<1>3. t = [j \in 1 .. Len(s) |-> IF j = i THEN n ELSE s[j]]
  BY <1>0, <1>1 DEF Replaced
<1>4. \A j \in 1 .. Len(s) : t[j] = IF j = i THEN n ELSE s[j]
  BY <1>3
<1>5. t \in Seq(Nodes) /\ Len(t) = Len(s)
  <2>1. t \in [1 .. Len(s) -> Nodes]
    BY <1>0, <1>2, <1>3
  <2> QED BY <2>1, <1>0
<1> QED BY <1>2, <1>4, <1>5 DEF SameBut

LEMMA CntReplaced ==
  ASSUME NEW s \in Seq(Nodes), NEW i \in 1 .. Len(s), NEW v,
         NEW t, SameBut(s, i, v, t), NEW o
  PROVE  Cnt(t, o) = Cnt(s, o) - Same(s[i].value, o) + Same(v, o)
<1>4. \A j \in 1 .. Len(s) : t[j].value = IF j = i THEN v ELSE s[j].value
  BY DEF SameBut
<1>6. t \in Seq(Nodes) /\ Len(t) = Len(s)
  BY DEF SameBut
<1>7. IsFiniteSet(Hits(s, o)) /\ Cnt(s, o) \in Nat
  BY HitsFinite
<1> DEFINE R == Hits(s, o) \ {i}
<1>8. IsFiniteSet(R) /\ Cardinality(R) = Cnt(s, o) - Same(s[i].value, o)
  <2>1. IsFiniteSet(R) /\ Cardinality(R) = IF i \in Hits(s, o) THEN Cardinality(Hits(s, o)) - 1 ELSE Cardinality(Hits(s, o))
    BY <1>7, FS_RemoveElement
  <2>2. i \in Hits(s, o) <=> s[i].value = o
    BY DEF Hits
  <2> QED BY <1>7, <2>1, <2>2 DEF Same, Cnt
<1> HIDE DEF R
<1>9. CASE v = o
  <2>1. Hits(t, o) = R \cup {i} /\ i \notin R
    BY <1>4, <1>6, <1>9 DEF Hits, R
  <2>2. Cardinality(R \cup {i}) = Cardinality(R) + 1
    BY <1>8, <2>1, FS_AddElement
  <2> QED BY <1>4, <1>6, <1>8, <1>9, <2>1, <2>2 DEF Cnt, Same
<1>10. CASE v # o
  <2>1. Hits(t, o) = R
    BY <1>4, <1>6, <1>10 DEF Hits, R
  <2> QED BY <1>4, <1>6, <1>7, <1>8, <1>10, <2>1 DEF Cnt, Same
<1> QED BY <1>9, <1>10

Without(s, i) == SubSeq(s, 1, i - 1) \o SubSeq(s, i + 1, Len(s))

LEMMA WithoutIs ==
  ASSUME NEW V, NEW s \in Seq(V), NEW i \in 1 .. Len(s)
  PROVE  /\ Without(s, i) \in Seq(V) /\ Len(Without(s, i)) = Len(s) - 1
         /\ \A j \in 1 .. Len(s) - 1 : Without(s, i)[j] = s[IF j < i THEN j ELSE j + 1]
<1> DEFINE a == SubSeq(s, 1, i - 1)
           b == SubSeq(s, i + 1, Len(s))
<1>1. Len(s) \in Nat /\ i \in Nat /\ i >= 1 /\ i <= Len(s) /\ \A j \in 1 .. Len(s) : s[j] \in V
  OBVIOUS
<1>2. a \in Seq(V) /\ Len(a) = i - 1 /\ \A j \in 1 .. i - 1 : a[j] = s[j]
  BY <1>1, SubSeqProperties
<1>3. b \in Seq(V) /\ Len(b) = Len(s) - i /\ \A j \in 1 .. Len(s) - i : b[j] = s[i + j]
  BY <1>1, SubSeqProperties
<1> HIDE DEF a, b
<1>4. /\ a \o b \in Seq(V) /\ Len(a \o b) = Len(a) + Len(b)
      /\ \A j \in 1 .. Len(a) + Len(b) : (a \o b)[j] = IF j <= Len(a) THEN a[j] ELSE b[j - Len(a)]
  BY <1>2, <1>3, ConcatProperties
<1>5. ASSUME NEW j \in 1 .. Len(s) - 1
      PROVE  (a \o b)[j] = s[IF j < i THEN j ELSE j + 1]
  <2>1. CASE j < i
    BY <2>1, <1>1, <1>2, <1>3, <1>4
  <2>2. CASE ~(j < i)
    <3>1. j - Len(a) \in 1 .. Len(s) - i /\ i + (j - Len(a)) = j + 1
      BY <2>2, <1>1, <1>2
    <3>2. (a \o b)[j] = b[j - Len(a)]
      BY <2>2, <1>1, <1>2, <1>3, <1>4
    <3> QED BY <2>2, <3>1, <3>2, <1>3
  <2> QED BY <2>1, <2>2
<1>6. Without(s, i) = a \o b
  BY DEF Without, a, b
<1>7. Len(a \o b) = Len(s) - 1
  BY <1>1, <1>2, <1>3, <1>4
<1> HIDE DEF Without
<1>8. a \o b \in Seq(V)
  BY <1>4
<1> QED BY <1>5, <1>6, <1>7, <1>8

LEMMA CntWithout ==
  ASSUME NEW V, NEW s \in Seq(V), NEW i \in 1 .. Len(s), NEW o
  PROVE  Cnt(Without(s, i), o) = Cnt(s, o) - Same(s[i].value, o)
<1> DEFINE t == Without(s, i)
           S == Hits(t, o)
           T == Hits(s, o) \ {i}
           f == [j \in S |-> IF j < i THEN j ELSE j + 1]
<1>1. /\ t \in Seq(V) /\ Len(t) = Len(s) - 1
      /\ \A j \in 1 .. Len(s) - 1 : t[j] = s[IF j < i THEN j ELSE j + 1]
  BY WithoutIs
<1>2. Len(s) \in Nat /\ i \in Nat /\ i >= 1 /\ i <= Len(s)
  OBVIOUS
<1> HIDE DEF t
<1>3. IsFiniteSet(S) /\ Cardinality(S) = Cnt(t, o)
  BY <1>1, HitsFinite DEF Cnt
<1>4. S \subseteq Nat /\ S = {j \in 1 .. Len(s) - 1 : t[j].value = o}
  BY <1>1, <1>2 DEF Hits
<1>5. f \in [S -> T]
  <2> SUFFICES ASSUME NEW j \in S PROVE (IF j < i THEN j ELSE j + 1) \in T
    OBVIOUS
  <2>1. j \in 1 .. Len(s) - 1 /\ t[j].value = o
    BY <1>4
  <2>2. (IF j < i THEN j ELSE j + 1) \in 1 .. Len(s) /\ (IF j < i THEN j ELSE j + 1) # i
    BY <2>1, <1>2
  <2> QED BY <2>1, <2>2, <1>1 DEF Hits
<1>6. \A x, y \in S : f[x] = f[y] => x = y
  BY <1>2, <1>4
<1>7. \A y \in T : \E x \in S : f[x] = y
  <2> SUFFICES ASSUME NEW y \in T PROVE \E x \in S : f[x] = y
    OBVIOUS
  <2>1. y \in 1 .. Len(s) /\ y # i /\ s[y].value = o
    BY DEF Hits
  <2>2. CASE y < i
    <3>1. y \in 1 .. Len(s) - 1 /\ t[y] = s[y]
      BY <2>1, <2>2, <1>1, <1>2
    <3>2. y \in S /\ f[y] = y
      BY <2>1, <2>2, <3>1, <1>4
    <3> QED BY <3>2
  <2>3. CASE ~(y < i)
    <3>1. y - 1 \in 1 .. Len(s) - 1 /\ ~(y - 1 < i) /\ (y - 1) + 1 = y
      BY <2>1, <2>3, <1>2
    <3>2. t[y - 1] = s[y]
      BY <3>1, <1>1
    <3>3. y - 1 \in S /\ f[y - 1] = y
      BY <2>1, <3>1, <3>2, <1>4
    <3> QED BY <3>3
  <2> QED BY <2>2, <2>3
<1>8. IsFiniteSet(Hits(s, o)) /\ Cnt(s, o) \in Nat
  BY HitsFinite
<1> HIDE DEF S, f, T
<1>9. Cardinality(T) = Cardinality(S)
  BY <1>3, <1>5, <1>6, <1>7, SameSize
<1>10. Cardinality(T) = Cnt(s, o) - Same(s[i].value, o)
  <2>1. Cardinality(Hits(s, o) \ {i}) = IF i \in Hits(s, o) THEN Cardinality(Hits(s, o)) - 1 ELSE Cardinality(Hits(s, o))
    BY <1>8, FS_RemoveElement
  <2>2. i \in Hits(s, o) <=> s[i].value = o
    BY DEF Hits
  <2> QED BY <1>8, <2>1, <2>2 DEF Same, Cnt, T
<1> QED BY <1>3, <1>9, <1>10 DEF t

----------------------------------------------------------------------------
(* Counting in all buckets: where maps of al that retain have the value o.  *)

Buckets == [Maps -> [Positions -> Seq(Nodes)]]
Ret(al, rt, bk, o) ==
  {x \in Maps \X Positions \X Nat : x[1] \in al /\ rt[x[1]] /\ x[3] \in Hits(bk[x[1]][x[2]], o)}
Part(m, p, s, o) == {x \in {m} \X {p} \X Nat : x[3] \in Hits(s, o)}

LEMMA RetainingIs ==
  ASSUME TypeOK, NEW o
  PROVE  Retaining(o) = Ret(alive, retain, bucket, o)
<1>1. alive \subseteq Maps /\ bucket \in [Maps -> [Positions -> Seq(Nodes)]]
  BY DEF TypeOK, Nodes
<1>2. ASSUME NEW x \in Retaining(o) PROVE x \in Ret(alive, retain, bucket, o)
  <2>1. PICK m \in alive : x \in Places(m)
    BY <1>2 DEF Retaining
  <2>2. PICK p \in Positions : x \in {<<m, p, i>> : i \in 1 .. Len(bucket[m][p])}
    BY <2>1 DEF Places
  <2>3. PICK i \in 1 .. Len(bucket[m][p]) : x = <<m, p, i>>
    BY <2>2
  <2>4. retain[m] /\ bucket[m][p][i].value = o
    BY <1>2, <2>3 DEF Retaining, At
  <2>5. m \in Maps /\ i \in Nat /\ i \in Hits(bucket[m][p], o)
    BY <1>1, <2>4 DEF Hits
  <2> QED BY <2>3, <2>4, <2>5 DEF Ret
<1>3. ASSUME NEW x \in Ret(alive, retain, bucket, o) PROVE x \in Retaining(o)
  <2>1. PICK m \in Maps, p \in Positions, i \in Nat : x = <<m, p, i>>
    BY <1>3 DEF Ret
  <2>2. m \in alive /\ retain[m] /\ i \in 1 .. Len(bucket[m][p]) /\ bucket[m][p][i].value = o
    BY <1>3, <2>1 DEF Ret, Hits
  <2>3. x \in Places(m)
    BY <2>1, <2>2 DEF Places
  <2> QED BY <2>1, <2>2, <2>3 DEF Retaining, At
<1> QED BY <1>2, <1>3

LEMMA PartSize ==
  ASSUME NEW m, NEW p, NEW V, NEW s \in Seq(V), NEW o
  PROVE  IsFiniteSet(Part(m, p, s, o)) /\ Cardinality(Part(m, p, s, o)) = Cnt(s, o)
<1> DEFINE S == Hits(s, o)
           T == Part(m, p, s, o)
           f == [i \in S |-> <<m, p, i>>]
<1>0. IsFiniteSet(Hits(s, o))
  BY HitsFinite
<1>1. IsFiniteSet(S) /\ S \subseteq Nat
  BY <1>0 DEF Hits
<1>2. f \in [S -> T]
  BY <1>1 DEF Part
<1>3. \A x, y \in S : f[x] = f[y] => x = y
  OBVIOUS
<1>4. \A y \in T : \E x \in S : f[x] = y
  <2> SUFFICES ASSUME NEW y \in T PROVE \E x \in S : f[x] = y
    OBVIOUS
  <2>1. PICK i \in Nat : y = <<m, p, i>>
    BY DEF Part
  <2>2. i \in S
    BY <2>1 DEF Part
  <2> QED BY <2>1, <2>2
<1> HIDE DEF S, T, f
<1>5. IsFiniteSet(T) /\ Cardinality(T) = Cardinality(S)
  BY <1>1, <1>2, <1>3, <1>4, SameSize
<1> QED BY <1>5 DEF S, T, Cnt

(* One bucket changes.                                                      *)
Changes(bk, m, p, s, bk2) == bk2 = [bk EXCEPT ![m][p] = s]
ChangedTo(bk, m, p, s, bk2) ==
  /\ bk2 \in Buckets
  /\ \A n \in Maps, q \in Positions : bk2[n][q] = IF n = m /\ q = p THEN s ELSE bk[n][q]
Recounted(al, rt, bk, m, p, s, bk2) ==
  \A o : IsFiniteSet(Ret(al, rt, bk, o))
          => /\ IsFiniteSet(Ret(al, rt, bk2, o))
             /\ Cardinality(Ret(al, rt, bk2, o)) =
                  Cardinality(Ret(al, rt, bk, o))
                    + IF rt[m] THEN Cnt(s, o) - Cnt(bk[m][p], o) ELSE 0

LEMMA BucketChanges ==
  ASSUME NEW al \in SUBSET Maps, NEW rt, NEW bk \in Buckets, NEW m \in al, NEW p \in Positions,
         NEW s \in Seq(Nodes), NEW bk2, Changes(bk, m, p, s, bk2)
  PROVE  ChangedTo(bk, m, p, s, bk2) /\ Recounted(al, rt, bk, m, p, s, bk2)
<1>1. m \in Maps /\ bk[m] \in [Positions -> Seq(Nodes)] /\ bk[m][p] \in Seq(Nodes)
  BY DEF Buckets
<1>2. bk2 = [bk EXCEPT ![m] = [bk[m] EXCEPT ![p] = s]]
  BY DEF Changes
<1>3. bk2 \in Buckets
  BY <1>1, <1>2 DEF Buckets
<1>4. \A n \in Maps, q \in Positions : bk2[n][q] = IF n = m /\ q = p THEN s ELSE bk[n][q]
  <2>1. bk \in [Maps -> [Positions -> Seq(Nodes)]]
    BY DEF Buckets
  <2>2. \A n \in Maps : bk2[n] = IF n = m THEN [bk[m] EXCEPT ![p] = s] ELSE bk[n]
    BY <1>1, <1>2, <2>1
  <2>3. \A q \in Positions : [bk[m] EXCEPT ![p] = s][q] = IF q = p THEN s ELSE bk[m][q]
    BY <1>1
  <2> QED BY <2>2, <2>3
<1>5. ASSUME NEW o, IsFiniteSet(Ret(al, rt, bk, o))
      PROVE  /\ IsFiniteSet(Ret(al, rt, bk2, o))
             /\ Cardinality(Ret(al, rt, bk2, o)) =
                  Cardinality(Ret(al, rt, bk, o)) + IF rt[m] THEN Cnt(s, o) - Cnt(bk[m][p], o) ELSE 0
  <2> DEFINE R == Ret(al, rt, bk, o)
             Q == Ret(al, rt, bk2, o)
             A == Part(m, p, bk[m][p], o)
             B == Part(m, p, s, o)
  <2>1. IsFiniteSet(A) /\ Cardinality(A) = Cnt(bk[m][p], o) /\ Cnt(bk[m][p], o) \in Nat
    BY <1>1, PartSize, HitsFinite
  <2>2. IsFiniteSet(B) /\ Cardinality(B) = Cnt(s, o) /\ Cnt(s, o) \in Nat
    BY PartSize, HitsFinite
  <2>3. Cardinality(R) \in Nat
    BY <1>5, FS_CardinalityType
  <2>4. CASE ~rt[m]
    <3>1. R = Q
      BY <1>4, <2>4 DEF Ret
    <3> QED BY <3>1, <2>3, <2>4, <1>5
  <2>5. CASE rt[m]
    <3>1. A \subseteq R
      BY <2>5, <1>1 DEF Ret, Part
    <3>2. Q = (R \ A) \cup B
      <4>1. ASSUME NEW n \in Maps, NEW q \in Positions, NEW i \in Nat
            PROVE  <<n, q, i>> \in Q <=> <<n, q, i>> \in (R \ A) \cup B
        <5>1. <<n, q, i>> \in Q <=> n \in al /\ rt[n] /\ i \in Hits(bk2[n][q], o)
          BY DEF Ret
        <5>2. <<n, q, i>> \in R <=> n \in al /\ rt[n] /\ i \in Hits(bk[n][q], o)
          BY DEF Ret
        <5>3. <<n, q, i>> \in A <=> n = m /\ q = p /\ i \in Hits(bk[m][p], o)
          BY DEF Part
        <5>4. <<n, q, i>> \in B <=> n = m /\ q = p /\ i \in Hits(s, o)
          BY DEF Part
        <5> HIDE DEF Q, R, A, B
        <5> QED BY <5>1, <5>2, <5>3, <5>4, <1>4, <2>5
      <4>2. Q \subseteq Maps \X Positions \X Nat /\ R \subseteq Maps \X Positions \X Nat
        BY DEF Ret
      <4>3. B \subseteq Maps \X Positions \X Nat
        BY <1>1 DEF Part
      <4> HIDE DEF Q, R, A, B
      <4> QED BY <4>1, <4>2, <4>3
    <3>3. (R \ A) \cap B = {} /\ R \cap A = A
      <4>1. ASSUME NEW x \in R, x \in B PROVE x \in A
        <5>1. x[1] = m /\ x[2] = p /\ x = <<m, p, x[3]>> /\ x[3] \in Nat
          BY <4>1 DEF Part
        <5>2. x[3] \in Hits(bk[m][p], o)
          BY <5>1 DEF Ret
        <5> QED BY <5>1, <5>2 DEF Part
      <4> QED BY <4>1, <3>1
    <3> HIDE DEF R, Q, A, B
    <3>4. IsFiniteSet(R \ A) /\ Cardinality(R \ A) = Cardinality(R) - Cardinality(A)
      <4>1. IsFiniteSet(R)
        BY <1>5 DEF R
      <4> QED BY <4>1, <3>3, FS_Difference
    <3>5. IsFiniteSet(Q) /\ Cardinality(Q) = Cardinality(R \ A) + Cardinality(B) - Cardinality({})
      <4>1. /\ IsFiniteSet((R \ A) \cup B)
            /\ Cardinality((R \ A) \cup B) =
                 Cardinality(R \ A) + Cardinality(B) - Cardinality((R \ A) \cap B)
        BY <3>4, <2>2, FS_Union
      <4> QED BY <4>1, <3>2, <3>3
    <3>6. Cardinality({}) = 0
      BY FS_EmptySet
    <3>7. Cardinality(Q) = Cardinality(R) + (Cnt(s, o) - Cnt(bk[m][p], o))
      BY <3>4, <3>5, <3>6, <2>1, <2>2, <2>3
    <3> QED BY <3>5, <3>7, <2>5 DEF R, Q
  <2> QED BY <2>4, <2>5
<1> QED BY <1>3, <1>4, <1>5 DEF ChangedTo, Recounted

(* A map loses all its nodes, and may itself go.                            *)
Cleared(bk, m, bk2) == bk2 = [bk EXCEPT ![m] = NoNodes]
ClearedTo(bk, m, bk2) ==
  /\ bk2 \in Buckets
  /\ \A n \in Maps, q \in Positions : bk2[n][q] = IF n = m THEN <<>> ELSE bk[n][q]
Emptied(al, rt, bk, m, al2, bk2) ==
  \A o : IsFiniteSet(Ret(al, rt, bk, o))
          => /\ IsFiniteSet(Ret(al2, rt, bk2, o))
             /\ Cardinality(Ret(al2, rt, bk2, o)) =
                  Cardinality(Ret(al, rt, bk, o))
                    - Cardinality({x \in Ret(al, rt, bk, o) : x[1] = m})

LEMMA MapCleared ==
  ASSUME NEW al \in SUBSET Maps, NEW rt, NEW bk \in Buckets, NEW m \in al,
         NEW al2, al2 = al \/ al2 = al \ {m}, NEW bk2, Cleared(bk, m, bk2)
  PROVE  ClearedTo(bk, m, bk2) /\ Emptied(al, rt, bk, m, al2, bk2)
<1>1. m \in Maps /\ NoNodes \in [Positions -> Seq(Nodes)] /\ \A p \in Positions : NoNodes[p] = <<>>
  BY DEF NoNodes
<1>2. bk2 \in Buckets
  BY <1>1 DEF Buckets, Cleared
<1>3. \A n \in Maps : n # m => bk2[n] = bk[n]
  BY DEF Buckets, Cleared
<1>4. \A p \in Positions : bk2[m][p] = <<>>
  BY <1>1 DEF Buckets, Cleared
<1>5. ASSUME NEW o, IsFiniteSet(Ret(al, rt, bk, o))
      PROVE  /\ IsFiniteSet(Ret(al2, rt, bk2, o))
             /\ Cardinality(Ret(al2, rt, bk2, o)) =
                  Cardinality(Ret(al, rt, bk, o)) - Cardinality({x \in Ret(al, rt, bk, o) : x[1] = m})
  <2> DEFINE R == Ret(al, rt, bk, o)
             Q == Ret(al2, rt, bk2, o)
             A == {x \in R : x[1] = m}
  <2>1. Q = R \ A
    <3>1. ASSUME NEW n \in Maps, NEW q \in Positions, NEW i \in Nat
          PROVE  <<n, q, i>> \in Q <=> <<n, q, i>> \in R \ A
      <4>1. <<n, q, i>> \in Q <=> n \in al2 /\ rt[n] /\ i \in Hits(bk2[n][q], o)
        BY DEF Ret
      <4>2. <<n, q, i>> \in R <=> n \in al /\ rt[n] /\ i \in Hits(bk[n][q], o)
        BY DEF Ret
      <4>3. <<n, q, i>> \in A <=> <<n, q, i>> \in R /\ n = m
        OBVIOUS
      <4>4. n = m => i \notin Hits(bk2[n][q], o)
        BY <1>4, CntEmpty
      <4> HIDE DEF Q, R, A
      <4> QED BY <4>1, <4>2, <4>3, <4>4, <1>3
    <3>2. Q \subseteq Maps \X Positions \X Nat /\ R \subseteq Maps \X Positions \X Nat
      BY DEF Ret
    <3> HIDE DEF Q, R, A
    <3> QED BY <3>1, <3>2
  <2>2. R \cap A = A /\ IsFiniteSet(R)
    BY <1>5
  <2> HIDE DEF R, Q, A
  <2>3. IsFiniteSet(R \ A) /\ Cardinality(R \ A) = Cardinality(R) - Cardinality(A)
    BY <2>2, FS_Difference
  <2> QED BY <2>1, <2>3 DEF R, Q, A
<1>6. ClearedTo(bk, m, bk2)
  BY <1>2, <1>3, <1>4 DEF ClearedTo
<1>7. Emptied(al, rt, bk, m, al2, bk2)
  BY <1>5 DEF Emptied
<1> QED BY <1>6, <1>7

----------------------------------------------------------------------------
(* The invariant.                                                           *)

Counted ==
  \A o \in Objs : /\ IsFiniteSet(Ret(alive, retain, bucket, o))
                  /\ gcCount[o] = held[o] + Cardinality(Ret(alive, retain, bucket, o)) + leaked[o]

(* The nodes of a bucket belong there, and two of them have one key only if *)
(* a replacement of its value was refused.                                  *)
Tidy(s, p, refused) ==
  /\ \A i \in 1 .. Len(s) : Hash[s[i].key] = p
  /\ \A i, j \in 1 .. Len(s) : s[i].key = s[j].key /\ s[i].key \notin refused => i = j
AllTidy == \A m \in alive, p \in Positions : Tidy(bucket[m][p], p, rejected[m])

(* A loop runs on maps that are alive, and stands in its bucket; what is    *)
(* still to be copied can be copied.                                        *)
Copyable(k) == k \in DOMAIN Format /\ (call.this = call.that => Format[k] = k)
CallOK ==
  /\ call.pc # "idle" => /\ call.this \in alive
                         /\ call.rest <= Len(bucket[call.this][call.pos])
  /\ call.pc = "copy" => /\ call.that \in alive
                         /\ \A p \in Positions : \A i \in 1 .. Len(bucket[call.this][p]) :
                              Copyable(bucket[call.this][p][i].key)

(* What is due lies before the loop.                                        *)
Before(s, p, i) == p > call.pos \/ (p = call.pos /\ i > Len(s) - call.rest)
EachOK ==
  call.pc = "each" =>
    \A k \in call.due : \E p \in Positions : \E i \in 1 .. Len(bucket[call.this][p]) :
      bucket[call.this][p][i].key = k /\ Before(bucket[call.this][p], p, i)

IInv == TypeOK /\ Counted /\ AllTidy /\ CallOK /\ EachOK

LEMMA Types ==
  ASSUME TypeOK
  PROVE  /\ gcCount \in [Objs -> Nat] /\ held \in [Objs -> Nat] /\ leaked \in [Objs -> Nat]
         /\ alive \in SUBSET Maps /\ bucket \in Buckets /\ bucket \in [Maps -> [Positions -> Seq(Nodes)]]
         /\ rejected \in [Maps -> SUBSET Texts]
         /\ \A m \in Maps, p \in Positions : /\ bucket[m][p] \in Seq(Nodes) /\ Len(bucket[m][p]) \in Nat
                                             /\ \A i \in 1 .. Len(bucket[m][p]) :
                                                  /\ bucket[m][p][i] \in Nodes
                                                  /\ bucket[m][p][i].key \in Texts
                                                  /\ bucket[m][p][i].value \in Objs
         /\ Positions \subseteq Nat /\ 0 \in Positions
         /\ \A k \in Texts : Hash[k] \in Positions
<1>1. /\ gcCount \in [Objs -> Nat] /\ held \in [Objs -> Nat] /\ leaked \in [Objs -> Nat]
      /\ alive \in SUBSET Maps /\ bucket \in [Maps -> [Positions -> Seq(Nodes)]]
      /\ rejected \in [Maps -> SUBSET Texts]
  BY DEF TypeOK, ObjectTypeOK, Nodes
<1>2. Positions \subseteq Nat /\ 0 \in Positions /\ \A k \in Texts : Hash[k] \in Positions
  BY HashmapAssumption DEF Positions
<1>3. ASSUME NEW m \in Maps, NEW p \in Positions
      PROVE  /\ bucket[m][p] \in Seq(Nodes) /\ Len(bucket[m][p]) \in Nat
             /\ \A i \in 1 .. Len(bucket[m][p]) : /\ bucket[m][p][i] \in Nodes
                                                  /\ bucket[m][p][i].key \in Texts
                                                  /\ bucket[m][p][i].value \in Objs
  <2>1. bucket[m][p] \in Seq(Nodes)
    BY <1>1
  <2>2. Len(bucket[m][p]) \in Nat /\ \A i \in 1 .. Len(bucket[m][p]) : bucket[m][p][i] \in Nodes
    BY <2>1
  <2> QED BY <2>1, <2>2 DEF Nodes
<1> QED BY <1>1, <1>2, <1>3 DEF Buckets

(* The walk down a bucket finds the first node with the key.                *)
LEMMA FindIs ==
  ASSUME TypeOK, NEW m \in Maps, NEW k \in Texts
  PROVE  /\ Find(m, k) \in 0 .. Len(bucket[m][Hash[k]])
         /\ Find(m, k) > 0 => bucket[m][Hash[k]][Find(m, k)].key = k
         /\ Find(m, k) = 0 => \A i \in 1 .. Len(bucket[m][Hash[k]]) : bucket[m][Hash[k]][i].key # k
         /\ \A i \in 1 .. Len(bucket[m][Hash[k]]) :
              bucket[m][Hash[k]][i].key = k => Find(m, k) <= i
<1> DEFINE s == bucket[m][Hash[k]]
           hits == {i \in 1 .. Len(s) : s[i].key = k}
<1>1. Len(s) \in Nat
  BY Types
<1>2. Find(m, k) = IF hits = {} THEN 0 ELSE CHOOSE i \in hits : \A j \in hits : i <= j
  BY DEF Find
<1>3. ASSUME hits # {} PROVE \E i \in hits : \A j \in hits : i <= j
  <2>1. hits \in SUBSET Nat
    OBVIOUS
  <2> HIDE DEF hits
  <2> QED BY <1>3, <2>1, Least
<1>4. CASE hits = {}
  <2>1. Find(m, k) = 0
    BY <1>2, <1>4
  <2> QED BY <1>1, <1>4, <2>1
<1>5. CASE hits # {}
  <2>1. Find(m, k) \in hits /\ \A j \in hits : Find(m, k) <= j
    BY <1>2, <1>3, <1>5
  <2> QED BY <1>1, <2>1
<1> QED BY <1>4, <1>5

----------------------------------------------------------------------------
(* What a handler does to the keys of a bucket.                             *)

(* The keys of s are the last of t, in their order.                         *)
Suffix(s, t) ==
  Len(t) >= Len(s) /\ \A i \in 1 .. Len(s) : t[i + (Len(t) - Len(s))].key = s[i].key
OnlyNew(s, t, k) ==
  \A i \in 1 .. Len(t) : t[i].key = k \/ \E j \in 1 .. Len(s) : s[j].key = t[i].key

LEMMA SuffixSame ==
  ASSUME NEW V, NEW s \in Seq(V), NEW k
  PROVE  Suffix(s, s) /\ OnlyNew(s, s, k)
<1>1. Len(s) \in Nat /\ \A i \in 1 .. Len(s) : i + (Len(s) - Len(s)) = i
  OBVIOUS
<1> QED BY <1>1 DEF Suffix, OnlyNew

LEMMA PrependIs ==
  ASSUME NEW s \in Seq(Nodes), NEW k \in Texts, NEW v \in Objs,
         NEW t, t = <<Node(k, v)>> \o s
  PROVE  /\ t \in Seq(Nodes) /\ Len(t) = Len(s) + 1 /\ Len(s) \in Nat
         /\ t[1] = Node(k, v) /\ \A i \in 1 .. Len(s) : t[i + 1] = s[i]
         /\ \A i \in 2 .. Len(t) : i - 1 \in 1 .. Len(s) /\ t[i] = s[i - 1]
         /\ Suffix(s, t) /\ OnlyNew(s, t, k)
<1>1. Node(k, v) \in Nodes /\ Node(k, v).key = k /\ Node(k, v).value = v
  BY DEF Node, Nodes
<1> DEFINE n == Node(k, v)
<1> HIDE DEF n
<1>2. n \in Nodes /\ n.key = k /\ n.value = v /\ t = <<n>> \o s
  BY <1>1 DEF n
<1>3. /\ t \in Seq(Nodes) /\ Len(t) = Len(s) + 1 /\ Len(s) \in Nat
      /\ t[1] = n /\ \A i \in 1 .. Len(s) : t[i + 1] = s[i]
  BY <1>2
<1>4. ASSUME NEW i \in 2 .. Len(t) PROVE i - 1 \in 1 .. Len(s) /\ t[i] = s[i - 1]
  <2>1. i - 1 \in 1 .. Len(s) /\ (i - 1) + 1 = i
    BY <1>3
  <2> QED BY <2>1, <1>3
<1>5. Suffix(s, t)
  <2>1. Len(t) - Len(s) = 1 /\ Len(t) >= Len(s)
    BY <1>3
  <2> QED BY <2>1, <1>3 DEF Suffix
<1>6. OnlyNew(s, t, k)
  <2> SUFFICES ASSUME NEW i \in 1 .. Len(t)
               PROVE  t[i].key = k \/ \E j \in 1 .. Len(s) : s[j].key = t[i].key
    BY DEF OnlyNew
  <2>1. CASE i = 1
    BY <2>1, <1>2, <1>3
  <2>2. CASE i # 1
    <3>1. i \in 2 .. Len(t)
      BY <2>2, <1>3
    <3> QED BY <3>1, <1>4
  <2> QED BY <2>1, <2>2
<1> QED BY <1>3, <1>4, <1>5, <1>6 DEF n

LEMMA PrependTidy ==
  ASSUME NEW s \in Seq(Nodes), NEW k \in Texts, NEW v \in Objs, NEW p, Hash[k] = p,
         NEW r, NEW r2, r \subseteq r2, Tidy(s, p, r),
         k \in r2 \/ \A i \in 1 .. Len(s) : s[i].key # k
  PROVE  Tidy(<<Node(k, v)>> \o s, p, r2)
<1>1. PICK t : t = <<Node(k, v)>> \o s
  OBVIOUS
<1>2. /\ t \in Seq(Nodes) /\ Len(t) = Len(s) + 1 /\ Len(s) \in Nat /\ t[1] = Node(k, v)
      /\ \A i \in 2 .. Len(t) : i - 1 \in 1 .. Len(s) /\ t[i] = s[i - 1]
  BY <1>1, PrependIs
<1>3. t[1].key = k
  BY <1>2 DEF Node
<1>4. ASSUME NEW i \in 1 .. Len(t) PROVE Hash[t[i].key] = p
  <2>1. CASE i = 1
    BY <2>1, <1>3
  <2>2. CASE i # 1
    <3>1. i \in 2 .. Len(t)
      BY <2>2, <1>2
    <3> QED BY <3>1, <1>2 DEF Tidy
  <2> QED BY <2>1, <2>2
<1>5. ASSUME NEW i \in 1 .. Len(t), NEW j \in 1 .. Len(t), t[i].key = t[j].key, t[i].key \notin r2
      PROVE  i = j
  <2>1. i # 1 => i \in 2 .. Len(t)
    BY <1>2
  <2>2. j # 1 => j \in 2 .. Len(t)
    BY <1>2
  <2>3. CASE i = 1 /\ j # 1
    <3>1. s[j - 1].key = k /\ j - 1 \in 1 .. Len(s)
      BY <2>2, <2>3, <1>2, <1>3, <1>5
    <3> QED BY <3>1, <2>3, <1>3, <1>5
  <2>4. CASE i # 1 /\ j = 1
    <3>1. s[i - 1].key = k /\ i - 1 \in 1 .. Len(s)
      BY <2>1, <2>4, <1>2, <1>3, <1>5
    <3> QED BY <3>1, <2>4, <1>3, <1>5
  <2>5. CASE i # 1 /\ j # 1
    <3>1. /\ i - 1 \in 1 .. Len(s) /\ j - 1 \in 1 .. Len(s)
          /\ s[i - 1].key = s[j - 1].key /\ s[i - 1].key \notin r
      BY <2>1, <2>2, <2>5, <1>2, <1>5
    <3>2. i - 1 = j - 1
      BY <3>1 DEF Tidy
    <3> QED BY <3>2
  <2> QED BY <2>3, <2>4, <2>5
<1>6. Tidy(t, p, r2)
  BY <1>4, <1>5 DEF Tidy
<1> QED BY <1>1, <1>6

(* The same keys, or some of them in the same order.                        *)
LEMMA SomeTidy ==
  ASSUME NEW s, NEW t, NEW p, NEW r, NEW r2, r \subseteq r2, Tidy(s, p, r),
         NEW f \in [1 .. Len(t) -> 1 .. Len(s)], \A i, j \in 1 .. Len(t) : f[i] = f[j] => i = j,
         \A i \in 1 .. Len(t) : t[i].key = s[f[i]].key
  PROVE  Tidy(t, p, r2)
<1>1. \A i \in 1 .. Len(t) : Hash[t[i].key] = p
  BY DEF Tidy
<1>2. ASSUME NEW i \in 1 .. Len(t), NEW j \in 1 .. Len(t), t[i].key = t[j].key, t[i].key \notin r2
      PROVE  i = j
  <2>1. f[i] \in 1 .. Len(s) /\ f[j] \in 1 .. Len(s) /\ s[f[i]].key = s[f[j]].key /\ s[f[i]].key \notin r
    BY <1>2
  <2>2. f[i] = f[j]
    BY <2>1 DEF Tidy
  <2> QED BY <2>2
<1> QED BY <1>1, <1>2 DEF Tidy

LEMMA SameTidy ==
  ASSUME NEW s, NEW t, NEW p, NEW r, NEW r2, r \subseteq r2, Tidy(s, p, r),
         Len(t) = Len(s), \A i \in 1 .. Len(s) : t[i].key = s[i].key
  PROVE  Tidy(t, p, r2)
<1> DEFINE f == [i \in 1 .. Len(t) |-> i]
<1>1. f \in [1 .. Len(t) -> 1 .. Len(s)] /\ \A i \in 1 .. Len(t) : f[i] = i
  OBVIOUS
<1> HIDE DEF f
<1>2. \A i, j \in 1 .. Len(t) : f[i] = f[j] => i = j
  BY <1>1
<1>3. \A i \in 1 .. Len(t) : t[i].key = s[f[i]].key
  BY <1>1
<1> QED BY <1>1, <1>2, <1>3, SomeTidy

LEMMA WithoutTidy ==
  ASSUME NEW s \in Seq(Nodes), NEW i \in 1 .. Len(s), NEW p, NEW r, Tidy(s, p, r)
  PROVE  Tidy(Without(s, i), p, r) /\ Tidy(<<>>, p, r)
<1> DEFINE t == Without(s, i)
           f == [j \in 1 .. Len(t) |-> IF j < i THEN j ELSE j + 1]
<1>1. /\ Len(t) = Len(s) - 1 /\ Len(s) \in Nat /\ i \in Nat /\ i <= Len(s)
      /\ \A j \in 1 .. Len(s) - 1 : t[j] = s[IF j < i THEN j ELSE j + 1]
  BY WithoutIs
<1> HIDE DEF t
<1>2. f \in [1 .. Len(t) -> 1 .. Len(s)] /\ \A j \in 1 .. Len(t) : f[j] = IF j < i THEN j ELSE j + 1
  BY <1>1
<1> HIDE DEF f
<1>3. \A j, l \in 1 .. Len(t) : f[j] = f[l] => j = l
  BY <1>1, <1>2
<1>4. \A j \in 1 .. Len(t) : t[j].key = s[f[j]].key
  BY <1>1, <1>2
<1>5. Tidy(t, p, r)
  BY <1>2, <1>3, <1>4, SomeTidy
<1>6. Tidy(<<>>, p, r)
  BY DEF Tidy
<1> QED BY <1>5, <1>6 DEF t

----------------------------------------------------------------------------
(* The handlers.                                                            *)

LEMMA ReplaceIs ==
  ASSUME NEW gc \in [Objs -> Nat], NEW v \in Objs, NEW w \in Objs
  PROVE  /\ Replace(gc, v, w) \in [Objs -> Int]
         /\ \A o \in Objs : Replace(gc, v, w)[o] = gc[o] + Same(v, o) - Same(w, o)
<1>1. PICK more : more = [gc EXCEPT ![v] = @ + 1]
  OBVIOUS
<1>2. more \in [Objs -> Int] /\ \A o \in Objs : more[o] = gc[o] + Same(v, o)
  BY <1>1 DEF Same
<1>3. Replace(gc, v, w) = [more EXCEPT ![w] = @ - 1]
  BY <1>1 DEF Replace, Object_retain, Object_release
<1>6. PICK less : less = [more EXCEPT ![w] = @ - 1]
  OBVIOUS
<1>4. less \in [Objs -> Int] /\ \A o \in Objs : less[o] = IF o = w THEN more[o] - 1 ELSE more[o]
  BY <1>2, <1>6
<1>5. ASSUME NEW o \in Objs PROVE less[o] = gc[o] + Same(v, o) - Same(w, o)
  <2>1. gc[o] \in Int /\ Same(v, o) \in Int
    BY DEF Same
  <2>2. Same(w, o) = IF o = w THEN 1 ELSE 0
    BY DEF Same
  <2>3. more[o] = gc[o] + Same(v, o)
    BY <1>2
  <2>4. less[o] = IF o = w THEN more[o] - 1 ELSE more[o]
    BY <1>4
  <2> QED BY <2>1, <2>2, <2>3, <2>4
<1> QED BY <1>3, <1>4, <1>5, <1>6

(* One bucket of m changes to t, the counts follow, and the rest stays.     *)
Changed(m, p, t) ==
  /\ bucket' = [bucket EXCEPT ![m][p] = t] /\ alive' = alive /\ retain' = retain
  /\ leaked' \in [Objs -> Nat] /\ held' \in [Objs -> Nat] /\ gcCount' \in [Objs -> Int]
  /\ rejected' \in [Maps -> SUBSET Texts]
  /\ \A n \in Maps : rejected[n] \subseteq rejected'[n]
  /\ Tidy(t, p, rejected'[m])
  /\ \A o \in Objs :
       gcCount'[o] - held'[o] - leaked'[o] =
         gcCount[o] - held[o] - leaked[o]
           + (IF retain[m] THEN Cnt(t, o) - Cnt(bucket[m][p], o) ELSE 0)

LEMMA OneBucket ==
  ASSUME IInv, NEW m \in alive, NEW p \in Positions, NEW t \in Seq(Nodes), Changed(m, p, t)
  PROVE  /\ ObjectTypeOK' /\ bucket' \in Buckets /\ Counted' /\ AllTidy'
         /\ \A n \in Maps, q \in Positions :
              bucket'[n][q] = IF n = m /\ q = p THEN t ELSE bucket[n][q]
<1>1. /\ gcCount \in [Objs -> Nat] /\ held \in [Objs -> Nat] /\ leaked \in [Objs -> Nat]
      /\ alive \in SUBSET Maps /\ bucket \in Buckets /\ m \in Maps
  BY Types DEF IInv
<1>2. /\ bucket' \in Buckets
      /\ \A n \in Maps, q \in Positions : bucket'[n][q] = IF n = m /\ q = p THEN t ELSE bucket[n][q]
      /\ \A o : IsFiniteSet(Ret(alive, retain, bucket, o))
                  => /\ IsFiniteSet(Ret(alive, retain, bucket', o))
                     /\ Cardinality(Ret(alive, retain, bucket', o)) =
                          Cardinality(Ret(alive, retain, bucket, o))
                            + IF retain[m] THEN Cnt(t, o) - Cnt(bucket[m][p], o) ELSE 0
  <2>1. Changes(bucket, m, p, t, bucket')
    BY DEF Changed, Changes
  <2>2. alive \in SUBSET Maps /\ bucket \in Buckets
    BY <1>1
  <2>3. ChangedTo(bucket, m, p, t, bucket') /\ Recounted(alive, retain, bucket, m, p, t, bucket')
    BY <2>1, <2>2, BucketChanges
  <2> QED BY <2>3 DEF ChangedTo, Recounted
<1>0. /\ alive' = alive /\ retain' = retain
      /\ leaked' \in [Objs -> Nat] /\ held' \in [Objs -> Nat] /\ gcCount' \in [Objs -> Int]
  BY DEF Changed
<1>3. ASSUME NEW o \in Objs
      PROVE  /\ IsFiniteSet(Ret(alive, retain, bucket', o))
             /\ gcCount'[o] = held'[o] + Cardinality(Ret(alive, retain, bucket', o)) + leaked'[o]
             /\ gcCount'[o] \in Nat
  <2>1. /\ IsFiniteSet(Ret(alive, retain, bucket, o))
        /\ gcCount[o] = held[o] + Cardinality(Ret(alive, retain, bucket, o)) + leaked[o]
    BY DEF IInv, Counted
  <2>2. IsFiniteSet(Ret(alive, retain, bucket', o))
    BY <1>2, <2>1
  <2>3. Cardinality(Ret(alive, retain, bucket, o)) \in Nat /\ Cardinality(Ret(alive, retain, bucket', o)) \in Nat
    BY <2>1, <2>2, FS_CardinalityType
  <2>4. PICK d : d = IF retain[m] THEN Cnt(t, o) - Cnt(bucket[m][p], o) ELSE 0
    OBVIOUS
  <2>5. Cardinality(Ret(alive, retain, bucket', o)) = Cardinality(Ret(alive, retain, bucket, o)) + d
    BY <1>2, <2>1, <2>4
  <2>6. gcCount'[o] - held'[o] - leaked'[o] = gcCount[o] - held[o] - leaked[o] + d
    BY <2>4 DEF Changed
  <2>7. d \in Int
    <3>1. bucket[m][p] \in Seq(Nodes)
      BY <1>1 DEF Buckets
    <3>2. Cnt(t, o) \in Nat /\ Cnt(bucket[m][p], o) \in Nat
      BY <3>1, HitsFinite
    <3> QED BY <2>4, <3>2
  <2>8. /\ gcCount[o] \in Nat /\ held[o] \in Nat /\ leaked[o] \in Nat
        /\ held'[o] \in Nat /\ leaked'[o] \in Nat /\ gcCount'[o] \in Int
    BY <1>0, <1>1
  <2>9. gcCount'[o] = held'[o] + Cardinality(Ret(alive, retain, bucket', o)) + leaked'[o]
    <3>1. PICK c \in Nat : c = Cardinality(Ret(alive, retain, bucket, o))
      BY <2>3
    <3>2. gcCount[o] - held[o] - leaked[o] = c
      BY <2>1, <2>8, <3>1
    <3>3. gcCount'[o] - held'[o] - leaked'[o] = c + d
      BY <2>6, <2>7, <3>2
    <3>4. gcCount'[o] = held'[o] + (c + d) + leaked'[o]
      BY <2>7, <2>8, <3>3
    <3> QED BY <2>5, <3>1, <3>4
  <2> QED BY <2>2, <2>3, <2>8, <2>9
<1>4. Counted'
  BY <1>0, <1>3 DEF Counted
<1>5. ObjectTypeOK'
  BY <1>0, <1>3 DEF ObjectTypeOK
<1>6. AllTidy'
  <2> SUFFICES ASSUME NEW n \in alive, NEW q \in Positions
               PROVE  Tidy(bucket'[n][q], q, rejected'[n])
    BY <1>0 DEF AllTidy
  <2>1. Tidy(bucket[n][q], q, rejected[n]) /\ n \in Maps
    BY <1>1 DEF IInv, AllTidy
  <2>2. Tidy(bucket[n][q], q, rejected'[n])
    <3>1. rejected[n] \subseteq rejected'[n]
      BY <2>1 DEF Changed
    <3> QED BY <2>1, <3>1, SameTidy
  <2> QED BY <2>1, <2>2, <1>2 DEF Changed
<1> QED BY <1>2, <1>4, <1>5, <1>6

LEMMA SetKeeps ==
  ASSUME IInv, NEW m \in alive, NEW k \in Texts, NEW v \in Objs,
         NEW replaces \in BOOLEAN, NEW adds \in BOOLEAN,
         Hashmap_setByCheck(m, k, v, replaces, adds)
  PROVE  /\ ObjectTypeOK' /\ bucket' \in Buckets /\ Counted' /\ AllTidy'
         /\ alive' = alive /\ retain' = retain /\ leaked' = leaked
         /\ rejected' \in [Maps -> SUBSET Texts]
         /\ \A n \in Maps, q \in Positions : /\ Suffix(bucket[n][q], bucket'[n][q])
                                             /\ OnlyNew(bucket[n][q], bucket'[n][q], k)
                                             /\ n # m => bucket'[n][q] = bucket[n][q]
<1>0. PICK p, s, i : p = Hash[k] /\ s = bucket[m][p] /\ i = Find(m, k)
  OBVIOUS
<1>1. /\ gcCount \in [Objs -> Nat] /\ held \in [Objs -> Nat] /\ leaked \in [Objs -> Nat]
      /\ alive \in SUBSET Maps /\ bucket \in [Maps -> [Positions -> Seq(Nodes)]] /\ m \in Maps
      /\ rejected \in [Maps -> SUBSET Texts] /\ p \in Positions /\ s \in Seq(Nodes) /\ Len(s) \in Nat
      /\ \A j \in 1 .. Len(s) : s[j].value \in Objs
  BY <1>0, Types DEF IInv
<1>2. /\ i \in 0 .. Len(s)
      /\ i > 0 => s[i].key = k
      /\ i = 0 => \A j \in 1 .. Len(s) : s[j].key # k
  BY <1>0, <1>1, FindIs DEF IInv
<1>3. /\ IF i > 0 /\ replaces
           THEN /\ bucket' = [bucket EXCEPT ![m] = [bucket[m] EXCEPT ![p] = [s EXCEPT ![i].value = v]]]
                /\ gcCount' = IF retain[m] THEN Replace(gcCount, v, Hashmap_get(m, k)) ELSE gcCount
           ELSE IF adds THEN Prepend(m, k, v) ELSE UNCHANGED <<bucket, gcCount>>
      /\ rejected' = IF i > 0 /\ ~replaces THEN [rejected EXCEPT ![m] = @ \cup {k}] ELSE rejected
      /\ held' = held /\ alive' = alive /\ retain' = retain /\ leaked' = leaked
  BY <1>0 DEF Hashmap_setByCheck
<1>4. Tidy(s, p, rejected[m])
  BY <1>0, <1>1 DEF IInv, AllTidy
<1>5. Hashmap_get(m, k) = IF i = 0 THEN NULL ELSE s[i].value
  BY <1>0 DEF Hashmap_get
<1>6. /\ rejected' \in [Maps -> SUBSET Texts]
      /\ \A n \in Maps : rejected[n] \subseteq rejected'[n]
      /\ i > 0 /\ ~replaces => k \in rejected'[m]
  BY <1>1, <1>3
<1>7. \A n \in Maps, q \in Positions : /\ Suffix(bucket[n][q], bucket[n][q])
                                       /\ OnlyNew(bucket[n][q], bucket[n][q], k)
  <2>1. \A n \in Maps, q \in Positions : bucket[n][q] \in Seq(Nodes)
    BY <1>1
  <2> QED BY <2>1, SuffixSame
<1>8. CASE i > 0 /\ replaces
  <2>1. PICK t : t = [s EXCEPT ![i].value = v]
    OBVIOUS
  <2>2. i \in 1 .. Len(s)
    BY <1>2, <1>8
  <2>14. s \in Seq(Nodes)
    BY <1>1
  <2>15. SameBut(s, i, v, t)
    <3>1. Replaced(s, i, v, t)
      BY <2>1 DEF Replaced
    <3> QED BY <2>2, <2>14, <3>1, ReplacedIs
  <2>3. t \in Seq(Nodes) /\ Len(t) = Len(s)
    BY <2>15 DEF SameBut
  <2>13. ASSUME NEW o PROVE Cnt(t, o) = Cnt(s, o) - Same(s[i].value, o) + Same(v, o)
    BY <2>2, <2>14, <2>15, CntReplaced
  <2>4. \A j \in 1 .. Len(s) : t[j].key = s[j].key
    BY <2>15 DEF SameBut
  <2>5. Tidy(t, p, rejected'[m])
    BY <1>4, <1>6, <1>1, <2>3, <2>4, SameTidy
  <2>6. bucket' = [bucket EXCEPT ![m][p] = t]
    BY <1>3, <1>8, <2>1
  <2>7. ASSUME NEW o \in Objs
        PROVE  /\ gcCount'[o] = gcCount[o] + (IF retain[m] THEN Cnt(t, o) - Cnt(s, o) ELSE 0)
               /\ gcCount'[o] \in Int
    <3>1. PICK w : w = s[i].value
      OBVIOUS
    <3>2. w \in Objs /\ Hashmap_get(m, k) = w
      BY <3>1, <2>2, <1>1, <1>5
    <3>3. gcCount' = IF retain[m] THEN Replace(gcCount, v, w) ELSE gcCount
      BY <1>3, <1>8, <3>2
    <3>4. CASE retain[m]
      <4>1. gcCount'[o] = gcCount[o] + Same(v, o) - Same(w, o)
        <5>1. gcCount \in [Objs -> Nat]
          BY <1>1
        <5>2. Replace(gcCount, v, w)[o] = gcCount[o] + Same(v, o) - Same(w, o)
          BY <3>2, <5>1, ReplaceIs
        <5> QED BY <3>3, <3>4, <5>2
      <4>2. Cnt(t, o) = Cnt(s, o) - Same(w, o) + Same(v, o)
        BY <2>13, <3>1
      <4>3. Cnt(s, o) \in Nat
        BY <1>1, HitsFinite
      <4>4. Same(v, o) \in Int /\ Same(w, o) \in Int /\ gcCount[o] \in Nat
        BY <1>1 DEF Same
      <4> QED BY <4>1, <4>2, <4>3, <4>4, <3>4
    <3>5. CASE ~retain[m]
      BY <3>3, <3>5, <1>1
    <3> QED BY <3>4, <3>5
  <2>8. gcCount' \in [Objs -> Int]
    <3>1. i # 0 => Hashmap_get(m, k) \in Objs
      BY <2>2, <1>1, <1>5
    <3>2. gcCount' = Replace(gcCount, v, Hashmap_get(m, k)) \/ gcCount' = gcCount
      BY <1>3, <1>8
    <3>3. Replace(gcCount, v, Hashmap_get(m, k)) \in [Objs -> Int]
      BY <2>2, <1>1, <3>1, ReplaceIs
    <3> QED BY <1>1, <3>2, <3>3
  <2>9. ASSUME NEW o \in Objs
        PROVE  gcCount'[o] - held'[o] - leaked'[o] =
                 gcCount[o] - held[o] - leaked[o]
                   + (IF retain[m] THEN Cnt(t, o) - Cnt(bucket[m][p], o) ELSE 0)
    <3>1. Cnt(t, o) \in Nat /\ Cnt(s, o) \in Nat
      BY <1>1, <2>3, HitsFinite
    <3>2. PICK d : d = (IF retain[m] THEN Cnt(t, o) - Cnt(s, o) ELSE 0)
      OBVIOUS
    <3>3. d \in Int /\ gcCount'[o] = gcCount[o] + d /\ gcCount'[o] \in Int
      BY <2>7, <3>1, <3>2
    <3>4. gcCount[o] \in Nat /\ held[o] \in Nat /\ leaked[o] \in Nat /\ held'[o] = held[o] /\ leaked'[o] = leaked[o]
      BY <1>1, <1>3
    <3>5. gcCount'[o] - held'[o] - leaked'[o] = gcCount[o] - held[o] - leaked[o] + d
      BY <3>3, <3>4
    <3> QED BY <1>0, <3>2, <3>5
  <2>10. leaked' \in [Objs -> Nat] /\ held' \in [Objs -> Nat]
    BY <1>1, <1>3
  <2>11. /\ ObjectTypeOK' /\ bucket' \in Buckets /\ Counted' /\ AllTidy'
         /\ \A n \in Maps, q \in Positions :
              bucket'[n][q] = IF n = m /\ q = p THEN t ELSE bucket[n][q]
    <3>1. Changed(m, p, t)
      BY <1>3, <1>6, <2>5, <2>6, <2>8, <2>9, <2>10 DEF Changed
    <3>2. t \in Seq(Nodes) /\ p \in Positions
      BY <1>1, <2>3
    <3> QED BY <3>1, <3>2, OneBucket
  <2>12. Suffix(s, t) /\ OnlyNew(s, t, k)
    <3>1. \A j \in 1 .. Len(s) : j + (Len(t) - Len(s)) = j
      BY <1>1, <2>3
    <3> QED BY <3>1, <1>1, <2>3, <2>4 DEF Suffix, OnlyNew
  <2> QED BY <1>0, <1>3, <1>6, <1>7, <2>11, <2>12
<1>9. CASE ~(i > 0 /\ replaces) /\ adds
  <2>1. PICK t : t = <<Node(k, v)>> \o s
    OBVIOUS
  <2>2. /\ t \in Seq(Nodes) /\ Suffix(s, t) /\ OnlyNew(s, t, k)
    BY <1>1, <2>1, PrependIs
  <2>9. ASSUME NEW o PROVE Cnt(t, o) = Cnt(s, o) + Same(v, o)
    <3>1. s \in Seq(Nodes)
      BY <1>1
    <3>2. Node(k, v) \in Nodes /\ Node(k, v).value = v
      BY DEF Node, Nodes
    <3>3. Cnt(<<Node(k, v)>> \o s, o) = Cnt(s, o) + Same(Node(k, v).value, o)
      BY <3>1, <3>2, CntPrepend
    <3> QED BY <2>1, <3>2, <3>3
  <2>3. k \in rejected'[m] \/ \A j \in 1 .. Len(s) : s[j].key # k
    BY <1>2, <1>6, <1>9
  <2>4. Tidy(t, p, rejected'[m])
    BY <1>0, <1>1, <1>4, <1>6, <2>1, <2>3, PrependTidy
  <2>5. /\ bucket' = [bucket EXCEPT ![m][p] = t]
        /\ gcCount' = IF retain[m] THEN Object_retain(gcCount, v) ELSE gcCount
    BY <1>0, <1>3, <1>9, <2>1 DEF Prepend
  <2>6. ASSUME NEW o \in Objs
        PROVE  gcCount'[o] - held'[o] - leaked'[o] =
                 gcCount[o] - held[o] - leaked[o]
                   + (IF retain[m] THEN Cnt(t, o) - Cnt(bucket[m][p], o) ELSE 0)
    <3>1. Cnt(t, o) \in Nat /\ Cnt(s, o) \in Nat /\ Cnt(t, o) = Cnt(s, o) + Same(v, o)
      BY <1>1, <2>2, <2>9, HitsFinite
    <3>2. gcCount[o] \in Nat /\ held[o] \in Nat /\ leaked[o] \in Nat /\ held'[o] = held[o] /\ leaked'[o] = leaked[o]
      BY <1>1, <1>3
    <3>3. CASE retain[m]
      <4>1. gcCount'[o] = gcCount[o] + Same(v, o) /\ Same(v, o) \in Int
        BY <2>5, <3>3, <1>1 DEF Object_retain, Same
      <4> QED BY <1>0, <3>1, <3>2, <3>3, <4>1
    <3>4. CASE ~retain[m]
      BY <2>5, <3>2, <3>4
    <3> QED BY <3>3, <3>4
  <2>7. gcCount' \in [Objs -> Int] /\ leaked' \in [Objs -> Nat] /\ held' \in [Objs -> Nat]
    BY <1>1, <1>3, <2>5 DEF Object_retain
  <2>8. /\ ObjectTypeOK' /\ bucket' \in Buckets /\ Counted' /\ AllTidy'
        /\ \A n \in Maps, q \in Positions :
             bucket'[n][q] = IF n = m /\ q = p THEN t ELSE bucket[n][q]
    <3>1. Changed(m, p, t)
      BY <1>3, <1>6, <2>4, <2>5, <2>6, <2>7 DEF Changed
    <3>2. t \in Seq(Nodes) /\ p \in Positions
      BY <1>1, <2>2
    <3> QED BY <3>1, <3>2, OneBucket
  <2> QED BY <1>0, <1>3, <1>6, <1>7, <2>2, <2>8
<1>10. CASE ~(i > 0 /\ replaces) /\ ~adds
  <2>1. bucket' = bucket /\ gcCount' = gcCount
    BY <1>3, <1>10
  <2>2. ObjectTypeOK' /\ bucket' \in Buckets /\ Counted'
    BY <1>1, <1>3, <2>1 DEF IInv, Counted, ObjectTypeOK, Buckets
  <2>3. AllTidy'
    <3> SUFFICES ASSUME NEW n \in alive, NEW q \in Positions
                 PROVE  Tidy(bucket[n][q], q, rejected'[n])
      BY <1>3, <2>1 DEF AllTidy
    <3>1. Tidy(bucket[n][q], q, rejected[n]) /\ n \in Maps
      BY <1>1 DEF IInv, AllTidy
    <3> QED BY <3>1, <1>6, SameTidy
  <2> QED BY <1>3, <1>6, <1>7, <2>1, <2>2, <2>3
<1> QED BY <1>8, <1>9, <1>10

LEMMA ReleaseIs ==
  ASSUME NEW gc \in [Objs -> Nat], NEW w \in Objs
  PROVE  /\ Object_release(gc, w) \in [Objs -> Int]
         /\ \A o \in Objs : Object_release(gc, w)[o] = gc[o] - Same(w, o)
<1>1. PICK less : less = [gc EXCEPT ![w] = @ - 1]
  OBVIOUS
<1>2. less \in [Objs -> Int] /\ \A o \in Objs : less[o] = IF o = w THEN gc[o] - 1 ELSE gc[o]
  BY <1>1
<1>3. ASSUME NEW o \in Objs PROVE less[o] = gc[o] - Same(w, o)
  <2>1. gc[o] \in Int /\ Same(w, o) = IF o = w THEN 1 ELSE 0
    BY DEF Same
  <2> QED BY <1>2, <2>1
<1>4. Object_release(gc, w) = less
  BY <1>1 DEF Object_release
<1> QED BY <1>2, <1>3, <1>4

(* What is lost with the first node of a bucket.                            *)
LEMMA OthersTimes ==
  ASSUME IInv, NEW m \in alive, NEW p \in Positions, 1 \in 1 .. Len(bucket[m][p]), NEW o
  PROVE  /\ Times({<<m, p, j>> : j \in 2 .. Len(bucket[m][p])}, o) \in Nat
         /\ Times({<<m, p, j>> : j \in 2 .. Len(bucket[m][p])}, o) =
              IF retain[m] THEN Cnt(bucket[m][p], o) - Same(bucket[m][p][1].value, o) ELSE 0
<1>0. PICK s : s = bucket[m][p]
  OBVIOUS
<1> DEFINE X == {<<m, p, j>> : j \in 2 .. Len(s)}
           T == {x \in X : retain[x[1]] /\ At(x).value = o}
           P == Part(m, p, s, o)
<1>1. s \in Seq(Nodes) /\ Len(s) \in Nat
  BY <1>0, Types DEF IInv
<1>2. Times(X, o) = Cardinality(T)
  BY DEF Times
<1>3. CASE ~retain[m]
  <2>1. T = {}
    BY <1>3
  <2> HIDE DEF T
  <2>2. Cardinality(T) = 0
    BY <2>1, FS_EmptySet
  <2>3. Times(X, o) = 0
    BY <1>2, <2>2
  <2>4. Times(X, o) \in Nat
    BY <2>3
  <2> HIDE DEF X
  <2>5. Times({<<m, p, j>> : j \in 2 .. Len(bucket[m][p])}, o) = Times(X, o)
    BY <1>0 DEF X
  <2> QED BY <1>3, <2>3, <2>4, <2>5
<1>4. CASE retain[m]
  <2>1. T = P \ {<<m, p, 1>>}
    <3>1. ASSUME NEW x \in T PROVE x \in P \ {<<m, p, 1>>}
      <4>1. PICK j \in 2 .. Len(s) : x = <<m, p, j>>
        OBVIOUS
      <4>2. s[j].value = o /\ j \in Nat /\ j # 1 /\ j \in 1 .. Len(s)
        BY <1>0, <1>1, <4>1 DEF At
      <4> QED BY <4>1, <4>2 DEF Part, Hits
    <3>2. ASSUME NEW x \in P \ {<<m, p, 1>>} PROVE x \in T
      <4>1. PICK j \in Nat : x = <<m, p, j>>
        BY DEF Part
      <4>2. j \in 1 .. Len(s) /\ s[j].value = o /\ j # 1
        BY <4>1 DEF Part, Hits
      <4>3. j \in 2 .. Len(s)
        BY <1>1, <4>2
      <4> QED BY <1>0, <1>4, <4>1, <4>2, <4>3 DEF At
    <3> QED BY <3>1, <3>2
  <2>2. IsFiniteSet(P) /\ Cardinality(P) = Cnt(s, o)
    BY <1>1, PartSize
  <2>3. <<m, p, 1>> \in P <=> s[1].value = o
    BY <1>0, <1>1 DEF Part, Hits
  <2> HIDE DEF T, P
  <2>4. /\ IsFiniteSet(P \ {<<m, p, 1>>})
        /\ Cardinality(P \ {<<m, p, 1>>}) = IF <<m, p, 1>> \in P THEN Cardinality(P) - 1 ELSE Cardinality(P)
    BY <2>2, FS_RemoveElement
  <2>5. Cnt(s, o) \in Nat
    BY <1>1, HitsFinite
  <2>6. Cardinality(T) = Cnt(s, o) - Same(s[1].value, o)
    BY <2>1, <2>2, <2>3, <2>4, <2>5 DEF Same
  <2>7. Cardinality(T) \in Nat
    BY <2>1, <2>4, FS_CardinalityType
  <2> QED BY <1>0, <1>2, <1>4, <2>6, <2>7
<1> QED BY <1>3, <1>4

LEMMA DelKeeps ==
  ASSUME IInv, NEW m \in alive, NEW k \in Texts, Hashmap_del(m, k)
  PROVE  /\ ObjectTypeOK' /\ bucket' \in Buckets /\ Counted' /\ AllTidy'
         /\ leaked' \in [Objs -> Nat]
         /\ alive' = alive /\ retain' = retain /\ rejected' = rejected
         /\ \A n \in Maps, q \in Positions : n # m => bucket'[n][q] = bucket[n][q]
<1>0. PICK p, s, i : p = Hash[k] /\ s = bucket[m][p] /\ i = Find(m, k)
  OBVIOUS
<1>1. /\ gcCount \in [Objs -> Nat] /\ held \in [Objs -> Nat] /\ leaked \in [Objs -> Nat]
      /\ alive \in SUBSET Maps /\ bucket \in [Maps -> [Positions -> Seq(Nodes)]] /\ m \in Maps
      /\ rejected \in [Maps -> SUBSET Texts] /\ p \in Positions /\ s \in Seq(Nodes) /\ Len(s) \in Nat
      /\ \A j \in 1 .. Len(s) : s[j].value \in Objs
  BY <1>0, Types DEF IInv
<1>2. i \in 0 .. Len(s)
  BY <1>0, <1>1, FindIs DEF IInv
<1>3. PICK t : t = IF i = 1 THEN <<>> ELSE Without(s, i)
  OBVIOUS
<1>4. /\ i > 0
      /\ bucket' = [bucket EXCEPT ![m] = [bucket[m] EXCEPT ![p] = t]]
      /\ gcCount' = IF retain[m] THEN Object_release(gcCount, Hashmap_get(m, k)) ELSE gcCount
      /\ held' = held /\ alive' = alive /\ retain' = retain /\ rejected' = rejected
  BY <1>0, <1>3 DEF Hashmap_del, Without
<1>5. leaked' = [o \in Objs |-> leaked[o] + IF i = 1 THEN Times({<<m, p, j>> : j \in 2 .. Len(s)}, o) ELSE 0]
  BY <1>0 DEF Hashmap_del
<1>6. i \in 1 .. Len(s) /\ 1 \in 1 .. Len(s)
  BY <1>1, <1>2, <1>4
<1>7. PICK w : w = s[i].value
  OBVIOUS
<1>8. w \in Objs /\ Hashmap_get(m, k) = w
  BY <1>0, <1>1, <1>4, <1>6, <1>7 DEF Hashmap_get
<1>9. gcCount \in [Objs -> Nat]
  BY <1>1
<1>10. Tidy(s, p, rejected[m])
  BY <1>0, <1>1 DEF IInv, AllTidy
<1>11. t \in Seq(Nodes) /\ Tidy(t, p, rejected'[m])
  <2>1. Without(s, i) \in Seq(Nodes)
    BY <1>1, <1>6, WithoutIs
  <2>2. Tidy(Without(s, i), p, rejected[m]) /\ Tidy(<<>>, p, rejected[m])
    BY <1>1, <1>6, <1>10, WithoutTidy
  <2> QED BY <1>3, <1>4, <2>1, <2>2
<1>12. gcCount' \in [Objs -> Int]
  <2>1. Object_release(gcCount, w) \in [Objs -> Int]
    BY <1>8, <1>9, ReleaseIs
  <2> QED BY <1>4, <1>8, <1>9, <2>1
<1>13. ASSUME NEW o \in Objs
       PROVE  /\ leaked'[o] \in Nat
              /\ gcCount'[o] - held'[o] - leaked'[o] =
                   gcCount[o] - held[o] - leaked[o]
                     + (IF retain[m] THEN Cnt(t, o) - Cnt(bucket[m][p], o) ELSE 0)
  <2>1. PICK l : l = Times({<<m, p, j>> : j \in 2 .. Len(s)}, o)
    OBVIOUS
  <2>2. l \in Nat /\ l = IF retain[m] THEN Cnt(s, o) - Same(s[1].value, o) ELSE 0
    BY <1>0, <1>1, <1>6, <2>1, OthersTimes
  <2>3. leaked'[o] = leaked[o] + IF i = 1 THEN l ELSE 0
    BY <1>5, <2>1
  <2>4. gcCount'[o] = gcCount[o] - (IF retain[m] THEN Same(w, o) ELSE 0)
    <3>1. Object_release(gcCount, w)[o] = gcCount[o] - Same(w, o)
      BY <1>8, <1>9, ReleaseIs
    <3>2. gcCount[o] \in Nat
      BY <1>9
    <3> QED BY <1>4, <1>8, <3>1, <3>2
  <2>5. /\ gcCount[o] \in Nat /\ held[o] \in Nat /\ leaked[o] \in Nat /\ held'[o] = held[o]
        /\ Same(w, o) \in Int
    BY <1>1, <1>4 DEF Same
  <2>6. Cnt(s, o) \in Nat
    BY <1>1, HitsFinite
  <2>7. Cnt(t, o) = IF i = 1 THEN 0 ELSE Cnt(s, o) - Same(w, o)
    <3>1. Cnt(Without(s, i), o) = Cnt(s, o) - Same(s[i].value, o)
      BY <1>1, <1>6, CntWithout
    <3>2. Cnt(<<>>, o) = 0
      BY CntEmpty
    <3> QED BY <1>3, <1>7, <3>1, <3>2
  <2>8. CASE ~retain[m]
    <3>1. leaked'[o] = leaked[o] /\ gcCount'[o] = gcCount[o]
      BY <2>2, <2>3, <2>4, <2>5, <2>8
    <3> QED BY <2>5, <2>8, <3>1
  <2>9. CASE retain[m] /\ i = 1
    <3>1. /\ leaked'[o] = leaked[o] + (Cnt(s, o) - Same(w, o))
          /\ gcCount'[o] = gcCount[o] - Same(w, o)
          /\ Cnt(t, o) = 0
      BY <1>7, <2>2, <2>3, <2>4, <2>7, <2>9
    <3>2. leaked'[o] \in Nat
      BY <2>2, <2>3, <2>5
    <3>3. gcCount'[o] - held'[o] - leaked'[o] = gcCount[o] - held[o] - leaked[o] + (0 - Cnt(s, o))
      BY <2>5, <2>6, <3>1
    <3> QED BY <1>0, <2>9, <3>1, <3>2, <3>3
  <2>10. CASE retain[m] /\ i # 1
    <3>1. /\ leaked'[o] = leaked[o]
          /\ gcCount'[o] = gcCount[o] - Same(w, o)
          /\ Cnt(t, o) = Cnt(s, o) - Same(w, o)
      BY <2>3, <2>4, <2>5, <2>7, <2>10
    <3>2. gcCount'[o] - held'[o] - leaked'[o] =
            gcCount[o] - held[o] - leaked[o] + ((Cnt(s, o) - Same(w, o)) - Cnt(s, o))
      BY <2>5, <2>6, <3>1
    <3> QED BY <1>0, <2>5, <2>10, <3>1, <3>2
  <2> QED BY <2>8, <2>9, <2>10
<1>14. leaked' \in [Objs -> Nat]
  BY <1>5, <1>13
<1>15. Changed(m, p, t)
  <2>1. bucket' = [bucket EXCEPT ![m][p] = t]
    BY <1>4
  <2>2. held' \in [Objs -> Nat] /\ rejected' \in [Maps -> SUBSET Texts]
        /\ \A n \in Maps : rejected[n] \subseteq rejected'[n]
    BY <1>1, <1>4
  <2> QED BY <1>4, <1>11, <1>12, <1>13, <1>14, <2>1, <2>2 DEF Changed
<1>16. p \in Positions /\ t \in Seq(Nodes)
  BY <1>1, <1>11
<1>17. /\ ObjectTypeOK' /\ bucket' \in Buckets /\ Counted' /\ AllTidy'
       /\ \A n \in Maps, q \in Positions : bucket'[n][q] = IF n = m /\ q = p THEN t ELSE bucket[n][q]
  BY <1>15, <1>16, OneBucket
<1> QED BY <1>4, <1>14, <1>17

(* What is still to be counted of a cleared map.                            *)
LEMMA ClearTimes ==
  ASSUME TypeOK, NEW m \in alive, NEW o
  PROVE  Times(Places(m), o) = Cardinality({x \in Ret(alive, retain, bucket, o) : x[1] = m})
<1> DEFINE A == {x \in Places(m) : retain[x[1]] /\ At(x).value = o}
           R == Retaining(o)
<1>1. A = {x \in R : x[1] = m}
  <2>1. ASSUME NEW n, NEW x \in Places(n) PROVE x[1] = n
    BY DEF Places
  <2>2. ASSUME NEW x \in R, x[1] = m PROVE x \in Places(m)
    <3>1. PICK n \in alive : x \in Places(n)
      BY DEF Retaining
    <3> QED BY <3>1, <2>1, <2>2
  <2>3. ASSUME NEW x \in A PROVE x \in R /\ x[1] = m
    BY <2>1 DEF Retaining
  <2>4. ASSUME NEW x \in R PROVE retain[x[1]] /\ At(x).value = o
    BY DEF Retaining
  <2> QED BY <2>2, <2>3, <2>4
<1>2. R = Ret(alive, retain, bucket, o)
  BY RetainingIs
<1>3. Times(Places(m), o) = Cardinality(A)
  BY DEF Times
<1> HIDE DEF A, R
<1> QED BY <1>1, <1>2, <1>3

LEMMA ClearKeeps ==
  ASSUME IInv, NEW m \in alive, Hashmap_clear(m), alive' = alive \/ alive' = alive \ {m}
  PROVE  /\ ObjectTypeOK' /\ bucket' \in Buckets /\ Counted' /\ AllTidy'
         /\ leaked' = leaked /\ retain' = retain /\ rejected' \in [Maps -> SUBSET Texts]
         /\ \A n \in Maps, q \in Positions : n # m => bucket'[n][q] = bucket[n][q]
<1>1. /\ gcCount \in [Objs -> Nat] /\ held \in [Objs -> Nat] /\ leaked \in [Objs -> Nat]
      /\ alive \in SUBSET Maps /\ bucket \in Buckets /\ m \in Maps
      /\ rejected \in [Maps -> SUBSET Texts]
  BY Types DEF IInv
<1>2. /\ Cleared(bucket, m, bucket')
      /\ gcCount' = [o \in Objs |-> gcCount[o] - Times(Places(m), o)]
      /\ rejected' = [rejected EXCEPT ![m] = {}]
      /\ held' = held /\ retain' = retain /\ leaked' = leaked
  BY DEF Hashmap_clear, Cleared
<1>3. ClearedTo(bucket, m, bucket') /\ Emptied(alive, retain, bucket, m, alive', bucket')
  BY <1>1, <1>2, MapCleared
<1>4. /\ bucket' \in Buckets
      /\ \A n \in Maps, q \in Positions : bucket'[n][q] = IF n = m THEN <<>> ELSE bucket[n][q]
  BY <1>3 DEF ClearedTo
<1>5. ASSUME NEW o \in Objs
      PROVE  /\ IsFiniteSet(Ret(alive', retain, bucket', o))
             /\ gcCount'[o] = held[o] + Cardinality(Ret(alive', retain, bucket', o)) + leaked[o]
             /\ gcCount'[o] \in Nat
  <2>1. /\ IsFiniteSet(Ret(alive, retain, bucket, o))
        /\ gcCount[o] = held[o] + Cardinality(Ret(alive, retain, bucket, o)) + leaked[o]
    BY DEF IInv, Counted
  <2>2. /\ IsFiniteSet(Ret(alive', retain, bucket', o))
        /\ Cardinality(Ret(alive', retain, bucket', o)) =
             Cardinality(Ret(alive, retain, bucket, o))
               - Cardinality({x \in Ret(alive, retain, bucket, o) : x[1] = m})
    BY <1>3, <2>1 DEF Emptied
  <2>3. PICK R, Q, A : /\ R = Ret(alive, retain, bucket, o) /\ Q = Ret(alive', retain, bucket', o)
                       /\ A = {x \in R : x[1] = m}
    OBVIOUS
  <2>4. IsFiniteSet(A)
    BY <2>1, <2>3, FS_Subset
  <2>5. Cardinality(R) \in Nat /\ Cardinality(Q) \in Nat /\ Cardinality(A) \in Nat
    BY <2>1, <2>2, <2>3, <2>4, FS_CardinalityType
  <2>6. gcCount'[o] = gcCount[o] - Cardinality(A)
    <3>1. Times(Places(m), o) = Cardinality({x \in Ret(alive, retain, bucket, o) : x[1] = m})
      BY ClearTimes DEF IInv
    <3> QED BY <1>2, <2>3, <3>1
  <2>7. gcCount[o] = held[o] + Cardinality(R) + leaked[o] /\ Cardinality(Q) = Cardinality(R) - Cardinality(A)
    BY <2>1, <2>2, <2>3
  <2>8. gcCount[o] \in Nat /\ held[o] \in Nat /\ leaked[o] \in Nat
    BY <1>1
  <2>9. gcCount'[o] = held[o] + Cardinality(Q) + leaked[o]
    BY <2>5, <2>6, <2>7, <2>8
  <2>10. gcCount'[o] \in Nat
    BY <2>5, <2>8, <2>9
  <2> QED BY <2>2, <2>3, <2>9, <2>10
<1>6. Counted'
  BY <1>2, <1>5 DEF Counted
<1>7. ObjectTypeOK'
  <2>1. gcCount' \in [Objs -> Nat]
    BY <1>2, <1>5
  <2> QED BY <1>1, <1>2, <2>1 DEF ObjectTypeOK
<1>8. AllTidy'
  <2> SUFFICES ASSUME NEW n \in alive', NEW q \in Positions
               PROVE  Tidy(bucket'[n][q], q, rejected'[n])
    BY DEF AllTidy
  <2>1. n \in alive /\ n \in Maps
    BY <1>1
  <2>2. CASE n = m
    <3>1. bucket'[n][q] = <<>>
      BY <1>4, <2>1, <2>2
    <3>2. Tidy(<<>>, q, rejected'[n])
      BY DEF Tidy
    <3> QED BY <3>1, <3>2
  <2>3. CASE n # m
    <3>1. bucket'[n][q] = bucket[n][q] /\ rejected'[n] = rejected[n]
      BY <1>1, <1>2, <1>4, <2>1, <2>3
    <3> QED BY <2>1, <3>1 DEF IInv, AllTidy
  <2> QED BY <2>2, <2>3
<1>9. rejected' \in [Maps -> SUBSET Texts]
  BY <1>1, <1>2
<1> QED BY <1>2, <1>4, <1>6, <1>7, <1>8, <1>9

LEMMA NewKeeps ==
  ASSUME IInv, NEW m \in Maps, NEW r \in BOOLEAN, Hashmap_new(m, r)
  PROVE  /\ ObjectTypeOK' /\ bucket' \in Buckets /\ Counted' /\ AllTidy'
         /\ m \notin alive /\ alive' = alive \cup {m}
         /\ leaked' = leaked /\ rejected' = rejected /\ retain' \in [Maps -> BOOLEAN]
         /\ \A n \in Maps, q \in Positions : n # m => bucket'[n][q] = bucket[n][q]
<1>1. /\ alive \in SUBSET Maps /\ bucket \in [Maps -> [Positions -> Seq(Nodes)]]
      /\ retain \in [Maps -> BOOLEAN]
  BY Types DEF IInv, TypeOK
<1>2. /\ m \notin alive /\ alive' = alive \cup {m} /\ retain' = [retain EXCEPT ![m] = r]
      /\ bucket' = [bucket EXCEPT ![m] = NoNodes]
      /\ gcCount' = gcCount /\ held' = held /\ leaked' = leaked /\ rejected' = rejected
  BY DEF Hashmap_new, objVars
<1>3. NoNodes \in [Positions -> Seq(Nodes)] /\ \A q \in Positions : NoNodes[q] = <<>>
  BY DEF NoNodes
<1>4. bucket' \in Buckets
  BY <1>1, <1>2, <1>3 DEF Buckets
<1>5. /\ \A n \in Maps : n # m => bucket'[n] = bucket[n] /\ retain'[n] = retain[n]
      /\ \A q \in Positions : bucket'[m][q] = <<>>
  BY <1>1, <1>2, <1>3
<1>6. ASSUME NEW o PROVE Ret(alive', retain', bucket', o) = Ret(alive, retain, bucket, o)
  <2> DEFINE R == Ret(alive, retain, bucket, o)
             Q == Ret(alive', retain', bucket', o)
  <2>1. ASSUME NEW n \in Maps, NEW q \in Positions, NEW i \in Nat
        PROVE  <<n, q, i>> \in Q <=> <<n, q, i>> \in R
    <3>1. <<n, q, i>> \in Q <=> n \in alive' /\ retain'[n] /\ i \in Hits(bucket'[n][q], o)
      BY DEF Ret
    <3>2. <<n, q, i>> \in R <=> n \in alive /\ retain[n] /\ i \in Hits(bucket[n][q], o)
      BY DEF Ret
    <3>3. n = m => i \notin Hits(bucket'[n][q], o)
      BY <1>5, CntEmpty
    <3> HIDE DEF Q, R
    <3>4. CASE n = m
      BY <3>1, <3>2, <3>3, <3>4, <1>2
    <3>5. CASE n # m
      BY <3>1, <3>2, <3>5, <1>2, <1>5
    <3> QED BY <3>4, <3>5
  <2>2. Q \subseteq Maps \X Positions \X Nat /\ R \subseteq Maps \X Positions \X Nat
    BY DEF Ret
  <2> HIDE DEF Q, R
  <2>3. Q = R
    BY <2>1, <2>2
  <2> QED BY <2>3 DEF Q, R
<1>7. Counted'
  <2> SUFFICES ASSUME NEW o \in Objs
               PROVE  /\ IsFiniteSet(Ret(alive', retain', bucket', o))
                      /\ gcCount'[o] = held'[o] + Cardinality(Ret(alive', retain', bucket', o)) + leaked'[o]
    BY DEF Counted
  <2>1. /\ IsFiniteSet(Ret(alive, retain, bucket, o))
        /\ gcCount[o] = held[o] + Cardinality(Ret(alive, retain, bucket, o)) + leaked[o]
    BY DEF IInv, Counted
  <2> QED BY <1>2, <1>6, <2>1
<1>8. ObjectTypeOK'
  BY <1>2 DEF IInv, TypeOK, ObjectTypeOK
<1>9. AllTidy'
  <2> SUFFICES ASSUME NEW n \in alive', NEW q \in Positions
               PROVE  Tidy(bucket'[n][q], q, rejected[n])
    BY <1>2 DEF AllTidy
  <2>2. CASE n = m
    <3>1. bucket'[n][q] = <<>>
      BY <1>5, <2>2
    <3>2. Tidy(<<>>, q, rejected[n])
      BY DEF Tidy
    <3> QED BY <3>1, <3>2
  <2>3. CASE n # m
    <3>1. n \in alive /\ bucket'[n][q] = bucket[n][q]
      BY <1>1, <1>2, <1>5, <2>3
    <3> QED BY <3>1 DEF IInv, AllTidy
  <2> QED BY <2>2, <2>3
<1>10. retain' \in [Maps -> BOOLEAN] /\ \A n \in Maps, q \in Positions : n # m => bucket'[n][q] = bucket[n][q]
  BY <1>1, <1>2, <1>5
<1> QED BY <1>2, <1>4, <1>7, <1>8, <1>9, <1>10

(* What the application does with its own references.                       *)
LEMMA ObjectKeeps ==
  ASSUME IInv, NEW o \in Objs, Object_new(o) \/ App_retain(o) \/ App_release(o),
         UNCHANGED <<alive, retain, bucket, leaked>>
  PROVE  ObjectTypeOK' /\ Counted'
<1>1. gcCount \in [Objs -> Nat] /\ held \in [Objs -> Nat] /\ leaked \in [Objs -> Nat]
  BY Types DEF IInv
<1>2. ASSUME NEW x \in Objs
      PROVE  /\ IsFiniteSet(Ret(alive, retain, bucket, x))
             /\ Cardinality(Ret(alive, retain, bucket, x)) \in Nat
             /\ gcCount[x] = held[x] + Cardinality(Ret(alive, retain, bucket, x)) + leaked[x]
  <2>1. /\ IsFiniteSet(Ret(alive, retain, bucket, x))
        /\ gcCount[x] = held[x] + Cardinality(Ret(alive, retain, bucket, x)) + leaked[x]
    BY DEF IInv, Counted
  <2> QED BY <2>1, FS_CardinalityType
<1>3. PICK c : c \in [Objs -> Nat] /\ \A x \in Objs : c[x] = Cardinality(Ret(alive, retain, bucket, x))
  <2> DEFINE N(x) == Cardinality(Ret(alive, retain, bucket, x))
  <2>1. \A x \in Objs : N(x) \in Nat
    BY <1>2
  <2> HIDE DEF N
  <2>2. [x \in Objs |-> N(x)] \in [Objs -> Nat] /\ \A x \in Objs : [y \in Objs |-> N(y)][x] = N(x)
    BY <2>1
  <2>3. \E c \in [Objs -> Nat] : \A x \in Objs : c[x] = N(x)
    BY <2>2
  <2> QED BY <2>3 DEF N
<1>4. \A x \in Objs : gcCount[x] = held[x] + c[x] + leaked[x]
  BY <1>2, <1>3
<1>5. /\ gcCount' \in [Objs -> Nat] /\ held' \in [Objs -> Nat]
      /\ \A x \in Objs : gcCount'[x] = held'[x] + c[x] + leaked[x]
  <2>1. CASE Object_new(o)
    <3>1. gcCount[o] = 0
      BY <1>1, <2>1 DEF Object_new, Allocated
    <3>2. held[o] = 0 /\ c[o] = 0 /\ leaked[o] = 0
      BY <3>1, <1>1, <1>3, <1>4
    <3> QED BY <1>1, <1>3, <1>4, <2>1, <3>2 DEF Object_new
  <2>2. CASE App_retain(o)
    <3>1. held' = [held EXCEPT ![o] = @ + 1] /\ gcCount' = [gcCount EXCEPT ![o] = @ + 1]
      BY <2>2 DEF App_retain, Object_retain
    <3>2. held' \in [Objs -> Nat] /\ gcCount' \in [Objs -> Nat]
      BY <1>1, <3>1
    <3>3. ASSUME NEW x \in Objs PROVE gcCount'[x] = held'[x] + c[x] + leaked[x]
      <4>1. /\ held'[x] = held[x] + (IF x = o THEN 1 ELSE 0)
            /\ gcCount'[x] = gcCount[x] + (IF x = o THEN 1 ELSE 0)
        BY <1>1, <3>1
      <4>2. held[x] \in Nat /\ c[x] \in Nat /\ leaked[x] \in Nat
        BY <1>1, <1>3
      <4> QED BY <1>4, <4>1, <4>2
    <3> QED BY <3>2, <3>3
  <2>3. CASE App_release(o)
    <3>1. /\ held' = [held EXCEPT ![o] = @ - 1] /\ gcCount' = [gcCount EXCEPT ![o] = @ - 1]
          /\ held[o] > 0
      BY <2>3 DEF App_release, Object_release
    <3>2. held[o] - 1 \in Nat /\ gcCount[o] - 1 \in Nat
      BY <1>1, <1>3, <1>4, <3>1
    <3> QED BY <1>1, <1>3, <1>4, <3>1, <3>2
  <2> QED BY <2>1, <2>2, <2>3
<1>6. ObjectTypeOK'
  BY <1>5 DEF ObjectTypeOK
<1>7. Counted'
  <2> SUFFICES ASSUME NEW x \in Objs
               PROVE  /\ IsFiniteSet(Ret(alive, retain, bucket, x))
                      /\ gcCount'[x] = held'[x] + Cardinality(Ret(alive, retain, bucket, x)) + leaked[x]
    BY DEF Counted
  <2> QED BY <1>2, <1>3, <1>5
<1> QED BY <1>6, <1>7

----------------------------------------------------------------------------
(* The loops.                                                               *)

Calls == [pc : {"idle", "each", "copy"}, this : Maps \cup {NULL}, that : Maps \cup {NULL},
          pos : Positions, rest : Nat, due : SUBSET Texts]

LEMMA CallIs ==
  ASSUME TypeOK
  PROVE  /\ call \in Calls /\ call.pc \in {"idle", "each", "copy"}
         /\ call.pos \in Positions /\ call.pos \in Nat /\ call.rest \in Nat /\ call.due \in SUBSET Texts
<1>1. call \in Calls
  BY DEF TypeOK, Calls
<1>2. Positions \subseteq Nat
  BY Types
<1> QED BY <1>1, <1>2 DEF Calls

(* The loop stays where it is: the keys it has to see are still the last of *)
(* their buckets, behind what a callback put there.                         *)
LEMMA CallStays ==
  ASSUME IInv, call' = call, call.pc # "copy", bucket' \in Buckets,
         call.pc = "each" => call.this \in alive',
         \A n \in alive, q \in Positions :
           call.pc = "each" /\ n = call.this => Suffix(bucket[n][q], bucket'[n][q])
  PROVE  CallOK' /\ EachOK'
<1>1. /\ call \in Calls /\ call.pc \in {"idle", "each", "copy"}
      /\ call.pos \in Positions /\ call.pos \in Nat /\ call.rest \in Nat
  BY CallIs DEF IInv
<1>2. CASE call.pc = "idle"
  BY <1>2 DEF CallOK, EachOK
<1>3. CASE call.pc = "each"
  <2>1. PICK m : m = call.this
    OBVIOUS
  <2>2. m \in alive /\ m \in Maps /\ call.rest <= Len(bucket[m][call.pos])
    BY <1>3, <2>1, Types DEF IInv, CallOK
  <2>3. \A q \in Positions : /\ Len(bucket[m][q]) \in Nat /\ Len(bucket'[m][q]) \in Nat
                             /\ Suffix(bucket[m][q], bucket'[m][q])
    <3>1. \A q \in Positions : bucket[m][q] \in Seq(Nodes) /\ bucket'[m][q] \in Seq(Nodes)
      BY <2>2, Types DEF IInv, Buckets
    <3>2. \A q \in Positions : Suffix(bucket[m][q], bucket'[m][q])
      BY <1>3, <2>1, <2>2
    <3> QED BY <3>1, <3>2
  <2>4. call.rest <= Len(bucket'[m][call.pos])
    <3>1. PICK x, y : x = Len(bucket[m][call.pos]) /\ y = Len(bucket'[m][call.pos])
      OBVIOUS
    <3>2. x \in Nat /\ y \in Nat /\ y >= x
      BY <1>1, <2>3, <3>1 DEF Suffix
    <3> QED BY <1>1, <2>2, <3>1, <3>2
  <2>5. CallOK'
    BY <1>3, <2>1, <2>4 DEF CallOK
  <2>6. ASSUME NEW k \in call.due
        PROVE  \E p \in Positions : \E i \in 1 .. Len(bucket'[m][p]) :
                 bucket'[m][p][i].key = k /\ Before(bucket'[m][p], p, i)
    <3>1. PICK p \in Positions : \E i \in 1 .. Len(bucket[m][p]) :
            bucket[m][p][i].key = k /\ Before(bucket[m][p], p, i)
      BY <1>3, <2>1 DEF IInv, EachOK
    <3>2. PICK i \in 1 .. Len(bucket[m][p]) : bucket[m][p][i].key = k /\ Before(bucket[m][p], p, i)
      BY <3>1
    <3>3. PICK s, t : s = bucket[m][p] /\ t = bucket'[m][p]
      OBVIOUS
    <3>4. Len(s) \in Nat /\ Len(t) \in Nat /\ Suffix(s, t)
      BY <2>3, <3>3
    <3>5. PICK d : d = Len(t) - Len(s)
      OBVIOUS
    <3>9. i \in 1 .. Len(s) /\ Len(t) >= Len(s) /\ t[i + (Len(t) - Len(s))].key = s[i].key
      BY <3>3, <3>4 DEF Suffix
    <3>6. d \in Nat /\ Len(t) = Len(s) + d /\ t[i + d].key = s[i].key /\ i \in 1 .. Len(s)
      BY <3>4, <3>5, <3>9
    <3>7. i + d \in 1 .. Len(t)
      BY <3>4, <3>6
    <3>8. Before(t, p, i + d)
      <4>1. p > call.pos \/ (p = call.pos /\ i > Len(s) - call.rest)
        BY <3>2, <3>3 DEF Before
      <4>2. i > Len(s) - call.rest => i + d > Len(t) - call.rest
        BY <1>1, <3>4, <3>6
      <4> QED BY <4>1, <4>2 DEF Before
    <3> QED BY <3>2, <3>3, <3>6, <3>7, <3>8
  <2>7. EachOK'
    <3>1. \A k \in call.due : \E p \in Positions : \E i \in 1 .. Len(bucket'[m][p]) :
            /\ bucket'[m][p][i].key = k
            /\ p > call.pos \/ (p = call.pos /\ i > Len(bucket'[m][p]) - call.rest)
      BY <2>6 DEF Before
    <3> QED BY <2>1, <3>1 DEF EachOK, Before
  <2> QED BY <2>5, <2>7
<1> QED BY <1>1, <1>2, <1>3

LEMMA KeysAre ==
  ASSUME NEW m, NEW k
  PROVE  k \in KeysOf(m) <=> \E p \in Positions : \E i \in 1 .. Len(bucket[m][p]) : bucket[m][p][i].key = k
<1>1. ASSUME k \in KeysOf(m)
      PROVE  \E p \in Positions : \E i \in 1 .. Len(bucket[m][p]) : bucket[m][p][i].key = k
  <2>1. PICK x \in Places(m) : k = At(x).key
    BY <1>1 DEF KeysOf
  <2>2. PICK p \in Positions : x \in {<<m, p, i>> : i \in 1 .. Len(bucket[m][p])}
    BY DEF Places
  <2>3. PICK i \in 1 .. Len(bucket[m][p]) : x = <<m, p, i>>
    BY <2>2
  <2> QED BY <2>1, <2>3 DEF At
<1>2. ASSUME NEW p \in Positions, NEW i \in 1 .. Len(bucket[m][p]), bucket[m][p][i].key = k
      PROVE  k \in KeysOf(m)
  <2>1. <<m, p, i>> \in Places(m)
    BY DEF Places
  <2>2. At(<<m, p, i>>).key = k
    BY <1>2 DEF At
  <2> QED BY <2>1, <2>2 DEF KeysOf
<1> QED BY <1>1, <1>2

LEMMA LoopStarts ==
  ASSUME IInv, AppLoop
  PROVE  call' \in Calls /\ CallOK' /\ EachOK'
<1>1. PICK this \in alive, that \in alive :
        \/ "each" \in Loops /\ this = that /\ Enter("each", this, NULL)
        \/ /\ "copy" \in Loops /\ KeysOf(this) \subseteq DOMAIN Format
           /\ this = that => \A k \in KeysOf(this) : Format[k] = k
           /\ Enter("copy", this, that)
  BY DEF AppLoop
<1>2. bucket' = bucket /\ alive' = alive
  BY DEF AppLoop
<1>3. /\ this \in Maps /\ that \in Maps /\ 0 \in Positions /\ Positions \subseteq Nat
      /\ \A q \in Positions : /\ Len(bucket[this][q]) \in Nat
                              /\ \A i \in 1 .. Len(bucket[this][q]) : bucket[this][q][i].key \in Texts
  BY Types DEF IInv
<1>4. KeysOf(this) \in SUBSET Texts
  BY <1>3, KeysAre
<1>5. CASE Enter("each", this, NULL)
  <2>1. /\ call' = [pc |-> "each", this |-> this, that |-> NULL, pos |-> 0,
                    rest |-> Len(bucket[this][0]), due |-> KeysOf(this)]
    BY <1>5 DEF Enter
  <2>2. /\ call'.pc = "each" /\ call'.this = this /\ call'.pos = 0
        /\ call'.rest = Len(bucket[this][0]) /\ call'.due = KeysOf(this) /\ call' \in Calls
    BY <2>1, <1>3, <1>4 DEF Calls
  <2>3. CallOK'
    BY <1>2, <1>3, <2>2 DEF CallOK
  <2>4. EachOK'
    <3>1. ASSUME NEW k \in KeysOf(this)
          PROVE  \E p \in Positions : \E i \in 1 .. Len(bucket[this][p]) :
                   /\ bucket[this][p][i].key = k
                   /\ p > 0 \/ (p = 0 /\ i > Len(bucket[this][p]) - Len(bucket[this][0]))
      <4>1. PICK p \in Positions : \E i \in 1 .. Len(bucket[this][p]) : bucket[this][p][i].key = k
        BY KeysAre
      <4>2. PICK i \in 1 .. Len(bucket[this][p]) : bucket[this][p][i].key = k
        BY <4>1
      <4>3. CASE p = 0
        <5>1. PICK L : L = Len(bucket[this][0])
          OBVIOUS
        <5>2. L \in Nat /\ i \in 1 .. L
          BY <1>3, <4>3, <5>1
        <5>3. i > L - L
          BY <5>2
        <5> QED BY <4>2, <4>3, <5>1, <5>3
      <4>4. CASE p # 0
        <5>1. p > 0
          BY <1>3, <4>4
        <5> QED BY <4>2, <5>1
      <4> QED BY <4>3, <4>4
    <3>2. \A k \in KeysOf(this) : \E p \in Positions : \E i \in 1 .. Len(bucket[this][p]) :
            /\ bucket[this][p][i].key = k
            /\ p > 0 \/ (p = 0 /\ i > Len(bucket[this][p]) - Len(bucket[this][0]))
      BY <3>1
    <3> DEFINE Lies(bk, m, k, pos, rest) ==
                 \E p \in Positions : \E i \in 1 .. Len(bk[m][p]) :
                   bk[m][p][i].key = k /\ (p > pos \/ (p = pos /\ i > Len(bk[m][p]) - rest))
    <3>3. \A k \in KeysOf(this) : Lies(bucket, this, k, 0, Len(bucket[this][0]))
      BY <3>2
    <3> HIDE DEF Lies
    <3>4. \A k \in call'.due : Lies(bucket', call'.this, k, call'.pos, call'.rest)
      BY <1>2, <2>2, <3>3
    <3> QED BY <3>4 DEF Lies, EachOK, Before
  <2> QED BY <2>2, <2>3, <2>4
<1>6. CASE /\ KeysOf(this) \subseteq DOMAIN Format
           /\ this = that => \A k \in KeysOf(this) : Format[k] = k
           /\ Enter("copy", this, that)
  <2>1. /\ call' = [pc |-> "copy", this |-> this, that |-> that, pos |-> 0,
                    rest |-> Len(bucket[this][0]), due |-> {}]
    BY <1>6 DEF Enter
  <2>2. /\ call'.pc = "copy" /\ call'.this = this /\ call'.that = that /\ call'.pos = 0
        /\ call'.rest = Len(bucket[this][0]) /\ call' \in Calls
    BY <2>1, <1>3 DEF Calls
  <2>3. ASSUME NEW p \in Positions, NEW i \in 1 .. Len(bucket[this][p])
        PROVE  Copyable(bucket[this][p][i].key)'
    <3>1. bucket[this][p][i].key \in KeysOf(this)
      BY KeysAre
    <3> QED BY <1>2, <1>6, <2>2, <3>1 DEF Copyable
  <2>4. \A p \in Positions : \A i \in 1 .. Len(bucket'[this][p]) : Copyable(bucket[this][p][i].key)'
    BY <2>3, <1>2
  <2>5. CallOK'
    BY <1>2, <1>3, <2>2, <2>4 DEF CallOK
  <2>6. EachOK'
    BY <2>2 DEF EachOK
  <2> QED BY <2>2, <2>5, <2>6
<1> QED BY <1>1, <1>5, <1>6

(* At the end of a bucket what is due lies in those behind it.              *)
LEMMA DueBehind ==
  ASSUME IInv, call.pc = "each", call.rest = 0, NEW k \in call.due
  PROVE  \E p \in Positions : \E i \in 1 .. Len(bucket[call.this][p]) :
           bucket[call.this][p][i].key = k /\ p > call.pos
<1>1. PICK p \in Positions : \E i \in 1 .. Len(bucket[call.this][p]) :
        bucket[call.this][p][i].key = k /\ Before(bucket[call.this][p], p, i)
  BY DEF IInv, EachOK
<1>2. PICK i \in 1 .. Len(bucket[call.this][p]) :
        bucket[call.this][p][i].key = k /\ Before(bucket[call.this][p], p, i)
  BY <1>1
<1>3. call.this \in alive
  BY DEF IInv, CallOK
<1>4. Len(bucket[call.this][p]) \in Nat
  BY <1>3, Types DEF IInv
<1>5. p > call.pos
  BY <1>2, <1>4 DEF Before
<1> QED BY <1>2, <1>5

LEMMA NextBucketKeeps ==
  ASSUME IInv, NextBucket
  PROVE  /\ call' \in Calls /\ CallOK' /\ EachOK'
         /\ call.pc = "each" /\ call'.pc = "idle" => call.due = {}
<1>1. /\ call \in Calls /\ call.pc \in {"each", "copy"} /\ call.pos \in Nat
      /\ call.this \in alive /\ call.this \in Maps
  BY CallIs, Types DEF IInv, CallOK, NextBucket
<1>2. /\ call.rest = 0 /\ bucket' = bucket /\ alive' = alive
      /\ call' = IF call.pos + 1 < Size
                   THEN [call EXCEPT !.pos = @ + 1, !.rest = Len(bucket[call.this][call.pos + 1])]
                   ELSE Idle
  BY DEF NextBucket
<1>3. Size \in Nat /\ Positions \subseteq Nat /\ 0 \in Positions /\ \A p \in Positions : p < Size
  BY HashmapAssumption DEF Positions
<1>4. CASE call.pos + 1 < Size
  <2>1. PICK q : q = call.pos + 1
    OBVIOUS
  <2>2. q \in Positions /\ q \in Nat
    BY <1>1, <1>3, <1>4, <2>1 DEF Positions
  <2>3. PICK r : r = Len(bucket[call.this][q])
    OBVIOUS
  <2>4. r \in Nat
    BY <1>1, <2>2, <2>3, Types DEF IInv
  <2>5. call' = [call EXCEPT !.pos = q, !.rest = r]
    BY <1>2, <1>4, <2>1, <2>3
  <2>6. /\ call'.pc = call.pc /\ call'.this = call.this /\ call'.that = call.that
        /\ call'.due = call.due /\ call'.pos = q /\ call'.rest = r /\ call' \in Calls
    BY <1>1, <2>2, <2>4, <2>5 DEF Calls
  <2>7. CallOK'
    <3>1. r <= Len(bucket[call.this][q])
      BY <2>3, <2>4
    <3>2. call'.this \in alive' /\ call'.rest <= Len(bucket'[call'.this][call'.pos])
      BY <1>1, <1>2, <2>6, <3>1
    <3>3. ASSUME call.pc = "copy"
          PROVE  /\ call.that \in alive
                 /\ \A p \in Positions : \A i \in 1 .. Len(bucket[call.this][p]) :
                      Copyable(bucket[call.this][p][i].key)
      BY <3>3 DEF IInv, CallOK
    <3>4. ASSUME call.pc = "copy", NEW p \in Positions, NEW i \in 1 .. Len(bucket[call.this][p])
          PROVE  Copyable(bucket[call.this][p][i].key)'
      <4>1. Copyable(bucket[call.this][p][i].key)
        BY <3>3, <3>4
      <4> QED BY <1>2, <2>6, <4>1 DEF Copyable
    <3>5. ASSUME call'.pc = "copy"
          PROVE  /\ call'.that \in alive'
                 /\ \A p \in Positions : \A i \in 1 .. Len(bucket'[call'.this][p]) :
                      Copyable(bucket[call.this][p][i].key)'
      BY <1>2, <2>6, <3>3, <3>4, <3>5
    <3> QED BY <3>2, <3>5 DEF CallOK
  <2>8. EachOK'
    <3> SUFFICES ASSUME call.pc = "each", NEW k \in call.due
                 PROVE  \E p \in Positions : \E i \in 1 .. Len(bucket[call.this][p]) :
                          /\ bucket[call.this][p][i].key = k
                          /\ p > q \/ (p = q /\ i > Len(bucket[call.this][p]) - r)
      BY <1>2, <2>6 DEF EachOK, Before
    <3>4. PICK p \in Positions : \E i \in 1 .. Len(bucket[call.this][p]) :
            bucket[call.this][p][i].key = k /\ p > call.pos
      BY <1>2, DueBehind
    <3>1. PICK i \in 1 .. Len(bucket[call.this][p]) :
            bucket[call.this][p][i].key = k /\ p > call.pos
      BY <3>4
    <3>2. p > q \/ p = q
      BY <1>1, <1>3, <2>1, <3>1
    <3>3. p = q => i > Len(bucket[call.this][p]) - r
      BY <2>3, <2>4
    <3> QED BY <3>1, <3>2, <3>3
  <2> QED BY <1>1, <2>6, <2>7, <2>8
<1>5. CASE ~(call.pos + 1 < Size)
  <2>1. call' = Idle
    BY <1>2, <1>5
  <2>2. call'.pc = "idle" /\ call' \in Calls
    BY <1>3, <2>1 DEF Idle, Calls
  <2>3. CallOK' /\ EachOK'
    BY <2>2 DEF CallOK, EachOK
  <2>4. ASSUME call.pc = "each", NEW k \in call.due PROVE FALSE
    <3>1. PICK p \in Positions : p > call.pos
      BY <1>2, <2>4, DueBehind
    <3> QED BY <1>1, <1>3, <1>5, <3>1
  <2> QED BY <2>2, <2>3, <2>4
<1> QED BY <1>4, <1>5

LEMMA EachStepKeeps ==
  ASSUME IInv, EachStep
  PROVE  call' \in Calls /\ CallOK' /\ EachOK'
<1>1. /\ call \in Calls /\ call.pc = "each" /\ call.pos \in Nat /\ call.pos \in Positions
      /\ call.rest \in Nat /\ call.rest > 0
      /\ call.this \in alive /\ call.this \in Maps /\ call.due \in SUBSET Texts
  BY CallIs, Types DEF IInv, CallOK, EachStep
<1>2. PICK h, r : h = Here.key /\ r = call.rest - 1
  OBVIOUS
<1>3. r \in Nat
  BY <1>1, <1>2
<1>4. call' = [call EXCEPT !.rest = r, !.due = @ \ {h}] /\ bucket' = bucket /\ alive' = alive
  BY <1>2 DEF EachStep
<1>5. /\ call'.pc = "each" /\ call'.this = call.this /\ call'.pos = call.pos
      /\ call'.due = call.due \ {h} /\ call'.rest = r /\ call' \in Calls
  BY <1>1, <1>3, <1>4 DEF Calls
<1>6. PICK L : L = Len(bucket[call.this][call.pos])
  OBVIOUS
<1>7. L \in Nat /\ call.rest <= L
  BY <1>1, <1>6, Types DEF IInv, CallOK
<1>8. CallOK'
  <2>1. r <= L
    BY <1>1, <1>2, <1>7
  <2> QED BY <1>1, <1>4, <1>5, <1>6, <2>1 DEF CallOK
<1>9. EachOK'
  <2> SUFFICES ASSUME NEW k \in call.due, k # h
               PROVE  \E p \in Positions : \E i \in 1 .. Len(bucket[call.this][p]) :
                        /\ bucket[call.this][p][i].key = k
                        /\ p > call.pos \/ (p = call.pos /\ i > Len(bucket[call.this][p]) - r)
    BY <1>4, <1>5 DEF EachOK, Before
  <2>1. PICK p \in Positions : \E i \in 1 .. Len(bucket[call.this][p]) :
          bucket[call.this][p][i].key = k /\ Before(bucket[call.this][p], p, i)
    BY <1>1 DEF IInv, EachOK
  <2>2. PICK i \in 1 .. Len(bucket[call.this][p]) :
          bucket[call.this][p][i].key = k /\ Before(bucket[call.this][p], p, i)
    BY <2>1
  <2>3. CASE p > call.pos
    BY <2>2, <2>3
  <2>4. CASE p = call.pos /\ i > Len(bucket[call.this][p]) - call.rest
    <3>1. i \in Nat /\ i > L - call.rest
      BY <1>6, <1>7, <2>4
    <3>2. i # L - call.rest + 1
      BY <1>2, <1>6, <2>2, <2>4 DEF Here
    <3>3. i > L - r
      BY <1>1, <1>2, <1>7, <3>1, <3>2
    <3> QED BY <1>6, <2>2, <2>4, <3>3
  <2> QED BY <2>2, <2>3, <2>4 DEF Before
<1> QED BY <1>5, <1>8, <1>9

LEMMA CopyStepKeeps ==
  ASSUME IInv, CopyStep
  PROVE  /\ ObjectTypeOK' /\ bucket' \in Buckets /\ Counted' /\ AllTidy'
         /\ alive' = alive /\ retain' = retain /\ leaked' = leaked
         /\ rejected' \in [Maps -> SUBSET Texts]
         /\ call' \in Calls /\ CallOK' /\ EachOK' /\ call'.pc = "copy"
<1>1. /\ call \in Calls /\ call.pc = "copy" /\ call.pos \in Positions
      /\ call.rest \in Nat /\ call.rest > 0
      /\ call.this \in alive /\ call.this \in Maps /\ call.that \in alive /\ call.that \in Maps
  BY CallIs, Types DEF IInv, CallOK, CopyStep
<1>2. PICK s, j, r : s = bucket[call.this][call.pos] /\ j = Len(s) - call.rest + 1 /\ r = call.rest - 1
  OBVIOUS
<1>3. /\ Len(s) \in Nat /\ call.rest <= Len(s)
      /\ \A i \in 1 .. Len(s) : s[i].value \in Objs
  BY <1>1, <1>2, Types DEF IInv, CallOK
<1>4. j \in 1 .. Len(s) /\ r \in Nat
  BY <1>1, <1>2, <1>3
<1>5. PICK h, k, v : h = Here.key /\ k = Format[h] /\ v = Here.value
  OBVIOUS
<1>6. h = s[j].key /\ v = s[j].value
  BY <1>2, <1>5 DEF Here
<1>7. Copyable(h)
  BY <1>1, <1>2, <1>4, <1>6 DEF IInv, CallOK
<1>8. k \in Texts /\ v \in Objs /\ (call.this = call.that => k = h)
  BY <1>3, <1>4, <1>5, <1>6, <1>7, HashmapAssumption DEF Copyable
<1>9. Hashmap_setByCheck(call.that, k, v, TRUE, TRUE) /\ call' = [call EXCEPT !.rest = r]
  BY <1>2, <1>5 DEF CopyStep, Hashmap_set, Advance
<1>10. /\ ObjectTypeOK' /\ bucket' \in Buckets /\ Counted' /\ AllTidy'
       /\ alive' = alive /\ retain' = retain /\ leaked' = leaked
       /\ rejected' \in [Maps -> SUBSET Texts]
       /\ \A n \in Maps, q \in Positions : /\ Suffix(bucket[n][q], bucket'[n][q])
                                           /\ OnlyNew(bucket[n][q], bucket'[n][q], k)
                                           /\ n # call.that => bucket'[n][q] = bucket[n][q]
  <2>1. TRUE \in BOOLEAN
    OBVIOUS
  <2> QED BY <1>1, <1>8, <1>9, <2>1, SetKeeps
<1>11. /\ call'.pc = "copy" /\ call'.this = call.this /\ call'.that = call.that
       /\ call'.pos = call.pos /\ call'.rest = r /\ call' \in Calls
  BY <1>1, <1>4, <1>9 DEF Calls
<1>12. r <= Len(bucket'[call.this][call.pos])
  <2>1. PICK l : l = Len(bucket'[call.this][call.pos])
    OBVIOUS
  <2>2. l >= Len(s)
    BY <1>1, <1>2, <1>10, <2>1 DEF Suffix
  <2>3. bucket'[call.this][call.pos] \in Seq(Nodes)
    BY <1>1, <1>10 DEF Buckets
  <2>4. l \in Nat
    BY <2>1, <2>3
  <2>5. r <= call.rest
    BY <1>1, <1>2
  <2>6. r <= Len(s)
    BY <1>1, <1>3, <1>4, <2>5
  <2>7. r <= l
    BY <1>3, <1>4, <2>2, <2>4, <2>6
  <2> QED BY <2>1, <2>7
<1>13. ASSUME NEW p \in Positions, NEW i \in 1 .. Len(bucket'[call.this][p])
       PROVE  Copyable(bucket'[call.this][p][i].key)
  <2>1. \A l \in 1 .. Len(bucket[call.this][p]) : Copyable(bucket[call.this][p][l].key)
    BY <1>1 DEF IInv, CallOK
  <2>2. CASE call.this # call.that
    <3>1. bucket'[call.this][p] = bucket[call.this][p]
      BY <1>1, <1>10, <2>2
    <3> QED BY <2>1, <3>1
  <2>3. CASE call.this = call.that
    <3>1. OnlyNew(bucket[call.this][p], bucket'[call.this][p], h)
      BY <1>1, <1>8, <1>10, <2>3
    <3>2. \/ bucket'[call.this][p][i].key = h
          \/ \E l \in 1 .. Len(bucket[call.this][p]) :
               bucket[call.this][p][l].key = bucket'[call.this][p][i].key
      BY <3>1 DEF OnlyNew
    <3> QED BY <1>7, <2>1, <3>2
  <2> QED BY <2>2, <2>3
<1>14. CallOK'
  <2>1. \A x : Copyable(x)' <=> Copyable(x)
    BY <1>11 DEF Copyable
  <2> QED BY <1>1, <1>10, <1>11, <1>12, <1>13 DEF CallOK, Copyable
<1>15. EachOK'
  BY <1>11 DEF EachOK
<1> QED BY <1>10, <1>11, <1>14, <1>15

----------------------------------------------------------------------------
(* The theorems.                                                            *)

LEMMA Initially == Init => IInv
<1> SUFFICES ASSUME Init PROVE IInv
  OBVIOUS
<1>1. TypeOK
  <2>1. NoNodes \in [Positions -> Seq(Nodes)] /\ 0 \in Positions
    BY HashmapAssumption DEF NoNodes, Positions
  <2>2. bucket \in [Maps -> [Positions -> Seq(Nodes)]] /\ Idle \in Calls
    BY <2>1 DEF Init, Idle, Calls
  <2> QED BY <2>2 DEF Init, ObjectInit, TypeOK, ObjectTypeOK, Nodes, Calls
<1>2. Counted
  <2> SUFFICES ASSUME NEW o \in Objs
               PROVE  /\ IsFiniteSet(Ret(alive, retain, bucket, o))
                      /\ gcCount[o] = held[o] + Cardinality(Ret(alive, retain, bucket, o)) + leaked[o]
    BY DEF Counted
  <2>1. Ret(alive, retain, bucket, o) = {}
    BY DEF Init, Ret
  <2>2. gcCount[o] = 0 /\ held[o] = 0 /\ leaked[o] = 0
    BY DEF Init, ObjectInit
  <2>3. IsFiniteSet({}) /\ Cardinality({}) = 0
    BY FS_EmptySet
  <2> QED BY <2>1, <2>2, <2>3
<1>3. AllTidy /\ CallOK /\ EachOK
  BY DEF Init, Idle, AllTidy, CallOK, EachOK
<1> QED BY <1>1, <1>2, <1>3 DEF IInv

(* The parts of the next state's type.                                      *)
LEMMA TypeAgain ==
  ASSUME ObjectTypeOK', alive' \in SUBSET Maps, retain' \in [Maps -> BOOLEAN], bucket' \in Buckets,
         leaked' \in [Objs -> Nat], rejected' \in [Maps -> SUBSET Texts], call' \in Calls
  PROVE  TypeOK'
BY DEF TypeOK, Buckets, Nodes, Calls

LEMMA Step == IInv /\ [Next]_vars => IInv'
<1> SUFFICES ASSUME IInv, [Next]_vars PROVE IInv'
  OBVIOUS
<1>1. /\ alive \in SUBSET Maps /\ bucket \in Buckets /\ leaked \in [Objs -> Nat]
      /\ rejected \in [Maps -> SUBSET Texts] /\ retain \in [Maps -> BOOLEAN] /\ call \in Calls
  BY Types, CallIs DEF IInv, TypeOK
<1>2. call.pc = "each" => call.this \in alive
  BY DEF IInv, CallOK
<1>3. \A n \in alive, q \in Positions : Suffix(bucket[n][q], bucket[n][q])
  <2>1. \A n \in alive, q \in Positions : bucket[n][q] \in Seq(Nodes)
    BY <1>1 DEF Buckets
  <2> QED BY <2>1, SuffixSame
<1>4. CASE AppObject
  <2>1. /\ UNCHANGED <<alive, retain, bucket, leaked>> /\ call' = call /\ rejected' = rejected
        /\ call.pc # "copy"
    BY <1>4 DEF AppObject, AppRuns
  <2>2. ObjectTypeOK' /\ Counted'
    <3>1. PICK o \in Objs : Object_new(o) \/ App_retain(o) \/ App_release(o)
      BY <1>4 DEF AppObject
    <3> QED BY <2>1, <3>1, ObjectKeeps
  <2>3. CallOK' /\ EachOK'
    BY <1>1, <1>2, <1>3, <2>1, CallStays
  <2>4. AllTidy'
    BY <2>1 DEF IInv, AllTidy
  <2>5. TypeOK'
    BY <1>1, <2>1, <2>2, TypeAgain
  <2> QED BY <2>2, <2>3, <2>4, <2>5 DEF IInv
<1>5. CASE AppNew
  <2>1. PICK m \in Maps, r \in Retains : Hashmap_new(m, r)
    BY <1>5 DEF AppNew
  <2>2. call' = call /\ call.pc # "copy" /\ r \in BOOLEAN
    BY <1>5, HashmapAssumption DEF AppNew, AppRuns
  <2>3. /\ ObjectTypeOK' /\ bucket' \in Buckets /\ Counted' /\ AllTidy'
        /\ m \notin alive /\ alive' = alive \cup {m}
        /\ leaked' = leaked /\ rejected' = rejected /\ retain' \in [Maps -> BOOLEAN]
        /\ \A n \in Maps, q \in Positions : n # m => bucket'[n][q] = bucket[n][q]
    BY <2>1, <2>2, NewKeeps
  <2>4. \A n \in alive, q \in Positions : Suffix(bucket[n][q], bucket'[n][q])
    BY <1>1, <1>3, <2>3
  <2>5. CallOK' /\ EachOK'
    BY <1>2, <2>2, <2>3, <2>4, CallStays
  <2>6. TypeOK'
    BY <1>1, <2>2, <2>3, TypeAgain
  <2> QED BY <2>3, <2>5, <2>6 DEF IInv
<1>6. CASE AppSet
  <2>1. PICK m \in alive, t \in Given, v \in Objs, replaces \in BOOLEAN, adds \in BOOLEAN :
          Hashmap_setByCheck(m, Format[t], v, replaces, adds)
    BY <1>6 DEF AppSet
  <2>2. call' = call /\ call.pc # "copy" /\ Format[t] \in Texts
    BY <1>6, HashmapAssumption DEF AppSet, AppRuns
  <2>3. /\ ObjectTypeOK' /\ bucket' \in Buckets /\ Counted' /\ AllTidy'
        /\ alive' = alive /\ retain' = retain /\ leaked' = leaked
        /\ rejected' \in [Maps -> SUBSET Texts]
        /\ \A n \in Maps, q \in Positions : Suffix(bucket[n][q], bucket'[n][q])
    BY <2>1, <2>2, SetKeeps
  <2>4. CallOK' /\ EachOK'
    BY <1>1, <1>2, <2>2, <2>3, CallStays
  <2>5. TypeOK'
    BY <1>1, <2>2, <2>3, TypeAgain
  <2> QED BY <2>3, <2>4, <2>5 DEF IInv
<1>7. CASE AppDel
  <2>1. PICK m \in alive, t \in Given : MayChange(m) /\ Hashmap_del(m, Format[t])
    BY <1>7 DEF AppDel
  <2>2. /\ call' = call /\ call.pc # "copy" /\ Format[t] \in Texts
        /\ call.pc = "each" => m # call.this
    BY <1>7, <2>1, HashmapAssumption DEF AppDel, AppRuns, MayChange
  <2>3. /\ ObjectTypeOK' /\ bucket' \in Buckets /\ Counted' /\ AllTidy'
        /\ leaked' \in [Objs -> Nat]
        /\ alive' = alive /\ retain' = retain /\ rejected' = rejected
        /\ \A n \in Maps, q \in Positions : n # m => bucket'[n][q] = bucket[n][q]
    BY <2>1, <2>2, DelKeeps
  <2>4. \A n \in alive, q \in Positions :
          call.pc = "each" /\ n = call.this => Suffix(bucket[n][q], bucket'[n][q])
    BY <1>1, <1>3, <2>2, <2>3
  <2>5. CallOK' /\ EachOK'
    BY <1>2, <2>2, <2>3, <2>4, CallStays
  <2>6. TypeOK'
    BY <1>1, <2>2, <2>3, TypeAgain
  <2> QED BY <2>3, <2>5, <2>6 DEF IInv
<1>8. CASE AppClear
  <2>1. PICK m \in alive : MayChange(m) /\ Hashmap_clear(m) /\ (alive' = alive \/ alive' = alive \ {m})
    BY <1>8 DEF AppClear
  <2>2. /\ call' = call /\ call.pc # "copy"
        /\ call.pc = "each" => m # call.this
    BY <1>8, <2>1 DEF AppClear, AppRuns, MayChange
  <2>3. /\ ObjectTypeOK' /\ bucket' \in Buckets /\ Counted' /\ AllTidy'
        /\ leaked' = leaked /\ retain' = retain /\ rejected' \in [Maps -> SUBSET Texts]
        /\ \A n \in Maps, q \in Positions : n # m => bucket'[n][q] = bucket[n][q]
    BY <2>1, ClearKeeps
  <2>4. \A n \in alive, q \in Positions :
          call.pc = "each" /\ n = call.this => Suffix(bucket[n][q], bucket'[n][q])
    BY <1>1, <1>3, <2>2, <2>3
  <2>5. (call.pc = "each" => call.this \in alive') /\ alive' \in SUBSET Maps
    BY <1>1, <1>2, <2>1, <2>2
  <2>6. CallOK' /\ EachOK'
    BY <2>2, <2>3, <2>4, <2>5, CallStays
  <2>7. TypeOK'
    BY <1>1, <2>2, <2>3, <2>5, TypeAgain
  <2> QED BY <2>3, <2>6, <2>7 DEF IInv
<1>9. CASE AppLoop \/ NextBucket \/ EachStep
  <2>1. /\ gcCount' = gcCount /\ held' = held /\ alive' = alive /\ retain' = retain
        /\ bucket' = bucket /\ leaked' = leaked /\ rejected' = rejected
    BY <1>9 DEF AppLoop, NextBucket, EachStep, objVars
  <2>2. call' \in Calls /\ CallOK' /\ EachOK'
    BY <1>9, LoopStarts, NextBucketKeeps, EachStepKeeps
  <2>3. ObjectTypeOK' /\ Counted' /\ AllTidy'
    BY <2>1 DEF IInv, TypeOK, ObjectTypeOK, Counted, AllTidy
  <2>4. TypeOK'
    BY <1>1, <2>1, <2>2, <2>3, TypeAgain
  <2> QED BY <2>2, <2>3, <2>4 DEF IInv
<1>10. CASE CopyStep
  <2>1. /\ ObjectTypeOK' /\ bucket' \in Buckets /\ Counted' /\ AllTidy'
        /\ alive' = alive /\ retain' = retain /\ leaked' = leaked
        /\ rejected' \in [Maps -> SUBSET Texts] /\ call' \in Calls /\ CallOK' /\ EachOK'
    BY <1>10, CopyStepKeeps
  <2>2. TypeOK'
    BY <1>1, <2>1, TypeAgain
  <2> QED BY <2>1, <2>2 DEF IInv
<1>11. CASE UNCHANGED vars
  <2>1. /\ gcCount' = gcCount /\ held' = held /\ alive' = alive /\ retain' = retain
        /\ bucket' = bucket /\ call' = call /\ leaked' = leaked /\ rejected' = rejected
    BY <1>11 DEF vars
  <2>2. TypeOK' /\ Counted' /\ AllTidy'
    BY <2>1 DEF IInv, TypeOK, ObjectTypeOK, Counted, AllTidy
  <2>3. CallOK'
    BY <2>1 DEF IInv, CallOK, Copyable
  <2>4. EachOK'
    BY <2>1 DEF IInv, EachOK, Before
  <2> QED BY <2>2, <2>3, <2>4 DEF IInv
<1> QED BY <1>4, <1>5, <1>6, <1>7, <1>8, <1>9, <1>10, <1>11 DEF Next, App

LEMMA CountsFollow == IInv => RefCounts
<1> SUFFICES ASSUME IInv PROVE RefCounts
  OBVIOUS
<1>1. TypeOK
  BY DEF IInv
<1>2. ASSUME NEW o \in Objs PROVE gcCount[o] = held[o] + Cardinality(Retaining(o)) + leaked[o]
  <2>1. gcCount[o] = held[o] + Cardinality(Ret(alive, retain, bucket, o)) + leaked[o]
    BY DEF IInv, Counted
  <2>2. Retaining(o) = Ret(alive, retain, bucket, o)
    BY <1>1, RetainingIs
  <2> QED BY <2>1, <2>2
<1> QED BY <1>1, <1>2 DEF RefCounts

LEMMA OneNode == IInv => DuplicatesOnlyAfterRejection
<1> SUFFICES ASSUME IInv, NEW m \in alive, NEW k \in KeysOf(m), k \notin rejected[m]
             PROVE  Cardinality(NodesOf(m, k)) = 1
  BY DEF DuplicatesOnlyAfterRejection
<1>1. PICK x \in Places(m) : k = At(x).key
  BY DEF KeysOf
<1>2. ASSUME NEW y \in NodesOf(m, k) PROVE y = x
  <2>1. PICK p \in Positions : x \in {<<m, p, i>> : i \in 1 .. Len(bucket[m][p])}
    BY DEF Places
  <2>2. PICK i \in 1 .. Len(bucket[m][p]) : x = <<m, p, i>>
    BY <2>1
  <2>3. PICK q \in Positions : y \in {<<m, q, j>> : j \in 1 .. Len(bucket[m][q])}
    BY DEF Places, NodesOf
  <2>4. PICK j \in 1 .. Len(bucket[m][q]) : y = <<m, q, j>>
    BY <2>3
  <2>5. bucket[m][p][i].key = k /\ bucket[m][q][j].key = k
    BY <1>1, <2>2, <2>4 DEF At, NodesOf
  <2>6. Tidy(bucket[m][p], p, rejected[m]) /\ Tidy(bucket[m][q], q, rejected[m])
    BY DEF IInv, AllTidy
  <2>7. p = q
    BY <2>5, <2>6 DEF Tidy
  <2>8. i = j
    BY <2>5, <2>6, <2>7 DEF Tidy
  <2> QED BY <2>2, <2>4, <2>7, <2>8
<1>3. x \in NodesOf(m, k)
  BY <1>1 DEF NodesOf
<1>4. NodesOf(m, k) = {x}
  BY <1>2, <1>3
<1> QED BY <1>4, FS_Singleton

(* The reference counts of the values are exact in every state: what the    *)
(* application holds, one for each node of a retaining map, and one for     *)
(* each value that Hashmap_del drops with the first node of a bucket.       *)
THEOREM RefCountsCorrect == Spec => []RefCounts
<1>1. Init => IInv
  BY Initially
<1>2. IInv /\ [Next]_vars => IInv'
  BY Step
<1>3. IInv => RefCounts
  BY CountsFollow
<1> QED BY <1>1, <1>2, <1>3, PTL DEF Spec

(* A key has two nodes only if the application's check refused to replace   *)
(* its value: neither Hashmap_set nor a copy, of a map to itself too, adds  *)
(* a key that is there.                                                     *)
THEOREM DuplicatesCorrect == Spec => []DuplicatesOnlyAfterRejection
<1>1. Init => IInv
  BY Initially
<1>2. IInv /\ [Next]_vars => IInv'
  BY Step
<1>3. IInv => DuplicatesOnlyAfterRejection
  BY OneNode
<1> QED BY <1>1, <1>2, <1>3, PTL DEF Spec

(* Hashmap_foreachItem has shown every key that was there when it began,    *)
(* though its callback sets keys of the map it walks.                       *)
THEOREM EachCorrect == Spec => EachShowsAll
<1>1. Init => IInv
  BY Initially
<1>2. IInv /\ [Next]_vars => IInv'
  BY Step
<1>3. IInv /\ [Next]_vars => [call.pc = "each" /\ call'.pc = "idle" => call.due = {}]_vars
  <2> SUFFICES ASSUME IInv, [Next]_vars, call.pc = "each", call'.pc = "idle" PROVE call.due = {}
    OBVIOUS
  <2>1. call' # call
    OBVIOUS
  <2>2. CASE App
    BY <2>1, <2>2 DEF App, AppObject, AppNew, AppSet, AppDel, AppClear, AppLoop, Idle
  <2>3. CASE NextBucket
    BY <2>3, NextBucketKeeps
  <2>4. CASE EachStep
    <3>1. call'.pc = "each"
      <4>1. call \in Calls
        BY CallIs DEF IInv
      <4> QED BY <2>4, <4>1 DEF EachStep, Calls
    <3> QED BY <3>1
  <2>5. CASE CopyStep
    BY <2>5 DEF CopyStep
  <2> QED BY <2>1, <2>2, <2>3, <2>4, <2>5 DEF Next, vars
<1> QED BY <1>1, <1>2, <1>3, PTL DEF Spec, EachShowsAll

----------------------------------------------------------------------------
(* What a copy has done.                                                    *)

(* A walk down s finds x under the key k.                                   *)
Shows(s, k, x) ==
  \E i \in 1 .. Len(s) : /\ s[i].key = k /\ s[i].value = x
                         /\ \A j \in 1 .. Len(s) : s[j].key = k => i <= j

(* The key of node i of bucket p of a map whose buckets are b is there once, *)
(* is left alone by String_format, and no other key becomes it.             *)
Clean(b, p, i) ==
  \A q \in Positions : \A j \in 1 .. Len(b[q]) :
    /\ b[q][j].key = b[p][i].key => q = p /\ j = i
    /\ Format[b[q][j].key] = b[p][i].key <=> b[q][j].key = b[p][i].key
CopiedAt(p, i) ==
  Shows(bucket[call.that][Hash[bucket[call.this][p][i].key]],
        bucket[call.this][p][i].key, bucket[call.this][p][i].value)
CopyDone ==
  call.pc = "copy" =>
    \A p \in Positions : \A i \in 1 .. Len(bucket[call.this][p]) :
      ~Before(bucket[call.this][p], p, i) /\ Clean(bucket[call.this], p, i) => CopiedAt(p, i)

LEMMA GetIs ==
  ASSUME TypeOK, NEW m \in Maps, NEW k \in Texts, NEW x, Shows(bucket[m][Hash[k]], k, x)
  PROVE  Hashmap_get(m, k) = x
<1>1. PICK s, f : s = bucket[m][Hash[k]] /\ f = Find(m, k)
  OBVIOUS
<1>2. Len(s) \in Nat
  BY <1>1, Types
<1>3. /\ f \in 0 .. Len(s)
      /\ f > 0 => s[f].key = k
      /\ f = 0 => \A i \in 1 .. Len(s) : s[i].key # k
      /\ \A i \in 1 .. Len(s) : s[i].key = k => f <= i
  BY <1>1, FindIs
<1>4. PICK i \in 1 .. Len(s) : /\ s[i].key = k /\ s[i].value = x
                               /\ \A j \in 1 .. Len(s) : s[j].key = k => i <= j
  BY <1>1 DEF Shows
<1>5. f # 0 /\ f \in 1 .. Len(s) /\ s[f].key = k
  BY <1>2, <1>3, <1>4
<1>6. f = i
  BY <1>2, <1>3, <1>4, <1>5
<1> QED BY <1>1, <1>4, <1>5, <1>6 DEF Hashmap_get

(* What Hashmap_set does to the value a key has: k has v, and the others    *)
(* have what they had.                                                      *)
Sets(s, t, k, v) ==
  /\ Shows(t, k, v)
  /\ \A l, x : l # k /\ Shows(s, l, x) => Shows(t, l, x)

LEMMA ShowsPrepended ==
  ASSUME NEW s \in Seq(Nodes), NEW k \in Texts, NEW v \in Objs
  PROVE  Sets(s, <<Node(k, v)>> \o s, k, v)
<1>0. PICK t : t = <<Node(k, v)>> \o s
  OBVIOUS
<1>1. /\ t \in Seq(Nodes) /\ Len(t) = Len(s) + 1 /\ Len(s) \in Nat
      /\ t[1] = Node(k, v) /\ \A i \in 1 .. Len(s) : t[i + 1] = s[i]
      /\ \A i \in 2 .. Len(t) : i - 1 \in 1 .. Len(s) /\ t[i] = s[i - 1]
  BY <1>0, PrependIs, SMTT(30)
<1>2. t[1].key = k /\ t[1].value = v
  BY <1>1 DEF Node
<1>3. Shows(t, k, v)
  <2>1. 1 \in 1 .. Len(t) /\ \A j \in 1 .. Len(t) : 1 <= j
    BY <1>1
  <2> QED BY <1>2, <2>1 DEF Shows
<1>4. ASSUME NEW l, NEW x, l # k, Shows(s, l, x) PROVE Shows(t, l, x)
  <2>1. PICK i \in 1 .. Len(s) : /\ s[i].key = l /\ s[i].value = x
                                 /\ \A j \in 1 .. Len(s) : s[j].key = l => i <= j
    BY <1>4 DEF Shows
  <2>2. i + 1 \in 1 .. Len(t) /\ t[i + 1] = s[i]
    BY <1>1
  <2>3. ASSUME NEW j \in 1 .. Len(t), t[j].key = l PROVE i + 1 <= j
    <3>1. j # 1
      BY <1>2, <1>4, <2>3
    <3>2. j \in 2 .. Len(t)
      BY <1>1, <3>1
    <3>3. j - 1 \in 1 .. Len(s) /\ s[j - 1].key = l
      BY <1>1, <2>3, <3>2
    <3>4. i <= j - 1
      BY <2>1, <3>3
    <3> QED BY <1>1, <3>2, <3>4
  <2> QED BY <2>1, <2>2, <2>3 DEF Shows
<1> QED BY <1>0, <1>3, <1>4 DEF Sets

LEMMA ShowsReplaced ==
  ASSUME NEW s \in Seq(Nodes), NEW i \in 1 .. Len(s), NEW k, NEW v, NEW t, SameBut(s, i, v, t),
         s[i].key = k, \A j \in 1 .. Len(s) : s[j].key = k => i <= j
  PROVE  Sets(s, t, k, v)
<1>1. /\ Len(t) = Len(s)
      /\ \A j \in 1 .. Len(s) : t[j].key = s[j].key
      /\ \A j \in 1 .. Len(s) : t[j].value = IF j = i THEN v ELSE s[j].value
  BY DEF SameBut
<1>2. Shows(t, k, v)
  BY <1>1 DEF Shows
<1>3. ASSUME NEW l, NEW x, l # k, Shows(s, l, x) PROVE Shows(t, l, x)
  <2>1. PICK j \in 1 .. Len(s) : /\ s[j].key = l /\ s[j].value = x
                                 /\ \A n \in 1 .. Len(s) : s[n].key = l => j <= n
    BY <1>3 DEF Shows
  <2>2. j # i
    BY <1>3, <2>1
  <2> QED BY <1>1, <2>1, <2>2 DEF Shows
<1> QED BY <1>2, <1>3 DEF Sets

(* The nodes of t are those of s, where those of k may have the value v.    *)
Alike(s, t, k, v) ==
  /\ Len(t) = Len(s)
  /\ \A j \in 1 .. Len(s) : t[j].key = s[j].key
  /\ \A j \in 1 .. Len(s) : t[j].value = s[j].value \/ (s[j].key = k /\ t[j].value = v)

LEMMA SetShows ==
  ASSUME TypeOK, NEW m \in alive, NEW k \in Texts, NEW v \in Objs, Hashmap_set(m, k, v)
  PROVE  /\ Shows(bucket'[m][Hash[k]], k, v)
         /\ \A n \in Maps, l \in Texts : \A x :
              l # k /\ Shows(bucket[n][Hash[l]], l, x) => Shows(bucket'[n][Hash[l]], l, x)
         /\ \A n \in Maps, q \in Positions :
              n # m \/ (\E i \in 1 .. Len(bucket[m][Hash[k]]) : bucket[m][Hash[k]][i].key = k)
                => Alike(bucket[n][q], bucket'[n][q], k, v)
<1>1. PICK p, s, i : p = Hash[k] /\ s = bucket[m][p] /\ i = Find(m, k)
  OBVIOUS
<1>2. /\ alive \in SUBSET Maps /\ bucket \in Buckets /\ m \in Maps /\ p \in Positions
      /\ s \in Seq(Nodes) /\ Len(s) \in Nat /\ \A l \in Texts : Hash[l] \in Positions
  BY <1>1, Types
<1>3. /\ i \in 0 .. Len(s)
      /\ i > 0 => s[i].key = k
      /\ i = 0 => \A j \in 1 .. Len(s) : s[j].key # k
      /\ \A j \in 1 .. Len(s) : s[j].key = k => i <= j
  BY <1>1, <1>2, FindIs
<1>4. IF i > 0
        THEN bucket' = [bucket EXCEPT ![m][p][i].value = v]
        ELSE bucket' = [bucket EXCEPT ![m][p] = <<Node(k, v)>> \o @]
  BY <1>1 DEF Hashmap_set, Hashmap_setByCheck, Prepend
<1>5. PICK t : /\ t \in Seq(Nodes) /\ bucket' = [bucket EXCEPT ![m][p] = t]
               /\ Sets(s, t, k, v)
               /\ (\E j \in 1 .. Len(s) : s[j].key = k) => Alike(s, t, k, v)
  <2>1. CASE i > 0
    <3>1. PICK t : t = [s EXCEPT ![i].value = v]
      OBVIOUS
    <3>2. i \in 1 .. Len(s)
      BY <1>2, <1>3, <2>1
    <3>3. SameBut(s, i, v, t)
      <4>1. Replaced(s, i, v, t)
        BY <3>1 DEF Replaced
      <4> QED BY <1>2, <3>2, <4>1, ReplacedIs
    <3>4. Sets(s, t, k, v)
      BY <1>2, <1>3, <2>1, <3>2, <3>3, ShowsReplaced
    <3>5. bucket' = [bucket EXCEPT ![m][p] = t]
      BY <1>1, <1>4, <2>1, <3>1
    <3>6. t \in Seq(Nodes) /\ Alike(s, t, k, v)
      BY <1>3, <2>1, <3>2, <3>3 DEF SameBut, Alike
    <3> QED BY <3>4, <3>5, <3>6
  <2>2. CASE ~(i > 0)
    <3>1. PICK t : t = <<Node(k, v)>> \o s
      OBVIOUS
    <3>2. t \in Seq(Nodes)
      BY <1>2, <3>1, PrependIs
    <3>3. Sets(s, t, k, v)
      <4>1. s \in Seq(Nodes)
        BY <1>2
      <4> QED BY <3>1, <4>1, ShowsPrepended
    <3>4. bucket' = [bucket EXCEPT ![m][p] = t]
      BY <1>1, <1>4, <2>2, <3>1
    <3>5. \A j \in 1 .. Len(s) : s[j].key # k
      BY <1>2, <1>3, <2>2
    <3> QED BY <3>2, <3>3, <3>4, <3>5
  <2> QED BY <2>1, <2>2
<1>6. \A n \in Maps, q \in Positions : bucket'[n][q] = IF n = m /\ q = p THEN t ELSE bucket[n][q]
  <2>1. Changes(bucket, m, p, t, bucket')
    BY <1>5 DEF Changes
  <2>2. ChangedTo(bucket, m, p, t, bucket')
    BY <1>2, <1>5, <2>1, BucketChanges
  <2> QED BY <2>2 DEF ChangedTo
<1>7. Shows(bucket'[m][Hash[k]], k, v)
  BY <1>1, <1>2, <1>5, <1>6 DEF Sets
<1>8. ASSUME NEW n \in Maps, NEW l \in Texts, NEW x, l # k, Shows(bucket[n][Hash[l]], l, x)
      PROVE  Shows(bucket'[n][Hash[l]], l, x)
  <2>1. CASE n = m /\ Hash[l] = p
    BY <1>1, <1>2, <1>5, <1>6, <1>8, <2>1 DEF Sets
  <2>2. CASE ~(n = m /\ Hash[l] = p)
    BY <1>2, <1>6, <1>8, <2>2
  <2> QED BY <2>1, <2>2
<1>9. ASSUME NEW n \in Maps, NEW q \in Positions,
             n # m \/ \E j \in 1 .. Len(bucket[m][Hash[k]]) : bucket[m][Hash[k]][j].key = k
      PROVE  Alike(bucket[n][q], bucket'[n][q], k, v)
  <2>1. CASE n = m /\ q = p
    BY <1>1, <1>5, <1>6, <1>9, <2>1
  <2>2. CASE ~(n = m /\ q = p)
    <3>1. bucket'[n][q] = bucket[n][q]
      BY <1>6, <2>2
    <3> QED BY <3>1 DEF Alike
  <2> QED BY <2>1, <2>2
<1> QED BY <1>7, <1>8, <1>9

LEMMA CleanStays ==
  ASSUME NEW b, NEW c, NEW k, NEW v, \A q \in Positions : Alike(b[q], c[q], k, v),
         NEW p \in Positions, NEW i \in 1 .. Len(b[p]), Clean(c, p, i)
  PROVE  Clean(b, p, i)
<1>1. \A q \in Positions : /\ Len(c[q]) = Len(b[q])
                           /\ \A j \in 1 .. Len(b[q]) : c[q][j].key = b[q][j].key
  BY DEF Alike
<1> QED BY <1>1 DEF Clean

LEMMA CopyBegins ==
  ASSUME IInv, AppLoop
  PROVE  CopyDone'
<1> SUFFICES ASSUME call'.pc = "copy", NEW p \in Positions, NEW i \in 1 .. Len(bucket'[call'.this][p]),
                    ~(p > call'.pos \/ (p = call'.pos /\ i > Len(bucket'[call'.this][p]) - call'.rest))
             PROVE  FALSE
  BY DEF CopyDone, Before
<1>1. PICK this \in alive, that \in alive : Enter("each", this, NULL) \/ Enter("copy", this, that)
  BY DEF AppLoop
<1>2. bucket' = bucket
  BY DEF AppLoop
<1>3. PICK L : L = Len(bucket[this][0])
  OBVIOUS
<1>4. call'.this = this /\ call'.pos = 0 /\ call'.rest = L
  BY <1>1, <1>3 DEF Enter
<1>5. L \in Nat /\ p \in Nat
  BY <1>1, <1>3, Types DEF IInv
<1>6. ~(p > 0) /\ ~(p = 0 /\ i > Len(bucket[this][p]) - L) /\ i \in 1 .. Len(bucket[this][p])
  BY <1>2, <1>4
<1>7. p = 0
  BY <1>5, <1>6
<1>8. i \in 1 .. L /\ ~(i > L - L)
  BY <1>3, <1>6, <1>7
<1> QED BY <1>5, <1>8

LEMMA CopyGoesOn ==
  ASSUME IInv, CopyDone, NextBucket
  PROVE  CopyDone'
<1>1. /\ call \in Calls /\ call.pos \in Nat /\ call.rest = 0 /\ bucket' = bucket
      /\ call' = IF call.pos + 1 < Size
                   THEN [call EXCEPT !.pos = @ + 1, !.rest = Len(bucket[call.this][call.pos + 1])]
                   ELSE Idle
  BY CallIs DEF IInv, NextBucket
<1>2. CASE ~(call.pos + 1 < Size)
  BY <1>1, <1>2 DEF Idle, CopyDone
<1>3. CASE call.pos + 1 < Size
  <2>1. PICK r, P : r = Len(bucket[call.this][call.pos + 1]) /\ P = call.pos + 1
    OBVIOUS
  <2>2. /\ call'.pc = call.pc /\ call'.this = call.this /\ call'.that = call.that
        /\ call'.pos = P /\ call'.rest = r
    BY <1>1, <1>3, <2>1 DEF Calls
  <2>3. ASSUME call.pc = "copy", NEW p \in Positions, NEW i \in 1 .. Len(bucket[call.this][p]),
               ~(p > P \/ (p = P /\ i > Len(bucket[call.this][p]) - r)),
               Clean(bucket[call.this], p, i)
        PROVE  CopiedAt(p, i)
    <3>1. /\ call.this \in Maps /\ Len(bucket[call.this][p]) \in Nat /\ p \in Nat
      BY <2>3, Types DEF IInv, CallOK
    <3>5. PICK L : L = Len(bucket[call.this][p])
      OBVIOUS
    <3>6. L \in Nat /\ i \in 1 .. L /\ ~(p > P) /\ (p = P => L = r /\ ~(i > L - r))
      BY <2>1, <2>3, <3>1, <3>5
    <3>2. p # P
      BY <3>6
    <3>3. ~(p > call.pos)
      BY <1>1, <2>1, <3>1, <3>2, <3>6
    <3>4. ~Before(bucket[call.this][p], p, i)
      <4>1. ~(i > Len(bucket[call.this][p]) - call.rest)
        BY <1>1, <3>5, <3>6
      <4> QED BY <3>3, <4>1 DEF Before
    <3> QED BY <2>3, <3>4 DEF CopyDone
  <2>4. \A p \in Positions : \A i \in 1 .. Len(bucket[call.this][p]) : CopiedAt(p, i)' <=> CopiedAt(p, i)
    BY <1>1, <2>2 DEF CopiedAt
  <2> QED BY <1>1, <2>2, <2>3, <2>4 DEF CopyDone, Before
<1> QED BY <1>2, <1>3

LEMMA CopyDoes ==
  ASSUME IInv, CopyDone, CopyStep
  PROVE  CopyDone'
<1>1. /\ call \in Calls /\ call.pc = "copy" /\ call.pos \in Positions /\ call.pos \in Nat
      /\ call.rest \in Nat /\ call.rest > 0
      /\ call.this \in alive /\ call.this \in Maps /\ call.that \in alive /\ call.that \in Maps
  BY CallIs, Types DEF IInv, CallOK, CopyStep
<1>2. PICK P, b, c, n, r : /\ P = call.pos /\ b = bucket[call.this] /\ c = bucket'[call.this]
                           /\ n = Len(b[P]) - call.rest + 1 /\ r = call.rest - 1
  OBVIOUS
<1>3. /\ Len(b[P]) \in Nat /\ call.rest <= Len(b[P]) /\ P \in Positions /\ P \in Nat
      /\ \A q \in Positions : /\ q \in Nat /\ Len(b[q]) \in Nat
                              /\ \A i \in 1 .. Len(b[q]) : b[q][i].key \in Texts /\ b[q][i].value \in Objs
  BY <1>1, <1>2, Types DEF IInv, CallOK
<1>4. n \in 1 .. Len(b[P]) /\ r \in Nat
  BY <1>1, <1>2, <1>3
<1>5. PICK h, k, v : h = b[P][n].key /\ k = Format[h] /\ v = b[P][n].value
  OBVIOUS
<1>6. Hashmap_set(call.that, k, v) /\ call' = [call EXCEPT !.rest = r]
  BY <1>2, <1>5 DEF CopyStep, Advance, Here
<1>7. /\ call'.pc = "copy" /\ call'.this = call.this /\ call'.that = call.that
      /\ call'.pos = P /\ call'.rest = r
  BY <1>1, <1>2, <1>4, <1>6 DEF Calls
<1>8. Copyable(h) /\ k \in Texts /\ v \in Objs /\ (call.this = call.that => k = h)
  <2>1. Copyable(h)
    BY <1>1, <1>2, <1>4, <1>5 DEF IInv, CallOK
  <2> QED BY <1>3, <1>4, <1>5, <2>1, HashmapAssumption DEF Copyable
<1>9. /\ Shows(bucket'[call.that][Hash[k]], k, v)
      /\ \A l \in Texts : \A x : l # k /\ Shows(bucket[call.that][Hash[l]], l, x)
                               => Shows(bucket'[call.that][Hash[l]], l, x)
      /\ \A q \in Positions : Alike(b[q], c[q], k, v)
  <2>1. TypeOK
    BY DEF IInv
  <2>2. /\ Shows(bucket'[call.that][Hash[k]], k, v)
        /\ \A m \in Maps, l \in Texts : \A x :
             l # k /\ Shows(bucket[m][Hash[l]], l, x) => Shows(bucket'[m][Hash[l]], l, x)
        /\ \A m \in Maps, q \in Positions :
             m # call.that \/ (\E i \in 1 .. Len(bucket[call.that][Hash[k]]) : bucket[call.that][Hash[k]][i].key = k)
               => Alike(bucket[m][q], bucket'[m][q], k, v)
    BY <1>1, <1>6, <1>8, <2>1, SetShows
  <2>3. call.this # call.that \/ \E i \in 1 .. Len(bucket[call.that][Hash[k]]) : bucket[call.that][Hash[k]][i].key = k
    <3> SUFFICES ASSUME call.this = call.that
                 PROVE  \E i \in 1 .. Len(bucket[call.that][Hash[k]]) : bucket[call.that][Hash[k]][i].key = k
      OBVIOUS
    <3>1. Tidy(b[P], P, rejected[call.this])
      BY <1>1, <1>2 DEF IInv, AllTidy
    <3>2. Hash[h] = P
      BY <1>4, <1>5, <3>1 DEF Tidy
    <3> QED BY <1>2, <1>4, <1>5, <1>8, <3>2
  <2> QED BY <1>1, <1>2, <2>2, <2>3
<1>10. ASSUME NEW p \in Positions, NEW i \in 1 .. Len(c[p]),
              ~(p > P \/ (p = P /\ i > Len(c[p]) - r)), Clean(c, p, i)
       PROVE  Shows(bucket'[call.that][Hash[c[p][i].key]], c[p][i].key, c[p][i].value)
  <2>1. /\ i \in 1 .. Len(b[p]) /\ Len(c[p]) = Len(b[p]) /\ c[p][i].key = b[p][i].key
        /\ c[p][i].value = b[p][i].value \/ (b[p][i].key = k /\ c[p][i].value = v)
    BY <1>9, <1>10 DEF Alike
  <2>2. Clean(b, p, i)
    BY <1>9, <1>10, <2>1, CleanStays
  <2>3. CASE p = P /\ i = n
    <3>1. k = h
      BY <1>5, <2>1, <2>2, <2>3 DEF Clean
    <3>2. c[p][i].key = k /\ c[p][i].value = v
      BY <1>5, <2>1, <2>3, <3>1
    <3> QED BY <1>9, <3>2
  <2>4. CASE ~(p = P /\ i = n)
    <3>1. PICK l : l = b[p][i].key
      OBVIOUS
    <3>2. h # l
      BY <1>3, <1>4, <1>5, <2>2, <2>4, <3>1 DEF Clean
    <3>3. k # l
      BY <1>3, <1>4, <1>5, <2>2, <3>1, <3>2 DEF Clean
    <3>4. ~Before(bucket[call.this][p], p, i)
      <4>1. p \in Nat /\ Len(b[p]) \in Nat /\ i \in Nat
        <5>1. p \in Nat /\ Len(b[p]) \in Nat
          BY <1>3
        <5> QED BY <2>1, <5>1
      <4>2. ~(p > P)
        BY <1>10
      <4>3. p = P => ~(i > Len(b[p]) - call.rest)
        <5> SUFFICES ASSUME p = P PROVE i <= Len(b[p]) - call.rest
          BY <1>1, <4>1
        <5>1. i <= Len(b[p]) - r /\ i # Len(b[p]) - call.rest + 1
          BY <1>2, <1>4, <1>10, <2>1, <2>4, <4>1
        <5>2. r = call.rest - 1
          BY <1>2
        <5> QED BY <1>1, <4>1, <5>1, <5>2
      <4> QED BY <1>2, <4>2, <4>3 DEF Before
    <3>5. CopiedAt(p, i)
      BY <1>1, <1>2, <2>1, <2>2, <3>4 DEF CopyDone
    <3>6. Shows(bucket[call.that][Hash[l]], l, b[p][i].value)
      BY <1>2, <3>1, <3>5 DEF CopiedAt
    <3>7. l \in Texts
      BY <1>3, <2>1, <3>1
    <3>8. Shows(bucket'[call.that][Hash[l]], l, b[p][i].value)
      BY <1>9, <3>3, <3>6, <3>7
    <3>9. c[p][i].key = l /\ c[p][i].value = b[p][i].value
      BY <2>1, <3>1, <3>3
    <3> QED BY <3>8, <3>9
  <2> QED BY <2>3, <2>4
<1> QED BY <1>2, <1>7, <1>10 DEF CopyDone, CopiedAt, Before
LEMMA CopyKeeps == IInv /\ CopyDone /\ [Next]_vars => CopyDone'
<1> SUFFICES ASSUME IInv, CopyDone, [Next]_vars PROVE CopyDone'
  OBVIOUS
<1>1. CASE AppObject \/ AppNew \/ AppSet \/ AppDel \/ AppClear
  <2>1. call' = call /\ call.pc # "copy"
    BY <1>1 DEF AppObject, AppNew, AppSet, AppDel, AppClear, AppRuns
  <2> QED BY <2>1 DEF CopyDone
<1>2. CASE EachStep
  <2>1. call'.pc # "copy"
    <3>1. call \in Calls
      BY CallIs DEF IInv
    <3> QED BY <1>2, <3>1 DEF EachStep, Calls
  <2> QED BY <2>1 DEF CopyDone
<1>3. CASE UNCHANGED vars
  BY <1>3 DEF vars, CopyDone, CopiedAt, Before
<1> QED BY <1>1, <1>2, <1>3, CopyBegins, CopyGoesOn, CopyDoes DEF Next, App

(* The nodes with one key lie in one bucket, so that they can be counted.   *)
LEMMA NodesFinite ==
  ASSUME IInv, NEW m \in alive, NEW k \in Texts
  PROVE  /\ IsFiniteSet(NodesOf(m, k))
         /\ \A p \in Positions : \A i \in 1 .. Len(bucket[m][p]) :
              bucket[m][p][i].key = k => <<m, p, i>> \in NodesOf(m, k) /\ p = Hash[k]
<1>1. m \in Maps /\ Hash[k] \in Positions
  BY Types DEF IInv
<1>2. PICK L : L = Len(bucket[m][Hash[k]])
  OBVIOUS
<1>3. ASSUME NEW p \in Positions, NEW i \in 1 .. Len(bucket[m][p]), bucket[m][p][i].key = k
      PROVE  <<m, p, i>> \in NodesOf(m, k) /\ p = Hash[k]
  <2>1. <<m, p, i>> \in Places(m) /\ At(<<m, p, i>>).key = k
    BY <1>3 DEF Places, At
  <2>2. Tidy(bucket[m][p], p, rejected[m])
    BY DEF IInv, AllTidy
  <2> QED BY <1>3, <2>1, <2>2 DEF NodesOf, Tidy
<1>4. L \in Nat
  BY <1>1, <1>2, Types DEF IInv
<1> DEFINE S == 1 .. L
           T == {<<m, Hash[k], i>> : i \in S}
           f == [i \in S |-> <<m, Hash[k], i>>]
<1>5. /\ f \in [S -> T]
      /\ \A x, y \in S : f[x] = f[y] => x = y
      /\ \A y \in T : \E x \in S : f[x] = y
  OBVIOUS
<1>6. IsFiniteSet(T)
  <2>1. IsFiniteSet(S)
    BY <1>4, FS_Interval
  <2> HIDE DEF S, T, f
  <2> QED BY <1>5, <2>1, SameSize
<1> HIDE DEF S, T, f
<1>7. NodesOf(m, k) \subseteq T
  <2> SUFFICES ASSUME NEW x \in NodesOf(m, k) PROVE x \in T
    OBVIOUS
  <2>1. PICK p \in Positions : x \in {<<m, p, i>> : i \in 1 .. Len(bucket[m][p])}
    BY DEF NodesOf, Places
  <2>2. PICK i \in 1 .. Len(bucket[m][p]) : x = <<m, p, i>>
    BY <2>1
  <2>3. bucket[m][p][i].key = k
    BY <2>2 DEF NodesOf, At
  <2>4. p = Hash[k]
    BY <1>3, <2>3
  <2> QED BY <1>2, <2>2, <2>4 DEF S, T
<1>8. IsFiniteSet(NodesOf(m, k))
  BY <1>6, <1>7, FS_Subset
<1> QED BY <1>3, <1>8

LEMMA CopyEnds ==
  ASSUME IInv, CopyDone, NextBucket, call.pc = "copy", call'.pc = "idle",
         NEW k \in KeysOf(call.this), \A j \in KeysOf(call.this) : Format[j] = k <=> j = k,
         Cardinality(NodesOf(call.this, k)) = 1
  PROVE  Hashmap_get(call.that, k) = Hashmap_get(call.this, k)
<1>1. PICK m, w : m = call.this /\ w = call.that
  OBVIOUS
<1>2. /\ m \in alive /\ m \in Maps /\ w \in Maps /\ call.rest = 0 /\ call.pos \in Nat /\ TypeOK
      /\ call \in Calls
  BY <1>1, CallIs, Types DEF IInv, CallOK, NextBucket
<1>3. ~(call.pos + 1 < Size)
  BY <1>2 DEF NextBucket, Calls
<1>4. PICK p \in Positions : \E i \in 1 .. Len(bucket[m][p]) : bucket[m][p][i].key = k
  BY <1>1, KeysAre
<1>5. PICK i \in 1 .. Len(bucket[m][p]) : bucket[m][p][i].key = k
  BY <1>4
<1>6. k \in Texts /\ Len(bucket[m][p]) \in Nat
  BY <1>2, <1>5, Types
<1>7. /\ IsFiniteSet(NodesOf(m, k))
      /\ \A q \in Positions : \A j \in 1 .. Len(bucket[m][q]) :
           bucket[m][q][j].key = k => <<m, q, j>> \in NodesOf(m, k) /\ q = Hash[k]
  BY <1>2, <1>6, NodesFinite
<1>8. ASSUME NEW q \in Positions, NEW j \in 1 .. Len(bucket[m][q]), bucket[m][q][j].key = k
      PROVE  q = p /\ j = i
  <2>1. PICK x : NodesOf(m, k) = {x}
    BY <1>1, <1>7, FS_Singleton
  <2>2. <<m, q, j>> = x /\ <<m, p, i>> = x
    BY <1>5, <1>7, <1>8, <2>1
  <2> QED BY <2>2
<1>9. \A q \in Positions : \A j \in 1 .. Len(bucket[m][q]) : bucket[m][q][j].key \in KeysOf(m)
  BY KeysAre
<1>10. Clean(bucket[m], p, i)
  BY <1>1, <1>5, <1>8, <1>9 DEF Clean
<1>11. ~Before(bucket[m][p], p, i)
  <2>1. PICK L : L = Len(bucket[m][p])
    OBVIOUS
  <2>2. L \in Nat /\ i \in 1 .. L
    BY <1>6, <2>1
  <2>3. ~(i > L - call.rest)
    BY <1>2, <2>2
  <2>4. p \in Nat /\ p < Size /\ Size \in Nat
    BY HashmapAssumption DEF Positions
  <2>5. ~(p > call.pos)
    BY <1>2, <1>3, <2>4
  <2> QED BY <2>1, <2>3, <2>5 DEF Before
<1>12. Shows(bucket[w][Hash[k]], k, bucket[m][p][i].value)
  BY <1>1, <1>5, <1>10, <1>11 DEF CopyDone, CopiedAt
<1>13. Hashmap_get(w, k) = bucket[m][p][i].value
  BY <1>2, <1>6, <1>12, GetIs
<1>14. p = Hash[k]
  BY <1>5, <1>7
<1>15. Shows(bucket[m][Hash[k]], k, bucket[m][p][i].value)
  <2>1. \A j \in 1 .. Len(bucket[m][p]) : bucket[m][p][j].key = k => i <= j
    BY <1>6, <1>8
  <2> QED BY <1>5, <1>14, <2>1 DEF Shows
<1>16. Hashmap_get(m, k) = bucket[m][p][i].value
  BY <1>2, <1>6, <1>15, GetIs
<1> QED BY <1>1, <1>13, <1>16

(* After Hashmap_copyTo the other map has the value of every key that       *)
(* String_format leaves alone, that no other key becomes and that has one   *)
(* node, in a copy of a map to itself too.                                  *)
THEOREM CopyCorrect == Spec => CopyAgrees
<1>1. Init => IInv /\ CopyDone
  BY Initially DEF Init, Idle, CopyDone
<1>2. IInv /\ CopyDone /\ [Next]_vars => IInv' /\ CopyDone'
  BY Step, CopyKeeps
<1>3. IInv /\ CopyDone /\ [Next]_vars =>
        [call.pc = "copy" /\ call'.pc = "idle" =>
           \A k \in KeysOf(call.this) :
             /\ \A j \in KeysOf(call.this) : Format[j] = k <=> j = k
             /\ Cardinality(NodesOf(call.this, k)) = 1
             => Hashmap_get(call.that, k) = Hashmap_get(call.this, k)]_vars
  <2> SUFFICES ASSUME IInv, CopyDone, [Next]_vars, call.pc = "copy", call'.pc = "idle",
                      NEW k \in KeysOf(call.this), \A j \in KeysOf(call.this) : Format[j] = k <=> j = k,
                      Cardinality(NodesOf(call.this, k)) = 1
               PROVE  Hashmap_get(call.that, k) = Hashmap_get(call.this, k)
    OBVIOUS
  <2>1. call' # call
    OBVIOUS
  <2>2. ~App
    BY <2>1 DEF App, AppObject, AppNew, AppSet, AppDel, AppClear, AppLoop, Idle
  <2>3. ~EachStep
    BY DEF EachStep
  <2>4. ~CopyStep
    BY CopyStepKeeps
  <2>5. NextBucket
    BY <2>1, <2>2, <2>3, <2>4 DEF Next, vars
  <2> QED BY <2>5, CopyEnds
<1> QED BY <1>1, <1>2, <1>3, PTL DEF Spec, CopyAgrees

----------------------------------------------------------------------------
(* The values of a key, in the order of the walk.                           *)

(* ix numbers the nodes with key k among the first m of s from 1 to n.      *)
Numbers(ix, n, s, m, k) ==
  /\ n \in Nat /\ ix \in [1 .. n -> Nat]
  /\ \A a \in 1 .. n : ix[a] \in 1 .. m /\ s[ix[a]].key = k
  /\ \A a, b \in 1 .. n : a < b => ix[a] < ix[b]
  /\ \A i \in 1 .. m : s[i].key = k => \E a \in 1 .. n : ix[a] = i

LEMMA NumberedUpTo ==
  ASSUME NEW s, NEW k, NEW N \in Nat
  PROVE  \E n, ix : Numbers(ix, n, s, N, k)
<1> DEFINE Good(m) == \E n, ix : Numbers(ix, n, s, m, k)
           B == {m \in Nat : ~Good(m)}
<1>1. ASSUME B # {} PROVE FALSE
  <2>1. PICK m \in B : \A y \in B : m <= y
    BY <1>1, Least
  <2>2. CASE m = 0
    <3>1. PICK ix : ix = [a \in 1 .. 0 |-> 0]
      OBVIOUS
    <3>2. ix \in [1 .. 0 -> Nat] /\ 0 \in Nat /\ \A a \in 1 .. 0 : FALSE
      BY <3>1
    <3>3. Numbers(ix, 0, s, 0, k)
      BY <3>2 DEF Numbers
    <3> QED BY <2>1, <2>2, <3>3
  <2>3. CASE m # 0
    <3>1. PICK l \in Nat : m = l + 1
      <4>1. m \in Nat /\ m - 1 \in Nat /\ m = (m - 1) + 1
        BY <2>3
      <4> QED BY <4>1
    <3>2. Good(l)
      BY <2>1, <3>1
    <3>3. PICK n, ix : Numbers(ix, n, s, l, k)
      BY <3>2
    <3>4. /\ n \in Nat /\ ix \in [1 .. n -> Nat]
          /\ \A a \in 1 .. n : ix[a] \in 1 .. l /\ s[ix[a]].key = k
          /\ \A a, b \in 1 .. n : a < b => ix[a] < ix[b]
          /\ \A i \in 1 .. l : s[i].key = k => \E a \in 1 .. n : ix[a] = i
      BY <3>3 DEF Numbers
    <3>5. CASE s[m].key # k
      <4>1. \A a \in 1 .. n : ix[a] \in 1 .. m
        BY <3>1, <3>4
      <4>2. \A i \in 1 .. m : s[i].key = k => i \in 1 .. l
        BY <3>1, <3>5
      <4>3. Numbers(ix, n, s, m, k)
        BY <3>4, <4>1, <4>2 DEF Numbers
      <4> QED BY <2>1, <4>3
    <3>6. CASE s[m].key = k
      <4>1. PICK iy : iy = [a \in 1 .. n + 1 |-> IF a = n + 1 THEN m ELSE ix[a]]
        OBVIOUS
      <4>2. \A a \in 1 .. n + 1 : a # n + 1 => a \in 1 .. n
        BY <3>4
      <4>3. iy \in [1 .. n + 1 -> Nat]
        BY <3>4, <4>1, <4>2
      <4>4. \A a \in 1 .. n : a \in 1 .. n + 1 /\ iy[a] = ix[a]
        BY <3>4, <4>1
      <4>5. n + 1 \in 1 .. n + 1 /\ iy[n + 1] = m /\ m \in 1 .. m
        BY <3>1, <3>4, <4>1
      <4>6. \A a \in 1 .. n + 1 : iy[a] \in 1 .. m /\ s[iy[a]].key = k
        BY <3>1, <3>4, <3>6, <4>2, <4>4, <4>5
      <4>7. ASSUME NEW a \in 1 .. n + 1, NEW b \in 1 .. n + 1, a < b PROVE iy[a] < iy[b]
        <5>1. a \in 1 .. n
          BY <3>4, <4>7
        <5>2. CASE b = n + 1
          <6>1. ix[a] \in 1 .. l
            BY <3>4, <5>1
          <6> QED BY <3>1, <4>4, <4>5, <5>1, <5>2, <6>1
        <5>3. CASE b # n + 1
          BY <3>4, <4>2, <4>4, <4>7, <5>1, <5>3
        <5> QED BY <5>2, <5>3
      <4>8. ASSUME NEW i \in 1 .. m, s[i].key = k PROVE \E a \in 1 .. n + 1 : iy[a] = i
        <5>1. CASE i = m
          BY <4>5, <5>1
        <5>2. CASE i # m
          <6>1. i \in 1 .. l
            BY <3>1, <5>2
          <6> QED BY <3>4, <4>4, <4>8, <6>1
        <5> QED BY <5>1, <5>2
      <4>9. Numbers(iy, n + 1, s, m, k)
        <5>1. n + 1 \in Nat
          BY <3>4
        <5> QED BY <4>3, <4>6, <4>7, <4>8, <5>1 DEF Numbers
      <4> QED BY <2>1, <4>9
    <3> QED BY <3>5, <3>6
  <2> QED BY <2>2, <2>3
<1> QED BY <1>1

(* Numbered that way, the a-th node is the one with the rank a.             *)
LEMMA ValuesAre ==
  ASSUME NEW s \in Seq(Nodes), NEW k, NEW n, NEW ix, Numbers(ix, n, s, Len(s), k)
  PROVE  /\ ValuesIn(s, k) = [a \in 1 .. n |-> s[ix[a]].value]
         /\ ValuesIn(s, k) \in Seq(Objs) /\ Len(ValuesIn(s, k)) = n
<1>1. PICK ns : ns = Having(s, k)
  OBVIOUS
<1>2. /\ n \in Nat /\ ix \in [1 .. n -> Nat]
      /\ \A a \in 1 .. n : ix[a] \in 1 .. Len(s) /\ s[ix[a]].key = k
      /\ \A a, b \in 1 .. n : a < b => ix[a] < ix[b]
      /\ \A i \in 1 .. Len(s) : s[i].key = k => \E a \in 1 .. n : ix[a] = i
  BY DEF Numbers
<1>3. /\ \A a \in 1 .. n : ix[a] \in ns
      /\ \A i \in ns : \E a \in 1 .. n : ix[a] = i
  BY <1>1, <1>2 DEF Having
<1>4. \A a, b \in 1 .. n : /\ ix[a] = ix[b] => a = b
                           /\ ix[a] <= ix[b] <=> a <= b
  <2> SUFFICES ASSUME NEW a \in 1 .. n, NEW b \in 1 .. n
               PROVE  (ix[a] = ix[b] => a = b) /\ (ix[a] <= ix[b] <=> a <= b)
    OBVIOUS
  <2>1. a \in Int /\ b \in Int /\ ix[a] \in Int /\ ix[b] \in Int
    BY <1>2
  <2>2. (a < b => ix[a] < ix[b]) /\ (b < a => ix[b] < ix[a])
    BY <1>2
  <2>3. CASE a < b
    BY <2>1, <2>2, <2>3
  <2>4. CASE b < a
    BY <2>1, <2>2, <2>4
  <2>5. CASE a = b
    BY <2>1, <2>5
  <2> QED BY <2>1, <2>3, <2>4, <2>5
<1>5. Cardinality(ns) = n
  <2>1. ix \in [1 .. n -> ns]
    BY <1>2, <1>3
  <2>2. IsFiniteSet(1 .. n) /\ Cardinality(1 .. n) = n
    BY <1>2, FS_Interval
  <2>3. \A a, b \in 1 .. n : ix[a] = ix[b] => a = b
    BY <1>4
  <2> QED BY <1>3, <2>1, <2>2, <2>3, SameSize
<1>6. ASSUME NEW a \in 1 .. n PROVE Cardinality({j \in ns : j <= ix[a]}) = a
  <2> DEFINE T == {j \in ns : j <= ix[a]}
             f == [b \in 1 .. a |-> ix[b]]
  <2>1. \A b \in 1 .. a : b \in 1 .. n /\ b <= a
    BY <1>2
  <2>2. f \in [1 .. a -> T]
    BY <1>3, <1>4, <2>1
  <2>3. \A b, c \in 1 .. a : f[b] = f[c] => b = c
    BY <1>4, <2>1
  <2>4. ASSUME NEW j \in T PROVE \E b \in 1 .. a : f[b] = j
    <3>1. PICK b \in 1 .. n : ix[b] = j
      BY <1>3
    <3>2. b <= a
      BY <1>4, <3>1
    <3>3. b \in 1 .. a
      BY <1>2, <3>2
    <3> QED BY <3>1, <3>3
  <2>5. IsFiniteSet(1 .. a) /\ Cardinality(1 .. a) = a
    BY <1>2, FS_Interval
  <2> HIDE DEF T, f
  <2>6. Cardinality(T) = a
    BY <2>2, <2>3, <2>4, <2>5, SameSize
  <2> QED BY <2>6 DEF T
<1>7. ASSUME NEW a \in 1 .. n PROVE Walked(ns, a) = ix[a]
  <2>1. \A i \in ns : Cardinality({j \in ns : j <= i}) = a => i = ix[a]
    <3> SUFFICES ASSUME NEW i \in ns, Cardinality({j \in ns : j <= i}) = a PROVE i = ix[a]
      OBVIOUS
    <3>1. PICK b \in 1 .. n : ix[b] = i
      BY <1>3
    <3>2. Cardinality({j \in ns : j <= ix[b]}) = b
      BY <1>6
    <3> QED BY <3>1, <3>2
  <2>2. ix[a] \in ns /\ Cardinality({j \in ns : j <= ix[a]}) = a
    BY <1>3, <1>6
  <2> QED BY <2>1, <2>2 DEF Walked
<1>8. ValuesIn(s, k) = [a \in 1 .. n |-> s[ix[a]].value]
  BY <1>1, <1>5, <1>7 DEF ValuesIn
<1>9. [a \in 1 .. n |-> s[ix[a]].value] \in [1 .. n -> Objs]
  <2>1. \A i \in 1 .. Len(s) : s[i].value \in Objs
    <3>1. \A i \in 1 .. Len(s) : s[i] \in Nodes
      OBVIOUS
    <3> QED BY <3>1 DEF Nodes
  <2> QED BY <1>2, <2>1
<1>10. ValuesIn(s, k) \in Seq(Objs)
  BY <1>2, <1>8, <1>9
<1>11. Len(ValuesIn(s, k)) = n
  BY <1>2, <1>8, <1>9, <1>10
<1> QED BY <1>8, <1>10, <1>11

Lists(ix, n, s, k) ==
  /\ Numbers(ix, n, s, Len(s), k)
  /\ ValuesIn(s, k) \in Seq(Objs) /\ Len(ValuesIn(s, k)) = n
  /\ \A a \in 1 .. n : ValuesIn(s, k)[a] = s[ix[a]].value

LEMMA Listing ==
  ASSUME NEW s \in Seq(Nodes), NEW k
  PROVE  \E n, ix : Lists(ix, n, s, k)
<1>1. Len(s) \in Nat
  OBVIOUS
<1>2. PICK n, ix : Numbers(ix, n, s, Len(s), k)
  BY <1>1, NumberedUpTo
<1>3. PICK vs : vs = [a \in 1 .. n |-> s[ix[a]].value]
  OBVIOUS
<1>4. ValuesIn(s, k) = vs /\ ValuesIn(s, k) \in Seq(Objs) /\ Len(ValuesIn(s, k)) = n
  BY <1>2, <1>3, ValuesAre
<1>5. \A a \in 1 .. n : vs[a] = s[ix[a]].value
  BY <1>3
<1> QED BY <1>2, <1>4, <1>5 DEF Lists

LEMMA ListIs ==
  ASSUME NEW s \in Seq(Nodes), NEW k, NEW n, NEW ix, Numbers(ix, n, s, Len(s), k),
         NEW vs \in Seq(Objs), Len(vs) = n, \A a \in 1 .. n : vs[a] = s[ix[a]].value
  PROVE  ValuesIn(s, k) = vs
<1>1. PICK ws : ws = [a \in 1 .. n |-> s[ix[a]].value]
  OBVIOUS
<1>2. ValuesIn(s, k) = ws /\ ws \in Seq(Objs) /\ Len(ws) = n
  <2>1. /\ ValuesIn(s, k) = [a \in 1 .. n |-> s[ix[a]].value]
        /\ ValuesIn(s, k) \in Seq(Objs) /\ Len(ValuesIn(s, k)) = n
    BY ValuesAre
  <2> QED BY <1>1, <2>1
<1>3. \A a \in 1 .. n : ws[a] = vs[a]
  BY <1>1
<1>4. ws = vs
  BY <1>2, <1>3, SeqEqual
<1> QED BY <1>2, <1>4

LEMMA ValuesEmpty ==
  ASSUME NEW k
  PROVE  ValuesIn(<<>>, k) = <<>>
<1>1. Having(<<>>, k) = {}
  BY DEF Having
<1>2. Cardinality(Having(<<>>, k)) = 0
  BY <1>1, FS_EmptySet
<1> QED BY <1>2 DEF ValuesIn

LEMMA ValuesFound ==
  ASSUME NEW s \in Seq(Nodes), NEW k
  PROVE  /\ ValuesIn(s, k) \in Seq(Objs)
         /\ ValuesIn(s, k) = <<>> <=> \A i \in 1 .. Len(s) : s[i].key # k
<1>1. PICK n, ix : Lists(ix, n, s, k)
  BY Listing
<1>2. /\ n \in Nat /\ ValuesIn(s, k) \in Seq(Objs) /\ Len(ValuesIn(s, k)) = n
      /\ \A a \in 1 .. n : ix[a] \in 1 .. Len(s) /\ s[ix[a]].key = k
      /\ \A i \in 1 .. Len(s) : s[i].key = k => \E a \in 1 .. n : ix[a] = i
  BY <1>1 DEF Lists, Numbers
<1>3. ValuesIn(s, k) = <<>> <=> n = 0
  BY <1>2
<1>4. n # 0 => 1 \in 1 .. n
  BY <1>2
<1> QED BY <1>2, <1>3, <1>4

LEMMA ValuesPrepended ==
  ASSUME NEW s \in Seq(Nodes), NEW k \in Texts, NEW v \in Objs, NEW l
  PROVE  ValuesIn(<<Node(k, v)>> \o s, l) =
           IF l = k THEN <<v>> \o ValuesIn(s, l) ELSE ValuesIn(s, l)
<1>0. PICK t : t = <<Node(k, v)>> \o s
  OBVIOUS
<1>1. /\ t \in Seq(Nodes) /\ Len(t) = Len(s) + 1 /\ Len(s) \in Nat
      /\ t[1].key = k /\ t[1].value = v
      /\ \A i \in 1 .. Len(s) : t[i + 1] = s[i]
      /\ \A i \in 2 .. Len(t) : i - 1 \in 1 .. Len(s) /\ t[i] = s[i - 1]
  BY <1>0, PrependIs, SMTT(30) DEF Node
<1>2. PICK n, ix : Lists(ix, n, s, l)
  BY Listing
<1>3. /\ n \in Nat /\ ix \in [1 .. n -> Nat]
      /\ \A a \in 1 .. n : ix[a] \in 1 .. Len(s) /\ s[ix[a]].key = l
      /\ \A a, b \in 1 .. n : a < b => ix[a] < ix[b]
      /\ \A i \in 1 .. Len(s) : s[i].key = l => \E a \in 1 .. n : ix[a] = i
  BY <1>2 DEF Lists, Numbers
<1>4. PICK vs : vs = ValuesIn(s, l)
  OBVIOUS
<1>5. vs \in Seq(Objs) /\ Len(vs) = n /\ \A a \in 1 .. n : vs[a] = s[ix[a]].value
  BY <1>2, <1>4 DEF Lists
<1>6. \A a \in 1 .. n : ix[a] + 1 \in 2 .. Len(t) /\ t[ix[a] + 1] = s[ix[a]]
  BY <1>1, <1>3
<1>7. ASSUME NEW i \in 1 .. Len(t), t[i].key = l
      PROVE  (i = 1 /\ l = k) \/ \E a \in 1 .. n : i = ix[a] + 1
  <2>1. CASE i = 1
    BY <1>1, <1>7, <2>1
  <2>2. CASE i # 1
    <3>1. i \in 2 .. Len(t) /\ i \in Int
      BY <1>1, <2>2
    <3>2. PICK a \in 1 .. n : ix[a] = i - 1
      BY <1>1, <1>3, <1>7, <3>1
    <3> QED BY <3>1, <3>2
  <2> QED BY <2>1, <2>2
<1>8. CASE l # k
  <2>1. PICK iy : iy = [a \in 1 .. n |-> ix[a] + 1]
    OBVIOUS
  <2>2. iy \in [1 .. n -> Nat] /\ \A a \in 1 .. n : iy[a] = ix[a] + 1
    BY <1>3, <2>1
  <2>3. \A a, b \in 1 .. n : a < b => iy[a] < iy[b]
    BY <1>3, <2>2
  <2>4. \A a \in 1 .. n : iy[a] \in 1 .. Len(t) /\ t[iy[a]] = s[ix[a]]
    BY <1>1, <1>6, <2>2
  <2>8. \A a \in 1 .. n : iy[a] \in 1 .. Len(t) /\ t[iy[a]].key = l
    BY <1>3, <2>4
  <2>9. ASSUME NEW i \in 1 .. Len(t), t[i].key = l PROVE \E a \in 1 .. n : iy[a] = i
    BY <1>7, <1>8, <2>2, <2>9
  <2>5. Numbers(iy, n, t, Len(t), l)
    BY <1>3, <2>2, <2>3, <2>8, <2>9 DEF Numbers
  <2>6. \A a \in 1 .. n : vs[a] = t[iy[a]].value
    BY <1>5, <2>4
  <2>7. ValuesIn(t, l) = vs
    BY <1>1, <1>5, <2>5, <2>6, ListIs
  <2> QED BY <1>0, <1>4, <1>8, <2>7
<1>9. CASE l = k
  <2>1. PICK iy : iy = [a \in 1 .. n + 1 |-> IF a = 1 THEN 1 ELSE ix[a - 1] + 1]
    OBVIOUS
  <2>2. \A a \in 1 .. n + 1 : a # 1 => a - 1 \in 1 .. n
    BY <1>3
  <2>3. /\ 1 \in 1 .. n + 1 /\ iy[1] = 1
        /\ \A a \in 1 .. n + 1 : a # 1 => iy[a] = ix[a - 1] + 1
    BY <1>3, <2>1
  <2>4. ASSUME NEW a \in 1 .. n + 1
        PROVE  iy[a] \in Nat /\ iy[a] \in 1 .. Len(t) /\ t[iy[a]].key = l
    <3>1. CASE a = 1
      BY <1>1, <1>9, <2>3, <3>1
    <3>2. CASE a # 1
      <4>1. PICK b \in 1 .. n : iy[a] = ix[b] + 1
        BY <2>2, <2>3, <3>2
      <4>2. ix[b] \in Nat /\ s[ix[b]].key = l
        BY <1>3
      <4>3. ix[b] + 1 \in 1 .. Len(t) /\ t[ix[b] + 1] = s[ix[b]]
        BY <1>1, <1>6
      <4> QED BY <4>1, <4>2, <4>3
    <3> QED BY <3>1, <3>2
  <2>5. iy \in [1 .. n + 1 -> Nat]
    <3>1. DOMAIN iy = 1 .. n + 1 /\ iy = [a \in 1 .. n + 1 |-> iy[a]]
      BY <2>1
    <3> QED BY <2>4, <3>1
  <2>6. ASSUME NEW a \in 1 .. n + 1, NEW b \in 1 .. n + 1, a < b PROVE iy[a] < iy[b]
    <3>1. b # 1 /\ b - 1 \in 1 .. n /\ iy[b] = ix[b - 1] + 1
      BY <1>3, <2>2, <2>3, <2>6
    <3>2. CASE a = 1
      <4>1. ix[b - 1] \in 1 .. Len(s)
        BY <1>3, <3>1
      <4> QED BY <1>1, <2>3, <3>1, <3>2, <4>1
    <3>3. CASE a # 1
      <4>1. a - 1 \in 1 .. n /\ iy[a] = ix[a - 1] + 1 /\ a - 1 < b - 1
        BY <1>3, <2>2, <2>3, <2>6, <3>3
      <4>2. ix[a - 1] < ix[b - 1] /\ ix[a - 1] \in Nat /\ ix[b - 1] \in Nat
        BY <1>3, <3>1, <4>1
      <4> QED BY <3>1, <4>1, <4>2
    <3> QED BY <3>2, <3>3
  <2>7. ASSUME NEW i \in 1 .. Len(t), t[i].key = l PROVE \E a \in 1 .. n + 1 : iy[a] = i
    <3>1. CASE i = 1
      BY <2>3, <3>1
    <3>2. CASE i # 1
      <4>1. PICK a \in 1 .. n : i = ix[a] + 1
        BY <1>7, <2>7, <3>2
      <4>2. a + 1 \in 1 .. n + 1 /\ a + 1 # 1 /\ (a + 1) - 1 = a
        BY <1>3
      <4>3. iy[a + 1] = ix[a] + 1
        BY <2>3, <4>2
      <4> QED BY <4>1, <4>2, <4>3
    <3> QED BY <3>1, <3>2
  <2>8. Numbers(iy, n + 1, t, Len(t), l)
    <3>1. n + 1 \in Nat
      BY <1>3
    <3> QED BY <2>4, <2>5, <2>6, <2>7, <3>1 DEF Numbers
  <2>9. PICK ws : ws = <<v>> \o vs
    OBVIOUS
  <2>10. /\ ws \in Seq(Objs) /\ Len(ws) = n + 1 /\ ws[1] = v
         /\ \A a \in 1 .. n : ws[a + 1] = vs[a]
    BY <1>3, <1>5, <2>9
  <2>11. ASSUME NEW a \in 1 .. n + 1 PROVE ws[a] = t[iy[a]].value
    <3>1. CASE a = 1
      BY <1>1, <2>3, <2>10, <3>1
    <3>2. CASE a # 1
      <4>1. PICK b \in 1 .. n : a = b + 1
        <5>1. a - 1 \in 1 .. n /\ a = (a - 1) + 1
          BY <1>3, <2>2, <3>2
        <5> QED BY <5>1
      <4>2. b = a - 1 /\ b \in 1 .. n
        BY <1>3, <4>1
      <4>3. iy[a] = ix[b] + 1
        BY <2>3, <3>2, <4>2
      <4> QED BY <1>5, <1>6, <2>10, <4>1, <4>3
    <3> QED BY <3>1, <3>2
  <2>12. ValuesIn(t, l) = ws
    BY <1>1, <2>8, <2>10, <2>11, ListIs
  <2> QED BY <1>0, <1>4, <1>9, <2>9, <2>12
<1> QED BY <1>8, <1>9

(* Node i is the first with key k.                                          *)
First(s, i, k) ==
  i \in 1 .. Len(s) /\ s[i].key = k /\ \A j \in 1 .. Len(s) : s[j].key = k => i <= j

LEMMA FirstNumber ==
  ASSUME NEW s, NEW i, NEW k, First(s, i, k), NEW n, NEW ix, Numbers(ix, n, s, Len(s), k)
  PROVE  n \in Nat /\ n >= 1 /\ 1 \in 1 .. n /\ ix[1] = i
<1>1. /\ n \in Nat /\ ix \in [1 .. n -> Nat]
      /\ \A a \in 1 .. n : ix[a] \in 1 .. Len(s) /\ s[ix[a]].key = k
      /\ \A a, b \in 1 .. n : a < b => ix[a] < ix[b]
      /\ \A j \in 1 .. Len(s) : s[j].key = k => \E a \in 1 .. n : ix[a] = j
  BY DEF Numbers
<1>2. PICK a \in 1 .. n : ix[a] = i
  BY <1>1 DEF First
<1>3. 1 \in 1 .. n /\ n >= 1
  BY <1>1, <1>2
<1>4. i <= ix[1]
  BY <1>1, <1>3 DEF First
<1>5. a = 1 \/ 1 < a
  BY <1>1, <1>2
<1>6. 1 < a => ix[1] < i
  BY <1>1, <1>2, <1>3
<1>7. ix[1] \in Nat /\ i \in Nat
  BY <1>1, <1>2, <1>3
<1> QED BY <1>1, <1>2, <1>3, <1>4, <1>5, <1>6, <1>7

LEMMA ValuesReplaced ==
  ASSUME NEW s \in Seq(Nodes), NEW i, NEW k, First(s, i, k), NEW v \in Objs,
         NEW t, SameBut(s, i, v, t), NEW l
  PROVE  ValuesIn(t, l) = IF l = k THEN <<v>> \o Tail(ValuesIn(s, l)) ELSE ValuesIn(s, l)
<1>1. /\ t \in Seq(Nodes) /\ Len(t) = Len(s)
      /\ \A j \in 1 .. Len(s) : t[j].key = s[j].key
      /\ \A j \in 1 .. Len(s) : t[j].value = IF j = i THEN v ELSE s[j].value
      /\ s[i].key = k
  BY DEF SameBut, First
<1>2. PICK n, ix : Lists(ix, n, s, l)
  BY Listing
<1>3. /\ n \in Nat /\ ix \in [1 .. n -> Nat]
      /\ \A a \in 1 .. n : ix[a] \in 1 .. Len(s) /\ s[ix[a]].key = l
      /\ \A a, b \in 1 .. n : a < b => ix[a] < ix[b]
      /\ \A j \in 1 .. Len(s) : s[j].key = l => \E a \in 1 .. n : ix[a] = j
  BY <1>2 DEF Lists, Numbers
<1>4. PICK vs : vs = ValuesIn(s, l)
  OBVIOUS
<1>5. vs \in Seq(Objs) /\ Len(vs) = n /\ \A a \in 1 .. n : vs[a] = s[ix[a]].value
  BY <1>2, <1>4 DEF Lists
<1>6. Numbers(ix, n, t, Len(t), l)
  BY <1>1, <1>3 DEF Numbers
<1>7. CASE l # k
  <2>1. \A a \in 1 .. n : vs[a] = t[ix[a]].value
    BY <1>1, <1>3, <1>5, <1>7
  <2>2. ValuesIn(t, l) = vs
    BY <1>1, <1>5, <1>6, <2>1, ListIs
  <2> QED BY <1>4, <1>7, <2>2
<1>8. CASE l = k
  <2>1. n >= 1 /\ 1 \in 1 .. n /\ ix[1] = i
    BY <1>2, <1>8, FirstNumber DEF Lists
  <2>2. PICK tl : tl = Tail(vs)
    OBVIOUS
  <2>3. vs # <<>>
    BY <1>3, <1>5, <2>1
  <2>4. /\ tl \in Seq(Objs) /\ Len(tl) = n - 1
        /\ \A a \in 1 .. Len(tl) : tl[a] = vs[a + 1]
    BY <1>5, <2>2, <2>3, HeadTailProperties
  <2>5. PICK ws : ws = <<v>> \o tl
    OBVIOUS
  <2>6. /\ ws \in Seq(Objs) /\ Len(ws) = n /\ ws[1] = v
        /\ \A a \in 1 .. n - 1 : ws[a + 1] = tl[a]
    BY <1>3, <2>1, <2>4, <2>5
  <2>7. ASSUME NEW a \in 1 .. n PROVE ws[a] = t[ix[a]].value
    <3>1. CASE a = 1
      <4>1. ix[1] \in 1 .. Len(s)
        BY <1>3, <2>1
      <4> QED BY <1>1, <2>1, <2>6, <3>1, <4>1
    <3>2. CASE a # 1
      <4>1. a - 1 \in 1 .. n - 1 /\ a = (a - 1) + 1 /\ 1 < a
        BY <1>3, <3>2
      <4>2. PICK b \in 1 .. n - 1 : a = b + 1
        BY <4>1
      <4>3. ws[a] = vs[a]
        BY <2>4, <2>6, <4>2
      <4>4. ix[a] # i /\ ix[a] \in 1 .. Len(s)
        <5>1. ix[1] < ix[a] /\ ix[1] \in Nat /\ ix[a] \in Nat
          BY <1>3, <2>1, <4>1
        <5> QED BY <1>3, <2>1, <5>1
      <4> QED BY <1>1, <1>5, <4>3, <4>4
    <3> QED BY <3>1, <3>2
  <2>8. ValuesIn(t, l) = ws
    BY <1>1, <1>6, <2>6, <2>7, ListIs
  <2> QED BY <1>4, <1>8, <2>2, <2>5, <2>8
<1> QED BY <1>7, <1>8

LEMMA ValuesWithout ==
  ASSUME NEW s \in Seq(Nodes), NEW i, NEW k, First(s, i, k), NEW l
  PROVE  ValuesIn(Without(s, i), l) = IF l = k THEN Tail(ValuesIn(s, l)) ELSE ValuesIn(s, l)
<1>0. PICK t : t = Without(s, i)
  OBVIOUS
<1>1. /\ t \in Seq(Nodes) /\ Len(t) = Len(s) - 1 /\ Len(s) \in Nat /\ i \in 1 .. Len(s) /\ s[i].key = k
      /\ \A j \in 1 .. Len(s) - 1 : t[j] = s[IF j < i THEN j ELSE j + 1]
  <2>1. i \in 1 .. Len(s) /\ s[i].key = k
    BY DEF First
  <2>2. /\ t \in Seq(Nodes) /\ Len(t) = Len(s) - 1
        /\ \A j \in 1 .. Len(s) - 1 : t[j] = s[IF j < i THEN j ELSE j + 1]
    BY <1>0, <2>1, WithoutIs
  <2> QED BY <2>1, <2>2
<1>2. PICK n, ix : Lists(ix, n, s, l)
  BY Listing
<1>3. /\ n \in Nat /\ ix \in [1 .. n -> Nat]
      /\ \A a \in 1 .. n : ix[a] \in 1 .. Len(s) /\ s[ix[a]].key = l
      /\ \A a, b \in 1 .. n : a < b => ix[a] < ix[b]
      /\ \A j \in 1 .. Len(s) : s[j].key = l => \E a \in 1 .. n : ix[a] = j
  BY <1>2 DEF Lists, Numbers
<1>4. PICK vs : vs = ValuesIn(s, l)
  OBVIOUS
<1>5. vs \in Seq(Objs) /\ Len(vs) = n /\ \A a \in 1 .. n : vs[a] = s[ix[a]].value
  BY <1>2, <1>4 DEF Lists
(* Where node j of s is in t.                                               *)
<1> DEFINE To(j) == IF j < i THEN j ELSE j - 1
<1>6. ASSUME NEW j \in 1 .. Len(s), j # i
      PROVE  To(j) \in 1 .. Len(t) /\ To(j) \in Nat /\ t[To(j)] = s[j]
  <2>1. CASE j < i
    <3>1. j \in 1 .. Len(s) - 1 /\ j \in Nat
      BY <1>1, <2>1
    <3> QED BY <1>1, <2>1, <3>1
  <2>2. CASE ~(j < i)
    <3>1. j - 1 \in 1 .. Len(s) - 1 /\ ~(j - 1 < i) /\ (j - 1) + 1 = j /\ j - 1 \in Nat
      BY <1>1, <1>6, <2>2
    <3> QED BY <1>1, <2>2, <3>1
  <2> QED BY <2>1, <2>2
<1>7. ASSUME NEW j \in 1 .. Len(t) PROVE \E h \in 1 .. Len(s) : h # i /\ To(h) = j
  <2>1. CASE j < i
    <3>1. j \in 1 .. Len(s) /\ j # i
      BY <1>1, <2>1
    <3> QED BY <2>1, <3>1
  <2>2. CASE ~(j < i)
    <3>1. j + 1 \in 1 .. Len(s) /\ j + 1 # i /\ ~(j + 1 < i) /\ (j + 1) - 1 = j
      BY <1>1, <2>2
    <3> QED BY <3>1
  <2> QED BY <2>1, <2>2
<1>8. \A h, j \in 1 .. Len(s) : h # i /\ j # i /\ h < j => To(h) < To(j)
  BY <1>1
<1> HIDE DEF To
<1>9. CASE l # k
  <2>1. PICK iy : iy = [a \in 1 .. n |-> To(ix[a])]
    OBVIOUS
  <2>2. ASSUME NEW a \in 1 .. n
        PROVE  /\ ix[a] \in 1 .. Len(s) /\ ix[a] # i /\ iy[a] = To(ix[a])
               /\ iy[a] \in 1 .. Len(t) /\ iy[a] \in Nat /\ t[iy[a]] = s[ix[a]]
               /\ t[iy[a]].key = l
    BY <1>1, <1>3, <1>6, <1>9, <2>1
  <2>3. iy \in [1 .. n -> Nat]
    BY <2>1, <2>2
  <2>4. \A a, b \in 1 .. n : a < b => iy[a] < iy[b]
    BY <1>3, <1>8, <2>2
  <2>5. ASSUME NEW j \in 1 .. Len(t), t[j].key = l PROVE \E a \in 1 .. n : iy[a] = j
    <3>1. PICK h \in 1 .. Len(s) : h # i /\ To(h) = j
      BY <1>7
    <3>2. s[h].key = l
      BY <1>6, <2>5, <3>1
    <3>3. PICK a \in 1 .. n : ix[a] = h
      BY <1>3, <3>2
    <3> QED BY <2>2, <3>1, <3>3
  <2>6. Numbers(iy, n, t, Len(t), l)
    BY <1>3, <2>2, <2>3, <2>4, <2>5 DEF Numbers
  <2>7. \A a \in 1 .. n : vs[a] = t[iy[a]].value
    BY <1>5, <2>2
  <2>8. ValuesIn(t, l) = vs
    <3>1. t \in Seq(Nodes)
      BY <1>1
    <3>2. Len(vs) = n /\ vs \in Seq(Objs)
      BY <1>5
    <3> QED BY <2>6, <2>7, <3>1, <3>2, ListIs
  <2> QED BY <1>0, <1>4, <1>9, <2>8
<1>10. CASE l = k
  <2>1. n >= 1 /\ 1 \in 1 .. n /\ ix[1] = i
    BY <1>2, <1>10, FirstNumber DEF Lists
  <2>2. PICK iy, r : iy = [a \in 1 .. n - 1 |-> To(ix[a + 1])] /\ r = n - 1
    OBVIOUS
  <2>3. r \in Nat /\ n = r + 1 /\ iy = [a \in 1 .. r |-> To(ix[a + 1])]
    BY <1>3, <2>1, <2>2
  <2>4. ASSUME NEW a \in 1 .. r
        PROVE  /\ a + 1 \in 1 .. n /\ ix[a + 1] \in 1 .. Len(s) /\ ix[a + 1] # i /\ iy[a] = To(ix[a + 1])
               /\ iy[a] \in 1 .. Len(t) /\ iy[a] \in Nat /\ t[iy[a]] = s[ix[a + 1]]
               /\ t[iy[a]].key = l
    <3>1. a + 1 \in 1 .. n /\ 1 < a + 1
      BY <2>3
    <3>2. ix[1] < ix[a + 1] /\ ix[1] \in Nat /\ ix[a + 1] \in Nat
      BY <1>3, <2>1, <3>1
    <3>3. ix[a + 1] \in 1 .. Len(s) /\ ix[a + 1] # i /\ s[ix[a + 1]].key = l
      BY <1>3, <2>1, <3>1, <3>2
    <3> QED BY <1>6, <2>3, <3>1, <3>3
  <2>5. iy \in [1 .. r -> Nat]
    BY <2>3, <2>4
  <2>6. ASSUME NEW a \in 1 .. r, NEW b \in 1 .. r, a < b PROVE iy[a] < iy[b]
    <3>1. a + 1 < b + 1
      BY <2>3, <2>6
    <3>2. ix[a + 1] < ix[b + 1]
      BY <1>3, <2>4, <3>1
    <3> QED BY <1>8, <2>4, <3>2
  <2>7. ASSUME NEW j \in 1 .. Len(t), t[j].key = l PROVE \E a \in 1 .. r : iy[a] = j
    <3>1. PICK h \in 1 .. Len(s) : h # i /\ To(h) = j
      BY <1>7
    <3>2. s[h].key = l
      BY <1>6, <2>7, <3>1
    <3>3. PICK b \in 1 .. n : ix[b] = h
      BY <1>3, <3>2
    <3>4. b # 1
      BY <2>1, <3>1, <3>3
    <3>5. b - 1 \in 1 .. r /\ (b - 1) + 1 = b
      BY <2>3, <3>4
    <3> QED BY <2>4, <3>1, <3>3, <3>5
  <2>8. Numbers(iy, r, t, Len(t), l)
    BY <2>3, <2>4, <2>5, <2>6, <2>7 DEF Numbers
  <2>9. PICK tl : tl = Tail(vs)
    OBVIOUS
  <2>10. vs # <<>>
    BY <1>3, <1>5, <2>1
  <2>11. /\ tl \in Seq(Objs) /\ Len(tl) = r
         /\ \A a \in 1 .. Len(tl) : tl[a] = vs[a + 1]
    BY <1>5, <2>2, <2>9, <2>10, HeadTailProperties
  <2>12. \A a \in 1 .. r : tl[a] = t[iy[a]].value
    BY <1>5, <2>4, <2>11
  <2>13. ValuesIn(t, l) = tl
    <3>1. t \in Seq(Nodes)
      BY <1>1
    <3>2. Len(tl) = r /\ tl \in Seq(Objs)
      BY <2>11
    <3> QED BY <2>8, <2>12, <3>1, <3>2, ListIs
  <2> QED BY <1>0, <1>4, <1>10, <2>9, <2>13
<1> QED BY <1>9, <1>10

----------------------------------------------------------------------------
(* Every step is one of KeyMap, or none.                                    *)

(* A map that is not alive has no nodes.                                    *)
DeadEmpty == \A m \in Maps \ alive : \A q \in Positions : bucket[m][q] = <<>>

LEMMA EntriesAre ==
  ASSUME TypeOK
  PROVE  \A m \in Maps, k \in Texts : /\ entries[m][k] = ValuesIn(bucket[m][Hash[k]], k)
                                      /\ entries[m][k] \in Seq(Objs)
<1> SUFFICES ASSUME NEW m \in Maps, NEW k \in Texts
             PROVE  /\ entries[m][k] = ValuesIn(bucket[m][Hash[k]], k)
                    /\ entries[m][k] \in Seq(Objs)
  OBVIOUS
<1>1. bucket[m][Hash[k]] \in Seq(Nodes)
  BY Types
<1>2. ValuesIn(bucket[m][Hash[k]], k) \in Seq(Objs)
  BY <1>1, ValuesFound
<1> QED BY <1>2 DEF entries

(* What is stored under the keys depends on the nodes alone.                *)
LEMMA EntriesSame ==
  ASSUME TypeOK, \A n \in Maps, q \in Positions : bucket'[n][q] = bucket[n][q]
  PROVE  entries' = entries
<1>1. \A k \in Texts : Hash[k] \in Positions
  BY Types
<1>2. \A n \in Maps, k \in Texts : bucket'[n][Hash[k]] = bucket[n][Hash[k]]
  BY <1>1
<1> QED BY <1>2 DEF entries

LEMMA EntryBecomes ==
  ASSUME NEW m \in Maps, NEW k \in Texts, NEW vs,
         \A n \in Maps, l \in Texts :
           ValuesIn(bucket'[n][Hash[l]], l) = IF n = m /\ l = k THEN vs ELSE ValuesIn(bucket[n][Hash[l]], l)
  PROVE  Abstract!Becomes(m, k, vs)
<1> DEFINE V(n, l) == ValuesIn(bucket[n][Hash[l]], l)
           W(n, l) == ValuesIn(bucket'[n][Hash[l]], l)
<1>1. \A n \in Maps, l \in Texts : W(n, l) = IF n = m /\ l = k THEN vs ELSE V(n, l)
  OBVIOUS
<1>2. /\ entries = [n \in Maps |-> [l \in Texts |-> V(n, l)]]
      /\ entries' = [n \in Maps |-> [l \in Texts |-> W(n, l)]]
  BY DEF entries
<1> HIDE DEF V, W
<1>3. entries'[m][k] = vs
  BY <1>1, <1>2
<1>4. [entries EXCEPT ![m][k] = vs] = [n \in Maps |-> [l \in Texts |-> IF n = m /\ l = k THEN vs ELSE V(n, l)]]
  <2>1. PICK e, f : e = entries /\ f = [e[m] EXCEPT ![k] = vs]
    OBVIOUS
  <2>2. f = [l \in Texts |-> IF l = k THEN vs ELSE V(m, l)]
    BY <1>2, <2>1
  <2>3. [e EXCEPT ![m] = f] = [n \in Maps |-> [l \in Texts |-> IF n = m /\ l = k THEN vs ELSE V(n, l)]]
    <3>1. ASSUME NEW n \in Maps
          PROVE  [e EXCEPT ![m] = f][n] = [l \in Texts |-> IF n = m /\ l = k THEN vs ELSE V(n, l)]
      <4>1. CASE n = m
        BY <1>2, <2>1, <2>2, <4>1
      <4>2. CASE n # m
        BY <1>2, <2>1, <4>2
      <4> QED BY <4>1, <4>2
    <3> QED BY <1>2, <2>1, <3>1
  <2> QED BY <2>1, <2>3
<1>5. entries' = [entries EXCEPT ![m][k] = vs]
  BY <1>1, <1>2, <1>4
<1> QED BY <1>3, <1>5 DEF Abstract!Becomes

(* One bucket of one map changes, and in it the values of one key.          *)
LEMMA OneKey ==
  ASSUME TypeOK, NEW m \in Maps, NEW k \in Texts, NEW t,
         ChangedTo(bucket, m, Hash[k], t, bucket'),
         NEW vs, \A l : ValuesIn(t, l) = IF l = k THEN vs ELSE ValuesIn(bucket[m][Hash[k]], l)
  PROVE  Abstract!Becomes(m, k, vs)
<1>1. ASSUME NEW n \in Maps, NEW l \in Texts
      PROVE  ValuesIn(bucket'[n][Hash[l]], l) = IF n = m /\ l = k THEN vs ELSE ValuesIn(bucket[n][Hash[l]], l)
  <2>1. Hash[l] \in Positions /\ Hash[k] \in Positions
    BY Types
  <2>2. bucket'[n][Hash[l]] = IF n = m /\ Hash[l] = Hash[k] THEN t ELSE bucket[n][Hash[l]]
    BY <2>1 DEF ChangedTo
  <2>3. CASE n = m /\ Hash[l] = Hash[k]
    <3>1. ValuesIn(t, l) = IF l = k THEN vs ELSE ValuesIn(bucket[m][Hash[k]], l)
      OBVIOUS
    <3> QED BY <2>2, <2>3, <3>1
  <2>4. CASE ~(n = m /\ Hash[l] = Hash[k])
    BY <2>2, <2>4
  <2> QED BY <2>3, <2>4
<1> QED BY <1>1, EntryBecomes

LEMMA FindFirst ==
  ASSUME TypeOK, NEW m \in Maps, NEW k \in Texts
  PROVE  /\ Find(m, k) > 0 => First(bucket[m][Hash[k]], Find(m, k), k) /\ ValuesIn(bucket[m][Hash[k]], k) # <<>>
         /\ ~(Find(m, k) > 0) => ValuesIn(bucket[m][Hash[k]], k) = <<>>
<1>1. PICK s, i : s = bucket[m][Hash[k]] /\ i = Find(m, k)
  OBVIOUS
<1>2. s \in Seq(Nodes) /\ Len(s) \in Nat
  BY <1>1, Types
<1>3. /\ i \in 0 .. Len(s)
      /\ i > 0 => s[i].key = k
      /\ i = 0 => \A j \in 1 .. Len(s) : s[j].key # k
      /\ \A j \in 1 .. Len(s) : s[j].key = k => i <= j
  BY <1>1, FindIs
<1>4. ValuesIn(s, k) = <<>> <=> \A j \in 1 .. Len(s) : s[j].key # k
  BY <1>2, ValuesFound
<1>5. i > 0 => i \in 1 .. Len(s)
  BY <1>2, <1>3
<1>6. ~(i > 0) => i = 0
  BY <1>2, <1>3
<1> QED BY <1>1, <1>3, <1>4, <1>5, <1>6 DEF First

(* Hashmap_setByCheck is a setting, a refusal or nothing.                   *)
LEMMA SetImplements ==
  ASSUME TypeOK, NEW m \in alive, NEW k \in Texts, NEW v \in Objs,
         NEW replaces \in BOOLEAN, NEW adds \in BOOLEAN,
         Hashmap_setByCheck(m, k, v, replaces, adds)
  PROVE  Abstract!Next \/ (entries' = entries /\ rejected' = rejected)
<1>1. PICK p, s, i : p = Hash[k] /\ s = bucket[m][p] /\ i = Find(m, k)
  OBVIOUS
<1>2. /\ alive \in SUBSET Maps /\ bucket \in Buckets /\ m \in Maps /\ p \in Positions
      /\ s \in Seq(Nodes)
  BY <1>1, Types
<1>3. /\ IF i > 0 /\ replaces
           THEN bucket' = [bucket EXCEPT ![m][p][i].value = v]
           ELSE IF adds THEN bucket' = [bucket EXCEPT ![m][p] = <<Node(k, v)>> \o s] ELSE bucket' = bucket
      /\ rejected' = IF i > 0 /\ ~replaces THEN [rejected EXCEPT ![m] = @ \cup {k}] ELSE rejected
  BY <1>1 DEF Hashmap_setByCheck, Prepend
<1>4. PICK vs : vs = entries[m][k]
  OBVIOUS
<1>5. vs = ValuesIn(s, k)
  BY <1>1, <1>2, <1>4, EntriesAre
<1>6. /\ i > 0 => First(s, i, k) /\ vs # <<>>
      /\ ~(i > 0) => vs = <<>>
  BY <1>1, <1>2, <1>5, FindFirst
<1>7. ASSUME NEW t \in Seq(Nodes), bucket' = [bucket EXCEPT ![m][p] = t],
             NEW ws, \A l : ValuesIn(t, l) = IF l = k THEN ws ELSE ValuesIn(s, l)
      PROVE  Abstract!Becomes(m, k, ws)
  <2>1. Changes(bucket, m, p, t, bucket')
    BY <1>7 DEF Changes
  <2>2. ChangedTo(bucket, m, p, t, bucket')
    BY <1>2, <2>1, BucketChanges
  <2> QED BY <1>1, <1>2, <1>7, <2>2, OneKey
<1>8. CASE i > 0 /\ replaces
  <2>1. PICK t : t = [s EXCEPT ![i].value = v]
    OBVIOUS
  <2>2. i \in 1 .. Len(s) /\ Replaced(s, i, v, t)
    BY <1>6, <1>8, <2>1 DEF First, Replaced
  <2>3. SameBut(s, i, v, t)
    BY <1>2, <2>2, ReplacedIs
  <2>4. bucket' = [bucket EXCEPT ![m][p] = t] /\ rejected' = rejected
    BY <1>1, <1>3, <1>8, <2>1
  <2>5. ASSUME NEW l
        PROVE  ValuesIn(t, l) = IF l = k THEN <<v>> \o Tail(vs) ELSE ValuesIn(s, l)
    <3>1. ValuesIn(t, l) = IF l = k THEN <<v>> \o Tail(ValuesIn(s, l)) ELSE ValuesIn(s, l)
      BY <1>2, <1>6, <1>8, <2>3, ValuesReplaced
    <3> QED BY <1>5, <3>1
  <2>6. Abstract!Becomes(m, k, <<v>> \o Tail(vs))
    <3>1. t \in Seq(Nodes)
      BY <2>3 DEF SameBut
    <3> QED BY <1>7, <2>4, <2>5, <3>1
  <2>7. Abstract!Set(m, k, v)
    BY <1>4, <1>6, <1>8, <2>4, <2>6 DEF Abstract!Set
  <2> QED BY <1>2, <2>7 DEF Abstract!Next
<1>9. CASE ~(i > 0 /\ replaces) /\ adds
  <2>1. PICK t : t = <<Node(k, v)>> \o s
    OBVIOUS
  <2>2. t \in Seq(Nodes)
    BY <1>2, <2>1, PrependIs
  <2>3. bucket' = [bucket EXCEPT ![m][p] = t]
    BY <1>3, <1>9, <2>1
  <2>4. ASSUME NEW l PROVE ValuesIn(t, l) = IF l = k THEN <<v>> \o vs ELSE ValuesIn(s, l)
    <3>1. ValuesIn(t, l) = IF l = k THEN <<v>> \o ValuesIn(s, l) ELSE ValuesIn(s, l)
      BY <1>2, <2>1, ValuesPrepended
    <3> QED BY <1>5, <3>1
  <2>5. Abstract!Becomes(m, k, <<v>> \o vs)
    BY <1>7, <2>2, <2>3, <2>4
  <2>6. CASE i > 0
    <3>1. Abstract!Refuse(m, k)
      BY <1>3, <1>4, <1>6, <1>9, <2>5, <2>6 DEF Abstract!Refuse
    <3> QED BY <1>2, <3>1 DEF Abstract!Next
  <2>7. CASE ~(i > 0)
    <3>1. vs = <<>> /\ rejected' = rejected
      BY <1>3, <1>6, <2>7
    <3>2. Abstract!Becomes(m, k, <<v>> \o (IF entries[m][k] = <<>> THEN <<>> ELSE Tail(entries[m][k])))
      BY <1>4, <2>5, <3>1
    <3>3. Abstract!Set(m, k, v)
      BY <3>1, <3>2 DEF Abstract!Set
    <3> QED BY <1>2, <3>3 DEF Abstract!Next
  <2> QED BY <2>6, <2>7
<1>10. CASE ~(i > 0 /\ replaces) /\ ~adds
  <2>1. bucket' = bucket
    BY <1>3, <1>10
  <2>2. entries' = entries
    BY <2>1, EntriesSame
  <2>3. CASE i > 0
    <3>1. Abstract!Refuse(m, k)
      BY <1>3, <1>4, <1>6, <1>10, <2>2, <2>3 DEF Abstract!Refuse
    <3> QED BY <1>2, <3>1 DEF Abstract!Next
  <2>4. CASE ~(i > 0)
    BY <1>3, <2>2, <2>4
  <2> QED BY <2>3, <2>4
<1> QED BY <1>8, <1>9, <1>10

(* Hashmap_del uncovers a value, or takes the keys of one hash.             *)
LEMMA DelImplements ==
  ASSUME TypeOK, NEW m \in alive, NEW k \in Texts, Hashmap_del(m, k)
  PROVE  Abstract!Next
<1>1. PICK p, s, i : p = Hash[k] /\ s = bucket[m][p] /\ i = Find(m, k)
  OBVIOUS
<1>2. /\ alive \in SUBSET Maps /\ bucket \in Buckets /\ m \in Maps /\ p \in Positions
      /\ s \in Seq(Nodes)
  BY <1>1, Types
<1>3. /\ i > 0 /\ rejected' = rejected
      /\ bucket' = [bucket EXCEPT ![m][p] = IF i = 1 THEN <<>> ELSE Without(s, i)]
  BY <1>1 DEF Hashmap_del, Without
<1>4. PICK vs : vs = entries[m][k]
  OBVIOUS
<1>5. vs = ValuesIn(s, k)
  BY <1>1, <1>2, <1>4, EntriesAre
<1>6. First(s, i, k) /\ vs # <<>>
  BY <1>1, <1>2, <1>3, <1>5, FindFirst
<1>7. PICK t : t = IF i = 1 THEN <<>> ELSE Without(s, i)
  OBVIOUS
<1>8. t \in Seq(Nodes)
  <2>1. i \in 1 .. Len(s)
    BY <1>6 DEF First
  <2>2. Without(s, i) \in Seq(Nodes)
    BY <1>2, <2>1, WithoutIs
  <2>3. <<>> \in Seq(Nodes)
    OBVIOUS
  <2> QED BY <1>7, <2>2, <2>3
<1>9. ChangedTo(bucket, m, p, t, bucket')
  <2>1. Changes(bucket, m, p, t, bucket')
    BY <1>3, <1>7 DEF Changes
  <2> QED BY <1>2, <1>8, <2>1, BucketChanges
<1>10. CASE i # 1
  <2>1. ASSUME NEW l PROVE ValuesIn(t, l) = IF l = k THEN Tail(vs) ELSE ValuesIn(s, l)
    <3>1. ValuesIn(Without(s, i), l) = IF l = k THEN Tail(ValuesIn(s, l)) ELSE ValuesIn(s, l)
      BY <1>2, <1>6, ValuesWithout
    <3> QED BY <1>5, <1>7, <1>10, <3>1
  <2>2. Abstract!Becomes(m, k, Tail(vs))
    BY <1>1, <1>2, <1>9, <2>1, OneKey
  <2>3. Abstract!Remove(m, k)
    BY <1>3, <1>4, <1>6, <2>2 DEF Abstract!Remove
  <2> QED BY <1>2, <2>3 DEF Abstract!Next
<1>11. CASE i = 1
  <2>1. ASSUME NEW n \in Maps, NEW l \in Texts
        PROVE  entries'[n][l] = IF n = m /\ Hash[l] = Hash[k] THEN <<>> ELSE entries[n][l]
    <3>1. Hash[l] \in Positions
      BY Types
    <3>2. bucket'[n][Hash[l]] = IF n = m /\ Hash[l] = p THEN <<>> ELSE bucket[n][Hash[l]]
      BY <1>7, <1>9, <1>11, <3>1 DEF ChangedTo
    <3>3. entries[n][l] = ValuesIn(bucket[n][Hash[l]], l) /\ entries'[n][l] = ValuesIn(bucket'[n][Hash[l]], l)
      BY DEF entries
    <3> QED BY <1>1, <3>2, <3>3, ValuesEmpty
  <2>2. PICK e, f : e = entries /\ f = entries'
    OBVIOUS
  <2>3. /\ e = [n \in Maps |-> [l \in Texts |-> e[n][l]]]
        /\ f = [n \in Maps |-> [l \in Texts |-> f[n][l]]]
    BY <2>2 DEF entries
  <2>4. \A n \in Maps, l \in Texts : f[n][l] = IF n = m /\ Hash[l] = Hash[k] THEN <<>> ELSE e[n][l]
    BY <2>1, <2>2
  <2>5. PICK g : g = [l \in Texts |-> IF Hash[l] = Hash[k] THEN <<>> ELSE e[m][l]]
    OBVIOUS
  <2>6. ASSUME NEW n \in Maps PROVE f[n] = [e EXCEPT ![m] = g][n]
    <3>1. f[n] = [l \in Texts |-> f[n][l]] /\ e[n] = [l \in Texts |-> e[n][l]]
      BY <2>3
    <3>2. [e EXCEPT ![m] = g][n] = IF n = m THEN g ELSE e[n]
      BY <2>3
    <3>3. CASE n = m
      BY <2>4, <2>5, <3>1, <3>2, <3>3
    <3>4. CASE n # m
      BY <2>4, <3>1, <3>2, <3>4
    <3> QED BY <3>3, <3>4
  <2>7. f = [e EXCEPT ![m] = g]
    BY <2>3, <2>6
  <2>8. entries' = [entries EXCEPT ![m] = [j \in Texts |-> IF Hash[j] = Hash[k] THEN <<>> ELSE @[j]]]
    BY <2>2, <2>5, <2>7
  <2>9. Abstract!RemoveAll(m, k)
    BY <1>3, <1>4, <1>6, <2>8 DEF Abstract!RemoveAll
  <2> QED BY <1>2, <2>9 DEF Abstract!Next
<1> QED BY <1>10, <1>11

LEMMA ClearImplements ==
  ASSUME TypeOK, NEW m \in alive, Hashmap_clear(m)
  PROVE  Abstract!Next
<1>1. /\ m \in Maps /\ rejected' = [rejected EXCEPT ![m] = {}]
      /\ \A l \in Texts : Hash[l] \in Positions
  BY Types DEF Hashmap_clear
<1>2. \A n \in Maps, q \in Positions : bucket'[n][q] = IF n = m THEN <<>> ELSE bucket[n][q]
  <2>1. Cleared(bucket, m, bucket')
    BY DEF Hashmap_clear, Cleared
  <2>2. alive \in SUBSET Maps /\ bucket \in Buckets
    BY Types
  <2>3. ClearedTo(bucket, m, bucket')
    BY <2>1, <2>2, MapCleared
  <2> QED BY <2>3 DEF ClearedTo
<1>3. ASSUME NEW n \in Maps, NEW l \in Texts
      PROVE  entries'[n][l] = IF n = m THEN <<>> ELSE entries[n][l]
  <2>1. bucket'[n][Hash[l]] = IF n = m THEN <<>> ELSE bucket[n][Hash[l]]
    BY <1>1, <1>2
  <2>2. entries[n][l] = ValuesIn(bucket[n][Hash[l]], l) /\ entries'[n][l] = ValuesIn(bucket'[n][Hash[l]], l)
    BY DEF entries
  <2> QED BY <2>1, <2>2, ValuesEmpty
<1>4. PICK e, f : e = entries /\ f = entries'
  OBVIOUS
<1>5. /\ e = [n \in Maps |-> [l \in Texts |-> e[n][l]]]
      /\ f = [n \in Maps |-> [l \in Texts |-> f[n][l]]]
  BY <1>4 DEF entries
<1>6. \A n \in Maps, l \in Texts : f[n][l] = IF n = m THEN <<>> ELSE e[n][l]
  BY <1>3, <1>4
<1>7. PICK g : g = [l \in Texts |-> <<>>]
  OBVIOUS
<1>8. ASSUME NEW n \in Maps PROVE f[n] = [e EXCEPT ![m] = g][n]
  <2>1. f[n] = [l \in Texts |-> f[n][l]] /\ e[n] = [l \in Texts |-> e[n][l]]
    BY <1>5
  <2>2. [e EXCEPT ![m] = g][n] = IF n = m THEN g ELSE e[n]
    BY <1>5
  <2>3. CASE n = m
    BY <1>6, <1>7, <2>1, <2>2, <2>3
  <2>4. CASE n # m
    BY <1>6, <2>1, <2>2, <2>4
  <2> QED BY <2>3, <2>4
<1>9. f = [e EXCEPT ![m] = g]
  BY <1>5, <1>8
<1>10. entries' = [entries EXCEPT ![m] = Abstract!Empty]
  BY <1>4, <1>7, <1>9 DEF Abstract!Empty
<1>11. Abstract!Clear(m)
  BY <1>1, <1>10 DEF Abstract!Clear
<1> QED BY <1>1, <1>11 DEF Abstract!Next

(* What a copy sets.                                                        *)
LEMMA CopiedIs ==
  ASSUME IInv, CopyStep
  PROVE  /\ call.that \in alive /\ Hashmap_set(call.that, Format[Here.key], Here.value)
         /\ Format[Here.key] \in Texts /\ Here.value \in Objs
<1>1. /\ call.pc = "copy" /\ call.pos \in Positions /\ call.rest \in Nat /\ call.rest > 0
      /\ call.this \in alive /\ call.this \in Maps /\ call.that \in alive
      /\ call.rest <= Len(bucket[call.this][call.pos])
  BY CallIs, Types DEF IInv, CallOK, CopyStep
<1>2. PICK s, n : s = bucket[call.this][call.pos] /\ n = Len(s) - call.rest + 1
  OBVIOUS
<1>3. /\ Len(s) \in Nat
      /\ \A i \in 1 .. Len(s) : s[i].value \in Objs
      /\ \A i \in 1 .. Len(s) : Copyable(s[i].key)
  BY <1>1, <1>2, Types DEF IInv, CallOK
<1>4. n \in 1 .. Len(s)
  BY <1>1, <1>2, <1>3
<1>5. Here = s[n]
  BY <1>2 DEF Here
<1>6. Format[s[n].key] \in Texts /\ s[n].value \in Objs
  BY <1>3, <1>4, HashmapAssumption DEF Copyable
<1> QED BY <1>1, <1>5, <1>6 DEF CopyStep

LEMMA DeadStays == IInv /\ DeadEmpty /\ [Next]_vars => DeadEmpty'
<1> SUFFICES ASSUME IInv, DeadEmpty, [Next]_vars PROVE DeadEmpty'
  OBVIOUS
<1>1. ASSUME alive' = alive, NEW m \in alive,
             \A n \in Maps, q \in Positions : n # m => bucket'[n][q] = bucket[n][q]
      PROVE  DeadEmpty'
  BY <1>1 DEF DeadEmpty
<1>2. CASE AppObject \/ AppLoop \/ NextBucket \/ EachStep \/ UNCHANGED vars
  <2>1. bucket' = bucket /\ alive' = alive
    BY <1>2 DEF AppObject, AppLoop, NextBucket, EachStep, vars
  <2> QED BY <2>1 DEF DeadEmpty
<1>3. CASE AppNew
  <2>1. PICK m \in Maps, r \in Retains : Hashmap_new(m, r)
    BY <1>3 DEF AppNew
  <2>2. r \in BOOLEAN
    BY HashmapAssumption
  <2>3. /\ alive' = alive \cup {m}
        /\ \A n \in Maps, q \in Positions : n # m => bucket'[n][q] = bucket[n][q]
    BY <2>1, <2>2, NewKeeps
  <2> QED BY <2>3 DEF DeadEmpty
<1>4. CASE AppSet
  <2>1. PICK m \in alive, t \in Given, v \in Objs, replaces \in BOOLEAN, adds \in BOOLEAN :
          Hashmap_setByCheck(m, Format[t], v, replaces, adds)
    BY <1>4 DEF AppSet
  <2>2. Format[t] \in Texts
    BY HashmapAssumption
  <2> QED BY <1>1, <2>1, <2>2, SetKeeps
<1>5. CASE AppDel
  <2>1. PICK m \in alive, t \in Given : Hashmap_del(m, Format[t])
    BY <1>5 DEF AppDel
  <2>2. Format[t] \in Texts
    BY HashmapAssumption
  <2> QED BY <1>1, <2>1, <2>2, DelKeeps
<1>6. CASE AppClear
  <2>1. PICK m \in alive : Hashmap_clear(m) /\ (alive' = alive \/ alive' = alive \ {m})
    BY <1>6 DEF AppClear
  <2>2. Cleared(bucket, m, bucket') /\ alive \in SUBSET Maps /\ bucket \in Buckets
    BY <2>1, Types DEF Hashmap_clear, Cleared, IInv
  <2>3. ClearedTo(bucket, m, bucket')
    BY <2>2, MapCleared
  <2> QED BY <2>1, <2>3 DEF ClearedTo, DeadEmpty
<1>7. CASE CopyStep
  <2>1. PICK k, v : k = Format[Here.key] /\ v = Here.value
    OBVIOUS
  <2>2. call.that \in alive /\ Hashmap_set(call.that, k, v) /\ k \in Texts /\ v \in Objs
    BY <1>7, <2>1, CopiedIs
  <2>3. Hashmap_setByCheck(call.that, k, v, TRUE, TRUE)
    BY <2>2 DEF Hashmap_set
  <2> QED BY <1>1, <2>2, <2>3, SetKeeps
<1> QED BY <1>2, <1>3, <1>4, <1>5, <1>6, <1>7 DEF Next, App

LEMMA StepImplements ==
  ASSUME IInv, DeadEmpty, [Next]_vars
  PROVE  Abstract!Next \/ (entries' = entries /\ rejected' = rejected)
<1>0. TypeOK
  BY DEF IInv
<1>1. CASE AppObject \/ AppLoop \/ NextBucket \/ EachStep \/ UNCHANGED vars
  <2>1. bucket' = bucket /\ rejected' = rejected
    BY <1>1 DEF AppObject, AppLoop, NextBucket, EachStep, vars
  <2> QED BY <1>0, <2>1, EntriesSame
<1>2. CASE AppNew
  <2>1. PICK m \in Maps, r \in Retains : Hashmap_new(m, r)
    BY <1>2 DEF AppNew
  <2>2. r \in BOOLEAN
    BY HashmapAssumption
  <2>3. m \notin alive /\ \A n \in Maps, q \in Positions : n # m => bucket'[n][q] = bucket[n][q]
    BY <2>1, <2>2, NewKeeps
  <2>4. bucket' = [bucket EXCEPT ![m] = NoNodes] /\ rejected' = rejected
    BY <2>1 DEF Hashmap_new
  <2>5. \A q \in Positions : bucket'[m][q] = <<>>
    BY <1>0, <2>4, Types DEF NoNodes
  <2>6. \A n \in Maps, q \in Positions : bucket'[n][q] = bucket[n][q]
    BY <2>3, <2>5 DEF DeadEmpty
  <2> QED BY <1>0, <2>4, <2>6, EntriesSame
<1>3. CASE AppSet
  <2>1. PICK m \in alive, t \in Given, v \in Objs, replaces \in BOOLEAN, adds \in BOOLEAN :
          Hashmap_setByCheck(m, Format[t], v, replaces, adds)
    BY <1>3 DEF AppSet
  <2>2. Format[t] \in Texts
    BY HashmapAssumption
  <2> QED BY <1>0, <2>1, <2>2, SetImplements
<1>4. CASE AppDel
  <2>1. PICK m \in alive, t \in Given : Hashmap_del(m, Format[t])
    BY <1>4 DEF AppDel
  <2>2. Format[t] \in Texts
    BY HashmapAssumption
  <2> QED BY <1>0, <2>1, <2>2, DelImplements
<1>5. CASE AppClear
  <2>1. PICK m \in alive : Hashmap_clear(m)
    BY <1>5 DEF AppClear
  <2> QED BY <1>0, <2>1, ClearImplements
<1>6. CASE CopyStep
  <2>1. PICK k, v : k = Format[Here.key] /\ v = Here.value
    OBVIOUS
  <2>2. call.that \in alive /\ Hashmap_set(call.that, k, v) /\ k \in Texts /\ v \in Objs
    BY <1>6, <2>1, CopiedIs
  <2>3. Hashmap_setByCheck(call.that, k, v, TRUE, TRUE)
    BY <2>2 DEF Hashmap_set
  <2> QED BY <1>0, <2>2, <2>3, SetImplements
<1> QED BY <1>1, <1>2, <1>3, <1>4, <1>5, <1>6 DEF Next, App

(* Every call on a map, and every step of a copy, is one step of a map from *)
(* keys to values: a key is set, refused, removed or uncovered, or all keys *)
(* of one hash go, and every other key is left alone.                       *)
THEOREM KeyMapImplemented == Spec => ImplementsKeyMap
<1>1. Init => IInv /\ DeadEmpty /\ Abstract!Init
  <2> SUFFICES ASSUME Init PROVE DeadEmpty /\ Abstract!Init
    BY Initially
  <2>1. \A m \in Maps, q \in Positions : bucket[m][q] = <<>>
    BY DEF Init, NoNodes
  <2>2. \A k \in Texts : Hash[k] \in Positions
    BY HashmapAssumption DEF Positions
  <2>3. \A m \in Maps, k \in Texts : ValuesIn(bucket[m][Hash[k]], k) = <<>>
    BY <2>1, <2>2, ValuesEmpty
  <2>4. entries = [m \in Maps |-> Abstract!Empty]
    BY <2>3 DEF entries, Abstract!Empty
  <2>5. rejected = [m \in Maps |-> {}]
    BY DEF Init
  <2> QED BY <2>1, <2>4, <2>5 DEF DeadEmpty, Abstract!Init
<1>2. IInv /\ DeadEmpty /\ [Next]_vars => IInv' /\ DeadEmpty'
  BY Step, DeadStays
<1>3. IInv /\ DeadEmpty /\ [Next]_vars => [Abstract!Next]_(Abstract!mvars)
  BY StepImplements DEF Abstract!mvars
<1> QED BY <1>1, <1>2, <1>3, PTL DEF Spec, ImplementsKeyMap, Abstract!Spec
=============================================================================
