---------------------------- MODULE StringBuffer ----------------------------
(* The String of string.h: a block of `capacity` bytes, the count of those  *)
(* in use, and a NUL behind them. Every operation is a function from        *)
(* buffers to buffers built from the moves and writes of the code, so that  *)
(* a byte nobody wrote shows up as Junk. `data` holds the bytes up to the   *)
(* terminator; what lies behind it is never read. A fault is what leaves    *)
(* the C program undefined, and stops it here: an int that overflows, a     *)
(* write behind the block ("unchecked" where no room was asked for), or a   *)
(* read of a block that realloc has moved ("stale").                        *)
EXTENDS Libc, FiniteSets

CONSTANTS
  Strings,      \* the objects
  Dead,
  Words,        \* the C texts the application passes
  MinCapacity,  \* STRING_MIN_CAPACITY
  IntMax,       \* INT_MAX
  FindSize,     \* ints findAll allocates (128)
  IntBytes,     \* sizeof(int)
  MaxTotal      \* bound: characters in all strings together

ASSUME StringsAssumption ==
  /\ Words \subseteq Seq(Chars) /\ MinCapacity \in Nat /\ IntMax \in Nat /\ IntMax % 2 = 1
  /\ FindSize \in Nat \ {0} /\ IntBytes \in Nat /\ IntBytes >= 4

VARIABLE buf    \* [Strings -> a buffer, or Dead]

(* limit_range: both ends brought into 0 .. size - 1, and into order.       *)
Limited(size, i) == Larger(0, Smaller(size - 1, IF i < 0 THEN Larger(0, size + i) ELSE i))
limit_range(size, from, to) ==
  LET f == Limited(size, from)
      t == Limited(size, to)
  IN <<Smaller(f, t), Larger(f, t)>>

Text(b) == SubSeq(b.data, 1, b.length)

(* memmove to offset `at` of d, which reaches as far as needed.             *)
Move(d, at, w) ==
  [i \in 1 .. Larger(Len(d), at + Len(w)) |->
     IF i \in at + 1 .. at + Len(w) THEN w[i - at]
     ELSE IF i <= Len(d) THEN d[i] ELSE Junk]

(* The bytes d become the text, n of them: length and terminator follow.    *)
Ended(b, d, n) ==
  [b EXCEPT !.data = Append(SubSeq(d, 1, n), NUL), !.length = n,
            !.fault = IF @ = "none" /\ n + 1 > b.capacity THEN "outside" ELSE @]

String_new ==
  [data |-> <<NUL>>, length |-> 0, capacity |-> MinCapacity + 1, fault |-> "none"]

(* _string_check_capacity doubles an int until n bytes and a terminator fit. *)
(* It is positive, so that the branch of the loop for a capacity of 0 or     *)
(* less is for one that has overflowed: there the program is undefined.      *)
(* Mutant: no room is asked for the terminator.                              *)
Doubled(c, m) ==
  LET doubled[k \in Nat] == IF k < m /\ k * 2 < IntMax THEN doubled[k * 2] ELSE k IN doubled[c]
Grown(b, m) ==
  LET c == Doubled(b.capacity, m)
  IN [b EXCEPT !.capacity = c, !.fault = IF c < m /\ c * 2 > IntMax THEN "overflow" ELSE @]
check_capacity_text(b, n) == Grown(b, n)
check_capacity(b, n) == Grown(b, n + 1)

String_appendChar(b, c) ==
  LET g == check_capacity(b, b.length + 1)
  IN Ended(g, Move(g.data, g.length, <<c>>), g.length + 1)

Prepended(b, w) ==
  LET d == Move(b.data, Len(w), Text(b))
  IN Ended(b, Move(d, 0, w), b.length + Len(w))

String_prependChar(b, c) == Prepended(check_capacity(b, b.length + 1), <<c>>)

String_appendStr(b, w) ==
  IF w = <<>> THEN b
  ELSE LET g == check_capacity(b, b.length + Len(w))
       IN Ended(g, Move(g.data, g.length, w), g.length + Len(w))

String_appendArr(b, w) == String_appendStr(b, w)

String_prependStr(b, w) ==
  IF w = <<>> THEN b ELSE Prepended(check_capacity(b, b.length + Len(w)), w)

(* prependArr does not ask for room: what it writes may end outside.        *)
String_prependArr(b, w) ==
  LET p == Prepended(b, w)
  IN IF p.fault = "outside" THEN [p EXCEPT !.fault = "unchecked"] ELSE p

String_insert(b, at, that) ==
  IF at < 0 \/ at > b.length \/ that.length <= 0 THEN b
  ELSE LET g == check_capacity(b, b.length + that.length)
           temp == SubSeq(g.data, at + 1, g.length)
           d == Move(g.data, at, Text(that))
       IN Ended(g, Move(d, at + that.length, temp), g.length + that.length)

String_delete(b, from, to) ==
  IF b.length <= 0 THEN b
  ELSE LET r == limit_range(b.length, from, to)
           d == Move(b.data, r[1], SubSeq(b.data, r[2] + 2, b.length))
           n == b.length - (r[2] - r[1] + 1)
       IN check_capacity(Ended(b, d, n), n + 1)

String_deleteStarting(b, to) == String_delete(b, 0, to)
String_deleteEnding(b, from) == String_delete(b, from, b.length)
String_clear(b) == Ended(b, <<>>, 0)

(* The argument may be the string's own data: then it is empty by the time  *)
(* it is appended.                                                          *)
String_set(b, w) == String_appendStr(String_delete(b, 0, -1), w)
SetToOwn(b) == LET e == String_delete(b, 0, -1) IN String_appendStr(e, CText(e.data))

(* append(s, get(s)): realloc may move the block away from the argument.    *)
OwnAppended(b) ==
  LET g == String_appendStr(b, CText(b.data))
  IN {g} \cup IF g.fault = "none" /\ g.capacity # b.capacity THEN {[g EXCEPT !.fault = "stale"]} ELSE {}

String_clone(b) == String_appendStr(String_new, CText(b.data))

String_repeat(b, count) ==
  IF count <= 0 \/ b.length <= 0 THEN b
  ELSE LET times[i \in 1 .. count] ==
             IF i = 1 THEN b ELSE String_appendStr(times[i - 1], CText(b.data))
       IN times[count]

String_subString(b, from, to) ==
  LET r == limit_range(b.length, from, to)
      temp == SubSeq(b.data, r[1] + 1, r[2] + 1)
  IN String_appendStr(String_new, CText(Append(temp, NUL)))

String_setChar(b, i, c) ==
  IF i < 0 \/ i >= b.length THEN b ELSE [b EXCEPT !.data[i + 1] = c]
String_reverse(b) == [b EXCEPT !.data = Append(Reverse(Text(b)), NUL)]
Mapped(b, f) ==
  [b EXCEPT !.data = [i \in DOMAIN @ |-> IF @[i] = NUL THEN NUL ELSE f[@[i]]]]
String_upper(b) == Mapped(b, Upper)
String_lower(b) == Mapped(b, Lower)

----------------------------------------------------------------------------
(* Searching.                                                               *)
(* Mutant: the place is counted from where the search began.                *)
FoundFrom_relative(b, k, t) == strstr(CText(SubSeq(b.data, k + 1, b.length + 1)), t)
FoundFrom(b, k, t) ==
  LET p == strstr(CText(SubSeq(b.data, k + 1, b.length + 1)), t)
  IN IF p = -1 THEN -1 ELSE k + p

String_findNext(b, from, t) ==
  LET k == IF from < 0 THEN from + b.length ELSE from
  IN IF b.length <= 0 \/ k < 0 \/ k > b.length \/ t = <<>> THEN -1 ELSE FoundFrom(b, k, t)

String_findLast(b, to, t) ==
  LET e == IF to < 0 THEN to + b.length ELSE to
      good == {k \in 0 .. b.length - 1 : FoundFrom(b, k, t) \in 0 .. e - Len(t) + 1}
  IN IF b.length <= 0 \/ e < 0 \/ e > b.length \/ t = <<>> \/ good = {} THEN -1
     ELSE FoundFrom(b, MaxOf(good), t)

(* findAll counts in the first cell of its result and stores the matches by *)
(* that count; `block` is the size of the result in bytes.                  *)
FindAllStep(b, t, r, next) ==
  LET found == String_findNext(b, next, t)
      n == r.cells[0] + 1
      size == IF n > r.size - 1 THEN r.size * 4 ELSE r.size
      block == IF size # r.size THEN size ELSE r.block
  IN IF r.over \/ found = -1 THEN [r EXCEPT !.over = TRUE]
     ELSE IF found = r.last THEN r
     ELSE [r EXCEPT !.size = size, !.block = block, !.last = found,
                    !.outside = @ \/ (n + 1) * IntBytes > block,
                    !.cells = [i \in DOMAIN @ \cup {n} |->
                                 IF i = n THEN found ELSE IF i = 0 THEN n ELSE @[i]]]

String_findAll(b, t) ==
  LET looked[i \in 0 .. b.length + 1] ==
        IF i = 0
        THEN [cells |-> [j \in 0 .. FindSize - 1 |-> -1], size |-> FindSize, last |-> -1,
              block |-> FindSize * IntBytes, outside |-> FALSE, over |-> FALSE]
        ELSE FindAllStep(b, t, looked[i - 1], i - 1)
  IN looked[b.length + 1]

String_startsWith(b, t) == String_findNext(b, 0, t) = 0
String_endsWith(b, t) == String_findLast(b, -1, t) = b.length - Len(t)
String_contains(b, t) == String_findNext(b, 0, t) >= 0

(* One round of replace's loop: the part before the match, as subString     *)
(* cuts it, and the replacement go to the result.                           *)
ReplaceStep(b, t, w, to, count, r) ==
  LET found == String_findNext(b, r.next, t)
      part == String_subString(b, r.cut, found - 1)
  IN IF r.over \/ found = -1 \/ found >= to THEN [r EXCEPT !.over = TRUE]
     ELSE [out |-> String_appendStr(String_appendStr(r.out, CText(part.data)), w),
           next |-> found + Len(t), cut |-> found + Len(t), count |-> r.count + 1,
           over |-> count > 0 /\ r.count + 1 >= count]

String_replace(b, t, w, from, to, count) ==
  LET lim == limit_range(b.length, from, to)
      rounds[i \in 0 .. b.length + 1] ==
        IF i = 0
        THEN [out |-> String_new, next |-> lim[1], cut |-> 0, count |-> 0, over |-> FALSE]
        ELSE ReplaceStep(b, t, w, lim[2], count, rounds[i - 1])
      r == rounds[b.length + 1]
      rest == String_subString(b, r.cut, b.length - 1)
  IN IF t = <<>> \/ count = 0 THEN b
     ELSE String_set(b, CText(String_appendStr(r.out, CText(rest.data)).data))

trim_left(b) ==
  LET start == MinOf({i \in 0 .. b.length : i = b.length \/ b.data[i + 1] \notin Blanks})
  IN IF start > 0 THEN String_deleteStarting(b, start) ELSE b
trim_right(b) ==
  LET end == MaxOf({i \in -1 .. b.length - 1 : i = -1 \/ b.data[i + 1] \notin Blanks})
  IN IF end < b.length - 1 THEN String_deleteEnding(b, end + 1) ELSE b
String_trim(b) == trim_right(trim_left(b))

----------------------------------------------------------------------------
(* The program: any operation on any string, in any order.                  *)
Alive == {s \in Strings : buf[s] # Dead}
Sound(s) == s \in Alive /\ buf[s].fault = "none"
Room == MaxTotal - FoldFunction(LAMBDA b, n : n + IF b = Dead THEN 0 ELSE b.length, 0, buf)

Become(s, b) ==
  /\ b.length - buf[s].length <= Room \/ b.fault = "overflow"
  /\ buf' = [buf EXCEPT ![s] = b]

Create(s, b) == s \notin Alive /\ b.length <= Room /\ buf' = [buf EXCEPT ![s] = b]

String_free(s) == buf' = [buf EXCEPT ![s] = Dead]

Edit(s, b) ==
  \/ \E c \in Chars \cup {NUL} : Become(s, String_appendChar(b, c))
  \/ \E c \in Chars : Become(s, String_prependChar(b, c))
  \/ \E w \in Words : \/ Become(s, String_appendStr(b, w))
                      \/ Become(s, String_appendArr(b, w))
                      \/ Become(s, String_prependStr(b, w))
                      \/ Become(s, String_prependArr(b, w))
                      \/ Become(s, String_set(b, w))
  \/ Become(s, SetToOwn(b))
  \/ \E r \in OwnAppended(b) : Become(s, r)
  \/ \E that \in {r \in Strings : Sound(r)}, at \in 0 .. b.length :
       Become(s, String_insert(b, at, buf[that]))
  \/ \E n \in {2, 3} : Become(s, String_repeat(b, n))

Cut(s, b) ==
  \/ \E from \in 0 .. b.length : \E to \in {-1} \cup (from .. b.length) :
       Become(s, String_delete(b, from, to))
  \/ Become(s, String_clear(b))
  \/ Become(s, String_trim(b))
  \/ Become(s, trim_left(b))
  \/ Become(s, trim_right(b))
  \/ \E t \in Words \ {<<>>}, w \in Words, n \in {-1, 1} : Become(s, String_replace(b, t, w, 0, -1, n))

Change(s, b) ==
  \/ \E i \in 0 .. b.length, c \in Chars : Become(s, String_setChar(b, i, c))
  \/ Become(s, String_reverse(b))
  \/ Become(s, String_upper(b))
  \/ Become(s, String_lower(b))

Copy(s, r) ==
  \/ Create(r, String_clone(buf[s]))
  \/ \E from \in 0 .. buf[s].length : \E to \in {-1} \cup (from .. buf[s].length) :
       Create(r, String_subString(buf[s], from, to))

StringsInit == buf = [s \in Strings |-> Dead]

StringsNext ==
  \/ \E s \in Strings : Create(s, String_new)
  \/ \E s \in Strings : Sound(s) /\ String_free(s)
  \/ \E s \in Strings : Sound(s) /\ (Edit(s, buf[s]) \/ Cut(s, buf[s]) \/ Change(s, buf[s]))
  \/ \E s, r \in Strings : Sound(s) /\ Copy(s, r)

StringsSpec == StringsInit /\ [][StringsNext]_buf

----------------------------------------------------------------------------
(* The text of every string ends with its terminator inside the block and   *)
(* holds no byte that nobody wrote. No operation that asks for room         *)
(* (`_string_check_capacity`) writes outside: it ends there or overflows    *)
(* where no capacity in an int would do. A block is overrun only by what    *)
(* did not fit, and moves only where it had to grow.                        *)
BufferOK ==
  \A s \in Alive :
    LET b == buf[s]
        full == b.capacity < b.length + 1
    IN /\ b.capacity \in Nat \ {0}
       /\ b.fault \in {"none", "overflow", "unchecked", "stale"}
       /\ b.fault = "none" => /\ b.data \in Seq(Chars \cup {NUL})
                              /\ Len(b.data) = b.length + 1
                              /\ b.data[b.length + 1] = NUL
                              /\ ~full
       /\ b.fault = "overflow" => full /\ b.capacity * 2 > IntMax
       /\ b.fault = "unchecked" => full
       /\ b.fault = "stale" => ~full /\ b.capacity < 2 * (b.length + 1)

(* What the application may expect of an edit of the text x of b.           *)
Gives(r, y) == r.fault = "none" => Text(r) = y
Without(x, i, j) == SubSeq(x, 1, i) \o SubSeq(x, j + 2, Len(x))
(* Without room asked for, prependArr ends inside only where there is some. *)
(* A string's own data is there to append unless the block grows, and gone  *)
(* when it is set.                                                          *)
OwnAgrees(b, x) ==
  /\ \A w \in Words :
       LET p == String_prependArr(b, w)
       IN Text(p) = w \o x /\ (p.fault = "none" <=> Len(w) + Len(x) < b.capacity)
  /\ \A r \in OwnAppended(b) :
       Text(r) = x \o x /\ (r.fault = "stale" => 2 * Len(x) >= b.capacity)
  /\ Text(SetToOwn(b)) = <<>>
EditsAgree(b, x) ==
  /\ \A w \in Words : /\ Gives(String_appendStr(b, w), x \o w)
                      /\ Gives(String_prependStr(b, w), w \o x)
                      /\ Gives(String_set(b, w), w)
  /\ \A i, j \in 0 .. Len(x) - 1 :
       i <= j => /\ Text(String_delete(b, i, j)) = Without(x, i, j)
                 /\ Text(String_delete(b, i - Len(x), j - Len(x))) = Without(x, i, j)
                 /\ Text(String_subString(b, i, j)) = SubSeq(x, i + 1, j + 1)
  /\ \A s \in Alive, at \in 0 .. Len(x) :
       Gives(String_insert(b, at, buf[s]),
             SubSeq(x, 1, at) \o Text(buf[s]) \o SubSeq(x, at + 1, Len(x)))
  /\ Text(String_reverse(b)) = Reverse(x)
  /\ Text(String_clone(b)) = x

(* trim takes one character too many from the left when it takes any, and   *)
(* replace is right where no match lies at an end or next to another.       *)
LeftOf(x) ==
  LET n == MinOf({i \in 0 .. Len(x) : i = Len(x) \/ x[i + 1] \notin Blanks})
  IN SubSeq(x, IF n = 0 THEN 1 ELSE n + 2, Len(x))
RightOf(x) == SubSeq(x, 1, MaxOf({i \in 0 .. Len(x) : i = 0 \/ x[i] \notin Blanks}))
Apart(x, t) ==
  \A k \in Starts(x, t) : /\ 0 < k /\ k + Len(t) < Len(x)
                          /\ \A j \in Starts(x, t) : j <= k \/ j > k + Len(t)
Replacing(x, t, w) ==
  LET from[i \in 0 .. Len(x)] ==
        IF i = Len(x) THEN <<>>
        ELSE IF Occurs(x, t, i) THEN w \o from[i + Len(t)] ELSE <<x[i + 1]>> \o from[i + 1]
  IN from[0]
RewritesAgree(b, x) ==
  /\ Text(String_trim(b)) = RightOf(LeftOf(x))
  /\ \A t, w \in Words :
       t # <<>> /\ Apart(x, t) => Gives(String_replace(b, t, w, 0, -1, -1), Replacing(x, t, w))

(* endsWith compares int with size_t: a target one longer than the text is  *)
(* always at its end. findAll notes the first match in the cell of the      *)
(* count, so that the later ones go to the cells behind the one with the    *)
(* number of its place; behind the block when that is far enough.           *)
FindsAll(b, x, t) ==
  LET S == Starts(x, t)
      first == MinOf(S)
      last == first + Cardinality(S) - 1
      r == String_findAll(b, t)
  IN IF S = {} \/ x = <<>> THEN ~r.outside /\ r.cells[0] = -1
     ELSE /\ r.outside <=> last >= FindSize /\ last > first
          /\ ~r.outside => /\ r.cells[0] = last
                           /\ \A k \in S \ {first} :
                                r.cells[first + Cardinality({j \in S : j < k})] = k
SearchesAgree(b, x) ==
  \A t \in Words \ {<<>>} :
    /\ \A i \in 0 .. Len(x) :
         LET S == {k \in Starts(x, t) : k >= i}
         IN String_findNext(b, i, t) = IF S = {} THEN -1 ELSE MinOf(S)
    /\ \A i \in 0 .. Len(x) - 1 :
         LET S == {k \in Starts(x, t) : k + Len(t) - 1 <= i}
         IN String_findLast(b, i, t) = IF S = {} THEN -1 ELSE MaxOf(S)
    /\ String_startsWith(b, t) <=> 0 \in Starts(x, t)
    /\ String_contains(b, t) <=> Starts(x, t) # {}
    /\ String_endsWith(b, t) <=> IsSuffix(t, x) \/ Len(t) = Len(x) + 1
    /\ FindsAll(b, x, t)

(* Every call on a text without a NUL inside gives what its name says, with *)
(* the exceptions above.                                                    *)
CallsAgree ==
  \A s \in Strings :
    Sound(s) /\ NUL \notin Range(Text(buf[s])) =>
      LET b == buf[s]
          x == Text(b)
      IN EditsAgree(b, x) /\ OwnAgrees(b, x) /\ RewritesAgree(b, x) /\ SearchesAgree(b, x)
=============================================================================
