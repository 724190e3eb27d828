------------------------------- MODULE Cstring -------------------------------
(* The functions of cstring.h on C texts: matching, searching, cutting in   *)
(* place, splitting. Pointers are offsets; a function that works in place   *)
(* maps the bytes it is given, and bytes from behind the terminator come    *)
(* back as Junk. A copy of a negative count is `Undefined`, and so is a cut *)
(* that never comes to its end.                                             *)
EXTENDS Libc, FiniteSets

Undefined == <<Junk>>

(* The matcher of strregex, from offset i of the text and j of the pattern. *)
reghere(w, re) ==
  LET here[i \in 0 .. Len(w), j \in 0 .. Len(re)] ==
        IF j = Len(re) THEN TRUE
        ELSE IF j + 1 < Len(re) /\ re[j + 2] = "*" THEN
          \E k \in i .. Len(w) : /\ \A m \in i + 1 .. k : re[j + 1] \in {w[m], "?"}
                                 /\ here[k, j + 2]
        ELSE IF re[j + 1] = "$" /\ j + 1 = Len(re) THEN i = Len(w)
        ELSE i < Len(w) /\ re[j + 1] \in {"?", w[i + 1]} /\ here[i + 1, j + 1]
  IN here

strregex(w, re) ==
  IF re # <<>> /\ re[1] = "^" THEN reghere(w, re)[0, 1]
  ELSE \E i \in 0 .. Len(w) : reghere(w, re)[i, 0]

strmatch(w, p) ==
  LET from[i \in 0 .. Len(w), j \in 0 .. Len(p)] ==
        IF j = Len(p) THEN i = Len(w)
        ELSE IF p[j + 1] = "*" THEN from[i, j + 1] \/ (i < Len(w) /\ from[i + 1, j])
        ELSE /\ i < Len(w)
             /\ IF p[j + 1] = "?" THEN w[i + 1] # "." ELSE w[i + 1] = p[j + 1]
             /\ from[i + 1, j + 1]
  IN from[0, 0]

(* C's remainder has the sign of its left operand.                          *)
Rem(n, m) == IF n < 0 THEN -((-n) % m) ELSE n % m
strsub(w, pos) ==
  IF pos = 0 \/ w = <<>> THEN 0
  ELSE IF pos > 0 THEN Rem(pos, Len(w)) ELSE Len(w) - 1 + Rem(pos + 1, Len(w))

strfindl(w, t) == IF strstr(w, t) = -1 THEN Len(w) ELSE strstr(w, t)
(* The right search goes on one character behind what it has found. An      *)
(* empty substring is found everywhere: the search leaves the text behind   *)
(* its terminator and does not come back.                                   *)
Lost == -2
strfindr(w, t) ==
  LET last[k \in 0 .. Len(w) + 1] ==
        LET p == strstr(SubSeq(w, k + 1, Len(w)), t)
        IN IF k > Len(w) THEN Lost ELSE IF p = -1 THEN k - 1 ELSE last[k + p + 1]
  IN IF last[0] = -1 THEN Len(w) ELSE last[0]

strbegin(w, t) == Len(w) >= Len(t) /\ Occurs(w, t, 0)
(* tools.h: a test that is longer than the text always succeeds.            *)
pct_cstr_starts_with(w, t) == Occurs(w, t, 0)
pct_cstr_ends_with(w, t) == Len(t) > Len(w) \/ Occurs(w, t, Len(w) - Len(t))
strend(w, t) == Len(w) >= Len(t) /\ Occurs(w, t, Len(w) - Len(t))

(* memmove of n bytes from offset k to the start, seen as a C text.         *)
Pulled(w, k, n) ==
  LET d == Append(w, NUL)
      moved == [i \in 1 .. Larger(n, Len(d)) |->
                  IF i > n THEN d[i] ELSE IF k + i <= Len(d) THEN d[k + i] ELSE Junk]
  IN IF n < 0 THEN Undefined ELSE CText(moved)

strdel(w, t) ==
  LET p == strstr(w, t)
  IN IF p = -1 THEN w ELSE SubSeq(w, 1, p) \o SubSeq(w, p + Len(t) + 1, Len(w))

strtrimbff(w, t) ==
  IF strstr(w, t) = -1 THEN w ELSE Pulled(w, strstr(w, t) + Len(t), Len(w) - Len(t))
strtrimffe(w, t) == SubSeq(w, 1, strfindl(w, t))
(* Mutant: the terminator is not moved.                                     *)
strtrimblf_unended(w, t) ==
  LET k == strfindr(w, t)
  IN IF k = Lost THEN Undefined ELSE Pulled(w, k + Len(t), Len(w) - k - Len(t))
strtrimblf(w, t) ==
  LET k == strfindr(w, t)
  IN IF k = Lost THEN Undefined ELSE Pulled(w, k + Len(t), Len(w) - k - Len(t) + 1)
strtrimlfe(w, t) ==
  LET k == strfindr(w, t) IN IF k = Lost THEN Undefined ELSE SubSeq(w, 1, k)

strtrimws(w) ==
  LET squeezed[i \in 0 .. Len(w), first \in BOOLEAN] ==
        LET j == i + strspn(w, i, Blanks)
            k == j + strcspn(w, j, Blanks)
        IN IF i = Len(w) THEN <<>>
           ELSE (IF j < Len(w) /\ ~first THEN <<" ">> ELSE <<>>)
                \o SubSeq(w, j + 1, k) \o squeezed[k, first /\ j = k]
  IN squeezed[0, TRUE]

(* strchop stores where each token begins, and whether room was left.       *)
strchop(w, D, avail) ==
  LET chopped[k \in 0 .. Len(w), n \in 0 .. avail \div 2] ==
        LET j == k + strspn(w, k, D)
        IN IF k = Len(w) THEN [tokens |-> <<>>, left |-> n > 0]
           ELSE IF n = 0 THEN [tokens |-> <<>>, left |-> FALSE]
           ELSE LET r == chopped[j + strcspn(w, j, D), n - 1]
                IN [r EXCEPT !.tokens = <<j>> \o @]
  IN chopped[0, avail \div 2]

strsplit(w, D) ==
  LET split[k \in 0 .. Len(w)] ==
        LET j == k + strspn(w, k, D)
            e == j + strcspn(w, j, D)
        IN IF j = Len(w) THEN <<>>
           ELSE <<SubSeq(w, j + 1, e)>> \o split[IF e = Len(w) THEN e ELSE e + 1]
  IN split[0]

----------------------------------------------------------------------------
(* The positions a pattern can have reached, one item after the other: what *)
(* both matchers decide, without their backtracking.                        *)
Step(w, S, c) == {i \in 1 .. Len(w) : i - 1 \in S /\ c \in {w[i], "?"}}
Closed(w, S, c) == {k \in 0 .. Len(w) : \E i \in S : i <= k /\ \A m \in i + 1 .. k : c \in {w[m], "?"}}

GlobAgrees(w, p) ==
  LET after[j \in 0 .. Len(p)] ==
        IF j = 0 THEN {0}
        ELSE IF p[j] = "*" THEN Closed(w, after[j - 1], "?")
        ELSE {i \in Step(w, after[j - 1], p[j]) : p[j] # "?" \/ w[i] # "."}
  IN strmatch(w, p) <=> Len(w) \in after[Len(p)]

RegexAgrees(w, re) ==
  LET anchored == re # <<>> /\ re[1] = "^"
      p == IF anchored THEN Tail(re) ELSE re
      star[j \in 1 .. Len(p)] == p[j] = "*" /\ j > 1 /\ ~star[j - 1]
      after[j \in 0 .. Len(p)] ==
        IF j = 0 THEN IF anchored THEN {0} ELSE 0 .. Len(w)
        ELSE IF star[j] THEN Closed(w, after[j - 2], p[j - 1])
        ELSE IF p[j] = "$" /\ j = Len(p) THEN after[j - 1] \cap {Len(w)}
        ELSE Step(w, after[j - 1], p[j])
  IN strregex(w, re) <=> after[Len(p)] # {}

(* strsub wraps around in both directions; the right search finds the last  *)
(* occurrence of what is not empty, and gets lost on what is; the begins    *)
(* and ends are those of the text.                                          *)
FindsAgree(w, t) ==
  /\ \A pos \in -2 * Len(w) .. 2 * Len(w) : w # <<>> => strsub(w, pos) = pos % Len(w)
  /\ strfindr(w, t) = IF t = <<>> THEN Lost
                      ELSE IF Starts(w, t) = {} THEN Len(w) ELSE MaxOf(Starts(w, t))
  /\ (strbegin(w, t) <=> 0 \in Starts(w, t)) /\ (strend(w, t) <=> IsSuffix(t, w))
  /\ (pct_cstr_starts_with(w, t) <=> strbegin(w, t))
  /\ (pct_cstr_ends_with(w, t) <=> strend(w, t) \/ Len(t) > Len(w))

(* Cutting in place: trimming up to the first occurrence is right unless it *)
(* lies at the very start, where the end of the text comes back a second    *)
(* time; up to the last one is undefined when there is none, unless the     *)
(* substring is a single character.                                         *)
TrimsAgree(w, t) ==
  LET S == Starts(w, t)
      behind(k) == SubSeq(w, k + Len(t) + 1, Len(w))
  IN t # <<>> =>
     /\ strtrimffe(w, t) = IF S = {} THEN w ELSE SubSeq(w, 1, MinOf(S))
     /\ strtrimbff(w, t) = IF S = {} THEN w
                           ELSE IF 0 \in S THEN behind(0) \o SubSeq(w, Len(behind(0)) + 1, Len(w))
                           ELSE behind(MinOf(S))
     /\ strtrimlfe(w, t) = IF S = {} THEN w ELSE SubSeq(w, 1, MaxOf(S))
     /\ strdel(w, t) = IF S = {} THEN w ELSE strtrimffe(w, t) \o behind(MinOf(S))
     /\ strtrimblf(w, t) = IF S # {} THEN behind(MaxOf(S))
                           ELSE IF Len(t) = 1 THEN w ELSE Undefined

(* Splitting: squeezing blanks keeps the words and leaves one blank between *)
(* two; the tokens fit the table strsplit allocates; strchop begins where   *)
(* strsplit does, with one empty token more behind trailing delimiters.     *)
SplitsAgree(w) ==
  LET words == strsplit(w, Blanks)
      chops == strchop(w, Blanks, 2 * Len(w) + 4)
      trailing == w # <<>> /\ w[Len(w)] \in Blanks
  IN /\ strsplit(strtrimws(w), Blanks) = words
     /\ Len(strtrimws(w)) = Len(FlattenSeq(words)) + Larger(Len(words) - 1, 0)
     /\ Len(words) + 1 <= Len(w) \div 2 + 2
     /\ Len(chops.tokens) = Len(words) + IF trailing THEN 1 ELSE 0
     /\ \A i \in DOMAIN words : Occurs(w, words[i], chops.tokens[i])
     /\ chops.left
=============================================================================
