-------------------------------- MODULE Libc --------------------------------
(* What string.h, cstring.h and json.h take from the C library: characters, *)
(* their classes, and texts that end at the first NUL. A C text is the      *)
(* sequence of its characters; a pointer into it is an offset from 0.       *)
EXTENDS Integers, Sequences, SequencesExt

CONSTANTS
  Chars,        \* the characters, without NUL
  Blanks,       \* those isspace accepts
  Upper, Lower, \* toupper and tolower, as functions
  NUL,
  Junk          \* a byte that nobody wrote

ASSUME CharsAssumption == NUL \notin Chars /\ Blanks \subseteq Chars /\ Junk \notin Chars \cup {NUL}
ASSUME CaseAssumption == Upper \in [Chars -> Chars] /\ Lower \in [Chars -> Chars]

Larger(i, j) == IF i > j THEN i ELSE j
Smaller(i, j) == IF i < j THEN i ELSE j
MinOf(S) == CHOOSE i \in S : \A j \in S : i <= j
MaxOf(S) == CHOOSE i \in S : \A j \in S : i >= j

(* What a C function sees of bytes: those before the first NUL.             *)
CText(d) == SubSeq(d, 1, MinOf({i \in DOMAIN d : d[i] = NUL}) - 1)

(* strstr gives an offset, or -1 for NULL.                                  *)
Occurs(w, t, k) == k + Len(t) <= Len(w) /\ SubSeq(w, k + 1, k + Len(t)) = t
Starts(w, t) == {k \in 0 .. Len(w) : Occurs(w, t, k)}
strstr(w, t) == IF Starts(w, t) = {} THEN -1 ELSE MinOf(Starts(w, t))

(* strspn and strcspn: how many characters from offset k on are (not) in D. *)
strcspn(w, k, D) == MinOf({n \in 0 .. Len(w) - k : n = Len(w) - k \/ w[k + n + 1] \in D})
strspn(w, k, D) == MinOf({n \in 0 .. Len(w) - k : n = Len(w) - k \/ w[k + n + 1] \notin D})
=============================================================================
