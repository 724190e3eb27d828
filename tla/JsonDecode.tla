----------------------------- MODULE JsonDecode -----------------------------
(***************************************************************************)
(* json_decode (json.h): a recursive descent parser that collects the values *)
(* of the arrays and objects it is in on one stack, and frees what it has    *)
(* collected when it fails.                                                  *)
(*                                                                           *)
(* The text is a sequence of lexemes, chosen while it is read: the parser    *)
(* never looks further than one lexeme ahead.  White space is skipped before *)
(* every lexeme and left out, except that "true_space" is true with white    *)
(* space behind it.  Opening and closing are of brackets, square ones for    *)
(* arrays.  "bad" is what starts no value, "bad_string" a string in which    *)
(* json_parse_string_raw fails, "big" a number out of range, "word" four     *)
(* letters that begin with t and sort after true.                            *)
(*                                                                           *)
(* A value is its type and the number of heap blocks it owns.  frames are    *)
(* the activations of json_parse_array and json_parse_object; key says that  *)
(* the object holds a key whose value is not parsed yet.  The characters of  *)
(* a string go on the stack and off it again within one step.                *)
(*                                                                           *)
(* json_parse_boolean compares strcmp(p, "true") with 1.  What strcmp        *)
(* returns depends on the C library: the sign of the comparison, or the      *)
(* difference of the first two characters that differ, which is never 1 for  *)
(* the lexemes here.                                                         *)
(***************************************************************************)
EXTENDS Integers, Sequences, FiniteSets, SequencesExt

CONSTANTS Lexemes,   \* those the texts are made of
          Builds,    \* "sign" and "difference"
          MaxLexemes \* bound: lexemes in a text

ASSUME JsonDecodeAssumption ==
  Builds \subseteq {"sign", "difference"} /\ MaxLexemes \in Nat /\ "end" \notin Lexemes

VARIABLES build, text, ended,  \* the library, the text, whether it ends after what was read
          pos,                 \* c.json
          stack,               \* c.stack, an entry for each value or member
          frames,
          at, val, ret,        \* where the parser is, the value it has, its result
          blocks               \* heap blocks that are allocated

decodeVars == <<build, text, ended, pos, stack, frames, at, val, ret, blocks>>

Value(t, b) == [type |-> t, blocks |-> b]
Null == Value("null", 0)
Booleans == {"true", "true_space", "false", "word"}
Here == IF pos <= Len(text) THEN text[pos] ELSE "end"
InObject == frames # <<>> /\ Last(frames).kind = "object"
Known == ended \/ Len(text) > pos

DecodeInit ==
  /\ build \in Builds
  /\ text = <<>> /\ ended = FALSE
  /\ pos = 1
  /\ stack = <<>> /\ frames = <<>>
  /\ at = "value" /\ val = Null /\ ret = "OK"
  /\ blocks = 0

\* The text goes on, or ends.
Read ==
  /\ ~Known /\ at # "end"
  /\ \/ Len(text) < MaxLexemes /\ (\E l \in Lexemes : text' = Append(text, l)) /\ UNCHANGED ended
     \/ ended' = TRUE /\ UNCHANGED text
  /\ UNCHANGED <<build, pos, stack, frames, at, val, ret, blocks>>

-----------------------------------------------------------------------------
(* Sums, as a recursive function that has the sum of the first i numbers.   *)

Totals(w) == LET f[i \in 0..Len(w)] == IF i = 0 THEN 0 ELSE f[i - 1] + w[i] IN f
Total(w) == Totals(w)[Len(w)]

-----------------------------------------------------------------------------
(* Results of a step.                                                       *)

Failed(error) ==
  at' = "fail" /\ ret' = error /\ UNCHANGED <<pos, stack, frames, val, blocks>>
Parsed(v) ==
  /\ at' = "parsed" /\ val' = v /\ pos' = pos + 1
  /\ blocks' = blocks + v.blocks
  /\ UNCHANGED <<ret, stack, frames>>

\* json_parse_boolean: what follows in the text decides, and every boolean is true.
BooleanParsed ==
  build = "sign" /\ (Here # "word" => pos < Len(text) \/ Here = "true_space")

\* An array or an object begins; the next lexeme may close it at once.
Opened(kind, close) ==
  IF pos < Len(text) /\ text[pos + 1] = close
    THEN /\ at' = "parsed" /\ val' = Value(kind, 0) /\ pos' = pos + 2
         /\ UNCHANGED <<ret, stack, frames, blocks>>
    ELSE /\ frames' = Append(frames, [kind |-> kind, size |-> 0, key |-> FALSE])
         /\ pos' = pos + 1
         /\ at' = IF kind = "array" THEN "value" ELSE "key"
         /\ UNCHANGED <<ret, stack, val, blocks>>

json_parse_string ==
  IF Here = "string" THEN Parsed(Value("string", 1)) ELSE Failed("STRING")

\* What begins no other value is taken for a number.
json_parse_number ==
  CASE Here = "number" -> Parsed(Value("number", 0))
    [] Here = "big" -> Failed("NUMBER_TOO_BIG")
    [] OTHER -> Failed("INVALID_VALUE")

json_parse_value ==
  /\ at = "value" /\ Known
  /\ CASE Here \in Booleans -> IF BooleanParsed THEN Parsed(Value("boolean", 0))
                                                ELSE Failed("INVALID_VALUE")
       [] Here = "null" -> Parsed(Null)
       [] Here \in {"string", "bad_string"} -> json_parse_string
       [] Here = "open_array" -> Opened("array", "close_array")
       [] Here = "open_object" -> Opened("object", "close_object")
       [] Here = "end" -> Failed("EXPECT_VALUE")
       [] OTHER -> json_parse_number
  /\ UNCHANGED <<build, text, ended>>

\* json_parse_object: a key is copied, and a colon follows it.
SetKey(f) == [f EXCEPT ![Len(f)].key = TRUE]
KeyStep ==
  /\ at = "key" /\ Known
  /\ CASE Here = "bad_string" -> Failed("STRING")
       [] Here = "string" ->
            /\ frames' = SetKey(frames)
            /\ blocks' = blocks + 1
            /\ pos' = pos + 1
            /\ at' = "colon"
            /\ UNCHANGED <<stack, val, ret>>
       [] OTHER -> Failed("MISS_KEY")
  /\ UNCHANGED <<build, text, ended>>

ColonStep ==
  /\ at = "colon" /\ Known
  /\ IF Here = "colon"
       THEN pos' = pos + 1 /\ at' = "value" /\ UNCHANGED <<stack, frames, val, ret, blocks>>
       ELSE Failed("MISS_COLON")
  /\ UNCHANGED <<build, text, ended>>

-----------------------------------------------------------------------------
(* A value has been parsed.                                                 *)

\* It is pushed, a member with its key.
Entry == Value(IF InObject THEN "member" ELSE "element", val.blocks + IF InObject THEN 1 ELSE 0)
Pushed(f) == [f EXCEPT ![Len(f)].size = @ + 1, ![Len(f)].key = FALSE]

\* The last n entries of the stack, and what they own.
Entries(n) == SubSeq(stack, Len(stack) - n + 1, Len(stack))
Below(n) == SubSeq(stack, 1, Len(stack) - n)
Owned(s) == Total([i \in 1..Len(s) |-> s[i].blocks])

PushStep ==
  /\ at = "parsed" /\ frames # <<>>
  /\ stack' = Append(stack, Entry)
  /\ frames' = Pushed(frames)
  /\ at' = "next" /\ val' = Null
  /\ UNCHANGED <<build, text, ended, pos, ret, blocks>>

\* A comma, or the end of the array or object, which takes its entries off the stack
\* into a block of their own.  Mutant: one entry stays on the stack.
Close == IF InObject THEN "close_object" ELSE "close_array"
Taken_but_one(n) == n - 1
Taken(n) == n
Closed(n) ==
  /\ val' = Value(Last(frames).kind, Owned(Entries(n)) + 1)
  /\ stack' = Below(n)
  /\ frames' = Front(frames)
  /\ blocks' = blocks + 1
  /\ pos' = pos + 1 /\ at' = "parsed"
  /\ UNCHANGED ret
NextStep ==
  /\ at = "next" /\ Known
  /\ CASE Here = "comma" ->
            /\ pos' = pos + 1
            /\ at' = IF InObject THEN "key" ELSE "value"
            /\ UNCHANGED <<stack, frames, val, ret, blocks>>
       [] Here = Close -> Closed(Taken(Last(frames).size))
       [] OTHER -> Failed(IF InObject THEN "MISS_COMMA_OR_CURLY_BRACKET"
                                      ELSE "MISS_COMMA_OR_SQUARE_BRACKET")
  /\ UNCHANGED <<build, text, ended>>

\* The parser fails out of an array or object: the key and the entries are freed.
\* Mutants: the key is not; a key is freed that was never copied; the failed value is
\* parsed again.
Freed_entries(f) == Owned(Entries(f.size))
Freed_key(f) == Owned(Entries(f.size)) + IF f.kind = "object" THEN 1 ELSE 0
Freed(f) == Owned(Entries(f.size)) + IF f.key THEN 1 ELSE 0
UnwindStep_again ==
  /\ at = "fail" /\ frames # <<>>
  /\ at' = "value"
  /\ UNCHANGED <<build, text, ended, pos, stack, frames, val, ret, blocks>>
UnwindStep ==
  LET f == Last(frames) IN
  /\ at = "fail" /\ frames # <<>>
  /\ blocks' = blocks - Freed(f)
  /\ stack' = Below(f.size)
  /\ frames' = Front(frames)
  /\ UNCHANGED <<build, text, ended, pos, at, val, ret>>

\* json_decode returns; a value with something behind it becomes null, and is not
\* freed.  Mutant: what is behind the value is ignored.
Rest_ignored == "OK"
Rest == IF Here = "end" THEN "OK" ELSE "ROOT_NOT_SINGULAR"
json_decode ==
  /\ at \in {"parsed", "fail"} /\ frames = <<>> /\ (at = "parsed" => Known)
  /\ at' = "end"
  /\ ret' = IF at = "parsed" THEN Rest ELSE ret
  /\ val' = IF ret' = "OK" THEN val ELSE Null
  /\ UNCHANGED <<build, text, ended, pos, stack, frames, blocks>>

Step == \/ json_parse_value \/ KeyStep \/ ColonStep \/ PushStep \/ NextStep \/ UnwindStep
        \/ json_decode
DecodeNext == Read \/ Step
DecodeSpec == DecodeInit /\ [][DecodeNext]_decodeVars
FairSpec == DecodeSpec /\ WF_decodeVars(DecodeNext)

-----------------------------------------------------------------------------
(* The grammar, as an automaton that reads lexemes: what it expects, and the *)
(* arrays and objects that are open.                                         *)

Start == [expects |-> "value", open |-> <<>>]
Reject == [expects |-> "nothing", open |-> <<>>]
Scalars == {"null", "string", "number"} \cup Booleans
To(s, e) == [s EXCEPT !.expects = e]
Down(s, k, e) == [expects |-> e, open |-> Append(s.open, k)]
Up(s) == [expects |-> "more", open |-> Front(s.open)]
Inside(s, k) == s.open # <<>> /\ Last(s.open) = k

Delta(s, l) ==
  CASE s.expects \in {"value", "first"} /\ l \in Scalars -> To(s, "more")
    [] s.expects \in {"value", "first"} /\ l = "open_array" -> Down(s, "array", "first")
    [] s.expects \in {"value", "first"} /\ l = "open_object" -> Down(s, "object", "first_key")
    [] s.expects = "first" /\ l = "close_array" -> Up(s)
    [] s.expects = "first_key" /\ l = "close_object" -> Up(s)
    [] s.expects \in {"key", "first_key"} /\ l = "string" -> To(s, "colon")
    [] s.expects = "colon" /\ l = "colon" -> To(s, "value")
    [] s.expects = "more" /\ l = "comma" /\ Inside(s, "array") -> To(s, "value")
    [] s.expects = "more" /\ l = "comma" /\ Inside(s, "object") -> To(s, "key")
    [] s.expects = "more" /\ l = "close_array" /\ Inside(s, "array") -> Up(s)
    [] s.expects = "more" /\ l = "close_object" /\ Inside(s, "object") -> Up(s)
    [] OTHER -> Reject

States(t) == LET f[i \in 0..Len(t)] == IF i = 0 THEN Start ELSE Delta(f[i - 1], t[i]) IN f
Reads(t) == States(t)[Len(t)]
Accepts(t) == Reads(t) = [expects |-> "more", open |-> <<>>]

-----------------------------------------------------------------------------
(* Properties.                                                              *)

\* Every variable has its type.
DecodeTypeOK ==
  /\ build \in Builds
  /\ text \in Seq(Lexemes) /\ ended \in BOOLEAN /\ pos \in 1..(MaxLexemes + 2)
  /\ stack \in Seq([type : {"member", "element"}, blocks : Nat])
  /\ frames \in Seq([kind : {"array", "object"}, size : Nat, key : BOOLEAN])
  /\ at \in {"value", "key", "colon", "parsed", "next", "fail", "end"}
  /\ val.blocks \in Nat /\ blocks \in Nat

\* The assertion at the end of json_decode: the stack is empty again, after every
\* error at any depth as after success.
TopIsZero == at = "end" => stack = <<>>

\* The entries of the stack are those of the open arrays and objects, the inner ones
\* on top, so that each pops its own.
Sizes(fs) == [i \in 1..Len(fs) |-> fs[i].size]
TypeFor(kind) == IF kind = "array" THEN "element" ELSE "member"
Typed(fs, s, i) ==
  \A j \in (Totals(Sizes(fs))[i - 1] + 1)..Totals(Sizes(fs))[i] : s[j].type = TypeFor(fs[i].kind)
Nested(fs, s) == Len(s) = Total(Sizes(fs)) /\ \A i \in 1..Len(fs) : Typed(fs, s, i)
EntriesNested == at # "end" => Nested(frames, stack)

\* Every block is owned: by the value, by an entry of the stack or by an object as a
\* key it has no value for.  A text that is refused leaves no block, but one that goes
\* on behind its value all of the value's: one for each string, and one for each array
\* or object that is not empty.
Opening == {"open_array", "open_object"}
Closing == {"close_array", "close_object"}
Needing(t, i) ==
  \/ t[i] = "string"
  \/ i > 1 /\ t[i] \in Closing /\ t[i - 1] \notin Opening
Needs(t) == Cardinality({i \in 1..Len(t) : Needing(t, i)})
KeysHeld(fs) == Cardinality({i \in 1..Len(fs) : fs[i].key})
BlocksOwned ==
  IF at # "end" THEN blocks = val.blocks + Owned(stack) + KeysHeld(frames)
  ELSE blocks = IF ret \in {"OK", "ROOT_NOT_SINGULAR"} THEN Needs(SubSeq(text, 1, pos - 1)) ELSE 0

\* The stack as the open arrays and objects use it, and what its entries own.
StackOK == DecodeTypeOK /\ TopIsZero /\ EntriesNested /\ BlocksOwned

\* A text without booleans is accepted exactly when it is in the grammar.  Of the
\* others none is accepted that would not be with a boolean for every word.
AcceptsGrammar ==
  at = "end" =>
    /\ ret = "OK" => ended /\ Accepts(text)
    /\ ret # "OK" =>
         \/ \E i \in 1..Len(text) : text[i] \in Booleans
         \/ pos <= Len(text) /\ Reads(SubSeq(text, 1, pos)).expects = "nothing"
         \/ pos > Len(text) /\ ended /\ ~Accepts(text)
         \/ \E i \in 1..Len(text) : text[i] \in {"big", "bad_string"}

\* json.h says that bool is one of the six types of data: the text true is decoded.
TrueIsDecoded == at = "end" /\ ended /\ text = <<"true">> => ret = "OK"

\* json_decode returns.
Returns == <>(at = "end")
=============================================================================
