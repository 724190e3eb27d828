------------------------------- MODULE MCParts -------------------------------
(* The parts of the library that share no state with any other, side by     *)
(* side: a behaviour is one of one part, while the others wait.             *)
EXTENDS Md5, Quarks, StringBuffer, Cargs, Log, TLC

VARIABLE part

md5 == vars
cargs == cargsVars

CS == INSTANCE Cstring
CV == INSTANCE Conversions
JT == INSTANCE JsonText

PartsInit ==
  /\ part \in {"md5", "quarks", "strings", "cargs", "log", "conversions"}
  /\ Init /\ QuarksInit /\ StringsInit /\ CargsInit /\ LogInit

Md5Part == part = "md5" /\ Next /\ UNCHANGED <<part, quarksVars, buf, cargs, logVars>>
QuarksPart == part = "quarks" /\ QuarksNext /\ UNCHANGED <<part, md5, buf, cargs, logVars>>
StringsPart == part = "strings" /\ StringsNext /\ UNCHANGED <<part, md5, quarksVars, cargs, logVars>>
CargsPart == part = "cargs" /\ CargsNext /\ UNCHANGED <<part, md5, quarksVars, buf, logVars>>
LogPart == part = "log" /\ LogNext /\ UNCHANGED <<part, md5, quarksVars, buf, cargs>>
PartsNext == Md5Part \/ QuarksPart \/ StringsPart \/ CargsPart \/ LogPart

----------------------------------------------------------------------------
Symmetry == Permutations(Strings)

\* Bound: two strings are used on while they have at most MaxBoth characters together.
CONSTANT MaxBoth
ShortStrings ==
  \A s, r \in Alive : s # r => buf[s].length + buf[r].length <= MaxBoth

CharsUsed == {"a", "A", " "}
UpperOf == [c \in CharsUsed |-> IF c = "a" THEN "A" ELSE c]
LowerOf == [c \in CharsUsed |-> IF c = "A" THEN "a" ELSE c]
WordsUsed == {<<>>, <<"a">>, <<" ">>, <<"a", "A">>}

(* Four bytes of length, so that the values stay within TLC's integers.     *)
WeightOf == [k \in 0 .. 3 |-> 10 ^ k]

Tag(dashes, name) == [dashes |-> dashes, name |-> name, eq |-> FALSE, value |-> ""]
TagOf(dashes, name, value) == [dashes |-> dashes, name |-> name, eq |-> TRUE, value |-> value]
ArgsUsed ==
  {Tag(1, "w"), Tag(1, "c"), Tag(2, "path"), Tag(2, ""), Tag(0, "7"), Tag(2, "show"),
   TagOf(2, "", "c"), TagOf(1, "c", ""), TagOf(2, "show", "0"), TagOf(2, "count", "x")}
CommandsUsed == {<<"w", "work">>, <<"o", "other">>}
ParamsUsed == {<<"integer", "c", "count", "n">>, <<"string", Nothing, "path", "p">>,
               <<"boolean", "s", "show", "b">>, <<"number", "v", "count", "f">>}
NumberUsed == [t \in {"integer", "number"} |-> [x \in {"7", ""} |-> IF x = "" THEN "0" ELSE x]]
InitialUsed == [n |-> "1", p |-> "REQUIRE", b |-> "false", f |-> "REQUIRE"]

PathsUsed == {<<"d">>, <<"d", "f">>, <<"g">>}

----------------------------------------------------------------------------
(* The functions of cstring.h on texts: the matchers decide what their      *)
(* patterns mean, searches, cuts and splits are those of the text, with the *)
(* exceptions named in Cstring.                                             *)
Patterns == BoundedSeq({"*", "?", "a", " "}, 3) \cup {<<"^", "a">>, <<"a", "$">>, <<"A", "*", "$">>}
CTexts == BoundedSeq({"a", "A", " ", "."}, 4) \cup BoundedSeq({"a", " "}, 6)
CstringAgrees ==
  part = "conversions" =>
    \A w \in CTexts :
      /\ \A p \in Patterns : CS!GlobAgrees(w, p) /\ CS!RegexAgrees(w, p)
      /\ \A t \in Words : CS!FindsAgree(w, t) /\ CS!TrimsAgree(w, t)
      /\ CS!SplitsAgree(w)

(* What one direction of a conversion makes the other one reads back, with  *)
(* the exceptions named in Conversions: base64, UTF-8 and wide characters,  *)
(* hexadecimal digits and colours, the formatted digest, the time zone.     *)
Upto(n, S) == UNION {[1 .. k -> S] : k \in 1 .. n}
Bytes128 == {1, 65, 127, 128, 200, 255}
Leads == {0, 65, 128, 143, 144, 159, 160, 191, 193, 194, 223, 224, 237, 240, 244, 245}
Points == {1, 65, 127, 128, 2047, 2048, 4096, 55295, 55296, 57343, 57344, 65535, 65536, 131072,
           1114111, 1114112, 2097151, 2097152, 67108863, 67108864, 2147483647}
Hexes == [1 .. 8 -> {0, 10}] \cup {[j \in 1 .. 8 |-> k] : k \in 0 .. 15} \cup {<<1, 2, 3, 4, 5, 6, 7, 8>>}
ConversionsAgree ==
  part = "conversions" =>
    /\ \A s \in Upto(4, Bytes128) : CV!Base64Agrees(s)
    /\ \A t \in Upto(4, {0, 27, 63, 64, 65}) \cup Upto(8, {5, 64}) : CV!Base64Inside(t)
    /\ \A cp \in Points : CV!Utf8Agrees(cp)
    /\ \A s \in Upto(4, Leads) : CV!WideAgrees(s)
    /\ \A s, t \in {<<>>} \cup Upto(2, {64, 65, 90, 91, 96, 97, 122, 123, 255}) : CV!CaseAgrees(s, t)
    /\ \A hex \in Hexes : CV!ColoursAgree(hex)
    /\ \A n \in 0 .. 6, hash \in [1 .. 2 -> {0, 9, 10, 171, 255}] : CV!FormatAgrees(n, hash)
    /\ \A minute \in {0, 1, 59, 60, 719, 720, 1379, 1380, 1439}, offset \in {-720, -60, 0, 60, 330, 840} :
         CV!ZoneAgrees(minute, offset)

(* What json_encode writes json_decode reads back: any string, any pair of  *)
(* escaped code units, any value but the booleans in it; what the stack is  *)
(* asked for fits; and json_is_equal holds between equal values, and of     *)
(* some between them only (json.h).                                         *)
Sequences0(n, S) == {<<>>} \cup Upto(n, S)
StringBytes == {0, 1, 8, 34, 47, 65, 92, 117, 127, 200}
Units == {0, 65, 127, 128, 2047, 2048, 55295, 55296, 56319, 56320, 57343, 57344, 65535}
Scalars == {JT!JNull, JT!Scalar("boolean", 0), JT!Scalar("boolean", 1), JT!Scalar("number", 7),
            JT!Scalar("number", 8), JT!Scalar("string", <<>>), JT!Scalar("string", <<65>>)}
Objects(n, S) ==
  {JT!Scalar("object", m) : m \in Sequences0(n, [key : {<<>>, <<65>>, <<34>>}, v : S])}
Arrays(n, S) == {JT!Scalar("array", e) : e \in Sequences0(n, S)}
Flat == Scalars \cup Arrays(2, Scalars) \cup Objects(1, Scalars)
Nested == Flat \cup Arrays(2, Flat) \cup Objects(1, Flat)
Compared == Scalars \cup Arrays(2, Scalars) \cup Objects(2, {JT!JNull, JT!Scalar("number", 7)})
JsonTextAgrees ==
  part = "conversions" =>
    /\ \A size \in {0, 2, 3, 256}, initial \in {2, 256}, pushes \in Sequences0(3, {1, 4, 32, 300}) :
         JT!PushFits(size, pushes, initial)
    /\ \A s \in Sequences0(3, StringBytes), rest \in {<<>>, <<34>>, <<58>>} : JT!StringAgrees(s, rest)
    /\ \A units \in Sequences0(3, Units) : JT!UnitsAgree(units)
    /\ \A v \in Nested : JT!EncodeAgrees(v)
    /\ \A x, y \in Compared : JT!EqualAgrees(x, y)
=============================================================================
