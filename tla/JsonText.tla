------------------------------ MODULE JsonText ------------------------------
(* The texts of json.h: json_encode, what json_decode does with a string,   *)
(* and the operations that only look at values. Characters are bytes; a     *)
(* value is a tree whose strings are sequences of bytes, NUL among them.    *)
EXTENDS Conversions

Quote == 34
Backslash == 92
Slash == 47
Letter == [b |-> 98, f |-> 102, n |-> 110, r |-> 114, t |-> 116, u |-> 117]
(* The characters a letter behind a backslash stands for, and that letter.  *)
Escapes == {<<Quote, Quote>>, <<Backslash, Backslash>>, <<8, Letter.b>>, <<12, Letter.f>>,
            <<10, Letter.n>>, <<13, Letter.r>>, <<9, Letter.t>>}

----------------------------------------------------------------------------
(* json_context_push: the stack grows by its half until there is more room  *)
(* than asked for. pushes are the sizes asked for, one after the other.     *)
(* Mutant: it grows once.                                                   *)
Grown_once(size, need) == size + size \div 2
Grown(size, need) ==
  LET grow[s \in Nat] == IF need >= s THEN grow[s + s \div 2] ELSE s IN grow[size]
json_context_push(c, n, initial) ==
  [top |-> c.top + n,
   size |-> IF c.top + n >= c.size
              THEN Grown(IF c.size = 0 THEN initial ELSE c.size, c.top + n) ELSE c.size]

(* What is pushed fits, also when the stack starts with nothing, and a byte *)
(* is left; the smallest initial size from which a stack can grow is 2.     *)
PushFits(size, pushes, initial) ==
  LET after == FoldLeft(LAMBDA c, n : json_context_push(c, n, initial), [top |-> 0, size |-> size], pushes)
  IN pushes # <<>> => after.top < after.size

----------------------------------------------------------------------------
(* Strings.                                                                 *)

json_stringify_string(s) ==
  LET Char(ch) ==
        IF \E e \in Escapes : e[1] = ch
          THEN <<Backslash, (CHOOSE e \in Escapes : e[1] = ch)[2]>>
        ELSE IF ch < 32 THEN <<Backslash, Letter.u, Zero, Zero, UpperDigit(ch \div 16), UpperDigit(ch % 16)>>
        ELSE <<ch>>
  IN <<Quote>> \o FlattenSeq(Map(Char, s)) \o <<Quote>>

(* Four digits from t[i] on, or -1; behind the text there is NUL.           *)
Char(t, i) == IF i <= Len(t) THEN t[i] ELSE 0
json_parse_hex4(t, i) ==
  LET Digit(c) == CHOOSE d \in 0 .. 16 : d = 16 \/ c \in {LowerDigit(d), UpperDigit(d)}
      d == [k \in 1 .. 4 |-> Digit(Char(t, i + k - 1))]
  IN IF \E k \in 1 .. 4 : d[k] = 16 THEN -1
     ELSE ((d[1] * 16 + d[2]) * 16 + d[3]) * 16 + d[4]

Failed(error) == [ret |-> error, str |-> <<>>, next |-> 0]

(* From the quote at t[1] on: the string, and where the text goes on.       *)
json_parse_string_raw(t) ==
  LET Unescaped(c) == IF c = Slash THEN {Slash} ELSE {e[1] : e \in {x \in Escapes : x[2] = c}}
      raw[i \in 1 .. Len(t) + 1] ==
        LET Put(str, k) == LET r == raw[k] IN IF r.ret = "OK" THEN [r EXCEPT !.str = str \o @] ELSE r
            ch == Char(t, i)
            u == json_parse_hex4(t, i + 2)
            u2 == json_parse_hex4(t, i + 8)
        IN CASE ch = Quote -> [ret |-> "OK", str |-> <<>>, next |-> i + 1]
             [] ch = 0 -> Failed("MISS_QUOTATION_MARK")
             [] ch = Backslash /\ Unescaped(Char(t, i + 1)) # {} ->
                  Put(<<CHOOSE c \in Unescaped(Char(t, i + 1)) : TRUE>>, i + 2)
             [] ch = Backslash /\ Char(t, i + 1) = Letter.u ->
                  CASE u = -1 -> Failed("INVALID_UNICODE_HEX")
                    [] ~High(u) -> Put(json_encode_utf8(u), i + 6)
                    [] Char(t, i + 6) # Backslash \/ Char(t, i + 7) # Letter.u -> Failed("INVALID_UNICODE_SURROGATE")
                    [] u2 = -1 -> Failed("INVALID_UNICODE_HEX")
                    [] ~LowHalf(u2) -> Failed("INVALID_UNICODE_SURROGATE")
                    [] OTHER -> Put(json_encode_utf8((u - 55296) * 1024 + (u2 - 56320) + 65536), i + 12)
             [] ch = Backslash -> Failed("INVALID_STRING_ESCAPE")
             [] ch # Backslash /\ ch # 0 /\ ch < 32 -> Failed("INVALID_STRING_CHAR")
             [] OTHER -> Put(<<ch>>, i + 1)
  IN raw[2]

(* A string of any bytes is written into the room pushed for it and read    *)
(* back; what follows it in the text is left alone.                         *)
StringAgrees(s, rest) ==
  LET t == json_stringify_string(s)
      r == json_parse_string_raw(t \o rest)
  IN /\ Len(t) <= 6 * Len(s) + 2
     /\ r = [ret |-> "OK", str |-> s, next |-> Len(t) + 1]

(* A text of escaped code units, in digits of either case, is accepted when *)
(* every high half of a pair has its low half behind it. What cstring.h     *)
(* makes of the same units is the same text, and read back they are the     *)
(* units, up to the first that is 0; a low half that stands alone makes it  *)
(* refuse both.                                                             *)
Nibbles(u) == <<u \div 4096, (u \div 256) % 16, (u \div 16) % 16, u % 16>>
UnitsAgree(units) ==
  LET Unit(u) == <<Backslash, Letter.u>> \o [k \in 1 .. 4 |-> LET d == Nibbles(u)[k]
                                                              IN IF k = 3 THEN LowerDigit(d) ELSE UpperDigit(d)]
      r == json_parse_string_raw(<<Quote>> \o FlattenSeq(Map(Unit, units)) \o <<Quote>>)
      Follows(i) == i < Len(units) /\ LowHalf(units[i + 1])
      Leads(i) == i > 1 /\ High(units[i - 1])
      seen == BeforeNUL(units)
      whole == \A i \in DOMAIN seen : LowHalf(seen[i]) => Leads(i)
  IN /\ (r.ret = "OK") <=> \A i \in DOMAIN units : High(units[i]) => Follows(i)
     /\ r.ret = "OK" =>
          IF whole THEN strshorten_(units) = BeforeNUL(r.str) /\ strwiden_(r.str) = seen
          ELSE strshorten_(units) = NoText /\ strwiden_(r.str) = NoText

----------------------------------------------------------------------------
(* Values. json_stringify_value gives lexemes; sprintf writes any number    *)
(* into the 32 bytes pushed for it.                                         *)
Scalar(t, x) == [type |-> t, is |-> x]
Lexeme(l, x) == [lexeme |-> l, is |-> x]
Token(l) == Lexeme(l, <<>>)
JNull == Scalar("null", <<>>)
Text(s) == Lexeme("string", json_stringify_string(s))

RECURSIVE json_stringify_value(_)
json_stringify_value(v) ==
  LET Separated(parts) == FlattenSeq([i \in DOMAIN parts |-> IF i > 1 THEN <<Token(",")>> \o parts[i] ELSE parts[i]])
  IN CASE v.type = "null" -> <<Token("null")>>
       [] v.type = "boolean" -> <<Token(IF v.is > 0 THEN "true" ELSE "false")>>
       [] v.type = "number" -> <<Lexeme("number", v.is)>>
       [] v.type = "string" -> <<Text(v.is)>>
       [] v.type = "array" -> <<Token("[")>> \o Separated([i \in DOMAIN v.is |-> json_stringify_value(v.is[i])]) \o <<Token("]")>>
       [] v.type = "object" ->
            <<Token("{")>> \o Separated([i \in DOMAIN v.is |-> <<Text(v.is[i].key), Token(":")>>
                                                     \o json_stringify_value(v.is[i].v)]) \o <<Token("}")>>

(* json_decode of lexemes: json_parse_value at i, the items of an array or  *)
(* object up to the closing bracket, and what is behind the value. A        *)
(* boolean is read where strcmp of the text gives 1, which a library does   *)
(* that gives the sign (build) and not at the end of the text; it is true.  *)
NoValue == [ok |-> FALSE]
Value(v, next) == [ok |-> TRUE, v |-> v, next |-> next]
LexemeAt(t, i) == IF i <= Len(t) THEN t[i].lexeme ELSE "end"
json_parse_string(t, i) ==
  LET r == json_parse_string_raw(t[i].is)
  IN IF r.ret = "OK" THEN Value(Scalar("string", r.str), i + 1) ELSE NoValue
json_parse_boolean(t, i, build) ==
  IF build = "sign" /\ i < Len(t) THEN Value(Scalar("boolean", 1), i + 1) ELSE NoValue

Of(type, r) == IF r.ok THEN Value(Scalar(type, r.v), r.next) ELSE NoValue
Member(key, x) == IF key.ok /\ x.ok THEN Value([key |-> key.v.is, v |-> x.v], x.next) ELSE NoValue
Behind(item, r) == IF r.ok THEN Value(<<item>> \o r.v, r.next) ELSE NoValue
Whole(t, r) == IF r.ok /\ r.next = Len(t) + 1 THEN r ELSE NoValue

RECURSIVE json_parse_value(_, _, _), Items(_, _, _, _)
Item(t, i, close, build) ==
  IF close = "]" THEN json_parse_value(t, i, build)
  ELSE IF LexemeAt(t, i) = "string" /\ LexemeAt(t, i + 1) = ":"
         THEN Member(json_parse_string(t, i), json_parse_value(t, i + 2, build))
         ELSE NoValue
Rest(t, x, close, build) ==
  IF ~x.ok THEN NoValue
  ELSE IF LexemeAt(t, x.next) = "," THEN Behind(x.v, Items(t, x.next + 1, close, build))
  ELSE IF LexemeAt(t, x.next) = close THEN Value(<<x.v>>, x.next + 1) ELSE NoValue
Items(t, i, close, build) == Rest(t, Item(t, i, close, build), close, build)
json_parse_value(t, i, build) ==
  LET l == LexemeAt(t, i)
      Open(type, close) ==
        IF LexemeAt(t, i + 1) = close THEN Value(Scalar(type, <<>>), i + 2)
        ELSE Of(type, Items(t, i + 1, close, build))
  IN CASE l \in {"true", "false"} -> json_parse_boolean(t, i, build)
       [] l = "null" -> Value(JNull, i + 1)
       [] l = "string" -> json_parse_string(t, i)
       [] l = "[" -> Open("array", "]")
       [] l = "{" -> Open("object", "}")
       [] l = "number" -> Value(Scalar("number", t[i].is), i + 1)
       [] OTHER -> NoValue
json_decode(t, build) == Whole(t, json_parse_value(t, 1, build))

(* A value without booleans that is encoded is decoded as it was. With      *)
(* booleans it is refused, but where strcmp gives the sign and the text     *)
(* does not end with one: then all of them are true. r is what comes back   *)
(* of v, written as t.                                                      *)
ReadAgain(v, t, r, build) ==
  LET booleans == {i \in DOMAIN t : t[i].lexeme \in {"true", "false"}}
  IN /\ r.ok <=> booleans = {} \/ (build = "sign" /\ v.type # "boolean")
     /\ r.ok => json_stringify_value(r.v) = [i \in DOMAIN t |-> IF i \in booleans THEN Token("true") ELSE t[i]]
     /\ booleans = {} => r.v = v
EncodeAgrees(v) ==
  \A build \in {"sign", "difference"}, t \in {json_stringify_value(v)} :
    ReadAgain(v, t, json_decode(t, build), build)

(* json_is_equal returns after the first element of an array; of objects    *)
(* and booleans it compares only the type.                                  *)
RECURSIVE json_is_equal(_, _)
json_is_equal(x, y) ==
  /\ x.type = y.type
  /\ x.type \in {"string", "number"} => x.is = y.is
  /\ x.type = "array" =>
       Len(x.is) = Len(y.is) /\ (x.is # <<>> => json_is_equal(x.is[1], y.is[1]))

(* It never tells equal values apart, in either order; and what it calls    *)
(* equal to a value without booleans, objects and arrays of several         *)
(* elements is that value.                                                  *)
RECURSIVE ComparedWhole(_)
ComparedWhole(v) ==
  CASE v.type \in {"boolean", "object"} -> FALSE
    [] v.type = "array" -> v.is = <<>> \/ (Len(v.is) = 1 /\ ComparedWhole(v.is[1]))
    [] OTHER -> TRUE
EqualAgrees(x, y) ==
  /\ x = y => json_is_equal(x, y)
  /\ json_is_equal(x, y) <=> json_is_equal(y, x)
  /\ ComparedWhole(x) /\ json_is_equal(x, y) => x = y
=============================================================================
