-------------------------------- MODULE Cargs --------------------------------
(* The command line of cargs.h. The application declares commands, and the  *)
(* parameters of the command declared last, each bound to a variable of its *)
(* own; cargs_run selects a command by the first argument and walks through *)
(* the others, storing into those variables until something is wrong.       *)
(*                                                                          *)
(* An argument is what its characters make of it: up to two dashes, a name, *)
(* and a value behind "=". A text is a member of Texts; an argument with    *)
(* dashes that is taken as a value is Dashed, which is no number.           *)
EXTENDS Integers, Sequences

CONSTANTS
  Capacity,        \* _CARGS_COMMAND_CAPACITY
  CommandsGiven,   \* <<letter, name>> the application declares
  ParamsGiven,     \* <<type, letter, name, ptr>> it declares
  MaxDeclared,     \* bound: declarations
  Args, MaxArgs,   \* arguments, and a bound on their number
  OneLetter,       \* texts of one character
  Number,          \* [{"integer", "number"} -> function from texts: strtol, strtod]
  Initial,         \* what the variables hold before
  Nothing          \* NULL, and a result that is not there yet

Types == {"boolean", "integer", "number", "string"}
ASSUME CargsAssumption ==
  /\ \A p \in ParamsGiven : p[1] \in Types
  /\ MaxArgs \in Nat
  /\ Nothing \notin {"text", "param"}

VARIABLES
  list,            \* _cargs_list
  variables,       \* the application's variables, [ptr -> text]
  argv, index,     \* the arguments behind the path, and the loop's counter
  selected,        \* the command found, an index into list
  phase,           \* "declare", "select", "loop", "check", "done", "assert"
  code, extra      \* the result, and body->extra

cargsVars == <<list, variables, argv, index, selected, phase, code, extra>>

Empty == ""
Dashed == "-"
REQUIRE == "REQUIRE"   \* CARGS_REQUIRE_INTEGER, _NUMBER and _STRING

_cargs_is_end_tag(a) == a.dashes = 2 /\ a.name = Empty /\ ~a.eq
_cargs_is_name_tag(a) == a.dashes = 2 /\ (a.name # Empty \/ a.eq)
(* The third character "=" makes a letter tag of "--=v" too.                *)
_cargs_is_letter_tag(a) ==
  (a.dashes = 1 /\ a.name \in OneLetter) \/ (a.dashes = 2 /\ a.name = Empty /\ a.eq)
IsTag(a) == _cargs_is_letter_tag(a) \/ _cargs_is_name_tag(a)

(* The text behind the dashes, up to "=" and from it on: for "--=v" three   *)
(* characters are skipped, and the value stands where the name should.      *)
_cargs_get_tag_value(a) ==
  IF _cargs_is_letter_tag(a) /\ _cargs_is_name_tag(a)
  THEN [name |-> a.value, eq |-> FALSE, value |-> Empty]
  ELSE [name |-> a.name, eq |-> a.eq, value |-> a.value]
ArgText(a) == IF a.dashes = 0 THEN a.name ELSE Dashed

CargsInit ==
  /\ list = <<>> /\ variables = Initial /\ argv = <<>> /\ index = 0 /\ selected = 0
  /\ phase = "declare" /\ code = Nothing /\ extra = Nothing

Declared == LET n[k \in 0 .. Len(list)] == IF k = 0 THEN 0 ELSE n[k - 1] + 1 + Len(list[k].params)
            IN n[Len(list)]

cargs_command(letter, name) ==
  /\ phase = "declare" /\ Declared < MaxDeclared
  /\ IF Len(list) < Capacity
     THEN /\ list' = Append(list, [letter |-> letter, name |-> name, found |-> FALSE, params |-> <<>>])
          /\ UNCHANGED phase
     ELSE phase' = "assert" /\ UNCHANGED list
  /\ UNCHANGED <<variables, argv, index, selected, code, extra>>

(* A parameter goes behind those of the last command.                       *)
_cargs_add_param(type, letter, name, ptr) ==
  /\ phase = "declare" /\ Declared < MaxDeclared
  /\ IF Len(list) > 0
     THEN /\ list' = [list EXCEPT ![Len(list)].params =
                        Append(@, [type |-> type, letter |-> letter, name |-> name,
                                   ptr |-> ptr, found |-> FALSE])]
          /\ UNCHANGED phase
     ELSE phase' = "assert" /\ UNCHANGED list
  /\ UNCHANGED <<variables, argv, index, selected, code, extra>>

(* cargs_new, and the call of cargs_run.                                    *)
cargs_new(v) ==
  /\ phase = "declare" /\ phase' = "select" /\ argv' = v
  /\ UNCHANGED <<list, variables, index, selected, code, extra>>

(* The first entry with this letter or name, whichever the text's length    *)
(* asks for; 0 for NULL.                                                    *)
FirstOf(S) == IF S = {} THEN 0 ELSE CHOOSE k \in S : \A j \in S : k <= j
Named(e, t) == IF t \in OneLetter THEN e.letter = t ELSE e.name = t
_cargs_find_command(t) == FirstOf({k \in 1 .. Len(list) : Named(list[k], t)})
_cargs_find_param(c, t) == FirstOf({k \in 1 .. Len(list[c].params) : Named(list[c].params[k], t)})

ReturnCode(c, e) == phase' = "done" /\ code' = c /\ extra' = e

(* The first argument selects; a name is looked up with its "=" and value,  *)
(* which no command is called.                                              *)
Selects == Len(argv) > 0 /\ _cargs_is_letter_tag(argv[1])
Select ==
  /\ phase = "select"
  /\ UNCHANGED <<variables, argv>>
  /\ \/ /\ ~Selects
        /\ ReturnCode("MISSING_COMMAND", extra) /\ UNCHANGED <<list, index, selected>>
     \/ /\ Selects
        /\ LET t == _cargs_get_tag_value(argv[1])
               c == IF t.eq THEN 0 ELSE _cargs_find_command(t.name)
           IN IF c = 0
              THEN ReturnCode("UNKNOWN_COMMAND", "text") /\ UNCHANGED <<list, index, selected>>
              ELSE /\ selected' = c /\ list' = [list EXCEPT ![c].found = TRUE]
                   /\ index' = 2 /\ extra' = "text"
                   /\ phase' = IF list[c].params = <<>> THEN "check" ELSE "loop"
                   /\ UNCHANGED code

(* The loop goes on behind what was parsed. Mutant: behind the tag.         *)
GoOn_tag(next) == index' = index + 1
GoOn(next) == index' = next

(* _cargs_parse: the value stored, or the error.                            *)
ParsedText(type, t) ==
  CASE type = "boolean" ->
         IF t \in {"true", "1"} THEN [err |-> "OK", value |-> "true"]
         ELSE IF t \in {"false", "0"} THEN [err |-> "OK", value |-> "false"]
         ELSE [err |-> "INVALID_VALUE", value |-> Nothing]
    [] type \in {"integer", "number"} ->
         IF t \in DOMAIN Number[type] THEN [err |-> "OK", value |-> Number[type][t]]
         ELSE [err |-> "MISSING_VALUE", value |-> Nothing]
    [] type = "string" -> [err |-> "OK", value |-> t]

_cargs_parse(p, t, next) ==
  LET prm == list[selected].params[p]
      r == ParsedText(prm.type, t)
  IN IF r.err = "OK"
     THEN /\ variables' = [variables EXCEPT ![prm.ptr] = r.value]
          /\ list' = [list EXCEPT ![selected].params[p].found = TRUE]
          /\ GoOn(next) /\ extra' = "param" /\ UNCHANGED <<phase, code>>
     ELSE ReturnCode(r.err, "param") /\ UNCHANGED <<variables, list, index>>

(* One round of the loop: another one may use up two arguments.             *)
Round ==
  /\ phase = "loop" /\ index <= Len(argv)
  /\ UNCHANGED <<argv, selected>>
  /\ LET a == argv[index]
         t == _cargs_get_tag_value(a)
         p == _cargs_find_param(selected, t.name)
     IN \/ /\ _cargs_is_end_tag(a)
           /\ ReturnCode("OK", extra) /\ UNCHANGED <<list, variables, index>>
        \/ /\ ~_cargs_is_end_tag(a) /\ ~IsTag(a)
           /\ index' = index + 1 /\ UNCHANGED <<list, variables, phase, code, extra>>
        \/ /\ IsTag(a) /\ p = 0
           /\ ReturnCode("UNKNOWN_PARAM", Nothing) /\ UNCHANGED <<list, variables, index>>
        \/ /\ IsTag(a) /\ p # 0 /\ t.eq
           /\ _cargs_parse(p, t.value, index + 1)
        \/ /\ IsTag(a) /\ p # 0 /\ ~t.eq /\ list[selected].params[p].type = "boolean"
           /\ _cargs_parse(p, "true", index + 1)
        \/ /\ IsTag(a) /\ p # 0 /\ ~t.eq /\ list[selected].params[p].type # "boolean"
           /\ IF index + 1 > Len(argv)
              THEN ReturnCode("MISSING_VALUE", "param") /\ UNCHANGED <<list, variables, index>>
              ELSE _cargs_parse(p, ArgText(argv[index + 1]), index + 2)

LoopEnds ==
  /\ phase = "loop" /\ index > Len(argv) /\ phase' = "check"
  /\ UNCHANGED <<list, variables, argv, index, selected, code, extra>>

(* A boolean never is without a value; others are while they are REQUIRE.   *)
_cargs_is_non_val(p) == p.type # "boolean" /\ variables[p.ptr] = REQUIRE
_cargs_check_require ==
  /\ phase = "check"
  /\ IF \E p \in 1 .. Len(list[selected].params) :
          LET prm == list[selected].params[p] IN ~prm.found /\ _cargs_is_non_val(prm)
     THEN ReturnCode("MISSING_PARAM", "text")
     ELSE ReturnCode("OK", extra)
  /\ UNCHANGED <<list, variables, argv, index, selected>>

CargsNext ==
  \/ \E c \in CommandsGiven : cargs_command(c[1], c[2])
  \/ \E p \in ParamsGiven : _cargs_add_param(p[1], p[2], p[3], p[4])
  \/ \E n \in 0 .. MaxArgs : \E v \in [1 .. n -> Args] : cargs_new(v)
  \/ Select \/ Round \/ LoopEnds \/ _cargs_check_require

CargsSpec == CargsInit /\ [][CargsNext]_cargsVars

----------------------------------------------------------------------------
(* What a command line means, read as a whole: each argument behind the     *)
(* command is a value if the one before it is a tag that needs one, and     *)
(* otherwise a tag or a text to be skipped.                                 *)
ParamOf(a) == _cargs_find_param(selected, _cargs_get_tag_value(a).name)
TypeOf(a) == list[selected].params[ParamOf(a)].type
NeedsValue(a) ==
  IsTag(a) /\ ParamOf(a) # 0 /\ ~_cargs_get_tag_value(a).eq /\ TypeOf(a) # "boolean"
IsValue ==
  LET f[k \in 1 .. Len(argv)] == k > 2 /\ ~f[k - 1] /\ NeedsValue(argv[k - 1]) IN f
Ending(k) == ~IsValue[k] /\ _cargs_is_end_tag(argv[k])
TextOf(k) ==
  LET t == _cargs_get_tag_value(argv[k])
  IN IF t.eq THEN t.value ELSE IF NeedsValue(argv[k]) THEN ArgText(argv[k + 1]) ELSE "true"
Failure(k) ==
  IF ParamOf(argv[k]) = 0 THEN "UNKNOWN_PARAM"
  ELSE IF NeedsValue(argv[k]) /\ k = Len(argv) THEN "MISSING_VALUE"
  ELSE ParsedText(TypeOf(argv[k]), TextOf(k)).err
Tags == {k \in 2 .. Len(argv) : ~IsValue[k] /\ IsTag(argv[k])}
Stops == {k \in 2 .. Len(argv) : Ending(k) \/ (k \in Tags /\ Failure(k) # "OK")}
StoredFor(ptr) ==
  {k \in Tags : /\ \A s \in Stops : k < s
                /\ list[selected].params[ParamOf(argv[k])].ptr = ptr}
LastOf(S) == CHOOSE k \in S : \A j \in S : j <= k

(* A run stores what comes before the first argument that is wrong or the   *)
(* end tag, the later of two values for one variable, also when it then     *)
(* fails; the code is that of this argument; and when it reports success    *)
(* every required value is there, unless the end tag cut the check off.     *)
RunAgrees ==
  phase = "done" /\ selected # 0 /\ list[selected].params # <<>> =>
    /\ \A ptr \in DOMAIN variables :
         variables[ptr] =
           IF StoredFor(ptr) = {} THEN Initial[ptr]
           ELSE LET k == LastOf(StoredFor(ptr)) IN ParsedText(TypeOf(argv[k]), TextOf(k)).value
    /\ Stops # {} => LET k == FirstOf(Stops)
                     IN code = IF Ending(k) THEN "OK" ELSE Failure(k)
    /\ Stops = {} => code \in {"OK", "MISSING_PARAM"}
    /\ code = "OK" /\ Stops = {} =>
         \A p \in 1 .. Len(list[selected].params) :
           LET prm == list[selected].params[p] IN _cargs_is_non_val(prm) => prm.found
    /\ \A c \in 1 .. Len(list) : list[c].found <=> c = selected
    /\ (extra = Nothing) <=> (code = "UNKNOWN_PARAM")
=============================================================================
