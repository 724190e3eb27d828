# Verification of c-pure-tools

c-pure-tools is a header-only C library: reference counted objects, containers
that hold them, a polled timer queue, a mark and sweep collector, a JSON reader
and writer, digests, strings and helpers. It is single threaded. What is hard in
it is not concurrency of threads but order: a handler that loops while a callback
uses the same structure, a reference that is given back before or after it is
used, an error in the middle of a loop, a pointer or a counter that a branch
forgot at size 0 or 1, a block of memory that grows while it is read, a clock that
starts again at midnight.

This directory holds TLA+ modules of those parts, the TLC configurations that
check them, and proofs that TLAPS checks. `src/files/*.h` is the code;
`src/tools.h` is its concatenation, made by `build.py`. All line numbers below
are those of `src/files/`.

## 1. Inventory

State, operations, what is hard, and where it is modelled.

| Component | State | Operations | Hard about it | Status |
|---|---|---|---|---|
| object.h | `gcCount`, `gcMark`, `gcFreeze`, `gcNext`, type code | init, retain, release (frees at 0), free | every container retains and releases on its own; order of release and use | counts in `Object`, marks and links in `Gallector` |
| block.h, cursor.h, chain.h | `head`, `tail`, `size`, `cursor`, `retain`; `next`, `last`, `data` of a block | push, pop at both ends, clear, free, clone, reverse, cursor moves, foreach | pointer surgery in six branches, loops on the chain's own cursor, a callback inside foreach, reverse through a temporary clone | `Chain` |
| queue.h, stack.h | those of a chain | the handlers of chain.h under other names and ends | a Stack has the type code of a String | `Chain` |
| hashmap.h, hashkey.h | bucket table, node lists, retain flag | set, set by check, get, del, clear, free, foreach, copy | deletion in a collision list, a refused replacement, keys are printf templates, a callback in the loop | `Hashmap` |
| array.h | `elements`, `length`, `capacity`, retain and nullable flags | set, get, del, insert, push, pop, clear, sort, find, slice, copy, foreach | growth by a step, realloc that fails, writes at the boundary, NULL elements, copies of arrays into themselves | `Array` |
| timer.h | one global queue; `time`, `func`, `next` of a timer | delay, cancel, clean, each, check, loop | functions call the queue again, the second of the day wraps, the loop must end | `Timer` |
| gallector.h | list head, count; pools with `size` and `object` | add, sweep, pool get, pool return | list and pool share `gcNext`, the pool keeps its depth in `gcCount`, the freeer uses the pools inside a sweep | `Gallector` |
| json.h, decode | position, a byte stack, the activations of a recursive descent | `json_decode` and the parsers below it | an error at any depth frees what that depth collected, and no more | `JsonDecode` |
| json.h, values | `size`, `capacity` and block of a string, array or object | set, add, delete, set by index, clear, copy, move, swap, free | values are copied as structs, capacity after deletions and after a decode | `JsonTree` |
| json.h, texts | a growing output stack | encode, strings with their escapes, equality | surrogate pairs, growth by halves, equality returns inside its loop | `JsonText` |
| string.h | `data`, `length`, `capacity` | append, prepend, insert, cut, replace, find, trim, repeat, case | capacity and length on each of twenty writers, arguments that are the string's own data | `StringBuffer` |
| cstring.h | the block of interned strings | match, search, cut in place, split, intern, UTF-8, wide characters | growth of the block counts room twice, cutting copies over itself | `Cstring`, `Quarks`, `Conversions` |
| md5.h | state, 64 byte cache, length | init, update, finalize, format | partial blocks, padding that needs a block more, the length's carry | `Md5`, `Conversions` |
| cargs.h | table of commands and parameters, the application's variables | declare, run | required values against defaults, errors after values were stored | `Cargs` |
| log.h | settings and an open stream | settings, log | the stream's offset against other writers of the file | `Log` |
| tools.h | files | read, write, copy, rename, remove, create directories, colours, digits | copies that fail half way, paths of several levels | `Files`, `Conversions` |
| base64.h | none | encode, decode, sizes | padding, signed char | `Conversions` |
| time.h | none | second of the day, time zone, formatted dates, sleep | midnight | the clock in `Timer`, the zone in `Conversions` |
| helpers.h, header.h | none | dispatch of frees, type codes, allocator | two kinds with one code | in `Chain` |
| math.h | none | floating point one-liners | nothing | not modelled |
| foliage.h | two pointers | set by hand | none; nothing in src/ uses it | not modelled |
| src/tools.h, build.py, test.c, test.h | | the generated file and a demonstration | none | not modelled |

How they interact: every container starts with the fields of object.h and calls
`Object_retain` and `Object_release` on its elements when its retain flag is
set. Release goes through `pct_object_free` (helpers.h), which dispatches on the
type code. Queue and Stack are Chains under the macros of header.h. Hashmap and
json.h build their keys with string.h. Timer reads time.h. Log writes to files the
application may also use through tools.h. A missing or NULL element reaches
`tools_error` (tools.h), which ends the program. The parts from string.h on in the
table share no state with the containers or with each other, the log and the file
functions excepted, which are modelled together.

`PROJECT.json` lists under `hazards` where each of these bites, line by line,
with the properties that would notice.

## 2. Modules

| Module | Models | Checked in |
|---|---|---|
| `Object` | reference counts and the references the application owns; extended by the containers | |
| `Deque` | what a chain promises: a sequence | |
| `Chain` | chain.h, block.h, cursor.h, queue.h, stack.h | `MCChain` |
| `ChainDeque` | the refinement from `Chain` to `Deque` | `MCChainDeque` |
| `Links` | a linked list read as a sequence, for `ChainDeque` and `TimerEntries` | |
| `ChainProof` | theorems about `Chain` and `ChainDeque` | |
| `TimerQueue` | what the timer queue promises: a sorted sequence | |
| `Timer` | timer.h with the clock of time.h | `MCTimer` |
| `TimerEntries` | the refinement from `Timer` to `TimerQueue` | `MCTimer` |
| `TimerProof` | theorems about `Timer` | |
| `KeyMap` | what a hashmap promises: values by key | |
| `Hashmap` | hashmap.h, hashkey.h | `MCHashmap` |
| `HashmapEntries` | the refinement from `Hashmap` to `KeyMap` | `MCHashmap` |
| `HashmapProof` | theorems about `Hashmap` | |
| `Vector` | what an array promises: a sequence with places | |
| `Array` | array.h | `MCArray` |
| `ArrayVector` | the refinement from `Array` to `Vector` | `MCArray` |
| `ArrayProof` | theorems about `Array`: memory, counts, how the program ends, its loops, its calls as steps of `Vector` | |
| `ListLemmas` | lemmas about numbers, sequences and linked lists that the proofs share | |
| `Gallector` | gallector.h | `MCGallector` |
| `ObjectsProof` | theorems about `Gallector` and `StringBuffer` | |
| `JsonDecode` | the decoder of json.h, and the grammar as an automaton to compare it with | `MCJsonDecode` |
| `JsonTree` | the values of json.h and the operations that change them | `MCJsonTree` |
| `JsonTreeProof` | theorems about `JsonTree` | |
| `Libc` | strlen, strstr, strspn, memmove and the like on sequences; used by the next three | |
| `StringBuffer` | string.h | `MCParts` |
| `Cstring` | the pure functions of cstring.h | `MCParts` |
| `Quarks` | strput and strget of cstring.h | `MCParts` |
| `Md5` | the streaming of md5.h | `MCParts` |
| `PartsProof` | theorems about `Quarks`, `Md5`, `JsonDecode`, `Log`, `Cargs` and `Conversions` | |
| `Cargs` | cargs.h | `MCParts` |
| `Files` | the file functions of tools.h over a small file system | through `Log` |
| `Log` | log.h, next to calls of `Files` | `MCParts` |
| `Conversions` | base64.h, UTF-8 and wide characters, case, colours, the digest's digits, the time zone | `MCParts` |
| `JsonText` | encoding, decoding, the stack's growth and equality of json.h | `MCParts` |

Conventions. An identity (object, block, chain, timer) is a model value: an
address malloc may return. A pointer is an identity or NULL. A handler without
a loop or a callback is one action that makes every change the handler makes. A
handler with one is entered by an action and then runs one iteration per step;
a variable (`call`, `stack`, `sweep`, `frames`) says where it is. Names of
handlers are those of the source; actions named `App...` are the calls the
application makes, with their arguments chosen freely. Auxiliary variables are
named as such in the header of each module and no guard of the code reads them:
`held` counts the references of the application, `leaked` those nobody can give
back any more, and so on. A definition marked as a mutant is not part of the
specification: it is a plausible bug of the definition that follows it, kept to
show that a property notices.

### Chain

`head`, `tail`, `size`, `cursor`, `retain`, `kind` are the fields of
`struct _Chain`; `data`, `next`, `last` those of a block; `live` and `alive` are
what is allocated. `call` is the running handler: its loop, the chain it was
called for and the second chain of a clone or reverse; `iter` is the cursor a
foreach allocates. Freeing a block clears nothing in the cursors that point at
it, so a cursor may dangle, and the model keeps it dangling. `Chain_reverse` is
modelled as the code does it: clone, clear the clone's retain flag, clear the
chain, push back, release the clone through `pct_object_free`. There the type
code matters: header.h gives `PCT_OBJ_STRING` and `PCT_OBJ_STACK` one code, so
the clone of a stack is freed as a String (`ReverseRelease`).

NULL payloads are legal in a chain that does not retain. The loops stop at
them, because they test the payload and not the block; `Deque` states what
becomes of a clear, a clone and a reverse then.

### Timer

Times are half seconds, so that the 0.00001 second that `timer_delay` makes of
0 lies between two seconds. `stack` holds the activations of `timer_loop`,
`timer_check`, `timer_each` and of timer functions, the innermost last: a timer
function may call any of them again. `place` says whether a timer is free,
queued, running or lost. A cancelled timer that comes due is unlinked and not
freed (timer.h:61-65): it is lost. `clock` wraps at `Day`.

### Hashmap

A bucket is a sequence of nodes, newest first. `Hashmap_del` of the first node
of a bucket drops the whole bucket (hashmap.h:146): the model does so, and
`leaked` counts the retains that go with it. `Format` stands for
`String_format`: keys are templates, formatted again by a copy. A replacement
that the application's check refuses goes on to the insertion, so a key may get
two nodes; `rejected` remembers for which keys that happened.

### Array

`elements[a]` is the memory that realloc returned, a function on its indices; a
write outside it is recorded in `outside`. `Capacity` and `Room` are
`_array_check_resize`. `fault` tells how the program ended: `tools_error` on a
NULL element, or a retain of an object that was just freed. `copyTo` and `slice`
run one element per step, from an array into another or into itself. `Array_find`
is an operator, compared with a search over the content.

### Gallector

The collector's list and each pool link objects through `gcNext`; `where` says
in which of them an object is. A sweep keeps two local pointers, `sweep`, and
visits one object per step. The freeer is the application's and does what the
one in gallector.h:129-133 does, return the object to its pool, or free it; before
it returns it may take other objects with `Gache_get`, which puts them before the
head of the list the sweep is working on. `fresh` are the objects put there while
the sweep goes on. Where the sweep has kept nothing yet, its next removal writes
the head it knew, and the fresh objects are in no list any more: `Dropped`, place
"lost".

### JsonDecode

The text is a sequence of lexemes chosen while it is read. `stack` is
`c.stack`, an entry for each value or member; `frames` are the activations of
`json_parse_array` and `json_parse_object`. A value is its type and the number
of heap blocks it owns, so `blocks` tells leaks and double frees apart from
correct frees. `json_parse_boolean` compares `strcmp(...)` with 1; what strcmp
returns is the C library's choice, and `build` says which.

### JsonTree

`heap[b]` are the cells of block `b`, `live` the blocks that are allocated, and
the cells of `App` the variables of the application. A value holds its own size
and capacity, as `struct JValue` does; a copy of a value is a second struct that
points at the same block, which is why `json_array_add_element` and `json_move`
decide who owns it. `Capacity` and `Resized` are the two check_resize functions.
`raw` marks a value that `json_decode` made: json.h:413 sets no capacity, so it
is whatever lay on the stack, and `Garbage` says what that may be. `fault` tells
how the program ended: a write outside a block, or a failed assertion. Members
of an object have a key, which is a block of its own. Key texts, and what the
numbers are, do not matter to the properties and are left out; `MIN` is 2
instead of 10.

### StringBuffer

A buffer is the record `[data, length, capacity, fault]`. `data` are the bytes up
to the terminator. Each operation of string.h is a function on buffers, made of
the moves and writes of the code, so that a byte nobody wrote comes out as `Junk`.
`Strings` are two buffers, and an action changes one by an operation, with a text or the
other buffer as argument; `SetToOwn` and `OwnAppended` pass a string its own data.
`check_capacity` doubles an int. Its guard `capacity * 2 < INT_MAX` (string.h:35) is
computed in that int, so from half of INT_MAX on it does not stop the loop but
overflows, and what the program does then is undefined. The model ends there, with a
`fault`, and never says that the doubling stopped. INT_MAX is odd (`StringsAssumption`),
so a doubled capacity is never equal to it, and the branch for a capacity of 0 or less
(string.h:37) belongs to an overflow that has happened. A fault is the last thing that
happens to a string: `overflow`; `unchecked`, a write behind the block by
`String_prependArr`, which asks for no room; `stale`, a read of the block that
realloc may have moved while its text was being appended to itself; and `outside`,
a write behind the block by any other operation, which `BufferOK` excludes. It also says
which capacity each of the others needs.
`String_findAll` is a recursive function of the place it looks from; its block has
`FindSize` ints (128 in the code), and `outside` tells a cell behind it.

### Cstring, Quarks, Conversions

`Cstring` has the matchers (the backtracking of `strmatch` and of `strregex`, in
functions on positions), the searches, and the functions that cut in place: each is
the memory the code leaves, with what lies behind the terminator as `Junk`.
`strfindr` of an empty text leaves the text it searches (`Lost`): strstr finds it at the
terminator, and the next search begins behind that.
`Quarks` has the growing block of interned strings: `quarks` the bytes, `quarklen`
and `quarkcap` its counters, `keys` the keys that were handed out with their texts.
`twice` is the room that is counted twice after a growth, `outside` that a string
was written behind the block. `Conversions` are operators on numbers: the loops over
bits become arithmetic (an or of disjoint bits is a sum), and where the code's or
meets bits that are set already (base64.h:82), the model keeps the set bits too.
The functions on wide characters stop at the first 0, as the code's loops do; NULL is
`NoText`, a place behind the end `Past`, and `Allotted` the six bytes for each one that
`strwiden` and `strshorten` ask malloc for.

### Md5

`ctx` has the registers abstracted to the sequence of blocks that were processed,
the cache and the length. `md5_update` is entered by an action and cuts the chunk
step by step: the fast path takes whole blocks from the chunk, the slow path fills
the cache (`UpdateFast`, `UpdateSlow`). The n-th byte of the message is the
number n. `Block`, `Field`, `Base` and `Half` are 64, 8, 256 and 2^32 in the code.
The 64 rounds of `md5_update_block` are not modelled: they depend on nothing but
the registers and the block, and two digests are equal here when the same blocks
went in.

### Cargs, Files, Log

An argument of `Cargs` is a record of its dashes, name and value. The application
declares commands and parameters in any order the API takes, then `cargs_run` walks
the arguments one per step; `phase` "assert" is a failed assertion. `Files` has a tree
of paths; a file is the sequence of pieces written to it. `Log` keeps one stream
open on a file of that tree, with an offset of its own, that follows its file
through a rename and keeps it when the path is removed.

### JsonText

Strings are bytes, values are trees. `json_stringify_string` and
`json_parse_string_raw` are written out over bytes; values are encoded to lexemes
and read back by json.h's own decoder, `json_decode`, with both kinds of strcmp. So
`EncodeAgrees` says what becomes of a boolean: a text that has one is refused, or, where
strcmp gives the sign and something follows it, all its booleans are true.
`UnitsAgree` compares escaped code units with `strshorten_` and `strwiden_`, which see
them up to the first 0. `EqualAgrees` compares `json_is_equal` with equality and says for
which values (`ComparedWhole`) the two are the same. `json_context_push` is the growth of
the stack by its half.

## 3. Runs

All but `json_true` and `log_test` must pass. Times are with two workers.

| Run | Question | Bounds |
|---|---|---|
| `chain_core` | Is the pointer structure a doubly linked list with an exact size and exact reference counts after every step of every handler, does no loop step through a freed block, revive a freed object or fail to return? | one object, two queues or stacks, three blocks, two elements each, one reference held; no symmetry (liveness); 90 s |
| `chain_deque` | Does the list implement the sequence of `Deque`, and what is lost in a reverse? | chains and stacks; two objects and NULL as payloads, three elements, six blocks; 110 s |
| `timer_core` | Is no timer lost, early, run twice or run after it was cancelled, whatever the functions call? | three timers, a day of three seconds, three activations; 10 s |
| `timer_loop` | Does `timer_loop` get to every timer that is due? | two timers, one activation above the loop; 4 s |
| `hashmap` | Counts, duplicates and values of maps, with callbacks and refused replacements, and what a copy carries over | two maps, two colliding keys, one with percent signs, which a copy stores under a third key in another bucket; up to three nodes in one map, two in two; 115 s |
| `array_core` | Memory, counts, ends and values of arrays, and what copies and slices carry over | two objects, two arrays, growth by 2 up to length 3, four elements in both between calls, any number inside one, failing realloc; 140 s |
| `gallector` | Does a sweep free exactly what was neither marked nor frozen, and return, whatever the freeers take meanwhile? | three objects, pools of size 0 and 1; 60 s |
| `json_texts` | Does the decoder accept the grammar, leave its stack empty, own every block and return? | all texts of up to seven of thirteen lexemes, both kinds of strcmp; 20 s |
| `json_values` | Are the values a tree with one owner for each block, and when is an element written outside its block? | three blocks, two variables, up to five elements; 60 s |
| `json_true` | violation: is the text `true` decoded? | texts of up to two lexemes; 1 s |
| `parts` | The parts that share no state: strings, cstring functions, interned strings, digests, command lines, files and the log, conversions, JSON texts | see below; 140 s |
| `log_test` | violation: does the first call of the test program return? | the log alone; 2 s |

`parts` runs six components side by side. `part` is chosen in the initial state and
only the actions of that part are enabled in a behaviour, so each component has
exactly the behaviours it has alone: nothing is lost by the composition, and no
product of state spaces arises, because the parts share no variable. The purely
functional modules (`Cstring`, `Conversions`, `JsonText`) have no behaviour; their
properties are evaluated in the one state of the part "conversions", over the sets
of inputs `MCParts` names.

Why the bounds are enough. The branches of chain.h distinguish a chain with no
block, one, and more; a third element gives a reversal a middle and
`chain_deque` has it. A clone or a reverse needs as many blocks again: with three
blocks `chain_core` clones chains of one element, `chain_deque` of three. Two chains
are enough, as no handler takes more than a chain and its temporary. In the timer
queue an insertion has a place before, between and behind others with three timers,
and two of them may be due in the same second; two passes of midnight fit between
the delays because a day is three seconds. Two colliding keys, one of them twice,
make a bucket with a first, a middle and a last node, and two maps are a source and
a target. An array of length 3 that grows by 2 is reallocated twice and is full at
2; two elements copied behind two others let the order of a copy, and a
reallocation that fails in the middle of one, show. Three objects give a collector's list a head, a middle and an end, and let a
freeer take one while another is behind. Seven lexemes are a nesting of two with an
entry at each level and an error below. With a least capacity of 2, five elements
fill and enlarge a container several times and, deleted again, bring it below half
its capacity; three blocks nest a container with a key in another. A string
alone has up to five characters, two together up to three (`ShortStrings`, between calls).
Five characters hold two matches with one between, and a rest before and behind. Blocks start
at 3 bytes, are doubled once, and overflow an int of up to 7 when doubled again; a block that
is full, one with room, one that moves and one that overflows all occur. The three
characters are a letter, its capital and a blank. Two cells for findAll
are fewer than there are places, so that a match alone at the last of them and two
matches of which the second goes behind the block both occur. With blocks of 8
and a field of 4, 26 bytes fill three blocks, end at every offset and need a block
more for the length; a carry happens from 13 bytes on. Interned texts of up to four
letters in 24 bytes grow the block several times. Three arguments are a command, a tag
and its value, or three tags of one; ten arguments include each form the code tells
apart. Three paths are a directory, a file in it and another. Patterns of three
items against texts of four (six of two letters) put a star before, between and
behind others. The bytes, code points, surrogates and colours are the ends of each
range the code distinguishes, and one number between.

Named bounds: `MaxHeld`, `MaxSize`, `MaxLeaked`, `MaxDepth`, `MaxNodes`,
`MaxLength`, `MaxBoth`, `MaxCount`, `MaxText`, `MaxLexemes`, `MaxTotal`, `MaxQuarks`, `MaxMessage`,
`MaxArgs`, `MaxDeclared`, `MaxData`. Each limits what the application does or how
much may leak, never what a handler does. `chain_deque` has a constraint,
`FewBlocks`: between calls at most three blocks, no cursor inside a chain, and
nothing leaked before, so that the reversal of a retaining chain is the last
call of a behaviour. Cursors, and calls after such a reversal, are covered by
`chain_core`. `hashmap` has a constraint `Few`: a deletion that leaks is the
last call of a behaviour, and two maps together have two nodes but for a copy.
`array_core` has `FewElements`: two arrays together have `MaxBoth` elements between
calls; a copy or slice that has begun runs until it returns, whatever it adds. `parts` has
`ShortStrings`: two strings that together have more than `MaxBoth` characters are not
used on. `json_values` has a `Few` of its own, which limits the values there are and
weighs those that are no numbers more, and `Capacities`, `Decoded` and
`Garbage`, the numbers the application and the memory bring. Objects, blocks,
timers, arrays, strings and maps are symmetric sets where no liveness is checked.

Deadlock is checked where a program can always go on. It is switched off where
the program ends: the decoder returns, an array ends the program, an assertion
or a write outside its block ends that of json.h, the parts end when a run of
`cargs_run`, a digest or a faulty string is done.

Fairness.
`chain_core`: `FairSpec`, weak fairness of `Handler`, the iterations of loops
without a callback. A loop that has been entered runs on, as nothing else runs in a
single threaded program; nothing is assumed of the application.
`timer_loop`: `PromptSpec`. The steps of timer.h are weakly fair, the clock goes
on, and it advances only while the loop has nothing due: polling is faster than
a second. The property needs that; a timer function that takes seconds could
keep another timer waiting.
`gallector`: weak fairness of the sweep's steps, the return of its freeer included:
a freeer takes what objects it can and returns.
`json_texts`: weak fairness of the parser, and of the text being read, as it is
in memory.

### What the runs show beyond correctness

Some facts are properties only with their exceptions, and the exceptions are
what the code does:

- a reverse of a retaining chain leaks one reference for every element, as the
  clone's retains are never given back, and the clone of a reversed stack leaves
  its blocks behind (`LossesOnlyInReverse`);
- a timer that is due after midnight is never taken, and one that was cancelled
  is never freed (`NeverEarly`, `CancelIsFinal`);
- deleting the newest node of a bucket deletes the keys that collide with it
  (`KeyMap!RemoveAll`), and leaks their references;
- a key with a percent sign is copied under another name (`CopyAgrees`);
- deleting from a full array writes NULL one place behind its memory, and a reverse
  search of two or more elements finds nothing (`ElementsOK`);
- setting the element that is there, when the array holds its last reference,
  frees it (`Ends`);
- an object returned to its pool while it was marked survives one sweep more, and
  what a freeer takes before the sweep has kept an object is lost from the list
  (`SweepExact`);
- text behind a JSON value loses the blocks of the value (`StackOK`);
- an addition to a JSON array or object that has shrunk to less than half its
  capacity reallocates it to half its size and then writes behind that; so does
  one to a decoded array whose capacity happens to be too large (`OutsideOnly`);
- `json_object_clear` fails an assertion on every object (`AppObjectClear`);
- `String_prependArr` does not ask for room; the guard that should stop the doubling of a
  block before INT_MAX overflows an int itself, from half of INT_MAX on; a
  string that is set to its own data is emptied, and one appended to itself reads
  freed memory when it grows (`BufferOK`, `CallsAgree`);
- `String_trim` takes one character too many from the left when it takes any,
  `String_replace` is right only where no match touches an end or another match,
  `String_endsWith` holds for every target one longer than the text, and
  `String_findAll` notes the first match in the cell 0 that is its count, so that the
  next goes to the cell after the one with the number of its place: behind the block,
  when there is a next and that is far enough (`CallsAgree`);
- `strtrimbff` of a match at the very start brings the end of the text back, and
  `strtrimblf` without a match copies a negative count (`CstringAgrees`);
- the room left in the block of interned strings is counted a second time when the
  block grows, and a later string is written behind the block (`QuarksAgree`);
- `strfindr` of an empty text runs out of the text (`CstringAgrees`), and the wide form of
  an empty one is written to a block of no bytes (`ConversionsAgree`);
- where char is signed, base64 garbles a byte that shares its group with a later byte
  from 128 on, and `strutf32` garbles four byte sequences (`ConversionsAgree`);
- a low surrogate alone is decoded to three bytes that are no UTF-8, and
  `json_is_equal` compares nothing but the size and the first element of an array,
  and nothing of an object (`JsonTextAgrees`);
- the digest of a message of 512 MB or more has a wrong length field (`DigestAgrees`);
- `cargs_run` has stored what came before the argument it reports (`RunAgrees`);
- a line of the log overwrites what another call appended to its file, and a copy
  empties its destination when it has no source or is its own source (`FilesAgree`).

### Findings

`json_true`: json.h:14-15 lists bool among the types of data, and the decoder
refuses the text `true`, because json.h:198 asks for a strcmp of 1 where 0 means
equal. On libraries whose strcmp returns the sign, a boolean is accepted only
with something behind it, and `false` is stored as true (json.h:540).

`log_test`: test.c:12 logs a line first of all, with no file set. log.h:105 calls
the writer of the file whether there is one or not, and the program writes to NULL.

## 4. Proofs

| Theorem | States |
|---|---|
| `ChainProof!TypeCorrect` | `Spec => []TypeOK` |
| `ChainProof!RefCountsCorrect` | `Spec => []RefCounts` |
| `ChainProof!LinksCorrect` | `Spec => []WellLinked` |
| `ChainProof!LoopCursorsCorrect` | `Spec => []LoopCursorsOK` |
| `ChainProof!LossesCorrect` | `Spec => LossesOnlyInReverse` |
| `ChainProof!NoResurrectionCorrect` | `Spec => NoResurrection` |
| `ChainProof!HeldObjectsLive` | what a retaining chain holds is allocated |
| `ChainProof!DequeImplemented` | `Spec => ImplementsDeque` |
| `TimerProof!QueueCorrect` | `Spec => []QueueOK` |
| `TimerProof!NeverEarlyCorrect` | `Spec => NeverEarly` |
| `TimerProof!CancelFinal` | `Spec => CancelIsFinal` |
| `TimerProof!QueueImplemented` | `Spec => ImplementsQueue` |
| `HashmapProof!RefCountsCorrect` | `Spec => []RefCounts` |
| `HashmapProof!DuplicatesCorrect` | `Spec => []DuplicatesOnlyAfterRejection` |
| `HashmapProof!EachCorrect` | `Spec => EachShowsAll` |
| `HashmapProof!CopyCorrect` | `Spec => CopyAgrees` |
| `HashmapProof!KeyMapImplemented` | `Spec => ImplementsKeyMap` |
| `ObjectsProof!ListsCorrect` | `Spec => []ListsOK` |
| `ObjectsProof!SweepCorrect` | `Spec => SweepExact` |
| `ObjectsProof!StringsCorrect` | `StringsSpec => []BufferOK` |
| `ObjectsProof!CallsCorrect` | `StringsSpec => []CallsAgree` |
| `ArrayProof!ElementsCorrect` | `Spec => []ElementsOK` |
| `ArrayProof!EndsCorrect` | `Spec => Ends` |
| `ArrayProof!VectorImplemented` | `Spec => ImplementsVector` |
| `ArrayProof!CopiesCorrect` | `Spec => CopiesAgree` |
| `JsonTreeProof!TreeCorrect` | `Spec => []OneOwner` |
| `JsonTreeProof!OutsideCorrect` | `Spec => OutsideOnly` |
| `PartsProof!CacheRoomCorrect` | `Spec => []CacheRoom` |
| `PartsProof!DigestCorrect` | `Spec => []DigestAgrees` |
| `PartsProof!QuarksCorrect` | `QuarksSpec => []QuarksAgree` |
| `PartsProof!StackCorrect` | `DecodeSpec => []StackOK` |
| `PartsProof!GrammarCorrect` | `DecodeSpec => []AcceptsGrammar` |
| `PartsProof!FilesCorrect` | `LogSpec => FilesAgree` |
| `PartsProof!RunCorrect` | `CargsSpec => []RunAgrees` |
| `PartsProof!ZonesCorrect` | `ZoneAgrees` of every minute and every offset of whole hours |
| `PartsProof!CaseCorrect` | `CaseAgrees` of any two texts of characters up to 255 |
| `PartsProof!Utf8Correct` | `Utf8Agrees` of every code point of up to 31 bits |

They hold for every value of the constants that the module's assumption admits:
any finite set of blocks, timers or collected objects, any set of chains, maps, arrays
and objects in them, any delays, any length of a day, any number of buckets, hash and
effect of `String_format`, any sizes of pools, any step of growth, any block size, any
length field of two halves in any base, any texts, any initial capacity of a JSON container and anything that lay in
its uninitialized one, JSON texts of any length, nested to any depth, any set of
paths that has the directories of its paths, strings of any length with any least capacity
and any odd INT_MAX, and any commands, parameters and arguments.

**Chain.** None of the properties is inductive as it stands. Links that agree with
their inverses allow a ring of blocks apart from head and tail; popping it down
would leave `size` wrong. The strengthening `IInv` has, beside the properties:

- `Listed`: the blocks of every chain can be numbered so that `next` counts up by
  one, no number occurs twice, and head and tail have the least and the greatest.
  The numbering is bound by a quantifier for each chain; a push at the head takes
  the number below the least, so no renumbering is needed anywhere;
- `CallOK`: what a running loop knows of its chains, for instance that the
  clone of a reverse is another chain, of the same kind, that does not retain;
- `BlocksOK` and `CursorsOK`: blocks belong to chains or are orphans, and what a
  cursor of a loop may point at.

Four lemmas about one chain as a set of numbered blocks come first (`AddHead`,
`AddTail`, `RemoveHead`, `RemoveTail`); the handlers are built from them and
from lemmas about retains and releases; one lemma for each action follows
(`StepPush`, `StepPop`, ...), and `Invariant` puts them together.
`LoopCursorsOK` is proved on top of `IInv`: a callback of a foreach pops at most
one element a turn from the end its loop started at.

For the refinement the list is read as a sequence. `LinkedOrder` gets it from `Listed`:
a numbering that counts up by one between its least and its greatest has no gap (`NoGap`),
so the order along `next` from the head enumerates all blocks of a chain, and `last` runs
through them backwards. `Items` are the payloads along it; `PushHeadItems`,
`PushTailItems`, `PopFromHead`, `PopFromTail`, `DropHeadItems` and `DropTailItems` say what
relinking makes of the items of its chain, and that every other chain is kept.
A call takes its effect on the deque when it is made: `Result` is what the chain will
hold when the loop has returned, a loop invariant for each loop, and every iteration has to
keep it. `AfterSteps` does that for clear (what is behind the first NULL), `PrefixGrows` for
clone and `MoveOver` for the pushes of reverse, which move an element from the end of one
sequence to the front of the other. The invariant needs two things that `IInv` does not say:
`Synced`, that a clone holds the items of its source before the cursor of the source, none of
them NULL, and `Full`, that the clone a reverse takes apart holds no NULL, without which
the pushes would stop early. `DequeStep` puts the lemmas for the actions together
(`SimPushHead`, `SimClone`, `StepsSync`, `StepsClear`, `StepsReversePush`, ...).

**Timer.** The queue and the stack are dealt with apart. For the queue, `Sorted` says
that its timers can be numbered from 1 without a gap along `next`, by due time;
`InsertEmpty`, `InsertHead`, `InsertAfter` and `RemoveHead` show that the branches of
`_timer_insert` and the removal keep it so, with the numbering shifted explicitly.
For the stack, `StackOK` says that exactly the running timers have an activation, one
each, and that a `timer_each` is the innermost and stands on a queued timer:
`Entering`, `Running1`, `Returning` and `FunctionReturning` are its four changes.
`IInv` joins them with `LeftOK` (what remains of a delay is never more than the way
from the clock to the due time, which a midnight only lengthens) and `LostOK` (what
was taken without being run was cancelled). `QueueOK` follows from `IInv`; for the
next two, `TakenStep` states what any step does to one timer.

The refinement maps the links to a list: `Order` is the sequence of the queued timers
along `next`. `WalkUnique` shows that there is one at most, from the least place where
two would differ, and `OrderFacts` that the numbering of `Sorted`, read backwards, is
one. `OrderInsert` and `OrderRemove` say what relinking does to it, `SplicePlace` where
`_timer_insert` relinks (behind the last timer that is due no later, which is the `k` of
`TimerQueue`), and `InsertsEntry`, `TakesEntry`, `CancelsEntry` and `CleansEntries` carry
that over to the entries. A step that changes no link, time or function of a queued
timer is a stutter (`EntriesStay`); a tick only moves `now`.

**Hashmap.** `Ret` is the set of places (map, bucket, index) where a retaining map has an
object, and `Counted` says that it is finite and the object's count goes with its size.
A handler changes one bucket: `BucketChanges` gives the change of `Ret` by that of `Cnt`,
the number of hits in one sequence, and `CntPrepend`, `CntReplaced` and `CntWithout` that
for the three things that happen to a bucket; `MapCleared` is the loss of all buckets at
once. `Tidy` says that the nodes of a bucket belong there by their hash, without which
two nodes of a key could lie apart, and that two with one key have been refused a
replacement. `EachOK` says that what `foreachItem` still owes lies before it; every
handler a callback may call leaves the keys of the walked buckets as the last of them
(`Suffix`). `CallOK` has what a copy relies on: that each key it meets can be formatted,
also one it has itself put into the map it walks. `CopyDone` adds that every clean key
behind a copy has its value in the other map: `SetShows` says what a set does to the
first node of every key, and that a map copied to itself keeps its nodes in their places.

The refinement maps a bucket to the values of each key, in the order of its nodes.
`NumberedUpTo` numbers the nodes of a key, from the least number that none would have;
`ValuesPrepended`, `ValuesReplaced` and `ValuesWithout` say what the three things that
happen to a bucket do to the values of the key concerned and of the others in the
bucket. `SetImplements`, `DelImplements` and `ClearImplements` carry that over to the
handlers: a deletion is the removal of one value, or of all that have the hash of the
key when its node is the first of the bucket. `DeadEmpty` says that a map that is not
alive has no nodes, so that its creation is a stutter.

**Gallector.** `Numbered` says that a set of objects can be numbered along `gcNext` from
its head down to 1: counted that way, neither an object put before the head nor the
loss of all that is before an object renumbers anything, and those are the only changes
but for a removal in the middle. `PoolsFit` relates the numbers of a pool to the depth
in the counts of its objects, which bounds it. During a sweep, `GcWalk` says which
objects are `Ahead` of it and what stands before its cursor, and `Judged` that those
ahead are doomed when neither marked nor frozen, and nothing behind is; `SweepExact` is
read off both. What a freeer puts before the head is numbered above all
the others; `Dropped` cuts the numbering there.

**Array.** `Block` says of one array that its length is within its capacity, its memory
has exactly the capacity's places, and all from the length on are NULL. `RoomBlock`,
`StoreBlock` and `InsertBlock` show that growing (rounded up to whole steps), storing
and shifting keep it so; a sort is a bijection of the places in use. A running copy or
slice adds only that its arrays are alive.

For the counts, `Held` is the set of places (array, index) where a retaining array has an
object, and `Counted` relates its size to the object's count. `SetHits`, `InsertHits`,
`DelHits` and `SortHits` say what a handler does to the places of one array, by a
bijection for what moves (`Gap`); `Recounted` carries that over to all arrays, and
`Releasing` shows that a count is never given back more often than it was taken.
`NoHoles` is needed beside it: only a nullable array may hold NULL. `Finds` compares the
loop of `Array_find` with the least index, which exists by well-founded order (`Least`).
`Ends` follows from the counts: an object that is freed when it is stored again had
count 1 and one place.

For the refinement, `Writes`, `Wedges` and `Drops` say what a set, an insertion and a
deletion make of the elements up to the length, with growth and shifting hidden in them;
`SequenceInsert`, `SequenceRemove` and `SequenceExtend` are the same three on sequences,
and `StepImplements` maps every step to one of `Vector` or to a stutter. `Looping` is the
invariant of the loops: what they have copied up to `call.i`, unless a reallocation
failed; `Among` counts the elements that are not NULL on the way.

**JsonTree.** `OneOwner` is what freeing needs, and it says nothing of why an operation
keeps it. `TreeInv` does, in two layers. `Owned` knows only which cell points to which
block: no two cells point to one block (`Distinct`), the blocks that are allocated are
those the variables reach (`Forest`), and a block that is a key holds nothing
(`Leaves`). Four changes keep it, and every operation is made of them: a
cell gives up a block and all below it (`HeapDrop`), a cell gets a new block (`HeapNew`),
two cells exchange what they hold (`HeapSwap`), the cells of a block change places
(`HeapReorder`). What is reached is the least set that has the root and is closed, so
that an induction along the tree is an instance of its definition, with the right set
named: `Acyclic` shows that way that nothing is part of itself, from there being one
owner each. `Shape` knows the types: the cells up to a container's size are filled, those
behind are junk, and a capacity that the code has set is the length of the block. It is
what tells an operation which cells there are, and what `OutsideCorrect` computes from:
with MIN at least 2 a container that has just grown has a place for the new element, so
only a shrink, or a capacity nobody has set, puts it outside.

**Md5.** `Inv` adds to `CacheRoom` how the length relates to the blocks and the cache,
and the chunk that is being cut. The steps are arithmetic on one quotient and
remainder. `Fed` adds what is in them: counted along the blocks, the cache and the
chunk, the n-th byte is the number n (`FedFast`, `FedSlow`). `Finished` computes from
that what `md5_finalize` leaves, with a block more or without, and `PaddedFacts` what
RFC 1321 pads the message to; all but the last `Field` bytes agree whatever the
length. For those, `DigitsDetermine` shows that different numbers below `Half` differ
in a digit, by the greatest digit where they could, and `LengthAgrees` that shifting the
two halves each for itself gives the digits of the length in bits exactly when the low
half does not carry. The assumptions are those of positional notation: `Weight` has the
powers of `Base`, `Half` is the power of half a field, and it exceeds 7, so that a carry
of three bits cannot go unseen.

**Quarks.** `Inv` gives the shape of the block (its length, the counters and the room
counted twice) and of the keys; `Kept` says that a text inside the block is left alone
by a string written behind it, whatever the growth, and every put keeps it.

**JsonDecode.** The stack is divided among the open arrays and objects by sums of their
sizes, and what its entries own is a sum again. A sum is a recursive function;
`AddsExists` shows that the function is there for every length, from the least length
for which it would not be, and `TotalsPart` and `TotalsGrow` say how sums of parts add
up. On them rest `NestedOpen`, `NestedPush` and `NestedPop`, and `OwnedSplit`: what is
taken off the stack and what stays own together what the stack did. `DecodeInv` adds to
`StackOK` what goes with the place the parser is at (`StageOK`: for instance that every
object but the innermost holds a key while it waits for a value, so that the unwinding
frees each key once), and that the blocks so far are those the text read so far calls
for (`NeedsOK`), which is what leaks when something follows the value. There is a lemma
for each outcome of a step (`ParsedKeeps`, `OpenKeeps`, `CloseKeeps`, `UnwindKeeps`, ...).
`GrammarInv` says that the automaton, having read what the parser has read, expects what
the parser goes on to look for and has the same arrays and objects open. Only behind an
opening bracket do they differ: the parser has looked for the closing one at once and
never meets it where it goes on, though the automaton would take it (`InStep`). It also
says that no error comes without its cause (`RefusedFor`). `DeltaValue`, `DeltaMember` and `DeltaMore` compute the automaton's step.

**Files and Log.** `LogInv` has the types of the tree and the stream, `StreamAtEnd`, and
`Rooted`: what exists lies in directories. A directory that is there then has directories
all the way up (`DirsUp`, from the longest prefix where there were none), and a call that reports
one made has made it last. The trees `file_create_directory` goes through are a function
of the number of names; `MakesExists` shows that it is there for every number, and
`MadeKeeps` that each of them extends the tree before the call. `LeftAsWritten` says of one path
what `WrittenKept` says of all; there is a lemma for each call (`StepSetFile`, `StepLog`,
`StepWrite`, `StepRename`, ...), and `WriteAtIs` says what a line makes of a file: at the
end it goes behind the rest, which is where the stream is until another call writes.

**StringBuffer.** `Form` says what a buffer is between calls: bytes up to and with one
terminator at its length, and which fault goes with which capacity; without a fault, the
whole of it lies inside the block. Inside a call there is
more: `Filled` says up to where memory has been written, so that `MoveFills` and
`PrependFills` show that no move leaves a byte behind that nobody wrote. `check_capacity`
is a recursive function of the capacity; `DoublesExists` finds it from the greatest
capacity for which there were none, and `DoublesTo` what it ends at: room enough, or a
capacity whose double overflows (`OddMax`: there is nothing in between, as a double is even).
`Roomy` is what a call has that asked for room: without a fault there is enough of it, and
with one the program has ended, so that none of these calls writes outside. `OwnForm` is the case of a string's
own data, whose block is read after realloc unless it did not have to grow. The loops of
repeat and replace are functions of the number of rounds (`TimesExists`, `RoundsExist`),
each round keeps the form (`RoundKeeps`), and there is a lemma for each operation. The
characters of `Words` are those of `Chars`; that is all that is assumed of them.

`CallsCorrect` compares what the moves and writes leave with the text a call should
give. `ReadsAs` says of a text that it is the first bytes of the memory, and `Laid` what a
move makes of each byte, so that each edit is an equality of two functions, byte by byte
(`InsertText`, `PrependedText`, `DeleteText`, `ReverseText`, ...). The searches speak of sets of places:
`CTextBehind` and `OccursBehind` shift them to what lies behind the place a search starts
at, and `FindNextIs` and `FindLastIs` find the least and the greatest. For findAll, the
state of its list after the places up to k is a function of the matches up to k
(`LookKeeps`): the cell of a match is the number of matches between the first and it,
counted from the place of the first. The theorem needs the block to have a cell and an int
to have four bytes, because `realloc` is asked for as many bytes as there should be ints.
For replace, `RewriteAt` unfolds the rewritten text where the matches are apart, and
`RoundText` says that a round has written what belongs before its match; behind the last
one, the rest is appended (`RestText`). Where nothing is left before a match or behind it,
`String_subString` gets a range that `limit_range` brings back into the text, and copies
characters that are not the rest: that is why matches at the ends are an exception.

**Cargs.** `RunAgrees` reads the command line as a whole, and the loop reads it from left
to right. Which arguments are values is a recursive function on the places of the
line; `MarksExist` shows that it is there for every line and `MarksAgree` that there is
one only, so that the function of the property is that of the walk. `Walking` is the
invariant of the loop: the argument it is at is no value, nothing before it has stopped it,
and each variable holds what the last tag before it that is bound to it gave (`Before`).
`WalkSkips` and `WalkStores` carry it over one argument or two, `Outcome` says how it
ends, and `AgreesAtEnd` derives the property. A run notes in the list what it has
found, so all of this is stated of the parameters without those notes (`Bare`), which no step changes.

**Conversions.** These three theorems are statements about the functions themselves.
`ZonesCorrect` is the arithmetic of a day. For `CaseCorrect`, a comparison ends at the first
place where the lowered texts differ, and lowering is shown to agree with raising there
(`LoweredIs`, `CompareIs`); `SameIs` finds the pairs that `streqi` takes for equal too.
For `Utf8Correct`, an or of disjoint bits is a sum, and there is a lemma for each number of
bytes (`OneByte` to `ManyBytes`); `ReadThree` and `ReadFour` take the bytes apart again.

Only model-checked: liveness (`HandlersReturn`, `DueTimersTaken`, `SweepReturns`,
`Returns`), which is out of the prover's reach, and what the functions of cstring.h, the
conversions and the JSON texts compute (`CstringAgrees`, `ConversionsAgree`,
`JsonTextAgrees`) but for UTF-8, the case of letters and the time zone. The backtracking
of the matchers and the texts of nested values recur over their inputs, and equality
with a reference for every input would need induction over data; base64, wide
characters, digits and colours are statements about bytes and code points, which the run
goes through at the ends of each range. For `CallsAgree` the recursion is over places,
and an induction there can be carried out by the least place at which the statement
fails.

## 5. What is not modelled

- json.h: `json_print`, the conversion of numbers by the C library, the getters.
- cstring.h: `strscore` and `strfuzzy`, which read the character before their text,
  whatever lies there; `strint`, `strrev` and the hashes, one loop of arithmetic each.
- string.h: `String_format` beyond `Format` in `Hashmap`, `String_hash`, printing.
- md5.h: the rounds (see above). cargs.h: `cargs_print`, which writes the
  declarations out, and the example at its end.
- tools.h: messages, `num_random`, the queries of the file system, the `system_*`
  calls of helpers.h; log.h: the terminal's line, its colours, the callback.
- time.h: formatted dates and the sleep, calls of the C library.
- math.h, floating point one-liners; foliage.h, which nothing uses; `Block_remove`,
  which nothing in src/ calls.
- src/tools.h: the shipped concatenation is older than the files it is made from and
  is not the reference here; build.py makes it anew.
- malloc returns any free address and does not fail, except `realloc` in `Array`;
  elsewhere the code does not look at its result (`strwiden` and `strshorten`,
  cstring.h:456-466, for instance, write to whatever it was).
- hashmap.h: the macro `HASHMAP_FOREACH_START`, which nothing in src/ uses. Behind the last
  bucket it reads `bucket[size]`, one past the table (hashmap.h:174-175).
- json.h: `json_new` of an array or object (json.h:720), which leaves size, capacity and
  pointer as they lay on the stack: `JsonTree` makes containers as json.h does itself.
- An object inside a container is a leaf: freeing it releases nothing else. A
  container of containers would free recursively.
- Contracts of the application: it releases what it holds, pushes allocated
  objects, cancels timers that are allocated, steps a cursor whose block exists,
  and the callbacks of `timer_each`, `timer_clean` and foreachItem do not free what
  their caller goes on with. Each module's header names its own. That the
  application cannot know whether a timer it wants to cancel is still allocated
  (timer.h:81) is the one hazard listed without a property: the handles it holds are
  not tracked.

## 6. Order of the work

Object and Chain with its proof came first, then Timer, Hashmap, Array, Gallector,
JsonDecode and JsonTree; then the parts without objects (StringBuffer, Cstring,
Quarks, Md5, Cargs, Files, Log, Conversions, JsonText); then the proofs of Md5,
Quarks, Timer, Gallector, Array, Hashmap, JsonTree and JsonDecode, and of the
refinements from `Array` to `Vector`, from `Timer` to `TimerQueue`, from `Hashmap` to
`KeyMap` and from `Chain` to `Deque`; and the proofs of Files and Log, of Cargs, and of
the blocks of StringBuffer and what its calls give. The last one showed that `CallsAgree`
took a single match far from the start for a write behind the block of findAll, which a
bound of three cells had hidden.
