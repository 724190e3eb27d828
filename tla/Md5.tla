--------------------------------- MODULE Md5 ---------------------------------
(* The streaming of md5.h: an application feeds a message in chunks, the    *)
(* context keeps what does not fill a block in its cache, and finalize pads *)
(* what is left. Registers are abstracted to the blocks absorbed so far:    *)
(* digests are equal when the same blocks went in, in the same order. The   *)
(* code never looks at the value of a byte, so the n-th byte of the message *)
(* is the number n, and a lost, doubled or misplaced byte is seen.          *)
EXTENDS Integers, Sequences

CONSTANTS
  Block,      \* sizeof(cache): 64
  Field,      \* bytes of the length at the end of the last block: 8
  Base,       \* values of a byte: 256
  Weight,     \* [0 .. Field - 1 -> its powers]
  Half,       \* values of a 32-bit half of the length: the power of half a field
  Mark,       \* 0x80
  MaxMessage  \* bound: bytes of a message

ASSUME BlockAssumption == Block \in Nat /\ Field \in Nat /\ 0 < Field /\ Field < Block
                          /\ Field % 2 = 0
ASSUME HalfAssumption == Half \in Nat /\ 7 < Half /\ Base \in Nat \ {0} /\ Mark \in Nat
ASSUME MessageAssumption == MaxMessage \in Nat
ASSUME WeightAssumption ==
  /\ Weight \in [0 .. Field - 1 -> Nat \ {0}] /\ Weight[0] = 1
  /\ \A k \in 1 .. Field - 1 : Weight[k] = Base * Weight[k - 1]
  /\ Half = Base * Weight[Field \div 2 - 1]

VARIABLES
  ctx,        \* the context: blocks absorbed, cache, sz
  src,        \* the chunk md5_update works on, as the sequence of its bytes
  done,       \* totalBytesProcessed
  pc,         \* "idle", "update" or "final"
  digest      \* what finalize left: the blocks

vars == <<ctx, src, done, pc, digest>>

(* The first bytes of the cache are its content: cacheLen is their number.  *)
cacheLen == Len(ctx.cache)

md5_context == [blocks |-> <<>>, cache |-> <<>>, sz |-> 0]
(* Mutant: the cache is not emptied when its block has been processed.      *)
update_block_keep(c, block) ==
  [blocks |-> Append(c.blocks, block), cache |-> c.cache, sz |-> c.sz]
update_block(c, block) ==
  [blocks |-> Append(c.blocks, block), cache |-> <<>>, sz |-> c.sz]

Init ==
  /\ ctx = md5_context /\ src = <<>> /\ done = 0
  /\ pc = "idle" /\ digest = <<>>

md5_init ==
  /\ pc = "final" /\ pc' = "idle"
  /\ ctx' = md5_context /\ digest' = <<>>
  /\ UNCHANGED <<src, done>>

(* md5_update is called with the next n bytes of the message.               *)
md5_update(n) ==
  /\ pc = "idle" /\ pc' = "update"
  /\ src' = [i \in 1 .. n |-> ctx.sz + i] /\ done' = 0
  /\ UNCHANGED <<ctx, digest>>

Remaining == Len(src) - done
Bytes(n) == SubSeq(src, done + 1, done + n)

(* Nothing cached and more than a block to come: the cache is left out.     *)
UpdateFast ==
  /\ pc = "update" /\ cacheLen = 0 /\ Remaining > Block
  /\ ctx' = update_block(ctx, Bytes(Block))
  /\ done' = done + Block
  /\ UNCHANGED <<src, pc, digest>>

(* Otherwise as much as fits goes into the cache, and a full one is         *)
(* processed.                                                               *)
UpdateSlow ==
  /\ pc = "update" /\ 0 < Remaining /\ ~(cacheLen = 0 /\ Remaining > Block)
  /\ LET n == IF Remaining > Block - cacheLen THEN Block - cacheLen ELSE Remaining
         cache == ctx.cache \o Bytes(n)
     IN /\ done' = done + n
        /\ ctx' = IF Len(cache) = Block THEN update_block(ctx, cache)
                  ELSE [ctx EXCEPT !.cache = cache]
  /\ UNCHANGED <<src, pc, digest>>

UpdateReturn ==
  /\ pc = "update" /\ Remaining = 0
  /\ pc' = "idle"
  /\ ctx' = [ctx EXCEPT !.sz = @ + Len(src)]
  /\ src' = <<>> /\ done' = 0
  /\ UNCHANGED digest

Zeros(n) == [i \in 1 .. n |-> 0]

(* Mutant: the length in bytes.                                             *)
LengthBytes_bytes(sz) ==
  [i \in 1 .. Field |-> IF i <= Field \div 2 THEN ((sz % Half) \div Weight[i - 1]) % Base ELSE 0]

(* The length in bits: the low and the high half are shifted each for       *)
(* itself, and written byte by byte, the least significant first.           *)
LengthBytes(sz) ==
  LET lo == ((sz % Half) * 8) % Half
      hi == (((sz \div Half) % Half) * 8) % Half
      low == Field \div 2
  IN [i \in 1 .. Field |-> IF i <= low THEN (lo \div Weight[i - 1]) % Base
                           ELSE (hi \div Weight[i - 1 - low]) % Base]

(* md5_finalize: a full cache is processed first, then the mark goes in; if *)
(* the length does not fit behind it, zeros fill this block and the next.   *)
md5_finalize ==
  /\ pc = "idle" /\ pc' = "final"
  /\ LET c0 == IF cacheLen = Block THEN update_block(ctx, ctx.cache) ELSE ctx
         marked == Append(c0.cache, Mark)
         c1 == IF Block - Len(marked) < Field
               THEN update_block(c0, marked \o Zeros(Block - Len(marked)))
               ELSE [c0 EXCEPT !.cache = marked]
         padded == c1.cache \o Zeros(Block - Field - Len(c1.cache))
     IN /\ ctx' = update_block(c1, padded \o LengthBytes(c1.sz))
        /\ digest' = ctx'.blocks
  /\ UNCHANGED <<src, done>>

Next ==
  \/ md5_init
  \/ \E n \in 0 .. MaxMessage - ctx.sz : md5_update(n)
  \/ UpdateFast \/ UpdateSlow \/ UpdateReturn
  \/ md5_finalize

Spec == Init /\ [][Next]_vars

----------------------------------------------------------------------------
TypeOK ==
  /\ ctx \in [blocks : Seq(Seq(Nat)), cache : Seq(Nat), sz : Nat]
  /\ src \in Seq(Nat) /\ done \in 0 .. Len(src)
  /\ pc \in {"idle", "update", "final"}

(* The cache always has room for at least one byte, so the clearing that    *)
(* opens finalize never happens ("this should never happen", md5.h); what   *)
(* is processed are blocks of 64 bytes; and every byte fed is in a block or *)
(* in the cache.                                                            *)
CacheRoom ==
  /\ cacheLen < Block
  /\ \A i \in 1 .. Len(ctx.blocks) : Len(ctx.blocks[i]) = Block
  /\ pc # "final" => Len(ctx.blocks) * Block + cacheLen = ctx.sz + done

(* A digest is that of RFC 1321 (the message, a mark, zeros up to a whole   *)
(* block less the field, the length in bits), however the message was cut   *)
(* into chunks: but for messages whose length in bits carries from the low  *)
(* half into the high one.                                                  *)
Padded(n) ==
  LET zeros == Block - 1 - ((n + Field) % Block)
      bits == 8 * n
  IN [i \in 1 .. n |-> i] \o <<Mark>> \o Zeros(zeros)
     \o [i \in 1 .. Field |-> (bits \div Weight[i - 1]) % Base]
DigestAgrees ==
  pc = "final" =>
    LET message == Padded(ctx.sz)
        blocks == [b \in 1 .. Len(message) \div Block |->
                     SubSeq(message, (b - 1) * Block + 1, b * Block)]
    IN (digest = blocks) <=> 8 * (ctx.sz % Half) < Half
=============================================================================
