------------------------------ MODULE PartsProof ------------------------------
(* Six of the parts that share no state with any other.  An interned        *)
(* string stays where its key says, for any texts and any order of calls,   *)
(* until a write goes outside the block, and only room counted twice can    *)
(* lead it there (strput in cstring.h).  The cache of md5.h never is full   *)
(* between two steps, whatever the size of the blocks, the length field and *)
(* the chunks, and the digest is that of the message as a whole unless the  *)
(* length carries from its low half into the high one.  json_decode leaves  *)
(* its stack empty and every heap block with one owner, and accepts no text *)
(* that is not in the grammar, whatever the length of the text.  The calls  *)
(* of tools.h that report success did what they say, for any paths, and the *)
(* stream of log.h is at the end of its file until another call writes to   *)
(* it, so that nothing that is in a file goes without a call that says so.  *)
(* cargs_run stores what comes before the first argument that is wrong, and *)
(* reports that one.  A code point written as UTF-8 is read back but for    *)
(* some of four bytes, texts compare the same in lower and upper case, and  *)
(* the time zone is that of the offset.                                     *)
EXTENDS Md5, Quarks, JsonDecode, Log, Cargs, Conversions, ListLemmas, TLAPS

----------------------------------------------------------------------------
(* The interned strings.                                                    *)

QuarkBytes == Chars \cup {NUL, Junk}

(* The block as a sequence, and the counters; before the first call there   *)
(* is nothing.                                                              *)
BlockOK ==
  /\ quarks \in Seq(QuarkBytes) /\ quarklen \in Nat /\ quarkcap \in Nat
  /\ twice \in Nat /\ outside \in BOOLEAN
  /\ quarks = <<>> => quarklen = 0 /\ quarkcap = 0 /\ keys = {}
  /\ quarks # <<>> => quarklen >= 1 /\ quarks[1] = NUL /\ RoomCounted

(* A text ends before quarklen, behind which every later one is written.    *)
Kept(k) ==
  /\ k[1] \in Nat /\ Len(k[2]) \in Nat
  /\ k[1] + Len(k[2]) + 1 <= quarklen
  /\ strget(k[1], k[2])
KeysKept == ~outside => quarklen <= Len(quarks) /\ \A k \in keys : Kept(k)

QuarksInv == BlockOK /\ KeysKept

(* A text that is put has at least one character and is made of bytes.      *)
LEMMA TextFacts ==
  ASSUME NEW word \in Texts
  PROVE  word \in Seq(QuarkBytes) /\ Len(word) \in Nat /\ Len(word) >= 1
<1>1. PICK n \in 1 .. MaxText : word \in [1 .. n -> Letters]
  BY DEF Texts
<1>2. n \in Nat /\ n >= 1
  BY <1>1, QuarksAssumption
<1>3. \A i \in 1 .. n : word[i] \in QuarkBytes
  BY <1>1, QuarksAssumption, CharsAssumption DEF QuarkBytes
<1>4. word \in Seq(QuarkBytes) /\ Len(word) = n
  BY <1>1, <1>2, <1>3
<1> QED BY <1>2, <1>4

(* The block has at least as many bytes more as the text and its terminator *)
(* need.                                                                    *)
LEMMA ExtendRoom ==
  ASSUME NEW len \in Nat
  PROVE  Extend(len) \in Nat /\ Extend(len) >= len
BY DEF Extend

(* Growing keeps the bytes that are there.                                  *)
LEMMA ResizedFacts ==
  ASSUME NEW block \in Seq(QuarkBytes), NEW size \in Nat
  PROVE  /\ Resized(block, size) \in Seq(QuarkBytes) /\ Len(Resized(block, size)) = size
         /\ \A i \in 1 .. size : i <= Len(block) => Resized(block, size)[i] = block[i]
<1>1. \A i \in 1 .. size : (IF i <= Len(block) THEN block[i] ELSE Junk) \in QuarkBytes
  BY DEF QuarkBytes
<1> QED BY <1>1 DEF Resized

(* Storing a text writes its characters and a terminator behind `lo`, and   *)
(* nothing else.                                                            *)
LEMMA StoredFacts ==
  ASSUME NEW block \in Seq(QuarkBytes), NEW lo \in Nat, NEW word \in Seq(QuarkBytes)
  PROVE  /\ Stored(block, lo, word) \in Seq(QuarkBytes)
         /\ Len(Stored(block, lo, word)) = Len(block)
         /\ \A i \in 1 .. Len(block) : i <= lo => Stored(block, lo, word)[i] = block[i]
         /\ lo + Len(word) + 1 <= Len(block) =>
              /\ \A i \in 1 .. Len(word) : Stored(block, lo, word)[lo + i] = word[i]
              /\ Stored(block, lo, word)[lo + Len(word) + 1] = NUL
<1> DEFINE byte(i) == IF i \in lo + 1 .. lo + Len(word) THEN word[i - lo]
                      ELSE IF i = lo + Len(word) + 1 THEN NUL ELSE block[i]
<1>1. ASSUME NEW i \in 1 .. Len(block) PROVE byte(i) \in QuarkBytes
  <2>1. CASE i \in lo + 1 .. lo + Len(word)
    <3>1. i - lo \in 1 .. Len(word)
      BY <2>1
    <3> QED BY <2>1, <3>1
  <2>2. CASE i \notin lo + 1 .. lo + Len(word)
    BY <2>2, <1>1 DEF QuarkBytes
  <2> QED BY <2>1, <2>2
<1>2. /\ Stored(block, lo, word) \in Seq(QuarkBytes)
      /\ Len(Stored(block, lo, word)) = Len(block)
      /\ \A i \in 1 .. Len(block) : Stored(block, lo, word)[i] = byte(i)
  BY <1>1 DEF Stored
<1>3. \A i \in 1 .. Len(block) : i <= lo => byte(i) = block[i]
  OBVIOUS
<1>4. \A i \in 1 .. Len(word) : byte(lo + i) = word[i]
  OBVIOUS
<1>5. byte(lo + Len(word) + 1) = NUL
  OBVIOUS
<1> HIDE DEF byte
<1>6. ASSUME lo + Len(word) + 1 <= Len(block)
      PROVE  /\ \A i \in 1 .. Len(word) : Stored(block, lo, word)[lo + i] = word[i]
             /\ Stored(block, lo, word)[lo + Len(word) + 1] = NUL
  <2>1. \A i \in 1 .. Len(word) : lo + i \in 1 .. Len(block)
    BY <1>6
  <2>2. lo + Len(word) + 1 \in 1 .. Len(block)
    BY <1>6
  <2> QED BY <2>1, <2>2, <1>2, <1>4, <1>5
<1> QED BY <1>2, <1>3, <1>6

(* The first call makes a block of two bytes, with one in use.              *)
LEMMA FirstFacts ==
  ASSUME BlockOK
  PROVE  /\ First(quarks) \in Seq(QuarkBytes) /\ First(quarks) # <<>> /\ First(quarks)[1] = NUL
         /\ Len(First(quarks)) >= 1
         /\ FirstLen(quarklen) \in Nat /\ FirstLen(quarklen) >= 1
         /\ quarks = <<>> => Len(First(quarks)) = 2 /\ FirstLen(quarklen) = 1
         /\ quarks # <<>> => First(quarks) = quarks /\ FirstLen(quarklen) = quarklen
<1>1. CASE quarks = <<>>
  <2>1. <<NUL, Junk>> \in Seq(QuarkBytes) /\ Len(<<NUL, Junk>>) = 2 /\ <<NUL, Junk>>[1] = NUL
    BY DEF QuarkBytes
  <2> QED BY <1>1, <2>1 DEF First, FirstLen
<1>2. CASE quarks # <<>>
  BY <1>2 DEF First, FirstLen, BlockOK
<1> QED BY <1>1, <1>2

(* A call without a text makes the block and a key to its first byte.       *)
LEMMA Emptying ==
  ASSUME QuarksInv, PutEmpty
  PROVE  QuarksInv'
<1>0. BlockOK /\ KeysKept
  BY DEF QuarksInv
<1>1. /\ ~outside /\ quarks' = First(quarks) /\ quarklen' = FirstLen(quarklen)
      /\ keys' = keys \cup {<<0, <<>>>>}
      /\ quarkcap' = quarkcap /\ twice' = twice /\ outside' = outside
  BY DEF PutEmpty
<1>2. RoomCounted'
  <2>1. CASE quarks = <<>>
    <3>1. Len(quarks') = 2 /\ quarklen' = 1 /\ quarkcap' = 0
      BY <1>0, <1>1, <2>1, FirstFacts DEF BlockOK
    <3> QED BY <1>1, <3>1 DEF RoomCounted
  <2>2. CASE quarks # <<>>
    BY <1>0, <1>1, <2>2, FirstFacts DEF RoomCounted, BlockOK
  <2> QED BY <2>1, <2>2
<1>3. BlockOK'
  BY <1>0, <1>1, <1>2, FirstFacts DEF BlockOK
<1>4. quarklen' <= Len(quarks')
  BY <1>0, <1>1, FirstFacts DEF KeysKept
<1>5. ASSUME NEW k \in keys PROVE Kept(k)'
  <2>1. quarks # <<>> /\ Kept(k)
    BY <1>0, <1>1 DEF BlockOK, KeysKept
  <2>2. quarks' = quarks /\ quarklen' = quarklen
    BY <1>0, <2>1, <1>1, FirstFacts
  <2> QED BY <2>1, <2>2 DEF Kept, strget
<1>6. Kept(<<0, <<>>>>)'
  <2>1. Len(<<>>) = 0 /\ \A i \in 1 .. Len(<<>>) : FALSE
    OBVIOUS
  <2>2. quarks'[0 + 0 + 1] = NUL
    BY <1>0, <1>1, FirstFacts
  <2>3. 1 <= quarklen'
    BY <1>0, <1>1, FirstFacts
  <2> QED BY <2>1, <2>2, <2>3 DEF Kept, strget
<1> QED BY <1>1, <1>3, <1>4, <1>5, <1>6 DEF KeysKept, QuarksInv

(* A text goes behind the others, into a block that has grown when there is *)
(* not enough room counted.                                                 *)
LEMMA Putting ==
  ASSUME QuarksInv, NEW word \in Texts, strput(word)
  PROVE  QuarksInv'
<1>0. BlockOK /\ KeysKept
  BY DEF QuarksInv
<1> DEFINE len == Len(word) + 1
           lo == FirstLen(quarklen)
           grows == quarkcap < len
           block == IF grows THEN Resized(First(quarks), NewSize(lo, len)) ELSE First(quarks)
<1>1. /\ ~outside /\ quarks' = Stored(block, lo, word) /\ quarklen' = lo + len
      /\ quarkcap' = (IF grows THEN NewCap(quarkcap, len) ELSE quarkcap) - len
      /\ keys' = keys \cup {<<lo, word>>}
      /\ twice' = (IF grows THEN quarkcap ELSE twice)
      /\ outside' = (lo + len > Len(block))
  BY DEF strput
<1> DEFINE behind == lo + len > Len(block)
<1>a. outside' \in BOOLEAN /\ (outside' <=> behind)
  <2>1. outside' = behind
    BY <1>1
  <2>2. behind \in BOOLEAN
    OBVIOUS
  <2> HIDE DEF behind
  <2> QED BY <2>1, <2>2, Zenon
<1>b. PICK a : a = lo
  OBVIOUS
<1>2. /\ word \in Seq(QuarkBytes) /\ Len(word) \in Nat /\ len \in Nat /\ len >= 2
      /\ lo \in Nat /\ lo >= 1
      /\ Extend(len) \in Nat /\ Extend(len) >= len
      /\ quarkcap \in Nat /\ twice \in Nat
  <2>1. word \in Seq(QuarkBytes) /\ Len(word) \in Nat /\ len \in Nat /\ len >= 2
    BY TextFacts
  <2>2. lo \in Nat /\ lo >= 1
    BY <1>0, FirstFacts
  <2>3. Extend(len) \in Nat /\ Extend(len) >= len
    BY <2>1, ExtendRoom
  <2>4. quarkcap \in Nat /\ twice \in Nat
    BY <1>0 DEF BlockOK
  <2> QED BY <2>1, <2>2, <2>3, <2>4
<1>3. /\ block \in Seq(QuarkBytes) /\ Len(block) \in Nat /\ Len(block) >= 1
      /\ Len(block) = IF grows THEN lo + Extend(len) ELSE Len(First(quarks))
  <2>1. CASE grows
    <3>1. First(quarks) \in Seq(QuarkBytes) /\ NewSize(lo, len) \in Nat
      BY <1>0, <1>2, FirstFacts DEF NewSize
    <3>2. /\ Resized(First(quarks), NewSize(lo, len)) \in Seq(QuarkBytes)
          /\ Len(Resized(First(quarks), NewSize(lo, len))) = NewSize(lo, len)
      BY <3>1, ResizedFacts
    <3> QED BY <2>1, <3>2, <1>2 DEF NewSize
  <2>2. CASE ~grows
    BY <1>0, <2>2, FirstFacts
  <2> QED BY <2>1, <2>2
<1>4. lo <= Len(First(quarks))
  BY <1>0, <1>1, FirstFacts DEF KeysKept
<1>5. \A i \in 1 .. lo : block[i] = First(quarks)[i]
  <2>1. CASE grows
    <3>1. NewSize(lo, len) \in Nat /\ NewSize(lo, len) >= lo
      BY <1>2 DEF NewSize
    <3>2. First(quarks) \in Seq(QuarkBytes) /\ Len(First(quarks)) \in Nat
      BY <1>0, FirstFacts
    <3>3. \A i \in 1 .. NewSize(lo, len) : i <= Len(First(quarks)) =>
            Resized(First(quarks), NewSize(lo, len))[i] = First(quarks)[i]
      BY <3>1, <3>2, ResizedFacts
    <3> QED BY <2>1, <3>1, <3>2, <3>3, <1>2, <1>4
  <2>2. CASE ~grows
    BY <2>2
  <2> QED BY <2>1, <2>2
<1>6. lo <= Len(block)
  BY <1>2, <1>3, <1>4
<1>7. ~grows => quarks # <<>>
  BY <1>0, <1>2 DEF BlockOK
<1> HIDE DEF block
<1>8. /\ quarks' \in Seq(QuarkBytes) /\ Len(quarks') = Len(block)
      /\ \A i \in 1 .. lo : quarks'[i] = First(quarks)[i]
      /\ lo + len <= Len(block) => /\ \A i \in 1 .. Len(word) : quarks'[lo + i] = word[i]
                                   /\ quarks'[lo + Len(word) + 1] = NUL
  <2>1. /\ Stored(block, lo, word) \in Seq(QuarkBytes)
        /\ Len(Stored(block, lo, word)) = Len(block)
        /\ \A i \in 1 .. Len(block) : i <= lo => Stored(block, lo, word)[i] = block[i]
        /\ lo + Len(word) + 1 <= Len(block) =>
             /\ \A i \in 1 .. Len(word) : Stored(block, lo, word)[lo + i] = word[i]
             /\ Stored(block, lo, word)[lo + Len(word) + 1] = NUL
    <3>1. block \in Seq(QuarkBytes) /\ lo \in Nat /\ word \in Seq(QuarkBytes)
      BY <1>2, <1>3
    <3> QED BY <3>1, StoredFacts
  <2>2. quarks' = Stored(block, lo, word)
    BY <1>1
  <2>3. \A i \in 1 .. lo : i \in 1 .. Len(block) /\ i <= lo /\ block[i] = First(quarks)[i]
    BY <1>2, <1>3, <1>5, <1>6
  <2>4. \A i \in 1 .. lo : quarks'[i] = First(quarks)[i]
    BY <2>1, <2>2, <2>3
  <2>5. lo + len <= Len(block) => lo + Len(word) + 1 <= Len(block)
    BY <1>2, <1>3
  <2> QED BY <2>1, <2>2, <2>4, <2>5
<1>9. quarklen' \in Nat /\ quarkcap' \in Nat /\ twice' \in Nat /\ outside' \in BOOLEAN
  <2>1. quarkcap \in Nat /\ twice \in Nat /\ Extend(len) \in Nat /\ Extend(len) >= len
    BY <1>2
  <2>2. quarkcap' \in Nat
    BY <2>1, <1>1, <1>2, SMTT(30) DEF NewCap
  <2>3. quarklen' \in Nat /\ twice' \in Nat
    BY <2>1, <1>1, <1>2
  <2> QED BY <2>2, <2>3, <1>a
<1>10. RoomCounted'
  <2>1. CASE grows
    <3>1. quarklen' + quarkcap' = Len(quarks') + twice'
      <4>1. PICK more \in Nat : more = Extend(len)
        BY <1>2
      <4>2. quarkcap' = (quarkcap + more) - len /\ quarklen' = lo + len /\ twice' = quarkcap
        BY <2>1, <4>1, <1>1 DEF NewCap
      <4>3. Len(quarks') = lo + more
        BY <2>1, <4>1, <1>3, <1>8
      <4> HIDE DEF len, lo
      <4> QED BY <4>2, <4>3, <1>2
    <3>2. ~outside'
      BY <2>1, <1>a, <1>2, <1>3
    <3> QED BY <3>1, <3>2 DEF RoomCounted
  <2>2. CASE ~grows
    <3>1. quarks # <<>> /\ lo = quarklen /\ Len(block) = Len(quarks) /\ RoomCounted
      BY <1>0, <2>2, <1>3, <1>7, FirstFacts DEF BlockOK
    <3>2. quarklen' + quarkcap' = quarklen + quarkcap /\ twice' = twice
      BY <2>2, <3>1, <1>1, <1>2
    <3>3. outside' => lo + quarkcap > Len(block)
      BY <2>2, <1>a, <1>2, <1>3
    <3> QED BY <3>1, <3>2, <3>3, <1>2, <1>8 DEF RoomCounted
  <2> QED BY <2>1, <2>2
<1>11. BlockOK'
  <2>1. quarks' # <<>>
    BY <1>3, <1>8
  <2>2. quarks'[1] = NUL
    BY <1>0, <1>2, <1>8, FirstFacts
  <2>3. quarklen' >= 1
    BY <1>1, <1>2
  <2> QED BY <1>0, <2>1, <2>2, <2>3, <1>8, <1>9, <1>10 DEF BlockOK
<1>12. ASSUME ~outside' PROVE quarklen' <= Len(quarks') /\ \A k \in keys' : Kept(k)'
  <2>1. lo + len <= Len(block) /\ quarklen' = lo + len /\ Len(quarks') = Len(block)
    BY <1>12, <1>a, <1>1, <1>2, <1>3, <1>8
  <2>2. ASSUME NEW k \in keys PROVE Kept(k)'
    <3>1. quarks # <<>> /\ Kept(k) /\ First(quarks) = quarks /\ lo = quarklen
      BY <1>0, <1>1, FirstFacts DEF BlockOK, KeysKept
    <3>2. /\ k[1] \in Nat /\ Len(k[2]) \in Nat /\ k[1] + Len(k[2]) + 1 <= lo
          /\ \A i \in 1 .. Len(k[2]) : quarks[k[1] + i] = k[2][i]
          /\ quarks[k[1] + Len(k[2]) + 1] = NUL
      BY <3>1 DEF Kept, strget
    <3>3. \A i \in 1 .. Len(k[2]) + 1 : k[1] + i \in 1 .. lo
      BY <3>2, <1>2
    <3>4. \A i \in 1 .. Len(k[2]) + 1 : quarks'[k[1] + i] = quarks[k[1] + i]
      BY <3>1, <3>3, <1>8, SMTT(30)
    <3>5. \A i \in 1 .. Len(k[2]) : quarks'[k[1] + i] = k[2][i]
      BY <3>2, <3>4
    <3>6. quarks'[k[1] + Len(k[2]) + 1] = NUL
      <4>1. Len(k[2]) + 1 \in 1 .. Len(k[2]) + 1
        BY <3>2
      <4>2. k[1] + (Len(k[2]) + 1) = k[1] + Len(k[2]) + 1
        BY <3>2
      <4> QED BY <3>2, <3>4, <4>1, <4>2
    <3>7. k[1] + Len(k[2]) + 1 <= quarklen'
      BY <2>1, <3>2, <1>2
    <3> QED BY <3>2, <3>5, <3>6, <3>7 DEF Kept, strget
  <2>3. Kept(<<a, word>>)'
    <3>1. <<a, word>>[1] = lo /\ <<a, word>>[2] = word
      BY <1>b
    <3>2. lo + Len(word) + 1 <= quarklen'
      BY <2>1, <1>2
    <3>3. /\ \A i \in 1 .. Len(word) : quarks'[lo + i] = word[i]
          /\ quarks'[lo + Len(word) + 1] = NUL
      BY <2>1, <1>8
    <3> HIDE DEF lo
    <3> QED BY <3>1, <3>2, <3>3, <1>2 DEF Kept, strget
  <2> QED BY <2>1, <2>2, <2>3, <1>1, <1>2, <1>b
<1> QED BY <1>11, <1>12 DEF KeysKept, QuarksInv

(* Whatever was put before and after it, a key reads its text until a write *)
(* goes outside the block, and only room counted twice leads outside.       *)
THEOREM QuarksCorrect == QuarksSpec => []QuarksAgree
<1>1. QuarksInit => QuarksInv
  <2> SUFFICES ASSUME QuarksInit PROVE QuarksInv
    OBVIOUS
  <2>1. /\ quarks = <<>> /\ quarklen = 0 /\ quarkcap = 0
        /\ keys = {} /\ twice = 0 /\ outside = FALSE
    BY DEF QuarksInit
  <2>2. <<>> \in Seq(QuarkBytes) /\ Len(<<>>) = 0
    OBVIOUS
  <2>3. outside \in BOOLEAN
    BY <2>1, Zenon
  <2>4. BlockOK
    BY <2>1, <2>2, <2>3 DEF BlockOK
  <2>5. KeysKept
    BY <2>1, <2>2 DEF KeysKept
  <2> QED BY <2>4, <2>5 DEF QuarksInv
<1>2. QuarksInv /\ [QuarksNext]_quarksVars => QuarksInv'
  <2> SUFFICES ASSUME QuarksInv, [QuarksNext]_quarksVars PROVE QuarksInv'
    OBVIOUS
  <2>1. CASE PutEmpty
    BY <2>1, Emptying
  <2>2. CASE \E word \in Texts : strput(word)
    BY <2>2, Putting
  <2>3. CASE UNCHANGED quarksVars
    BY <2>3 DEF quarksVars, QuarksInv, BlockOK, KeysKept, Kept, RoomCounted, strget
  <2> QED BY <2>1, <2>2, <2>3 DEF QuarksNext
<1>3. QuarksInv => QuarksAgree
  BY DEF QuarksInv, BlockOK, KeysKept, Kept, KeysRead, QuarksAgree
<1> QED BY <1>1, <1>2, <1>3, PTL DEF QuarksSpec

----------------------------------------------------------------------------
(* The cache of md5.h.                                                      *)

USE DEF cacheLen

(* Between calls no chunk is half processed.                                *)
NoChunk == pc # "update" => src = <<>> /\ done = 0
Inv == TypeOK /\ NoChunk /\ CacheRoom

(* Absorbing a block of the right size keeps the blocks and empties the     *)
(* cache (md5_update_block).                                                *)
LEMMA Absorbing ==
  ASSUME NEW c \in [blocks : Seq(Seq(Nat)), cache : Seq(Nat), sz : Nat],
         NEW block \in Seq(Nat), Len(block) = Block,
         \A i \in 1 .. Len(c.blocks) : Len(c.blocks[i]) = Block
  PROVE  LET d == update_block(c, block)
         IN /\ d \in [blocks : Seq(Seq(Nat)), cache : Seq(Nat), sz : Nat]
            /\ d.cache = <<>> /\ d.sz = c.sz
            /\ Len(d.blocks) = Len(c.blocks) + 1
            /\ \A i \in 1 .. Len(d.blocks) : Len(d.blocks[i]) = Block
<1>1. Append(c.blocks, block) \in Seq(Seq(Nat)) /\ Len(Append(c.blocks, block)) = Len(c.blocks) + 1
  OBVIOUS
<1>2. \A i \in 1 .. Len(Append(c.blocks, block)) : Len(Append(c.blocks, block)[i]) = Block
  OBVIOUS
<1>3. update_block(c, block).blocks = Append(c.blocks, block)
      /\ update_block(c, block).cache = <<>> /\ update_block(c, block).sz = c.sz
  BY DEF update_block
<1>5. <<>> \in Seq(Nat) /\ c.sz \in Nat
  OBVIOUS
<1>6. update_block(c, block) \in [blocks : Seq(Seq(Nat)), cache : Seq(Nat), sz : Nat]
  BY <1>1, <1>5 DEF update_block
<1> QED BY <1>1, <1>2, <1>3, <1>6

(* The bytes taken from a chunk are as many as asked for.                   *)
LEMMA Taking ==
  ASSUME NEW n \in Nat, TypeOK, n <= Remaining
  PROVE  Bytes(n) \in Seq(Nat) /\ Len(Bytes(n)) = n
BY DEF TypeOK, Bytes, Remaining

(* Zeros of any number are a sequence, of that length.                      *)
LEMMA ZerosLength ==
  ASSUME NEW n \in Nat
  PROVE  Zeros(n) \in Seq(Nat) /\ Len(Zeros(n)) = n
<1>1. \A i \in 1 .. n : 0 \in Nat
  OBVIOUS
<1> QED BY <1>1 DEF Zeros

(* The length fills its field.                                              *)
LEMMA LengthFits ==
  ASSUME NEW sz \in Nat
  PROVE  LengthBytes(sz) \in Seq(Nat) /\ Len(LengthBytes(sz)) = Field
<1> DEFINE lo == ((sz % Half) * 8) % Half
           hi == (((sz \div Half) % Half) * 8) % Half
           low == Field \div 2
<1>1. lo \in Nat /\ hi \in Nat
  BY HalfAssumption
<1>2. low \in Nat /\ low < Field
  BY BlockAssumption
<1>3. ASSUME NEW x \in Nat, NEW k \in 0 .. Field - 1
      PROVE  (x \div Weight[k]) % Base \in Nat
  <2>1. Weight[k] \in Nat \ {0}
    BY WeightAssumption
  <2>2. x \div Weight[k] \in Nat
    BY <2>1
  <2> QED BY <2>2, HalfAssumption
<1>4. \A i \in 1 .. Field : (IF i <= low THEN (lo \div Weight[i - 1]) % Base
                             ELSE (hi \div Weight[i - 1 - low]) % Base) \in Nat
  <2> TAKE i \in 1 .. Field
  <2> HIDE DEF lo, hi, low
  <2>1. CASE i <= low
    <3>1. i - 1 \in 0 .. Field - 1
      BY <2>1, <1>2, BlockAssumption
    <3> QED BY <3>1, <2>1, <1>1, <1>3
  <2>2. CASE ~(i <= low)
    <3>1. i - 1 - low \in 0 .. Field - 1
      BY <2>2, <1>2, BlockAssumption
    <3> QED BY <3>1, <2>2, <1>1, <1>3
  <2> QED BY <2>1, <2>2
<1> HIDE DEF lo, hi, low
<1>5. LengthBytes(sz) = [i \in 1 .. Field |-> IF i <= low THEN (lo \div Weight[i - 1]) % Base
                                              ELSE (hi \div Weight[i - 1 - low]) % Base]
  BY DEF LengthBytes, lo, hi, low
<1> QED BY <1>4, <1>5, BlockAssumption

(* Bytes that move from the chunk into the cache, and from a full cache     *)
(* into a block, keep the count.                                            *)
LEMMA Counting ==
  ASSUME NEW p \in Nat, NEW cached \in Nat, NEW sz \in Nat, NEW d \in Nat, NEW n \in Nat,
         p + cached = sz + d
  PROVE  /\ p + (cached + n) = sz + (d + n)
         /\ Block = cached + n => p + Block + 0 = sz + (d + n)
OBVIOUS

(* Zeros and a mark fill a cache up.                                        *)
LEMMA Joining ==
  ASSUME NEW s \in Seq(Nat), NEW t \in Seq(Nat)
  PROVE  s \o t \in Seq(Nat) /\ Len(s \o t) = Len(s) + Len(t)
OBVIOUS

(* What finalize has left to process fits: the padding ends a block.        *)
LEMMA Finalizing ==
  ASSUME Inv, md5_finalize
  PROVE  Inv'
<1> DEFINE c0 == IF cacheLen = Block THEN update_block(ctx, ctx.cache) ELSE ctx
           marked == Append(c0.cache, Mark)
           c1 == IF Block - Len(marked) < Field
                 THEN update_block(c0, marked \o Zeros(Block - Len(marked)))
                 ELSE [c0 EXCEPT !.cache = marked]
           padded == c1.cache \o Zeros(Block - Field - Len(c1.cache))
           Context == [blocks : Seq(Seq(Nat)), cache : Seq(Nat), sz : Nat]
           Full(c) == \A i \in 1 .. Len(c.blocks) : Len(c.blocks[i]) = Block
<1>1. c0 = ctx /\ ctx \in Context /\ Full(ctx) /\ Len(ctx.cache) \in Nat /\ Len(ctx.cache) < Block
  BY BlockAssumption DEF Inv, TypeOK, CacheRoom
<1>2. marked \in Seq(Nat) /\ Len(marked) = Len(ctx.cache) + 1
  BY <1>1, HalfAssumption
<1>3. ctx' = update_block(c1, padded \o LengthBytes(c1.sz)) /\ pc' = "final"
      /\ src' = src /\ done' = done
  BY DEF md5_finalize
<1> HIDE DEF c0, marked
<1>4. c1 \in Context /\ Full(c1) /\ Len(c1.cache) + Field <= Block
  <2>1. CASE Block - Len(marked) < Field
    <3> DEFINE z == Block - Len(marked)
    <3>1. z \in Nat
      BY <1>1, <1>2, BlockAssumption
    <3>2. marked \o Zeros(z) \in Seq(Nat) /\ Len(marked \o Zeros(z)) = Len(marked) + z
      BY <3>1, <1>2, ZerosLength, Joining
    <3>3. Len(marked \o Zeros(z)) = Block
      <4>1. Len(marked) \in Nat
        BY <1>2
      <4>2. Len(marked) + z = Block
        BY <4>1, BlockAssumption
      <4> QED BY <4>2, <3>2
    <3>4. c1 = update_block(c0, marked \o Zeros(z))
      BY <2>1
    <3> HIDE DEF c1, z
    <3>5. /\ c1 \in Context /\ c1.cache = <<>> /\ Full(c1)
      BY <3>2, <3>3, <3>4, <1>1, Absorbing
    <3> QED BY <3>5, BlockAssumption
  <2>2. CASE ~(Block - Len(marked) < Field)
    <3>1. c1 = [c0 EXCEPT !.cache = marked]
      BY <2>2
    <3> HIDE DEF c1
    <3>2. c1.blocks = ctx.blocks /\ c1.cache = marked /\ c1 \in Context
      BY <3>1, <1>1, <1>2
    <3> QED BY <3>2, <2>2, <1>1, <1>2, BlockAssumption
  <2> QED BY <2>1, <2>2
<1> HIDE DEF c1
<1>5. c1.cache \in Seq(Nat) /\ Len(c1.cache) \in Nat /\ c1.sz \in Nat
  BY <1>4
<1>6. Block - Field - Len(c1.cache) \in Nat
  BY <1>4, <1>5, BlockAssumption
<1>7. padded \in Seq(Nat) /\ Len(padded) = Block - Field
  <2>1. Zeros(Block - Field - Len(c1.cache)) \in Seq(Nat)
        /\ Len(Zeros(Block - Field - Len(c1.cache))) = Block - Field - Len(c1.cache)
    BY <1>6, ZerosLength
  <2> DEFINE zeros == Zeros(Block - Field - Len(c1.cache))
  <2>2. zeros \in Seq(Nat) /\ Len(zeros) = Block - Field - Len(c1.cache)
    BY <2>1
  <2> HIDE DEF zeros
  <2>3. c1.cache \o zeros \in Seq(Nat) /\ Len(c1.cache \o zeros) = Len(c1.cache) + Len(zeros)
    BY <2>2, <1>5, Joining
  <2>4. Len(c1.cache) + Len(zeros) = Block - Field
    BY <2>2, <1>5, BlockAssumption
  <2> QED BY <2>3, <2>4 DEF zeros
<1> HIDE DEF padded
<1>8. /\ padded \o LengthBytes(c1.sz) \in Seq(Nat)
      /\ Len(padded \o LengthBytes(c1.sz)) = Block
  <2>1. LengthBytes(c1.sz) \in Seq(Nat) /\ Len(LengthBytes(c1.sz)) = Field
    BY <1>5, LengthFits
  <2>2. Len(padded \o LengthBytes(c1.sz)) = Block - Field + Field
        /\ padded \o LengthBytes(c1.sz) \in Seq(Nat)
    BY <2>1, <1>7, Joining
  <2> QED BY <2>2, BlockAssumption
<1>9. ctx' \in Context /\ ctx'.cache = <<>> /\ Full(ctx')
  <2> DEFINE last == padded \o LengthBytes(c1.sz)
  <2>1. last \in Seq(Nat) /\ Len(last) = Block
    BY <1>8
  <2> HIDE DEF last
  <2>2. update_block(c1, last) \in Context /\ update_block(c1, last).cache = <<>>
        /\ Full(update_block(c1, last))
    BY <2>1, <1>4, Absorbing
  <2> QED BY <2>2, <1>3 DEF last
<1>10. src' = <<>> /\ done' = 0
  BY <1>3 DEF md5_finalize, Inv, NoChunk
<1>11. TypeOK'
  BY <1>3, <1>9, <1>10 DEF TypeOK
<1>12. NoChunk'
  BY <1>10 DEF NoChunk
<1>13. CacheRoom'
  BY <1>3, <1>9, BlockAssumption DEF CacheRoom
<1> QED BY <1>11, <1>12, <1>13 DEF Inv

(* A whole block straight from the chunk.                                   *)
LEMMA Fast ==
  ASSUME Inv, UpdateFast
  PROVE  Inv'
<1>1. /\ ctx \in [blocks : Seq(Seq(Nat)), cache : Seq(Nat), sz : Nat]
      /\ \A i \in 1 .. Len(ctx.blocks) : Len(ctx.blocks[i]) = Block
      /\ src \in Seq(Nat) /\ done \in 0 .. Len(src) /\ Block \in Nat /\ 0 < Block
      /\ Len(ctx.cache) = 0 /\ Block < Len(src) - done /\ ctx.sz \in Nat
      /\ Len(ctx.blocks) * Block + Len(ctx.cache) = ctx.sz + done
  BY BlockAssumption DEF Inv, TypeOK, CacheRoom, UpdateFast, Remaining
<1>2. Bytes(Block) \in Seq(Nat) /\ Len(Bytes(Block)) = Block
  <2>1. TypeOK /\ Block \in Nat /\ Block <= Remaining
    BY <1>1 DEF Inv, Remaining
  <2> QED BY <2>1, Taking
<1>3. ctx' = update_block(ctx, Bytes(Block)) /\ done' = done + Block
      /\ src' = src /\ pc' = pc /\ pc = "update"
  BY DEF UpdateFast
<1>4. /\ ctx' \in [blocks : Seq(Seq(Nat)), cache : Seq(Nat), sz : Nat]
      /\ ctx'.cache = <<>> /\ ctx'.sz = ctx.sz
      /\ Len(ctx'.blocks) = Len(ctx.blocks) + 1
      /\ \A i \in 1 .. Len(ctx'.blocks) : Len(ctx'.blocks[i]) = Block
  <2> DEFINE block == Bytes(Block)
  <2>1. block \in Seq(Nat) /\ Len(block) = Block
    BY <1>2
  <2> HIDE DEF block
  <2>2. LET d == update_block(ctx, block)
        IN /\ d \in [blocks : Seq(Seq(Nat)), cache : Seq(Nat), sz : Nat]
           /\ d.cache = <<>> /\ d.sz = ctx.sz
           /\ Len(d.blocks) = Len(ctx.blocks) + 1
           /\ \A i \in 1 .. Len(d.blocks) : Len(d.blocks[i]) = Block
    BY <1>1, <2>1, Absorbing
  <2>3. ctx' = update_block(ctx, block)
    BY <1>3 DEF block
  <2> QED BY <2>2, <2>3
<1>5. TypeOK'
  BY <1>1, <1>3, <1>4 DEF TypeOK
<1>6. NoChunk'
  BY <1>3 DEF NoChunk
<1>7. (Len(ctx.blocks) + 1) * Block = Len(ctx.blocks) * Block + Block
  BY <1>1
<1>8. Len(ctx'.blocks) * Block + Len(ctx'.cache) = ctx'.sz + done'
  <2>1. Len(ctx.blocks) * Block \in Nat
    BY <1>1
  <2>2. Len(ctx.blocks) * Block + Block + 0 = ctx.sz + (done + Block)
    <3> DEFINE p == Len(ctx.blocks) * Block
               z == ctx.sz
               q == Len(ctx.cache)
    <3>1. p \in Nat /\ z \in Nat /\ done \in Nat /\ q = 0 /\ p + q = z + done
      BY <2>1, <1>1
    <3> HIDE DEF p, q, z
    <3>2. p + Block + 0 = z + (done + Block)
      BY <3>1, BlockAssumption
    <3> QED BY <3>2 DEF p, z
  <2>3. Len(ctx'.cache) = 0 /\ ctx'.sz = ctx.sz /\ done' = done + Block
        /\ Len(ctx'.blocks) * Block = Len(ctx.blocks) * Block + Block
    BY <1>3, <1>4, <1>7
  <2> QED BY <2>2, <2>3
<1>9. CacheRoom'
  BY <1>1, <1>3, <1>4, <1>8 DEF CacheRoom
<1> QED BY <1>5, <1>6, <1>9 DEF Inv

(* A part of the chunk through the cache.                                   *)
LEMMA Slow ==
  ASSUME Inv, UpdateSlow
  PROVE  Inv'
<1> DEFINE room == Block - cacheLen
           n == IF Remaining > room THEN room ELSE Remaining
           cache == ctx.cache \o Bytes(n)
           Context == [blocks : Seq(Seq(Nat)), cache : Seq(Nat), sz : Nat]
           Full(c) == \A i \in 1 .. Len(c.blocks) : Len(c.blocks[i]) = Block
<1>1. /\ ctx \in Context /\ Full(ctx)
      /\ src \in Seq(Nat) /\ done \in Nat /\ done <= Len(src) /\ Block \in Nat /\ 0 < Block
      /\ Len(ctx.cache) \in Nat /\ Len(ctx.cache) < Block /\ 0 < Remaining /\ ctx.sz \in Nat
      /\ Len(ctx.blocks) \in Nat
  <2>1. ctx \in Context /\ src \in Seq(Nat) /\ done \in 0 .. Len(src)
    BY DEF Inv, TypeOK
  <2>2. Full(ctx) /\ Len(ctx.cache) < Block
    BY DEF Inv, CacheRoom
  <2>3. Block \in Nat /\ 0 < Block
    BY BlockAssumption
  <2>4. 0 < Remaining
    BY DEF UpdateSlow
  <2>5. ctx.blocks \in Seq(Seq(Nat)) /\ ctx.cache \in Seq(Nat) /\ ctx.sz \in Nat
    BY <2>1
  <2>6. done \in Nat /\ done <= Len(src)
    BY <2>1
  <2>7. Len(ctx.cache) \in Nat /\ Len(ctx.blocks) \in Nat
    BY <2>5
  <2> QED BY <2>1, <2>2, <2>3, <2>4, <2>5, <2>6, <2>7
<1>2. pc = "update" /\ Len(ctx.blocks) * Block + Len(ctx.cache) = ctx.sz + done
  BY DEF Inv, CacheRoom, UpdateSlow
<1>3. Remaining = Len(src) - done /\ Remaining \in Nat
  BY <1>1 DEF Remaining
<1>4. n \in Nat /\ n <= Remaining /\ n <= Block - Len(ctx.cache)
  BY <1>1, <1>3
<1>5. /\ done' = done + n
      /\ ctx' = IF Len(cache) = Block THEN update_block(ctx, cache)
                ELSE [ctx EXCEPT !.cache = cache]
      /\ src' = src /\ pc' = pc
  BY DEF UpdateSlow
<1> HIDE DEF n
<1>6. Bytes(n) \in Seq(Nat) /\ Len(Bytes(n)) = n
  BY <1>4, Taking DEF Inv
<1>7. cache \in Seq(Nat) /\ Len(cache) = Len(ctx.cache) + n
  <2>1. ctx.cache \in Seq(Nat)
    BY <1>1
  <2> QED BY <2>1, <1>6, Joining
<1> HIDE DEF cache
<1>8. src' \in Seq(Nat) /\ done' \in 0 .. Len(src')
  BY <1>1, <1>3, <1>4, <1>5
<1>9. CASE Len(cache) = Block
  <2>1. ctx' = update_block(ctx, cache)
    BY <1>5, <1>9
  <2>2. LET d == update_block(ctx, cache)
        IN /\ d \in Context /\ d.cache = <<>> /\ d.sz = ctx.sz
           /\ Len(d.blocks) = Len(ctx.blocks) + 1 /\ Full(d)
    BY <1>1, <1>7, <1>9, Absorbing
  <2>3. ctx' \in Context /\ ctx'.cache = <<>> /\ ctx'.sz = ctx.sz
        /\ Len(ctx'.blocks) = Len(ctx.blocks) + 1 /\ Full(ctx')
    BY <2>1, <2>2
  <2>4. (Len(ctx.blocks) + 1) * Block = Len(ctx.blocks) * Block + Block
    BY <1>1
  <2>5. Len(ctx'.blocks) * Block = Len(ctx.blocks) * Block + Block
    BY <2>3, <2>4
  <2>6. Len(ctx.cache) + n = Block
    BY <1>7, <1>9
  <2>7. Len(ctx.blocks) * Block \in Nat
    BY <1>1
  <2>8. Len(ctx'.blocks) * Block + Len(ctx'.cache) = ctx'.sz + done'
    <3>1. Len(ctx.blocks) * Block + Block + 0 = ctx.sz + (done + n)
      <4> DEFINE p == Len(ctx.blocks) * Block
                 z == ctx.sz
                 q == Len(ctx.cache)
      <4>1. p \in Nat /\ z \in Nat /\ done \in Nat /\ q \in Nat /\ n \in Nat
            /\ p + q = z + done /\ q + n = Block
        BY <2>6, <2>7, <1>1, <1>2, <1>4
      <4> HIDE DEF p, q, z
      <4>2. p + Block + 0 = z + (done + n)
        BY <4>1, Counting
      <4> QED BY <4>2 DEF p, z
    <3>2. Len(ctx'.cache) = 0
      BY <2>3
    <3> QED BY <3>1, <3>2, <2>3, <2>5, <1>5
  <2>9. TypeOK'
    BY <2>3, <1>8, <1>5, <1>2 DEF TypeOK
  <2>10. NoChunk' /\ CacheRoom'
    BY <2>3, <2>8, <1>1, <1>2, <1>5 DEF NoChunk, CacheRoom
  <2> QED BY <2>9, <2>10 DEF Inv
<1>10. CASE Len(cache) # Block
  <2>1. ctx' = [ctx EXCEPT !.cache = cache]
    BY <1>5, <1>10
  <2>2. ctx' \in Context /\ ctx'.cache = cache /\ ctx'.sz = ctx.sz /\ ctx'.blocks = ctx.blocks
    BY <2>1, <1>1, <1>7
  <2>3. Len(cache) < Block
    BY <1>1, <1>4, <1>7, <1>10
  <2>4. Len(ctx.blocks) * Block \in Nat
    BY <1>1
  <2>5. Len(ctx'.blocks) * Block + Len(ctx'.cache) = ctx'.sz + done'
    <3> DEFINE p == Len(ctx.blocks) * Block
               z == ctx.sz
               q == Len(ctx.cache)
    <3>1. p \in Nat /\ z \in Nat /\ done \in Nat /\ q \in Nat /\ n \in Nat
          /\ p + q = z + done
      BY <2>4, <1>1, <1>2, <1>4
    <3> HIDE DEF p, q, z
    <3>2. p + (q + n) = z + (done + n)
      BY <3>1, Counting
    <3>3. Len(ctx.blocks) * Block + (Len(ctx.cache) + n) = ctx.sz + (done + n)
      BY <3>2 DEF p, q, z
    <3> QED BY <3>3, <2>2, <1>5, <1>7
  <2>6. TypeOK'
    BY <2>2, <1>8, <1>5, <1>2 DEF TypeOK
  <2>7. NoChunk' /\ CacheRoom'
    BY <2>2, <2>3, <2>5, <1>1, <1>2, <1>5 DEF NoChunk, CacheRoom
  <2> QED BY <2>6, <2>7 DEF Inv
<1> QED BY <1>9, <1>10

(* A call begins with the chunk the application hands over.                 *)
LEMMA Calling ==
  ASSUME Inv, NEW n \in 0 .. MaxMessage - ctx.sz, md5_update(n), MaxMessage \in Nat
  PROVE  Inv'
<1>1. src' = [i \in 1 .. n |-> ctx.sz + i] /\ done' = 0 /\ ctx' = ctx
      /\ pc = "idle" /\ pc' = "update" /\ done = 0 /\ ctx.sz \in Nat
  BY DEF md5_update, Inv, TypeOK, NoChunk
<1>2. n \in Nat
  BY <1>1
<1>3. \A i \in 1 .. n : ctx.sz + i \in Nat
  BY <1>1, <1>2
<1>4. src' \in Seq(Nat) /\ Len(src') \in Nat
  BY <1>1, <1>2, <1>3
<1>5. TypeOK'
  BY <1>1, <1>4 DEF Inv, TypeOK
<1>6. NoChunk' /\ CacheRoom'
  BY <1>1 DEF Inv, NoChunk, CacheRoom
<1> QED BY <1>5, <1>6 DEF Inv

(* The call returns once the chunk is used up.                              *)
LEMMA Returning ==
  ASSUME Inv, UpdateReturn
  PROVE  Inv'
<1>1. /\ ctx' = [ctx EXCEPT !.sz = @ + Len(src)] /\ pc' = "idle"
      /\ src' = <<>> /\ done' = 0 /\ done = Len(src)
      /\ ctx \in [blocks : Seq(Seq(Nat)), cache : Seq(Nat), sz : Nat]
      /\ src \in Seq(Nat) /\ pc = "update"
  BY DEF UpdateReturn, Inv, TypeOK, Remaining
<1>2. ctx.sz + Len(src) \in Nat
  BY <1>1
<1>3. /\ ctx' \in [blocks : Seq(Seq(Nat)), cache : Seq(Nat), sz : Nat]
      /\ ctx'.blocks = ctx.blocks /\ ctx'.cache = ctx.cache /\ ctx'.sz = ctx.sz + Len(src)
  BY <1>1, <1>2
<1>4. TypeOK'
  BY <1>1, <1>3 DEF TypeOK
<1>5. NoChunk'
  BY <1>1 DEF NoChunk
<1>6. CacheRoom'
  BY <1>1, <1>3 DEF Inv, CacheRoom
<1> QED BY <1>4, <1>5, <1>6 DEF Inv

(* The first context, and one initialized again, have an empty cache.       *)
LEMMA Starting ==
  ASSUME ctx = md5_context, src = <<>>, done = 0, pc = "idle"
  PROVE  Inv
<1>1. /\ ctx.blocks = <<>> /\ ctx.cache = <<>> /\ ctx.sz = 0
      /\ ctx = [blocks |-> <<>>, cache |-> <<>>, sz |-> 0]
  BY DEF md5_context
<1>2. TypeOK
  BY <1>1 DEF TypeOK
<1>3. NoChunk
  BY DEF NoChunk
<1>4. CacheRoom
  BY <1>1, BlockAssumption DEF CacheRoom
<1> QED BY <1>2, <1>3, <1>4 DEF Inv

(* What every step of the context keeps.                                    *)
LEMMA Stepping ==
  ASSUME Inv, [Next]_vars
  PROVE  Inv'
<1>1. CASE md5_init
  <2>1. ctx' = md5_context /\ src' = <<>> /\ done' = 0 /\ pc' = "idle"
    BY <1>1 DEF md5_init, Inv, NoChunk
  <2>2. /\ ctx'.blocks = <<>> /\ ctx'.cache = <<>> /\ ctx'.sz = 0
        /\ ctx' = [blocks |-> <<>>, cache |-> <<>>, sz |-> 0]
    BY <2>1 DEF md5_context
  <2>3. TypeOK'
    BY <2>1, <2>2 DEF TypeOK
  <2>4. NoChunk'
    BY <2>1 DEF NoChunk
  <2>5. CacheRoom'
    BY <2>1, <2>2, BlockAssumption DEF CacheRoom
  <2> QED BY <2>3, <2>4, <2>5 DEF Inv
<1>2. CASE \E n \in 0 .. MaxMessage - ctx.sz : md5_update(n)
  BY <1>2, Calling, MessageAssumption
<1>3. CASE UpdateFast
  BY <1>3, Fast
<1>4. CASE UpdateSlow
  BY <1>4, Slow
<1>5. CASE UpdateReturn
  BY <1>5, Returning
<1>6. CASE md5_finalize
  BY <1>6, Finalizing
<1>7. CASE UNCHANGED vars
  BY <1>7 DEF vars, Inv, TypeOK, NoChunk, CacheRoom
<1> QED BY <1>1, <1>2, <1>3, <1>4, <1>5, <1>6, <1>7 DEF Next

(* Every block processed is full, no byte fed is lost between the blocks    *)
(* and the cache, and the cache always has room for the mark: whatever the  *)
(* sizes, and however the message is cut into chunks.                       *)
THEOREM CacheRoomCorrect == Spec => []CacheRoom
<1>1. Init => Inv
  BY Starting DEF Init
<1>2. Inv /\ [Next]_vars => Inv'
  BY Stepping
<1>3. Inv => CacheRoom
  BY DEF Inv
<1> QED BY <1>1, <1>2, <1>3, PTL DEF Spec

----------------------------------------------------------------------------
(* The digest.                                                              *)

(* The digits of the length: NLow of them in each half of the field.        *)
NLow == Field \div 2
Digit(x, k) == (x \div Weight[k]) % Base

(* What the powers of the base come to.                                     *)
LEMMA Weights ==
  /\ NLow \in Nat /\ 1 <= NLow /\ Field = NLow + NLow /\ Half \in Nat \ {0} /\ Base \in Nat \ {0}
  /\ \A k \in 0 .. Field - 1 : Weight[k] \in Nat \ {0}
  /\ Weight[0] = 1 /\ Half = Base * Weight[NLow - 1]
  /\ \A k \in 1 .. Field - 1 : Weight[k] = Base * Weight[k - 1]
<1>1. NLow \in Nat /\ 1 <= NLow /\ Field = NLow + NLow
  BY BlockAssumption DEF NLow
<1>2. Half = Base * Weight[NLow - 1]
  BY WeightAssumption DEF NLow
<1>3. Half \in Nat \ {0} /\ Base \in Nat \ {0}
  BY HalfAssumption
<1>4. /\ \A k \in 0 .. Field - 1 : Weight[k] \in Nat \ {0}
      /\ Weight[0] = 1 /\ \A k \in 1 .. Field - 1 : Weight[k] = Base * Weight[k - 1]
  BY WeightAssumption
<1> QED BY <1>1, <1>2, <1>3, <1>4

(* The digits of a half, and the step from one weight to the next.          *)
LEMMA Ranges ==
  /\ \A k \in 0 .. NLow - 1 : k \in Nat /\ k \in 0 .. Field - 1 /\ k + NLow \in 1 .. Field - 1
  /\ \A k \in 0 .. NLow - 1 : Weight[k] \in Nat \ {0}
  /\ \A k \in 0 .. NLow - 1 : k # NLow - 1 => k + 1 \in 0 .. NLow - 1 /\ Weight[k + 1] = Base * Weight[k]
<1>1. \A k \in 0 .. NLow - 1 : k \in Nat /\ k \in 0 .. Field - 1 /\ k + NLow \in 1 .. Field - 1
  BY Weights
<1>2. \A k \in 0 .. NLow - 1 : k # NLow - 1 =>
        k + 1 \in 0 .. NLow - 1 /\ k + 1 \in 1 .. Field - 1 /\ (k + 1) - 1 = k
  BY Weights
<1> QED BY <1>1, <1>2, Weights

(* Half is a multiple of the base times any weight of the low half, from    *)
(* the top one down.                                                        *)
LEMMA Divides ==
  ASSUME NEW k \in 0 .. NLow - 1
  PROVE  \E h \in Nat : Half = Weight[k] * (Base * h)
<1> DEFINE S == {j \in 0 .. NLow - 1 : ~ \E h \in Nat : Half = Weight[j] * (Base * h)}
<1>1. SUFFICES S = {}
  OBVIOUS
<1>2. SUFFICES ASSUME S # {} PROVE FALSE
  OBVIOUS
<1>3. NLow - 1 \in Nat /\ S \in SUBSET (0 .. NLow - 1)
  BY Weights
<1>4. PICK j \in S : \A i \in S : i <= j
  BY <1>2, <1>3, Greatest
<1>5. j \in 0 .. NLow - 1 /\ ~ \E h \in Nat : Half = Weight[j] * (Base * h)
  OBVIOUS
<1>6. Weight[j] \in Nat /\ Base \in Nat
  BY <1>5, Weights
<1>7. CASE j = NLow - 1
  <2>1. Half = Weight[j] * (Base * 1)
    BY <1>6, <1>7, Weights
  <2> QED BY <2>1, <1>5
<1>8. CASE j # NLow - 1
  <2>1. PICK i : i = j + 1
    OBVIOUS
  <2>2. i \in 0 .. NLow - 1 /\ i \notin S /\ Weight[i] = Base * Weight[j]
    <3>1. i \in 0 .. NLow - 1 /\ Weight[i] = Base * Weight[j] /\ ~(i <= j)
      BY <1>5, <1>8, <2>1, Ranges
    <3> QED BY <3>1, <1>4
  <2>3. PICK h \in Nat : Half = Weight[i] * (Base * h)
    BY <2>2
  <2>5. Half = Weight[j] * (Base * (Base * h)) /\ Base * h \in Nat
    BY <2>2, <2>3, <1>6
  <2> QED BY <2>5, <1>5
<1> QED BY <1>7, <1>8

(* A digit of the low half is one of the remainder by Half.                 *)
LEMMA DigitMod ==
  ASSUME NEW x \in Nat, NEW k \in 0 .. NLow - 1
  PROVE  Digit(x, k) = Digit(x % Half, k)
<1>1. PICK w \in Nat \ {0} : w = Weight[k]
  BY Weights
<1>2. PICK h \in Nat : Half = w * (Base * h)
  BY <1>1, Divides
<1>3. PICK q \in Nat, r \in Nat : r = x % Half /\ x = Half * q + r
  <2>1. Half \in Nat \ {0}
    BY Weights
  <2>2. PICK q, r : q = x \div Half /\ r = x % Half /\ Divided(x, Half, q, r)
    BY <2>1, DivMod
  <2> QED BY <2>2 DEF Divided
<1>4. PICK s \in Nat, t \in Nat : s = r \div w /\ t < w /\ r = w * s + t
  <2>1. PICK s, t : s = r \div w /\ t = r % w /\ Divided(r, w, s, t)
    BY DivMod
  <2> QED BY <2>1 DEF Divided
<1>5. PICK u \in Nat : u = h * q
  OBVIOUS
<1>6. PICK v \in Nat : v = Base * u + s
  BY Weights
<1>7. x = w * v + t
  <2>1. Half * q = w * (Base * u)
    <3>1. Base \in Nat
      BY Weights
    <3>2. (w * (Base * h)) * q = w * (Base * (h * q))
      BY <3>1
    <3> QED BY <1>2, <1>5, <3>2
  <2>2. Base \in Nat
    BY Weights
  <2>3. w * v = w * (Base * u) + w * s
    BY <1>6, <2>2
  <2>4. w * (Base * u) \in Nat /\ w * s \in Nat
    BY <2>2
  <2> QED BY <1>3, <1>4, <2>1, <2>3, <2>4
<1>8. x \div w = v
  <2>1. Divided(x, w, v, t)
    BY <1>4, <1>7 DEF Divided
  <2> QED BY <2>1, Quotient
<1>9. v % Base = s % Base
  BY <1>6, Weights, ModAdd
<1> QED BY <1>1, <1>3, <1>4, <1>8, <1>9 DEF Digit

(* The weights of the high half are those of the low one, times Half.       *)
LEMMA UpperWeight ==
  ASSUME NEW k \in 0 .. NLow - 1
  PROVE  k + NLow \in 0 .. Field - 1 /\ Weight[k + NLow] = Weight[k] * Half
<1>0. \A j \in 0 .. NLow - 1 : j + NLow \in 1 .. Field - 1
  BY Weights
<1> DEFINE S == {j \in 0 .. NLow - 1 : Weight[j + NLow] # Weight[j] * Half}
<1>1. SUFFICES S = {}
  BY <1>0
<1>2. SUFFICES ASSUME S # {} PROVE FALSE
  OBVIOUS
<1>3. S \in SUBSET Nat
  BY Weights
<1>4. PICK j \in S : \A i \in S : j <= i
  BY <1>2, <1>3, Least
<1>5. j \in 0 .. NLow - 1 /\ Weight[j + NLow] # Weight[j] * Half
  OBVIOUS
<1>6. CASE j = 0
  <2>1. NLow \in 1 .. Field - 1 /\ 0 + NLow = NLow
    BY Weights
  <2>2. Weight[NLow] = Half /\ Weight[0] * Half = Half
    BY <2>1, Weights
  <2> QED BY <2>1, <2>2, <1>5, <1>6
<1>7. CASE j # 0
  <2>1. PICK i : i = j - 1
    OBVIOUS
  <2>2. i \in 0 .. NLow - 1 /\ i \notin S /\ j \in 1 .. Field - 1 /\ i + NLow = (j + NLow) - 1
        /\ j + NLow \in 1 .. Field - 1
    <3>1. i \in 0 .. NLow - 1 /\ j \in 1 .. Field - 1 /\ i + NLow = (j + NLow) - 1 /\ ~(j <= i)
      BY <1>5, <1>7, <2>1, Weights
    <3> QED BY <3>1, <1>0, <1>4, <1>5
  <2>3. Weight[i + NLow] = Weight[i] * Half
    BY <2>2
  <2>4. Weight[j] = Base * Weight[i] /\ Weight[j + NLow] = Base * Weight[i + NLow]
    BY <2>1, <2>2, Weights
  <2>5. Weight[i] \in Nat /\ Base \in Nat /\ Half \in Nat
    BY <2>2, Weights
  <2>6. Base * (Weight[i] * Half) = (Base * Weight[i]) * Half
    BY <2>5
  <2> QED BY <2>3, <2>4, <2>6, <1>5
<1> QED BY <1>6, <1>7

(* A digit of the high half is one of the quotient by Half.                 *)
LEMMA DigitAbove ==
  ASSUME NEW x \in Nat, NEW k \in 0 .. NLow - 1
  PROVE  Digit(x, k + NLow) = Digit(x \div Half, k)
<1>1. PICK w \in Nat \ {0} : w = Weight[k]
  BY Weights
<1>2. (x \div Half) \div w = x \div (w * Half)
  BY Weights, DivDiv
<1> QED BY <1>1, <1>2, UpperWeight DEF Digit

(* The digits determine what is less than Half.                             *)
LEMMA DigitsDetermine ==
  ASSUME NEW x \in Nat, NEW y \in Nat, x < Half, y < Half,
         \A k \in 0 .. NLow - 1 : Digit(x, k) = Digit(y, k)
  PROVE  x = y
<1> DEFINE S == {j \in 0 .. NLow - 1 : x \div Weight[j] # y \div Weight[j]}
<1>1. ASSUME S # {} PROVE FALSE
  <2>1. NLow - 1 \in Nat /\ S \in SUBSET (0 .. NLow - 1)
    BY Weights
  <2>2. PICK j \in S : \A i \in S : i <= j
    BY <1>1, <2>1, Greatest
  <2>3. j \in 0 .. NLow - 1 /\ x \div Weight[j] # y \div Weight[j]
    OBVIOUS
  <2>4. PICK w \in Nat \ {0} : w = Weight[j]
    BY <2>3, Weights
  <2>5. PICK u \in Nat, v \in Nat : u = x \div w /\ v = y \div w
    OBVIOUS
  <2>6. Base \in Nat \ {0} /\ Half \in Nat \ {0}
    BY Weights
  <2>7. u \div Base = x \div (Base * w) /\ v \div Base = y \div (Base * w)
    <3>1. PICK b \in Nat \ {0} : b = Base
      BY <2>6
    <3>2. ASSUME NEW z \in Nat PROVE (z \div w) \div b = z \div (b * w)
      BY DivDiv, Zenon
    <3> QED BY <2>5, <3>1, <3>2
  <2>8. x \div (Base * w) = y \div (Base * w)
    <3>1. CASE j = NLow - 1
      <4>1. Base * w = Half
        BY <3>1, <2>4, Weights
      <4>2. x \div Half = 0 /\ y \div Half = 0
        BY <2>6
      <4> QED BY <4>1, <4>2
    <3>2. CASE j # NLow - 1
      <4>1. PICK i : i = j + 1
        OBVIOUS
      <4>2. i \in 0 .. NLow - 1 /\ Weight[i] = Base * w /\ ~(i <= j)
        BY <2>3, <2>4, <3>2, <4>1, Ranges
      <4>3. i \notin S
        BY <2>2, <4>2
      <4> QED BY <4>2, <4>3
    <3> QED BY <3>1, <3>2
  <2>9. u % Base = v % Base
    BY <2>3, <2>4, <2>5 DEF Digit
  <2>10. PICK p, a : p = u \div Base /\ a = u % Base /\ Divided(u, Base, p, a)
    BY <2>6, DivMod
  <2>11. PICK q, b : q = v \div Base /\ b = v % Base /\ Divided(v, Base, q, b)
    BY <2>6, DivMod
  <2>12. p = q /\ a = b
    BY <2>7, <2>8, <2>9, <2>10, <2>11
  <2>13. u = Base * p + a /\ v = Base * q + b
    BY <2>10, <2>11 DEF Divided
  <2> QED BY <2>3, <2>4, <2>5, <2>12, <2>13
<1>2. 0 \in 0 .. NLow - 1 /\ Weight[0] = 1
  BY Weights
<1>3. x \div 1 = y \div 1
  BY <1>1, <1>2
<1>4. x \div 1 = x /\ y \div 1 = y
  OBVIOUS
<1> QED BY <1>3, <1>4

(* The two halves, shifted each for itself, are the length in bits unless   *)
(* the low one carries.                                                     *)
LEMMA LengthAgrees ==
  ASSUME NEW sz \in Nat
  PROVE  (\A i \in 1 .. Field : LengthBytes(sz)[i] = Digit(8 * sz, i - 1)) <=> 8 * (sz % Half) < Half
<1>0. Half \in Nat \ {0} /\ NLow \in Nat /\ 1 <= NLow /\ Field = NLow + NLow /\ 7 < Half
  BY Weights, HalfAssumption
<1>1. PICK q \in Nat, a \in Nat : q = sz \div Half /\ a = sz % Half /\ a < Half /\ sz = Half * q + a
  BY <1>0, DivMod DEF Divided
<1>2. PICK c \in Nat, lo \in Nat : c = (a * 8) \div Half /\ lo = (a * 8) % Half /\ lo < Half
                                 /\ a * 8 = Half * c + lo
  <2>1. PICK x \in Nat : x = a * 8
    OBVIOUS
  <2>2. PICK c, lo : c = x \div Half /\ lo = x % Half /\ Divided(x, Half, c, lo)
    BY <1>0, DivMod
  <2> QED BY <2>1, <2>2 DEF Divided
<1>3. PICK p \in Nat, e \in Nat : p = q \div Half /\ e = q % Half /\ e < Half /\ q = Half * p + e
  <2>1. PICK p, e : p = q \div Half /\ e = q % Half /\ Divided(q, Half, p, e)
    BY <1>0, DivMod
  <2> QED BY <2>1 DEF Divided
<1>4. PICK d \in Nat, hi \in Nat : d = (e * 8) \div Half /\ hi = (e * 8) % Half /\ hi < Half
                                 /\ e * 8 = Half * d + hi
  <2>1. PICK x \in Nat : x = e * 8
    OBVIOUS
  <2>2. PICK d, hi : d = x \div Half /\ hi = x % Half /\ Divided(x, Half, d, hi)
    BY <1>0, DivMod
  <2> QED BY <2>1, <2>2 DEF Divided
<1>5. PICK bits \in Nat, top \in Nat : bits = 8 * sz /\ top = 8 * q + c
  OBVIOUS
<1>6. bits = Half * top + lo
  <2>1. PICK m \in Nat, n \in Nat : m = Half * q /\ n = Half * c
    BY <1>0
  <2>2. Half * top = Half * (8 * q) + Half * c
    BY <1>0, <1>5
  <2>3. Half * (8 * q) = 8 * (Half * q)
    BY <1>0
  <2>4. Half * top = 8 * m + n
    BY <2>1, <2>2, <2>3
  <2>5. bits = 8 * m + 8 * a
    <3>1. sz = m + a
      BY <1>1, <2>1
    <3>2. 8 * (m + a) = 8 * m + 8 * a
      OBVIOUS
    <3> QED BY <3>1, <3>2, <1>5
  <2>6. 8 * a = n + lo
    BY <1>2, <2>1
  <2> QED BY <2>4, <2>5, <2>6
<1>7. bits \div Half = top /\ bits % Half = lo
  <2>1. Divided(bits, Half, top, lo)
    BY <1>2, <1>6 DEF Divided
  <2> QED BY <2>1, <1>0, Quotient
<1>8. PICK f \in Nat : f = 8 * p + d
  OBVIOUS
<1>9. 8 * q = Half * f + hi
  <2>1. PICK m \in Nat, n \in Nat : m = Half * p /\ n = Half * d
    BY <1>0
  <2>2. Half * f = Half * (8 * p) + Half * d
    BY <1>0, <1>8
  <2>3. Half * (8 * p) = 8 * (Half * p)
    BY <1>0
  <2>4. Half * f = 8 * m + n
    BY <2>1, <2>2, <2>3
  <2>5. 8 * q = 8 * m + 8 * e
    <3>1. q = m + e
      BY <1>3, <2>1
    <3>2. 8 * (m + e) = 8 * m + 8 * e
      OBVIOUS
    <3> QED BY <3>1, <3>2
  <2>6. 8 * e = n + hi
    BY <1>4, <2>1
  <2> QED BY <2>4, <2>5, <2>6
<1>10. LengthBytes(sz) = [i \in 1 .. Field |-> IF i <= NLow THEN Digit(lo, i - 1) ELSE Digit(hi, i - 1 - NLow)]
  BY <1>1, <1>2, <1>3, <1>4 DEF LengthBytes, NLow, Digit
<1>11. ASSUME NEW i \in 1 .. Field, i <= NLow PROVE LengthBytes(sz)[i] = Digit(bits, i - 1)
  <2>1. PICK k : k = i - 1
    OBVIOUS
  <2>2. k \in 0 .. NLow - 1
    BY <1>0, <1>11, <2>1
  <2>3. Digit(bits, k) = Digit(lo, k)
    BY <1>7, <2>2, DigitMod
  <2> QED BY <1>10, <1>11, <2>1, <2>3
<1>12. ASSUME NEW k \in 0 .. NLow - 1
       PROVE  /\ (k + NLow) + 1 \in 1 .. Field
              /\ LengthBytes(sz)[(k + NLow) + 1] = Digit(hi, k)
              /\ Digit(bits, k + NLow) = Digit(top % Half, k)
  <2>1. PICK i : i = (k + NLow) + 1
    OBVIOUS
  <2>2. i \in 1 .. Field /\ ~(i <= NLow) /\ i - 1 - NLow = k
    BY <1>0, <2>1
  <2>3. LengthBytes(sz)[i] = Digit(hi, k)
    BY <1>10, <2>2
  <2>4. Digit(bits, k + NLow) = Digit(top, k)
    BY <1>7, DigitAbove
  <2>5. Digit(top, k) = Digit(top % Half, k)
    BY DigitMod
  <2> QED BY <2>1, <2>2, <2>3, <2>4, <2>5
<1>13. c = 0 <=> a * 8 < Half
  <2>1. c # 0 => ~(a * 8 < Half)
    <3>1. ASSUME c # 0 PROVE Half * c >= Half
      <4>1. PICK b \in Nat : c = b + 1
        <5>1. c - 1 \in Nat /\ c = (c - 1) + 1
          BY <3>1
        <5> QED BY <5>1
      <4>2. Half * c = Half * b + Half /\ Half * b \in Nat
        BY <4>1, <1>0
      <4> QED BY <4>2, <1>0
    <3>2. Half * c \in Nat
      BY <1>0
    <3> QED BY <3>1, <3>2, <1>0, <1>2
  <2>2. c = 0 => a * 8 = lo
    BY <1>0, <1>2
  <2> QED BY <2>1, <2>2, <1>2
<1>14. ASSUME c = 0 PROVE \A i \in 1 .. Field : LengthBytes(sz)[i] = Digit(bits, i - 1)
  <2>1. top % Half = hi
    <3>1. top = Half * f + hi
      <4>1. top = 8 * q
        BY <1>5, <1>14
      <4> QED BY <4>1, <1>9
    <3>2. Divided(top, Half, f, hi)
      BY <3>1, <1>4 DEF Divided
    <3> QED BY <3>2, <1>0, Quotient
  <2>2. ASSUME NEW i \in 1 .. Field, ~(i <= NLow) PROVE LengthBytes(sz)[i] = Digit(bits, i - 1)
    <3>1. PICK k : k = i - 1 - NLow
      OBVIOUS
    <3>2. k \in 0 .. NLow - 1 /\ (k + NLow) + 1 = i /\ k + NLow = i - 1
      BY <1>0, <2>2, <3>1
    <3> QED BY <3>2, <2>1, <1>12
  <2> QED BY <1>11, <2>2
<1>15. ASSUME \A i \in 1 .. Field : LengthBytes(sz)[i] = Digit(bits, i - 1) PROVE c = 0
  <2>1. PICK g \in Nat, y \in Nat : g = top \div Half /\ y = top % Half /\ y < Half /\ top = Half * g + y
    <3>1. PICK g, y : g = top \div Half /\ y = top % Half /\ Divided(top, Half, g, y)
      BY <1>0, DivMod
    <3> QED BY <3>1 DEF Divided
  <2>2. ASSUME NEW k \in 0 .. NLow - 1 PROVE Digit(hi, k) = Digit(y, k)
    <3>1. PICK i : i = (k + NLow) + 1
      OBVIOUS
    <3>2. i \in 1 .. Field /\ i - 1 = k + NLow
      BY <3>1, <1>0
    <3>3. LengthBytes(sz)[i] = Digit(bits, k + NLow)
      BY <3>2, <1>15
    <3> QED BY <3>1, <3>3, <2>1, <1>12
  <2>3. hi = y
    BY <2>1, <2>2, <1>0, <1>4, DigitsDetermine
  <2>4. Half * g = Half * f + c
    <3>1. PICK m \in Nat, n \in Nat : m = Half * g /\ n = Half * f
      BY <1>0
    <3>2. top = m + hi /\ top = (n + hi) + c
      BY <3>1, <2>1, <2>3, <1>5, <1>9
    <3>3. m = n + c
      BY <3>2
    <3> QED BY <3>1, <3>3
  <2>5. c <= 7
    <3>1. 7 < c => Half * 7 + Half <= Half * c
      BY <1>0, MulLess
    <3>2. Half * c \in Nat
      BY <1>0
    <3> QED BY <3>1, <3>2, <1>0, <1>1, <1>2
  <2>6. (Half * g) \div Half = g /\ (Half * g) % Half = 0
    <3>1. PICK x : x = Half * g
      OBVIOUS
    <3>2. x = Half * g + 0
      BY <3>1, <1>0
    <3>3. x \div Half = g /\ x % Half = 0
      <4>1. Divided(x, Half, g, 0)
        BY <3>2, <1>0 DEF Divided
      <4> QED BY <4>1, <1>0, Quotient
    <3> QED BY <3>1, <3>3
  <2>7. (Half * g) % Half = c
    <3>1. PICK x : x = Half * g
      OBVIOUS
    <3>2. x = Half * f + c /\ c < Half
      BY <3>1, <2>4, <2>5, <1>0
    <3>3. x % Half = c
      <4>1. Divided(x, Half, f, c)
        BY <3>2 DEF Divided
      <4> QED BY <4>1, <1>0, Quotient
    <3> QED BY <3>1, <3>3
  <2> QED BY <2>6, <2>7
<1>16. 8 * (sz % Half) = a * 8
  BY <1>1
<1> QED BY <1>5, <1>13, <1>14, <1>15, <1>16

(* What is fed is in the blocks, the cache and the chunk, in order: the     *)
(* n-th byte is the number n.                                               *)
Counted(s, from) == \A j \in 1 .. Len(s) : s[j] = from + j
Fed ==
  pc # "final" =>
    /\ \A b \in 1 .. Len(ctx.blocks) : Counted(ctx.blocks[b], (b - 1) * Block)
    /\ Counted(ctx.cache, Len(ctx.blocks) * Block)
    /\ Counted(src, ctx.sz)

(* Counting goes on from one sequence to the next.                          *)
LEMMA CountedJoin ==
  ASSUME NEW s \in Seq(Nat), NEW t \in Seq(Nat), NEW from \in Nat, NEW next \in Nat,
         Counted(s, from), Counted(t, next), next = from + Len(s)
  PROVE  Counted(s \o t, from)
<1>1. Len(s) \in Nat /\ Len(t) \in Nat /\ Len(s \o t) = Len(s) + Len(t)
  OBVIOUS
<1>2. ASSUME NEW j \in 1 .. Len(s \o t) PROVE (s \o t)[j] = from + j
  <2>1. CASE j <= Len(s)
    <3>1. j \in 1 .. Len(s) /\ (s \o t)[j] = s[j]
      BY <1>1, <2>1, ConcatProperties
    <3> QED BY <3>1 DEF Counted
  <2>2. CASE ~(j <= Len(s))
    <3>1. PICK i \in 1 .. Len(t) : j = Len(s) + i
      <4>1. j - Len(s) \in 1 .. Len(t) /\ j = Len(s) + (j - Len(s))
        BY <1>1, <2>2
      <4> QED BY <4>1
    <3>2. (s \o t)[j] = t[i]
      BY <1>1, <2>2, <3>1, ConcatProperties
    <3>3. t[i] = next + i
      BY DEF Counted
    <3> QED BY <1>1, <3>1, <3>2, <3>3
  <2> QED BY <2>1, <2>2
<1> QED BY <1>2 DEF Counted

(* What is taken from a chunk follows what was taken before.                *)
LEMMA CountedBytes ==
  ASSUME Inv, Fed, pc = "update", NEW n \in Nat, n <= Remaining
  PROVE  /\ Bytes(n) \in Seq(Nat) /\ Len(Bytes(n)) = n
         /\ Counted(Bytes(n), ctx.sz + done)
<1>1. Bytes(n) \in Seq(Nat) /\ Len(Bytes(n)) = n
  BY Taking DEF Inv
<1>2. Counted(src, ctx.sz)
  BY DEF Fed
<1>3. src \in Seq(Nat) /\ done \in Nat /\ done <= Len(src) /\ Len(src) \in Nat /\ ctx.sz \in Nat
      /\ Remaining = Len(src) - done
  BY DEF Inv, TypeOK, Remaining
<1>4. ASSUME NEW j \in 1 .. n PROVE Bytes(n)[j] = (ctx.sz + done) + j
  <2>1. done + j \in 1 .. Len(src)
    BY <1>3
  <2>2. Bytes(n)[j] = src[done + j]
    <3>1. PICK a \in Int, b \in Int :
            /\ a = done + 1 /\ b = done + n /\ j \in 1 .. b - a + 1 /\ a + j - 1 = done + j
      BY <1>3
    <3>2. \A i \in a .. b : i \in 1 .. Len(src)
      BY <1>3, <3>1
    <3>3. \A i \in a .. b : src[i] \in Nat
      BY <1>3, <3>2, ElementOfSeq
    <3>4. SubSeq(src, a, b)[j] = src[a + j - 1]
      BY <3>1, <3>3, SubSeqProperties
    <3> QED BY <3>1, <3>4 DEF Bytes
  <2>3. src[done + j] = ctx.sz + (done + j)
    BY <1>2, <2>1 DEF Counted
  <2> QED BY <1>3, <2>2, <2>3
<1> QED BY <1>1, <1>4 DEF Counted

(* A block of what follows the ones before it.                              *)
LEMMA CountedBlock ==
  ASSUME NEW groups \in Seq(Seq(Nat)), NEW block \in Seq(Nat), Counted(block, Len(groups) * Block),
         \A b \in 1 .. Len(groups) : Counted(groups[b], (b - 1) * Block)
  PROVE  \A b \in 1 .. Len(Append(groups, block)) : Counted(Append(groups, block)[b], (b - 1) * Block)
<1>1. Len(Append(groups, block)) = Len(groups) + 1 /\ Len(groups) \in Nat
  OBVIOUS
<1> TAKE b \in 1 .. Len(Append(groups, block))
<1>2. CASE b <= Len(groups)
  <2>1. b \in 1 .. Len(groups) /\ Append(groups, block)[b] = groups[b]
    BY <1>1, <1>2
  <2> QED BY <2>1
<1>3. CASE ~(b <= Len(groups))
  <2>1. b = Len(groups) + 1 /\ b - 1 = Len(groups)
    BY <1>1, <1>3
  <2>2. Append(groups, block)[b] = block
    BY <2>1
  <2> QED BY <2>1, <2>2
<1> QED BY <1>2, <1>3

(* A whole block goes from the chunk into the context.                      *)
LEMMA FedFast ==
  ASSUME Inv, Fed, UpdateFast
  PROVE  Fed'
<1>1. /\ ctx.blocks \in Seq(Seq(Nat)) /\ ctx.sz \in Nat /\ done \in Nat /\ Block \in Nat /\ 0 < Block
      /\ Len(ctx.blocks) * Block + 0 = ctx.sz + done /\ Block <= Remaining /\ pc = "update"
  <2>1. ctx \in [blocks : Seq(Seq(Nat)), cache : Seq(Nat), sz : Nat] /\ done \in Nat
    BY DEF Inv, TypeOK
  <2>2. Block \in Nat /\ 0 < Block
    BY BlockAssumption
  <2>3. pc = "update" /\ Len(ctx.cache) = 0
    BY DEF UpdateFast
  <2>4. Len(ctx.blocks) * Block + 0 = ctx.sz + done
    BY <2>3 DEF Inv, CacheRoom
  <2>5. Block <= Remaining
    BY <2>2, <2>1 DEF UpdateFast, Remaining, Inv, TypeOK
  <2> QED BY <2>1, <2>2, <2>3, <2>4, <2>5
<1>2. /\ Bytes(Block) \in Seq(Nat) /\ Counted(Bytes(Block), ctx.sz + done)
  BY <1>1, CountedBytes
<1>3. ctx.sz + done = Len(ctx.blocks) * Block
  <2>1. Len(ctx.blocks) * Block \in Nat
    BY <1>1
  <2> QED BY <1>1, <2>1
<1>4. ctx'.blocks = Append(ctx.blocks, Bytes(Block)) /\ ctx'.cache = <<>> /\ ctx'.sz = ctx.sz
      /\ src' = src
  BY DEF UpdateFast, update_block
<1>5. \A b \in 1 .. Len(ctx'.blocks) : Counted(ctx'.blocks[b], (b - 1) * Block)
  <2>1. \A b \in 1 .. Len(ctx.blocks) : Counted(ctx.blocks[b], (b - 1) * Block)
    BY <1>1 DEF Fed
  <2>2. PICK block : block = Bytes(Block)
    OBVIOUS
  <2>3. \A b \in 1 .. Len(Append(ctx.blocks, block)) : Counted(Append(ctx.blocks, block)[b], (b - 1) * Block)
    BY <1>1, <1>2, <1>3, <2>1, <2>2, CountedBlock
  <2> QED BY <1>4, <2>2, <2>3
<1>6. Counted(src', ctx'.sz)
  BY <1>1, <1>4 DEF Fed
<1>7. Counted(ctx'.cache, Len(ctx'.blocks) * Block)
  BY <1>4 DEF Counted
<1> QED BY <1>5, <1>6, <1>7 DEF Fed, Counted

(* A part of the chunk goes through the cache.                              *)
LEMMA FedSlow ==
  ASSUME Inv, Fed, UpdateSlow
  PROVE  Fed'
<1> DEFINE room == Block - cacheLen
           n == IF Remaining > room THEN room ELSE Remaining
           cache == ctx.cache \o Bytes(n)
<1>1. /\ ctx.blocks \in Seq(Seq(Nat)) /\ ctx.cache \in Seq(Nat) /\ ctx.sz \in Nat /\ done \in Nat
      /\ Block \in Nat /\ Len(ctx.cache) < Block /\ Remaining \in Nat /\ pc = "update"
      /\ Len(ctx.blocks) * Block + Len(ctx.cache) = ctx.sz + done
  <2>1. ctx \in [blocks : Seq(Seq(Nat)), cache : Seq(Nat), sz : Nat] /\ done \in Nat
        /\ src \in Seq(Nat) /\ done <= Len(src)
    BY DEF Inv, TypeOK
  <2>2. Block \in Nat /\ pc = "update"
    BY BlockAssumption DEF UpdateSlow
  <2>3. Len(ctx.blocks) * Block + Len(ctx.cache) = ctx.sz + done /\ Len(ctx.cache) < Block
    BY <2>2 DEF Inv, CacheRoom
  <2>4. Remaining \in Nat
    BY <2>1 DEF Remaining
  <2> QED BY <2>1, <2>2, <2>3, <2>4
<1>2. n \in Nat /\ n <= Remaining
  BY <1>1
<1>3. /\ ctx' = IF Len(cache) = Block THEN update_block(ctx, cache)
                ELSE [ctx EXCEPT !.cache = cache]
      /\ src' = src /\ pc' = pc
  BY DEF UpdateSlow
<1> HIDE DEF n
<1>4. /\ Bytes(n) \in Seq(Nat) /\ Counted(Bytes(n), ctx.sz + done)
  BY <1>1, <1>2, CountedBytes
<1>5. /\ \A b \in 1 .. Len(ctx.blocks) : Counted(ctx.blocks[b], (b - 1) * Block)
      /\ Counted(ctx.cache, Len(ctx.blocks) * Block) /\ Counted(src, ctx.sz)
  BY <1>1 DEF Fed
<1>6. cache \in Seq(Nat) /\ Counted(cache, Len(ctx.blocks) * Block)
  <2>1. PICK from \in Nat, next \in Nat, t \in Seq(Nat) :
          from = Len(ctx.blocks) * Block /\ next = ctx.sz + done /\ t = Bytes(n)
    BY <1>1, <1>4
  <2>2. next = from + Len(ctx.cache)
    BY <1>1, <2>1
  <2>3. Counted(ctx.cache \o t, from)
    <3>1. Counted(ctx.cache, from) /\ Counted(t, next)
      BY <1>4, <1>5, <2>1
    <3> QED BY <1>1, <2>1, <2>2, <3>1, CountedJoin
  <2> QED BY <1>1, <2>1, <2>3
<1> HIDE DEF cache
<1>7. CASE Len(cache) = Block
  <2>1. ctx'.blocks = Append(ctx.blocks, cache) /\ ctx'.cache = <<>> /\ ctx'.sz = ctx.sz
    BY <1>3, <1>7 DEF update_block
  <2>2. \A b \in 1 .. Len(Append(ctx.blocks, cache)) : Counted(Append(ctx.blocks, cache)[b], (b - 1) * Block)
    BY <1>1, <1>5, <1>6, CountedBlock
  <2>3. Counted(ctx'.cache, Len(ctx'.blocks) * Block)
    BY <2>1 DEF Counted
  <2>4. \A b \in 1 .. Len(ctx'.blocks) : Counted(ctx'.blocks[b], (b - 1) * Block)
    BY <2>1, <2>2
  <2>5. Counted(src', ctx'.sz)
    BY <1>3, <1>5, <2>1
  <2> QED BY <2>3, <2>4, <2>5 DEF Fed
<1>8. CASE Len(cache) # Block
  <2>1. ctx'.blocks = ctx.blocks /\ ctx'.cache = cache /\ ctx'.sz = ctx.sz
    <3>1. ctx \in [blocks : Seq(Seq(Nat)), cache : Seq(Nat), sz : Nat]
      BY DEF Inv, TypeOK
    <3> QED BY <1>3, <1>8, <3>1
  <2>2. \A b \in 1 .. Len(ctx'.blocks) : Counted(ctx'.blocks[b], (b - 1) * Block)
    BY <1>5, <2>1
  <2>3. Counted(ctx'.cache, Len(ctx'.blocks) * Block)
    BY <1>6, <2>1
  <2>4. Counted(src', ctx'.sz)
    BY <1>3, <1>5, <2>1
  <2> QED BY <2>2, <2>3, <2>4 DEF Fed
<1> QED BY <1>7, <1>8

(* The n bytes of a message, its mark, and zeros behind them.               *)
Body(n, i) == IF i <= n THEN i ELSE IF i = n + 1 THEN Mark ELSE 0
Bodied(s, n, from) == \A j \in 1 .. Len(s) : s[j] = Body(n, from + j)

(* What finalize puts behind the last bytes: the mark and zeros.            *)
Endpiece(c, z) == Append(c, Mark) \o Zeros(z)

LEMMA EndpieceBodied ==
  ASSUME NEW c \in Seq(Nat), NEW from \in Nat, Counted(c, from), NEW z \in Nat,
         NEW n \in Nat, n = from + Len(c)
  PROVE  /\ Endpiece(c, z) \in Seq(Nat) /\ Len(Endpiece(c, z)) = Len(c) + 1 + z
         /\ Bodied(Endpiece(c, z), n, from)
<1> DEFINE m == Append(c, Mark)
           s == m \o Zeros(z)
<1>1. /\ m \in Seq(Nat) /\ Len(m) = Len(c) + 1 /\ Len(c) \in Nat
      /\ \A j \in 1 .. Len(c) : m[j] = c[j]
      /\ m[Len(c) + 1] = Mark
  BY HalfAssumption
<1>2. Zeros(z) \in Seq(Nat) /\ Len(Zeros(z)) = z /\ \A j \in 1 .. z : Zeros(z)[j] = 0
  BY ZerosLength DEF Zeros
<1> HIDE DEF m
<1>3. /\ s \in Seq(Nat) /\ Len(s) = Len(m) + z
      /\ \A j \in 1 .. Len(m) : s[j] = m[j]
      /\ \A j \in 1 .. z : s[Len(m) + j] = 0
  <2>1. PICK t \in Seq(Nat) : t = Zeros(z)
    BY <1>2
  <2>2. /\ m \o t \in Seq(Nat) /\ Len(m \o t) = Len(m) + Len(t)
        /\ \A j \in 1 .. Len(m) + Len(t) : (m \o t)[j] = IF j <= Len(m) THEN m[j] ELSE t[j - Len(m)]
    BY <1>1, ConcatProperties
  <2>3. Len(m) \in Nat /\ Len(t) = z /\ \A j \in 1 .. z : t[j] = 0
    BY <1>1, <1>2, <2>1
  <2>4. ASSUME NEW j \in 1 .. z PROVE (m \o t)[Len(m) + j] = 0
    <3>1. PICK i : i = Len(m) + j
      OBVIOUS
    <3>2. i \in 1 .. Len(m) + Len(t) /\ ~(i <= Len(m)) /\ i - Len(m) = j
      BY <2>3, <3>1
    <3>3. (m \o t)[i] = t[j]
      BY <2>2, <3>2
    <3> QED BY <3>1, <3>3, <2>3
  <2>5. \A j \in 1 .. Len(m) : (m \o t)[j] = m[j]
    BY <2>2, <2>3
  <2> QED BY <2>1, <2>2, <2>3, <2>4, <2>5
<1> HIDE DEF s
<1>4. ASSUME NEW j \in 1 .. Len(s) PROVE s[j] = Body(n, from + j)
  <2>1. CASE j <= Len(c)
    <3>1. s[j] = from + j
      BY <2>1, <1>1, <1>3 DEF Counted
    <3> QED BY <2>1, <3>1, <1>1 DEF Body
  <2>2. CASE j = Len(c) + 1
    <3>0. j \in 1 .. Len(m) /\ m[j] = Mark
      <4>1. Len(m) \in 1 .. Len(m) /\ j = Len(m)
        BY <2>2, <1>1
      <4>2. m[Len(c) + 1] = Mark
        BY <1>1
      <4> QED BY <2>2, <4>1, <4>2
    <3>1. s[j] = Mark
      BY <3>0, <1>3
    <3>2. from + j = n + 1 /\ ~(n + 1 <= n)
      BY <2>2, <1>1
    <3>3. PICK i : i = from + j
      OBVIOUS
    <3>4. i = n + 1 /\ ~(i <= n)
      BY <3>2, <3>3
    <3>5. Body(n, i) = Mark
      BY <3>4 DEF Body
    <3> QED BY <3>1, <3>3, <3>5
  <2>3. CASE Len(c) + 1 < j
    <3>1. PICK i \in 1 .. z : j = Len(m) + i
      <4>1. j - Len(m) \in 1 .. z /\ j = Len(m) + (j - Len(m))
        BY <2>3, <1>1, <1>3
      <4> QED BY <4>1
    <3>2. s[j] = 0
      BY <3>1, <1>3
    <3> QED BY <2>3, <3>2, <1>1 DEF Body
  <2> QED BY <2>1, <2>2, <2>3, <1>1, <1>3
<1>5. Len(s) = Len(c) + 1 + z
  BY <1>1, <1>3
<1>6. Endpiece(c, z) = s
  BY DEF Endpiece, s, m
<1> QED BY <1>3, <1>4, <1>5, <1>6 DEF Bodied

(* The padded message as a whole: its body, up to the field, and the        *)
(* length.                                                                  *)
LEMMA PaddedFacts ==
  ASSUME NEW n \in Nat, NEW q, NEW r, Divided(n + Field, Block, q, r),
         NEW T, T = Block * q + Block
  PROVE  /\ T \in Nat /\ Field <= T
         /\ Padded(n) \in Seq(Nat) /\ Len(Padded(n)) = T
         /\ \A i \in 1 .. T - Field : Padded(n)[i] = Body(n, i)
         /\ \A k \in 1 .. Field : Padded(n)[(T - Field) + k] = Digit(8 * n, k - 1)
<1> DEFINE a == [i \in 1 .. n |-> i]
           z == Block - 1 - ((n + Field) % Block)
           d == [i \in 1 .. Field |-> ((8 * n) \div Weight[i - 1]) % Base]
           s == Endpiece(a, z)
<1>0. q \in Nat /\ r \in Nat /\ r < Block /\ n + Field = Block * q + r
      /\ Block \in Nat /\ Field \in Nat /\ 0 < Field /\ Field < Block
  BY BlockAssumption DEF Divided
<1>1. (n + Field) % Block = r
  <2>1. PICK x : x = n + Field
    OBVIOUS
  <2> QED BY <2>1, <1>0, Quotient
<1>2. z \in Nat /\ z = Block - 1 - r
  BY <1>0, <1>1
<1>3. Block * q \in Nat
  BY <1>0
<1>4. T \in Nat /\ Field <= T /\ n + 1 + z = T - Field
  BY <1>0, <1>2, <1>3
<1>5. a \in Seq(Nat) /\ Len(a) = n /\ Counted(a, 0)
  BY DEF Counted
<1>6. d \in Seq(Nat) /\ Len(d) = Field /\ \A k \in 1 .. Field : d[k] = Digit(8 * n, k - 1)
  <2>1. ASSUME NEW k \in 1 .. Field PROVE ((8 * n) \div Weight[k - 1]) % Base \in Nat
    <3>1. PICK w \in Nat \ {0} : w = Weight[k - 1]
      BY <1>0, WeightAssumption
    <3>2. (8 * n) \div w \in Nat
      OBVIOUS
    <3> QED BY <3>1, <3>2, HalfAssumption
  <2>2. \A k \in 1 .. Field : d[k] = Digit(8 * n, k - 1)
    BY DEF Digit
  <2> QED BY <2>1, <2>2, <1>0
<1>7. Padded(n) = s \o d
  <2>1. a \o <<Mark>> = Append(a, Mark)
    BY <1>5, HalfAssumption, AppendIsConcat
  <2> QED BY <2>1 DEF Padded, Endpiece
<1> HIDE DEF a, z, d
<1>8. s \in Seq(Nat) /\ Len(s) = T - Field /\ Bodied(s, n, 0)
  <2>1. n = 0 + Len(a)
    BY <1>5
  <2>2. s \in Seq(Nat) /\ Len(s) = Len(a) + 1 + z /\ Bodied(s, n, 0)
    BY <1>2, <1>5, <2>1, EndpieceBodied
  <2> QED BY <2>2, <1>4, <1>5
<1> HIDE DEF s
<1>9. /\ s \o d \in Seq(Nat) /\ Len(s \o d) = Len(s) + Len(d)
      /\ \A j \in 1 .. Len(s) + Len(d) : (s \o d)[j] = IF j <= Len(s) THEN s[j] ELSE d[j - Len(s)]
  BY <1>6, <1>8, ConcatProperties
<1>10. Len(Padded(n)) = T
  BY <1>4, <1>6, <1>7, <1>8, <1>9, <1>0
<1>11. ASSUME NEW i \in 1 .. T - Field PROVE Padded(n)[i] = Body(n, i)
  <2>1. i \in 1 .. Len(s) + Len(d) /\ i <= Len(s) /\ i \in 1 .. Len(s) /\ 0 + i = i
    BY <1>0, <1>4, <1>6, <1>8
  <2>2. s[i] = Body(n, 0 + i)
    BY <1>8, <2>1 DEF Bodied
  <2> QED BY <1>7, <1>9, <2>1, <2>2
<1>12. ASSUME NEW k \in 1 .. Field PROVE Padded(n)[(T - Field) + k] = Digit(8 * n, k - 1)
  <2>1. PICK i : i = (T - Field) + k
    OBVIOUS
  <2>2. i \in 1 .. Len(s) + Len(d) /\ ~(i <= Len(s)) /\ i - Len(s) = k
    BY <1>0, <1>4, <1>6, <1>8, <2>1
  <2>3. (s \o d)[i] = d[k]
    BY <1>9, <2>2
  <2> QED BY <1>6, <1>7, <2>1, <2>3
<1> QED BY <1>4, <1>7, <1>9, <1>10, <1>11, <1>12

(* A block behind others.                                                   *)
LEMMA AppendedBlock ==
  ASSUME NEW groups \in Seq(Seq(Nat)), NEW block \in Seq(Nat), NEW m, m = Len(groups) + 1
  PROVE  /\ Append(groups, block) \in Seq(Seq(Nat)) /\ Len(Append(groups, block)) = m
         /\ m \in Nat /\ m - 1 = Len(groups) /\ Append(groups, block)[m] = block
         /\ \A b \in 1 .. m - 1 : Append(groups, block)[b] = groups[b]
<1>1. Len(groups) \in Nat
  OBVIOUS
<1>2. /\ Append(groups, block) \in Seq(Seq(Nat)) /\ Len(Append(groups, block)) = Len(groups) + 1
      /\ Append(groups, block)[Len(groups) + 1] = block
      /\ \A b \in 1 .. Len(groups) : Append(groups, block)[b] = groups[b]
  BY AppendProperties
<1>3. m \in Nat /\ m - 1 = Len(groups)
  BY <1>1
<1> QED BY <1>2, <1>3

(* What finalize leaves: the blocks of the message, its mark and zeros, and *)
(* the length in the last one.                                              *)
LEMMA Finished ==
  ASSUME Inv, Fed, md5_finalize, NEW q, NEW r, Divided(ctx.sz + Field, Block, q, r)
  PROVE  \E head \in Seq(Nat) :
           /\ digest' \in Seq(Seq(Nat)) /\ Len(digest') = q + 1 /\ ctx'.sz = ctx.sz
           /\ \A b \in 1 .. q : /\ Len(digest'[b]) = Block
                                /\ Bodied(digest'[b], ctx.sz, (b - 1) * Block)
           /\ Len(head) = Block - Field /\ Bodied(head, ctx.sz, q * Block)
           /\ digest'[q + 1] = head \o LengthBytes(ctx.sz)
<1> DEFINE n == ctx.sz
           L == Len(ctx.blocks)
           c == ctx.cache
           u == L * Block
<1>1. /\ ctx.blocks \in Seq(Seq(Nat)) /\ c \in Seq(Nat) /\ n \in Nat /\ L \in Nat /\ Len(c) \in Nat
      /\ ctx \in [blocks : Seq(Seq(Nat)), cache : Seq(Nat), sz : Nat]
      /\ Block \in Nat /\ Field \in Nat /\ 0 < Field /\ Field < Block /\ Len(c) < Block
  <2>1. ctx \in [blocks : Seq(Seq(Nat)), cache : Seq(Nat), sz : Nat]
    BY DEF Inv, TypeOK
  <2>2. Len(c) < Block
    BY DEF Inv, CacheRoom
  <2> QED BY <2>1, <2>2, BlockAssumption
<1>2. /\ u \in Nat /\ n = u + Len(c) /\ Counted(c, u)
      /\ \A b \in 1 .. L : Len(ctx.blocks[b]) = Block /\ Counted(ctx.blocks[b], (b - 1) * Block)
  <2>1. pc = "idle"
    BY DEF md5_finalize
  <2>2. u + Len(c) = n + done /\ done = 0
    BY <2>1 DEF Inv, CacheRoom, NoChunk
  <2>3. u \in Nat
    BY <1>1
  <2>4. Counted(c, u) /\ \A b \in 1 .. L : Counted(ctx.blocks[b], (b - 1) * Block)
    BY <2>1 DEF Fed
  <2>5. \A b \in 1 .. L : Len(ctx.blocks[b]) = Block
    BY DEF Inv, CacheRoom
  <2>6. n = u + Len(c)
    BY <2>2, <2>3, <1>1
  <2> QED BY <2>3, <2>4, <2>5, <2>6
<1>3. \A b \in 1 .. L : Bodied(ctx.blocks[b], n, (b - 1) * Block)
  <2> TAKE b \in 1 .. L
  <2>1. PICK v \in Nat : v = (b - 1) * Block /\ v + Block <= u
    <3>1. PICK a \in Nat : a = b - 1 /\ a < L
      <4>1. b - 1 \in Nat /\ b - 1 < L
        BY <1>1
      <4> QED BY <4>1
    <3>2. Block * a + Block <= Block * L
      BY <3>1, <1>1, MulLess
    <3>3. a * Block = Block * a /\ Block * L = L * Block /\ a * Block \in Nat
      BY <3>1, <1>1
    <3> QED BY <3>1, <3>2, <3>3
  <2>2. Len(ctx.blocks[b]) = Block /\ Counted(ctx.blocks[b], v)
    BY <1>2, <2>1
  <2> HIDE DEF n, u, c
  <2>3. ASSUME NEW j \in 1 .. Block PROVE ctx.blocks[b][j] = Body(n, v + j)
    <3>1. ctx.blocks[b][j] = v + j
      BY <2>2 DEF Counted
    <3>2. v + j <= n
      BY <1>1, <1>2, <2>1
    <3> QED BY <3>1, <3>2 DEF Body
  <2> QED BY <2>1, <2>2, <2>3 DEF Bodied
<1>4. LengthBytes(n) \in Seq(Nat) /\ Len(LengthBytes(n)) = Field
  BY <1>1, LengthFits
<1> DEFINE marked == Append(c, Mark)
           c1 == IF Block - Len(marked) < Field
                 THEN update_block(ctx, marked \o Zeros(Block - Len(marked)))
                 ELSE [ctx EXCEPT !.cache = marked]
           head == c1.cache \o Zeros(Block - Field - Len(c1.cache))
<1>5. /\ ctx' = update_block(c1, head \o LengthBytes(c1.sz)) /\ digest' = ctx'.blocks
  <2> DEFINE c0 == IF cacheLen = Block THEN update_block(ctx, ctx.cache) ELSE ctx
  <2>1. c0 = ctx
    BY <1>1
  <2>2. LET m == Append(c0.cache, Mark)
            d == IF Block - Len(m) < Field
                 THEN update_block(c0, m \o Zeros(Block - Len(m)))
                 ELSE [c0 EXCEPT !.cache = m]
        IN /\ ctx' = update_block(d, (d.cache \o Zeros(Block - Field - Len(d.cache))) \o LengthBytes(d.sz))
           /\ digest' = ctx'.blocks
    BY Zenon DEF md5_finalize
  <2> HIDE DEF c0
  <2> QED BY <2>1, <2>2
<1>6. marked \in Seq(Nat) /\ Len(marked) = Len(c) + 1
  BY <1>1, HalfAssumption
<1>7. q \in Nat /\ r \in Nat /\ r < Block /\ n + Field = Block * q + r
  BY DEF Divided
<1> HIDE DEF n, L, c, u
<1>8. CASE ~(Block - Len(marked) < Field)
  <2> DEFINE z == Block - Field - Len(marked)
  <2>1. c1 = [ctx EXCEPT !.cache = marked]
    BY <1>8
  <2> HIDE DEF c1
  <2>2. c1.cache = marked /\ c1.blocks = ctx.blocks /\ c1.sz = n
    BY <2>1, <1>1, <1>6 DEF n
  <2>3. z \in Nat /\ Len(c) + 1 + z = Block - Field
    BY <1>1, <1>6, <1>8
  <2>4. head = Endpiece(c, z)
    BY <2>2 DEF Endpiece
  <2> HIDE DEF head, z
  <2>5. head \in Seq(Nat) /\ Len(head) = Block - Field /\ Bodied(head, n, u)
    BY <2>3, <2>4, <1>1, <1>2, EndpieceBodied
  <2>6. digest' = Append(ctx.blocks, head \o LengthBytes(n)) /\ ctx'.sz = n
    BY <1>5, <2>2 DEF update_block
  <2>7. q = L
    <3>1. Divided(n + Field, Block, L, Len(c) + Field)
      <4>1. n + Field = Block * L + (Len(c) + Field)
        <5>1. u = Block * L
          BY <1>1 DEF u
        <5> QED BY <5>1, <1>1, <1>2
      <4>2. Len(c) + Field < Block
        BY <1>1, <1>6, <1>8
      <4> QED BY <4>1, <4>2, <1>1 DEF Divided
    <3>2. PICK x, y : x = n + Field /\ y = Len(c) + Field
      OBVIOUS
    <3>3. Divided(x, Block, L, y) /\ Divided(x, Block, q, r)
      BY <3>1, <3>2 DEF n
    <3>4. x \div Block = L
      BY <3>3, <1>1, Quotient
    <3>5. x \div Block = q
      BY <3>3, <1>1, Quotient
    <3> QED BY <3>4, <3>5
  <2>8. PICK w \in Seq(Nat) : w = head \o LengthBytes(n)
    BY <2>5, <1>4, Joining
  <2>9. /\ Append(ctx.blocks, w) \in Seq(Seq(Nat)) /\ Len(Append(ctx.blocks, w)) = q + 1
        /\ Append(ctx.blocks, w)[q + 1] = w
        /\ \A b \in 1 .. q : Append(ctx.blocks, w)[b] = ctx.blocks[b]
    <3>1. PICK m : m = q + 1
      OBVIOUS
    <3>2. m = Len(ctx.blocks) + 1 /\ m - 1 = q
      BY <3>1, <2>7, <1>7 DEF L
    <3> QED BY <3>1, <3>2, <1>1, AppendedBlock
  <2>10. digest' = Append(ctx.blocks, w) /\ q * Block = u
    BY <2>6, <2>7, <2>8 DEF u
  <2>11. \A b \in 1 .. q : Len(digest'[b]) = Block /\ Bodied(digest'[b], n, (b - 1) * Block)
    BY <2>7, <2>9, <2>10, <1>2, <1>3
  <2> QED BY <2>5, <2>6, <2>8, <2>9, <2>10, <2>11 DEF n
<1>9. CASE Block - Len(marked) < Field
  <2> DEFINE z == Block - Len(marked)
             mid == marked \o Zeros(z)
             zeros == Zeros(Block - Field - Len(c1.cache))
  <2>1. c1 = update_block(ctx, mid)
    BY <1>9
  <2> HIDE DEF c1
  <2>2. c1.cache = <<>> /\ c1.blocks = Append(ctx.blocks, mid) /\ c1.sz = n
    BY <2>1 DEF update_block, n
  <2>3. z \in Nat /\ Len(c) + 1 + z = Block
    BY <1>1, <1>6
  <2>4. mid = Endpiece(c, z)
    BY DEF Endpiece, marked
  <2> HIDE DEF mid, z
  <2>5. mid \in Seq(Nat) /\ Len(mid) = Block /\ Bodied(mid, n, u)
    BY <2>3, <2>4, <1>1, <1>2, EndpieceBodied
  <2>6. zeros \in Seq(Nat) /\ Len(zeros) = Block - Field /\ \A j \in 1 .. Block - Field : zeros[j] = 0
    <3>1. PICK k \in Nat : k = Block - Field - Len(c1.cache) /\ k = Block - Field
      <4>1. Len(c1.cache) = 0
        BY <2>2
      <4> QED BY <4>1, <1>1
    <3>2. Zeros(k) \in Seq(Nat) /\ Len(Zeros(k)) = k /\ \A j \in 1 .. k : Zeros(k)[j] = 0
      BY ZerosLength DEF Zeros
    <3> QED BY <3>1, <3>2
  <2>7. head = zeros
    <3>1. head = <<>> \o zeros
      BY <2>2
    <3> HIDE DEF zeros, head
    <3> QED BY <3>1, <2>6
  <2> HIDE DEF head, zeros
  <2>8. q = L + 1
    <3>1. Divided(n + Field, Block, L + 1, Len(c) + Field - Block)
      <4>1. n + Field = Block * (L + 1) + (Len(c) + Field - Block)
        <5>1. u = Block * L /\ Block * (L + 1) = Block * L + Block
          BY <1>1 DEF u
        <5>2. u \in Nat /\ n = u + Len(c)
          BY <1>2
        <5> QED BY <5>1, <5>2, <1>1
      <4>2. Len(c) + Field - Block < Block /\ Len(c) + Field - Block \in Nat /\ L + 1 \in Nat
        BY <1>1, <1>6, <1>9
      <4> QED BY <4>1, <4>2 DEF Divided
    <3>2. PICK x, y, l : x = n + Field /\ y = Len(c) + Field - Block /\ l = L + 1
      OBVIOUS
    <3>3. Divided(x, Block, l, y) /\ Divided(x, Block, q, r)
      BY <3>1, <3>2 DEF n
    <3>4. x \div Block = l
      BY <3>3, <1>1, Quotient
    <3>5. x \div Block = q
      BY <3>3, <1>1, Quotient
    <3> QED BY <3>2, <3>4, <3>5
  <2>9. PICK v \in Nat : v = q * Block /\ v = u + Block
    <3>1. (L + 1) * Block = L * Block + Block
      BY <1>1
    <3> QED BY <3>1, <2>8, <1>1, <1>2 DEF u
  <2>10. Bodied(head, n, v)
    <3>1. ASSUME NEW j \in 1 .. Block - Field PROVE head[j] = Body(n, v + j)
      <4>1. PICK i : i = v + j
        OBVIOUS
      <4>2. i > n + 1 /\ i \in Nat
        <5>1. n = u + Len(c) /\ u \in Nat /\ v = u + Block
          BY <1>2, <2>9
        <5>2. PICK l \in Nat, k \in Nat : l = Len(c) /\ k = Block /\ l + 1 <= k
          BY <1>1
        <5> QED BY <4>1, <5>1, <5>2
      <4>3. Body(n, i) = 0
        BY <4>2, <1>1 DEF Body
      <4> QED BY <4>1, <4>3, <2>6, <2>7
    <3> QED BY <3>1, <2>6, <2>7 DEF Bodied
  <2>11. PICK w \in Seq(Nat) : w = head \o LengthBytes(n)
    BY <2>6, <2>7, <1>4, Joining
  <2>12. PICK groups \in Seq(Seq(Nat)) :
           /\ groups = Append(ctx.blocks, mid) /\ Len(groups) = q /\ groups[q] = mid
           /\ \A b \in 1 .. q - 1 : groups[b] = ctx.blocks[b]
    <3>1. q = Len(ctx.blocks) + 1
      BY <2>8 DEF L
    <3>2. /\ Append(ctx.blocks, mid) \in Seq(Seq(Nat)) /\ Len(Append(ctx.blocks, mid)) = q
          /\ Append(ctx.blocks, mid)[q] = mid
          /\ \A b \in 1 .. q - 1 : Append(ctx.blocks, mid)[b] = ctx.blocks[b]
      BY <3>1, <2>5, <1>1, AppendedBlock
    <3> QED BY <3>2
  <2>13. /\ Append(groups, w) \in Seq(Seq(Nat)) /\ Len(Append(groups, w)) = q + 1
         /\ Append(groups, w)[q + 1] = w
         /\ \A b \in 1 .. q : Append(groups, w)[b] = groups[b]
    <3>1. PICK m : m = q + 1
      OBVIOUS
    <3>2. m = Len(groups) + 1 /\ m - 1 = q
      BY <3>1, <2>12, <1>7
    <3> QED BY <3>1, <3>2, AppendedBlock
  <2>14. digest' = Append(groups, w) /\ ctx'.sz = n
    BY <1>5, <2>2, <2>11, <2>12 DEF update_block
  <2>15. ASSUME NEW b \in 1 .. q
         PROVE  Len(digest'[b]) = Block /\ Bodied(digest'[b], n, (b - 1) * Block)
    <3>1. digest'[b] = groups[b]
      BY <2>13, <2>14
    <3>2. CASE b = q
      <4>1. b - 1 = L
        BY <3>2, <2>8, <1>1
      <4>2. (b - 1) * Block = u
        <5>1. PICK a : a = b - 1
          OBVIOUS
        <5>2. a = L
          BY <4>1, <5>1
        <5> QED BY <5>1, <5>2 DEF u
      <4> QED BY <3>1, <3>2, <4>2, <2>5, <2>12
    <3>3. CASE b # q
      <4>1. b \in 1 .. q - 1 /\ b \in 1 .. L
        BY <3>3, <2>8, <1>1
      <4>2. digest'[b] = ctx.blocks[b]
        BY <3>1, <4>1, <2>12
      <4> QED BY <4>1, <4>2, <1>2, <1>3
    <3> QED BY <3>2, <3>3
  <2> QED BY <2>6, <2>7, <2>9, <2>10, <2>11, <2>13, <2>14, <2>15 DEF n
<1> QED BY <1>8, <1>9

(* The digest is that of the message as a whole exactly when the bytes of   *)
(* its length are.                                                          *)
LEMMA Digesting ==
  ASSUME Inv, Fed, md5_finalize
  PROVE  DigestAgrees'
<1> DEFINE message == Padded(ctx'.sz)
           groups == [b \in 1 .. Len(message) \div Block |->
                        SubSeq(message, (b - 1) * Block + 1, b * Block)]
<1>0. Block \in Nat \ {0} /\ Field \in Nat /\ 0 < Field /\ Field < Block /\ ctx.sz \in Nat
  <2>1. ctx \in [blocks : Seq(Seq(Nat)), cache : Seq(Nat), sz : Nat]
    BY DEF Inv, TypeOK
  <2> QED BY <2>1, BlockAssumption
<1>1. PICK q, r : Divided(ctx.sz + Field, Block, q, r)
  <2>1. ctx.sz + Field \in Nat
    BY <1>0
  <2> QED BY <2>1, <1>0, DivMod
<1>2. PICK head \in Seq(Nat), n \in Nat :
        /\ digest' \in Seq(Seq(Nat)) /\ Len(digest') = q + 1 /\ ctx'.sz = n /\ n = ctx.sz
        /\ \A b \in 1 .. q : Len(digest'[b]) = Block /\ Bodied(digest'[b], n, (b - 1) * Block)
        /\ Len(head) = Block - Field /\ Bodied(head, n, q * Block)
        /\ digest'[q + 1] = head \o LengthBytes(n)
  BY <1>0, <1>1, Finished
<1>3. q \in Nat /\ Divided(n + Field, Block, q, r)
  BY <1>1, <1>2 DEF Divided
<1>4. PICK T : T = Block * q + Block
  OBVIOUS
<1>5. /\ T \in Nat /\ Field <= T
      /\ message \in Seq(Nat) /\ Len(message) = T
      /\ \A i \in 1 .. T - Field : message[i] = Body(n, i)
      /\ \A k \in 1 .. Field : message[(T - Field) + k] = Digit(8 * n, k - 1)
  BY <1>2, <1>3, <1>4, PaddedFacts
<1>6. T \div Block = q + 1
  <2>1. PICK p : p = q + 1
    OBVIOUS
  <2>2. T = Block * p + 0
    <3>1. Block * (q + 1) = Block * q + Block
      BY <1>0, <1>3
    <3> QED BY <2>1, <3>1, <1>4, <1>5
  <2>3. Divided(T, Block, p, 0)
    BY <1>0, <1>3, <2>1, <2>2 DEF Divided
  <2> QED BY <2>1, <2>3, <1>0, Quotient
<1> HIDE DEF message
<1>7. /\ groups = [b \in 1 .. q + 1 |-> groups[b]]
      /\ \A b \in 1 .. q + 1 : groups[b] = SubSeq(message, (b - 1) * Block + 1, b * Block)
  BY <1>5, <1>6
<1>8. ASSUME NEW b \in 1 .. q + 1
      PROVE  \E u \in Nat : /\ u = (b - 1) * Block /\ u + Block <= T /\ (b <= q => u + Block <= T - Field)
                            /\ (b = q + 1 => u + Block = T)
                            /\ groups[b] \in Seq(Nat) /\ Len(groups[b]) = Block
                            /\ \A j \in 1 .. Block : groups[b][j] = message[u + j]
  <2>1. PICK a \in Nat, u \in Nat : a = b - 1 /\ u = a * Block
    <3>1. b - 1 \in Nat
      BY <1>3
    <3> QED BY <3>1, <1>0
  <2>2. b * Block = u + Block /\ (b - 1) * Block = u
    <3>1. b = a + 1 /\ (a + 1) * Block = a * Block + Block
      BY <2>1, <1>0, <1>3
    <3> QED BY <3>1, <2>1
  <2>3. b <= q => u + Block <= Block * q
    <3>1. a < q => Block * a + Block <= Block * q
      BY <2>1, <1>0, <1>3, MulLess
    <3>2. Block * a = a * Block
      BY <2>1, <1>0
    <3> QED BY <3>1, <3>2, <2>1, <1>3
  <2>4. b = q + 1 => u = Block * q
    <3>1. Block * a = a * Block
      BY <2>1, <1>0
    <3>2. b = q + 1 => a = q
      BY <2>1, <1>3
    <3> QED BY <3>1, <3>2, <2>1
  <2>5. Block * q \in Nat
    BY <1>0, <1>3
  <2>6. u + Block <= T /\ (b <= q => u + Block <= T - Field) /\ (b = q + 1 => u + Block = T)
    BY <2>3, <2>4, <2>5, <1>0, <1>3, <1>4
  <2>7. groups[b] = SubSeq(message, u + 1, u + Block)
    BY <2>2, <1>7
  <2>8. /\ SubSeq(message, u + 1, u + Block) \in Seq(Nat)
        /\ Len(SubSeq(message, u + 1, u + Block)) = Block
        /\ \A j \in 1 .. Block : SubSeq(message, u + 1, u + Block)[j] = message[u + j]
    <3>1. PICK x, y : x = u + 1 /\ y = u + Block
      OBVIOUS
    <3>2. x \in 1 .. Len(message) + 1 /\ y \in x - 1 .. Len(message) /\ y - x + 1 = Block
      BY <3>1, <2>6, <1>0, <1>5
    <3>3. /\ SubSeq(message, x, y) \in Seq(Nat) /\ Len(SubSeq(message, x, y)) = Block
          /\ \A j \in 1 .. Block : SubSeq(message, x, y)[j] = message[x + j - 1]
      BY <3>2, <1>5, SubSeqProperties
    <3>4. \A j \in 1 .. Block : x + j - 1 = u + j
      BY <3>1, <1>0
    <3> QED BY <3>1, <3>3, <3>4
  <2> QED BY <2>2, <2>6, <2>7, <2>8
<1> HIDE DEF groups
<1>9. ASSUME NEW b \in 1 .. q PROVE digest'[b] = groups[b]
  <2>1. b \in 1 .. q + 1 /\ b <= q
    BY <1>3
  <2>2. PICK u \in Nat : /\ u = (b - 1) * Block /\ u + Block <= T - Field
                         /\ groups[b] \in Seq(Nat) /\ Len(groups[b]) = Block
                         /\ \A j \in 1 .. Block : groups[b][j] = message[u + j]
    BY <2>1, <1>8
  <2>3. digest'[b] \in Seq(Nat) /\ Len(digest'[b]) = Block /\ Bodied(digest'[b], n, u)
    BY <2>1, <2>2, <1>2
  <2>4. ASSUME NEW j \in 1 .. Block PROVE digest'[b][j] = groups[b][j]
    <3>1. digest'[b][j] = Body(n, u + j)
      BY <2>3 DEF Bodied
    <3>2. u + j \in 1 .. T - Field
      <4>1. u + Block <= T - Field /\ u \in Nat /\ T \in Nat
        BY <2>2, <1>5
      <4> QED BY <4>1, <1>0
    <3> QED BY <3>1, <3>2, <2>2, <1>5
  <2> QED BY <2>2, <2>3, <2>4, SeqEqual
<1>10. PICK e, d, last : e = q + 1 /\ d = digest'[e] /\ last = groups[e]
  OBVIOUS
<1>16. /\ e \in 1 .. q + 1 /\ e - 1 = q /\ d \in Seq(Nat)
       /\ d = head \o LengthBytes(n)
  <2>1. e \in 1 .. q + 1 /\ e - 1 = q
    BY <1>3, <1>10
  <2>2. d \in Seq(Nat)
    <3>1. PICK D \in Seq(Seq(Nat)) : D = digest' /\ Len(D) = q + 1
      BY <1>2
    <3>2. D[e] \in Seq(Nat)
      BY <2>1, <3>1
    <3> QED BY <1>10, <3>1, <3>2
  <2>3. d = head \o LengthBytes(n)
    BY <1>2, <1>10
  <2> QED BY <2>1, <2>2, <2>3
<1>17. PICK u \in Nat : /\ u = (e - 1) * Block /\ u + Block = T
                        /\ last \in Seq(Nat) /\ Len(last) = Block
                        /\ \A j \in 1 .. Block : last[j] = message[u + j]
  BY <1>8, <1>10, <1>16
<1>18. Bodied(head, n, u)
  BY <1>2, <1>16, <1>17
<1>11. /\ Len(d) = Block /\ \A j \in 1 .. Block - Field : d[j] = last[j]
       /\ \A k \in 1 .. Field : /\ (Block - Field) + k \in 1 .. Block
                                /\ d[(Block - Field) + k] = LengthBytes(n)[k]
                                /\ last[(Block - Field) + k] = Digit(8 * n, k - 1)
  <2>1. PICK t \in Seq(Nat) : t = LengthBytes(n) /\ Len(t) = Field
    BY LengthFits
  <2>2. d = head \o t
    BY <2>1, <1>16
  <2>3. /\ Len(d) = Len(head) + Len(t)
        /\ \A j \in 1 .. Len(head) + Len(t) : d[j] = IF j <= Len(head) THEN head[j] ELSE t[j - Len(head)]
    BY <2>2, ConcatProperties
  <2>4. Len(d) = Block
    BY <2>1, <2>3, <1>0, <1>2
  <2>5. ASSUME NEW j \in 1 .. Block - Field PROVE d[j] = last[j]
    <3>1. j \in 1 .. Len(head) + Len(t) /\ j <= Len(head) /\ j \in 1 .. Len(head) /\ j \in 1 .. Block
      BY <2>1, <1>0, <1>2
    <3>2. d[j] = Body(n, u + j)
      BY <3>1, <2>3, <1>18 DEF Bodied
    <3>3. u + j \in 1 .. T - Field
      <4>1. u + Block = T /\ u \in Nat
        BY <1>17
      <4> QED BY <4>1, <1>0
    <3> QED BY <3>1, <3>2, <3>3, <1>5, <1>17
  <2>6. ASSUME NEW k \in 1 .. Field
        PROVE  /\ (Block - Field) + k \in 1 .. Block /\ d[(Block - Field) + k] = LengthBytes(n)[k]
               /\ last[(Block - Field) + k] = Digit(8 * n, k - 1)
    <3>1. PICK i : i = (Block - Field) + k
      OBVIOUS
    <3>2. i \in 1 .. Len(head) + Len(t) /\ ~(i <= Len(head)) /\ i - Len(head) = k
          /\ i \in 1 .. Block /\ u + i = (T - Field) + k
      <4>1. Len(head) = Block - Field /\ Len(t) = Field /\ u + Block = T /\ u \in Nat
        BY <2>1, <1>2, <1>17
      <4> QED BY <4>1, <3>1, <1>0
    <3>3. d[i] = t[k]
      BY <2>3, <3>2
    <3>4. last[i] = message[u + i]
      BY <1>17, <3>2
    <3>5. message[(T - Field) + k] = Digit(8 * n, k - 1)
      BY <1>5
    <3> QED BY <2>1, <3>1, <3>2, <3>3, <3>4, <3>5
  <2> QED BY <2>4, <2>5, <2>6
<1>12. d = last <=> \A k \in 1 .. Field : LengthBytes(n)[k] = Digit(8 * n, k - 1)
  <2>1. ASSUME d = last, NEW k \in 1 .. Field PROVE LengthBytes(n)[k] = Digit(8 * n, k - 1)
    <3>1. d[(Block - Field) + k] = LengthBytes(n)[k] /\ last[(Block - Field) + k] = Digit(8 * n, k - 1)
      BY <1>11
    <3> QED BY <2>1, <3>1
  <2>2. ASSUME \A k \in 1 .. Field : LengthBytes(n)[k] = Digit(8 * n, k - 1)
        PROVE  d = last
    <3>1. ASSUME NEW j \in 1 .. Block PROVE d[j] = last[j]
      <4>1. CASE j <= Block - Field
        <5>1. j \in 1 .. Block - Field
          BY <4>1, <1>0
        <5> QED BY <5>1, <1>11
      <4>2. CASE ~(j <= Block - Field)
        <5>1. PICK k \in 1 .. Field : j = (Block - Field) + k
          <6>1. j - (Block - Field) \in 1 .. Field /\ j = (Block - Field) + (j - (Block - Field))
            BY <4>2, <1>0
          <6> QED BY <6>1
        <5>2. d[(Block - Field) + k] = LengthBytes(n)[k] /\ last[(Block - Field) + k] = Digit(8 * n, k - 1)
          BY <1>11
        <5> QED BY <5>1, <5>2, <2>2
      <4> QED BY <4>1, <4>2
    <3> QED BY <3>1, <1>16, <1>17, <1>11, SeqEqual
  <2> QED BY <2>1, <2>2
<1>13. digest' = groups <=> d = last
  <2>1. digest' = groups => d = last
    BY <1>10
  <2>2. ASSUME d = last PROVE digest' = groups
    <3>1. ASSUME NEW b \in 1 .. q + 1 PROVE digest'[b] = groups[b]
      <4>1. CASE b = q + 1
        BY <4>1, <2>2, <1>10
      <4>2. CASE b # q + 1
        <5>1. b \in 1 .. q
          BY <4>2, <1>3
        <5> QED BY <5>1, <1>9
      <4> QED BY <4>1, <4>2
    <3>2. PICK D \in Seq(Seq(Nat)) : D = digest' /\ Len(D) = q + 1
      BY <1>2
    <3>3. groups \in Seq(Seq(Nat)) /\ Len(groups) = q + 1
      <4>1. \A b \in 1 .. q + 1 : groups[b] \in Seq(Nat)
        BY <1>8
      <4>2. PICK p \in Nat : p = q + 1
        BY <1>3
      <4> QED BY <4>1, <4>2, <1>7, FunctionIsSeq
    <3>4. \A b \in 1 .. Len(D) : D[b] = groups[b]
      BY <3>1, <3>2
    <3>5. D = groups
      BY <3>2, <3>3, <3>4, SeqEqual
    <3> QED BY <3>2, <3>5
  <2> QED BY <2>1, <2>2
<1>14. digest' = groups <=> 8 * (n % Half) < Half
  BY <1>12, <1>13, LengthAgrees
<1>15. pc' = "final"
  BY DEF md5_finalize
<1> QED BY <1>2, <1>14 DEF DigestAgrees, groups, message

(* Whatever the chunks a message comes in, and for every size of a block    *)
(* and of the length field, what finalize leaves is the padded message,     *)
(* block by block, exactly as long as the low half of its length in bits    *)
(* does not carry.                                                          *)
THEOREM DigestCorrect == Spec => []DigestAgrees
<1> DEFINE All == Inv /\ Fed /\ DigestAgrees
<1>1. Init => All
  <2> SUFFICES ASSUME Init PROVE All
    OBVIOUS
  <2>1. ctx.blocks = <<>> /\ ctx.cache = <<>> /\ src = <<>> /\ pc = "idle"
    BY DEF Init, md5_context
  <2>2. Inv
    BY Starting DEF Init
  <2>3. Fed
    BY <2>1 DEF Fed, Counted
  <2> QED BY <2>1, <2>2, <2>3 DEF DigestAgrees
<1>2. All /\ [Next]_vars => All'
  <2> SUFFICES ASSUME All, [Next]_vars PROVE All'
    OBVIOUS
  <2>1. Inv'
    BY Stepping
  <2>2. CASE md5_init
    <3>1. ctx'.blocks = <<>> /\ ctx'.cache = <<>> /\ src' = <<>> /\ pc' = "idle"
      BY <2>2 DEF md5_init, md5_context, Inv, NoChunk
    <3> QED BY <2>1, <3>1 DEF Fed, Counted, DigestAgrees
  <2>3. CASE \E n \in 0 .. MaxMessage - ctx.sz : md5_update(n)
    <3>1. PICK n \in 0 .. MaxMessage - ctx.sz : md5_update(n)
      BY <2>3
    <3>2. /\ ctx' = ctx /\ src' = [i \in 1 .. n |-> ctx.sz + i] /\ n \in Nat
          /\ pc = "idle" /\ pc' = "update"
      <4>1. ctx.sz \in Nat
        BY DEF Inv, TypeOK
      <4> QED BY <3>1, <4>1, MessageAssumption DEF md5_update
    <3>3. Counted(src', ctx'.sz)
      <4>1. Len(src') = n
        BY <3>2
      <4> QED BY <3>2, <4>1 DEF Counted
    <3>4. Fed'
      BY <3>2, <3>3 DEF Fed, Counted
    <3> QED BY <2>1, <3>2, <3>4 DEF DigestAgrees
  <2>4. CASE UpdateFast
    <3>1. Fed'
      BY <2>4, FedFast
    <3> QED BY <2>1, <2>4, <3>1 DEF UpdateFast, DigestAgrees
  <2>5. CASE UpdateSlow
    <3>1. Fed'
      BY <2>5, FedSlow
    <3> QED BY <2>1, <2>5, <3>1 DEF UpdateSlow, DigestAgrees
  <2>6. CASE UpdateReturn
    <3>1. /\ ctx'.blocks = ctx.blocks /\ ctx'.cache = ctx.cache /\ src' = <<>>
          /\ pc = "update" /\ pc' = "idle"
      <4>1. ctx \in [blocks : Seq(Seq(Nat)), cache : Seq(Nat), sz : Nat]
        BY DEF Inv, TypeOK
      <4> QED BY <2>6, <4>1 DEF UpdateReturn
    <3>2. Fed'
      BY <3>1 DEF Fed, Counted
    <3> QED BY <2>1, <3>1, <3>2 DEF DigestAgrees
  <2>7. CASE md5_finalize
    <3>1. DigestAgrees'
      BY <2>7, Digesting
    <3>2. pc' = "final"
      BY <2>7 DEF md5_finalize
    <3> QED BY <2>1, <3>1, <3>2 DEF Fed
  <2>8. CASE UNCHANGED vars
    BY <2>1, <2>8 DEF vars, Fed, Counted, DigestAgrees
  <2> QED BY <2>2, <2>3, <2>4, <2>5, <2>6, <2>7, <2>8 DEF Next
<1>3. All => DigestAgrees
  OBVIOUS
<1> QED BY <1>1, <1>2, <1>3, PTL DEF Spec

----------------------------------------------------------------------------
(* Sums.  There is a function that adds up, for one of length n is extended *)
(* to n + 1.                                                                *)

Adds(f, w, n) == f = [i \in 0 .. n |-> IF i = 0 THEN 0 ELSE f[i - 1] + w[i]]

LEMMA AddsExists ==
  ASSUME NEW w, NEW n \in Nat
  PROVE  \E f : Adds(f, w, n)
<1> DEFINE S == {k \in Nat : ~ \E f : Adds(f, w, k)}
<1>1. SUFFICES ASSUME S # {} PROVE FALSE
  OBVIOUS
<1>2. PICK k \in S : \A j \in S : k <= j
  <2>1. S \in SUBSET Nat
    OBVIOUS
  <2> HIDE DEF S
  <2> QED BY <1>1, <2>1, Least
<1>3. k \in Nat /\ ~ \E f : Adds(f, w, k)
  OBVIOUS
<1>4. k # 0
  <2>1. Adds([i \in 0 .. 0 |-> 0], w, 0)
    BY DEF Adds
  <2> QED BY <1>3, <2>1
<1>5. PICK j \in Nat : k = j + 1
  <2>1. k - 1 \in Nat /\ k = (k - 1) + 1
    BY <1>3, <1>4
  <2> QED BY <2>1
<1>6. PICK g : Adds(g, w, j)
  BY <1>2, <1>5
<1> DEFINE h == [i \in 0 .. k |-> IF i = 0 THEN 0 ELSE g[i - 1] + w[i]]
<1>7. \A i \in 0 .. j : h[i] = g[i]
  <2>1. \A i \in 0 .. j : i \in 0 .. k
    BY <1>5
  <2>2. \A i \in 0 .. j : h[i] = IF i = 0 THEN 0 ELSE g[i - 1] + w[i]
    BY <2>1
  <2>3. \A i \in 0 .. j : g[i] = IF i = 0 THEN 0 ELSE g[i - 1] + w[i]
    BY <1>6 DEF Adds
  <2> QED BY <2>2, <2>3
<1>8. \A i \in 1 .. k : i - 1 \in 0 .. j
  BY <1>5
<1>9. h = [i \in 0 .. k |-> IF i = 0 THEN 0 ELSE h[i - 1] + w[i]]
  <2>1. \A i \in 0 .. k : i # 0 => i \in 1 .. k
    BY <1>3
  <2>2. \A i \in 0 .. k : (IF i = 0 THEN 0 ELSE g[i - 1] + w[i])
                        = (IF i = 0 THEN 0 ELSE h[i - 1] + w[i])
    BY <1>7, <1>8, <2>1
  <2>3. h = [i \in 0 .. k |-> IF i = 0 THEN 0 ELSE g[i - 1] + w[i]]
    OBVIOUS
  <2> HIDE DEF h
  <2> QED BY <2>2, <2>3
<1> HIDE DEF h
<1>10. Adds(h, w, k)
  BY <1>9 DEF Adds
<1> QED BY <1>3, <1>10

LEMMA TotalsAre ==
  ASSUME NEW w \in Seq(Nat)
  PROVE  /\ \A i \in 0 .. Len(w) : Totals(w)[i] \in Nat
         /\ Totals(w)[0] = 0
         /\ \A i \in 1 .. Len(w) : Totals(w)[i] = Totals(w)[i - 1] + w[i]
<1>0. Len(w) \in Nat
  BY LenProperties
<1>1. PICK n \in Nat : n = Len(w)
  BY <1>0
<1>2. PICK f : Adds(f, w, n)
  BY AddsExists
<1>3. Totals(w) = CHOOSE g : g = [i \in 0 .. Len(w) |-> IF i = 0 THEN 0 ELSE g[i - 1] + w[i]]
  BY DEF Totals
<1>4. Adds(Totals(w), w, n)
  BY <1>1, <1>2, <1>3 DEF Adds
<1>5. \A i \in 0 .. n : Totals(w)[i] = IF i = 0 THEN 0 ELSE Totals(w)[i - 1] + w[i]
  BY <1>4 DEF Adds
<1>6. \A i \in 1 .. n : Totals(w)[i] = Totals(w)[i - 1] + w[i]
  BY <1>5
<1>7. Totals(w)[0] = 0
  BY <1>5
<1> DEFINE S == {i \in 0 .. n : Totals(w)[i] \notin Nat}
<1>8. S = {}
  <2> SUFFICES ASSUME S # {} PROVE FALSE
    OBVIOUS
  <2>1. PICK i \in S : \A j \in S : i <= j
    <3>1. S \in SUBSET Nat
      OBVIOUS
    <3> HIDE DEF S
    <3> QED BY <3>1, Least
  <2>2. i \in 0 .. n /\ Totals(w)[i] \notin Nat
    OBVIOUS
  <2>3. i \in 1 .. n
    BY <2>2, <1>7
  <2>4. i - 1 \in 0 .. n /\ ~(i <= i - 1)
    BY <2>3
  <2>5. Totals(w)[i - 1] \in Nat
    BY <2>1, <2>4
  <2>6. w[i] \in Nat
    BY <1>1, <2>3, ElementOfSeq
  <2> QED BY <1>6, <2>2, <2>3, <2>5, <2>6
<1> QED BY <1>1, <1>6, <1>7, <1>8

(* The sum of a part: what stands before it does not matter.                *)
LEMMA TotalsPart ==
  ASSUME NEW w \in Seq(Nat), NEW v \in Seq(Nat), NEW m \in Nat, NEW k \in Nat,
         m + k <= Len(w), k <= Len(v), \A i \in 1 .. k : v[i] = w[m + i]
  PROVE  Totals(w)[m + k] = Totals(w)[m] + Totals(v)[k]
<1>0. Len(w) \in Nat /\ Len(v) \in Nat
  BY LenProperties
<1>1. PICK W : W = Totals(w)
  OBVIOUS
<1>2. PICK V : V = Totals(v)
  OBVIOUS
<1>3. /\ \A i \in 0 .. Len(w) : W[i] \in Nat
      /\ \A i \in 1 .. Len(w) : W[i] = W[i - 1] + w[i]
  BY <1>1, TotalsAre
<1>4. /\ \A i \in 0 .. Len(v) : V[i] \in Nat
      /\ V[0] = 0
      /\ \A i \in 1 .. Len(v) : V[i] = V[i - 1] + v[i]
  BY <1>2, TotalsAre
<1> DEFINE S == {i \in 0 .. k : W[m + i] # W[m] + V[i]}
<1>5. SUFFICES ASSUME S # {} PROVE FALSE
  <2>1. k \in 0 .. k
    OBVIOUS
  <2> QED BY <1>1, <1>2, <2>1
<1>6. PICK i \in S : \A j \in S : i <= j
  <2>1. S \in SUBSET Nat
    OBVIOUS
  <2> HIDE DEF S
  <2> QED BY <1>5, <2>1, Least
<1>7. i \in 0 .. k /\ W[m + i] # W[m] + V[i]
  OBVIOUS
<1>8. i # 0
  <2>1. m \in 0 .. Len(w) /\ m + 0 = m
    BY <1>0
  <2>2. W[m] \in Nat
    BY <1>3, <2>1
  <2>3. W[m] + 0 = W[m]
    BY <2>2
  <2> QED BY <1>4, <1>7, <2>1, <2>3
<1>9. PICK h \in Nat : i = h + 1
  <2>1. i - 1 \in Nat /\ i = (i - 1) + 1
    BY <1>7, <1>8
  <2> QED BY <2>1
<1>10. h \in 0 .. k /\ ~(i <= h)
  BY <1>7, <1>9
<1>11. W[m + h] = W[m] + V[h]
  BY <1>6, <1>10
<1>12. /\ m + i \in 1 .. Len(w) /\ (m + i) - 1 = m + h
       /\ i \in 1 .. Len(v) /\ i \in 1 .. k /\ i - 1 = h
       /\ m \in 0 .. Len(w) /\ h \in 0 .. Len(v)
  BY <1>0, <1>7, <1>9
<1>13. W[m + i] = W[m + h] + w[m + i]
  BY <1>3, <1>12
<1>14. V[i] = V[h] + v[i]
  BY <1>4, <1>12
<1>15. v[i] = w[m + i] /\ v[i] \in Nat
  <2>1. v[i] \in Nat
    BY <1>12, ElementOfSeq
  <2> QED BY <1>12, <2>1
<1>16. W[m] \in Nat /\ V[h] \in Nat
  BY <1>3, <1>4, <1>12
<1> QED BY <1>7, <1>11, <1>13, <1>14, <1>15, <1>16

(* Sums do not fall.                                                        *)
LEMMA TotalsGrow ==
  ASSUME NEW w \in Seq(Nat), NEW i \in 0 .. Len(w), NEW j \in 0 .. Len(w), i <= j
  PROVE  Totals(w)[i] <= Totals(w)[j]
<1>0. Len(w) \in Nat
  BY LenProperties
<1> DEFINE v == [k \in 1 .. (j - i) |-> w[i + k]]
<1>1. j - i \in Nat /\ i \in Nat /\ i + (j - i) = j /\ j <= Len(w)
  BY <1>0
<1>2. \A k \in 1 .. (j - i) : w[i + k] \in Nat
  <2>1. \A k \in 1 .. (j - i) : i + k \in 1 .. Len(w)
    BY <1>0
  <2> QED BY <2>1, ElementOfSeq
<1>3. v \in Seq(Nat) /\ Len(v) = j - i
  <2>1. v = [k \in 1 .. (j - i) |-> v[k]] /\ \A k \in 1 .. (j - i) : v[k] \in Nat
    BY <1>2
  <2>2. PICK n \in Nat : n = j - i
    BY <1>1
  <2> HIDE DEF v
  <2>3. v = [k \in 1 .. n |-> v[k]] /\ \A k \in 1 .. n : v[k] \in Nat
    BY <2>1, <2>2
  <2> QED BY <2>2, <2>3, FunctionIsSeq
<1>4. \A k \in 1 .. (j - i) : v[k] = w[i + k]
  OBVIOUS
<1> HIDE DEF v
<1>5. PICK d \in Nat : d = j - i
  BY <1>1
<1>6. Totals(w)[i + d] = Totals(w)[i] + Totals(v)[d]
  <2>1. i + d <= Len(w) /\ d <= Len(v) /\ \A k \in 1 .. d : v[k] = w[i + k]
    BY <1>1, <1>3, <1>4, <1>5
  <2> QED BY <1>1, <1>3, <2>1, TotalsPart
<1>7. Totals(w)[i] \in Nat /\ Totals(v)[d] \in Nat
  <2>1. d \in 0 .. Len(v)
    BY <1>3, <1>5
  <2> QED BY <1>3, <2>1, TotalsAre
<1>8. i + d = j
  BY <1>1, <1>5
<1>9. PICK a : a = Totals(w)[i]
  OBVIOUS
<1>10. PICK b : b = Totals(v)[d]
  OBVIOUS
<1>11. Totals(w)[j] = a + b
  BY <1>6, <1>8, <1>9, <1>10
<1>12. a \in Nat /\ b \in Nat
  BY <1>7, <1>9, <1>10
<1> QED BY <1>9, <1>11, <1>12

(* Two sequences that begin alike have the same sums.                       *)
LEMMA TotalsAlike ==
  ASSUME NEW w \in Seq(Nat), NEW v \in Seq(Nat), NEW k \in Nat, k <= Len(w), k <= Len(v),
         \A i \in 1 .. k : v[i] = w[i]
  PROVE  \A i \in 0 .. k : Totals(v)[i] = Totals(w)[i]
<1> SUFFICES ASSUME NEW i \in 0 .. k PROVE Totals(v)[i] = Totals(w)[i]
  OBVIOUS
<1>0. Len(w) \in Nat /\ Len(v) \in Nat
  BY LenProperties
<1>1. i \in Nat /\ 0 + i <= Len(w) /\ i <= Len(v) /\ \A j \in 1 .. i : v[j] = w[0 + j]
  BY <1>0
<1>2. Totals(w)[0 + i] = Totals(w)[0] + Totals(v)[i]
  BY <1>1, TotalsPart
<1>3. PICK a : a = Totals(v)[i]
  OBVIOUS
<1>4. a \in Nat
  <2>1. i \in 0 .. Len(v)
    BY <1>0
  <2> QED BY <1>3, <2>1, TotalsAre
<1>5. 0 + i = i /\ Totals(w)[0] = 0
  BY TotalsAre
<1>6. Totals(w)[i] = 0 + a
  BY <1>2, <1>3, <1>5
<1> QED BY <1>3, <1>4, <1>6

(* The sum of all is that of all but the last, and the last.                *)
LEMMA TotalLast ==
  ASSUME NEW w \in Seq(Nat), NEW v \in Seq(Nat), Len(w) = Len(v) + 1,
         \A i \in 1 .. Len(v) : v[i] = w[i]
  PROVE  /\ Totals(w)[Len(v)] = Total(v)
         /\ Total(w) = Total(v) + w[Len(w)]
<1>0. Len(w) \in Nat /\ Len(v) \in Nat
  BY LenProperties
<1>1. \A i \in 0 .. Len(v) : Totals(v)[i] = Totals(w)[i]
  <2>1. PICK n \in Nat : n = Len(v)
    BY <1>0
  <2>2. n <= Len(w) /\ n <= Len(v) /\ \A i \in 1 .. n : v[i] = w[i]
    BY <1>0, <2>1
  <2>3. \A i \in 0 .. n : Totals(v)[i] = Totals(w)[i]
    BY <2>2, TotalsAlike
  <2> QED BY <2>1, <2>3
<1>2. Len(v) \in 0 .. Len(v) /\ Len(w) \in 1 .. Len(w) /\ Len(w) - 1 = Len(v)
  BY <1>0
<1>3. Totals(w)[Len(w)] = Totals(w)[Len(w) - 1] + w[Len(w)]
  BY <1>2, TotalsAre
<1>4. Totals(w)[Len(v)] = Totals(v)[Len(v)]
  BY <1>1, <1>2
<1> QED BY <1>2, <1>3, <1>4 DEF Total

-----------------------------------------------------------------------------
(* The entries of the stack, and the arrays and objects they belong to.     *)

Frames == [kind : {"array", "object"}, size : Nat, key : BOOLEAN]
Items == [type : {"member", "element"}, blocks : Nat]

LEMMA SizesAre ==
  ASSUME NEW fs \in Seq(Frames)
  PROVE  /\ Sizes(fs) \in Seq(Nat) /\ Len(Sizes(fs)) = Len(fs)
         /\ \A i \in 1 .. Len(fs) : Sizes(fs)[i] = fs[i].size /\ fs[i].size \in Nat
<1>1. PICK n \in Nat : n = Len(fs)
  BY LenProperties
<1>2. PICK w : w = Sizes(fs)
  OBVIOUS
<1>3. w = [i \in 1 .. n |-> fs[i].size]
  BY <1>1, <1>2 DEF Sizes
<1>4. \A i \in 1 .. n : fs[i].size \in Nat
  <2>1. \A i \in 1 .. n : fs[i] \in Frames
    BY <1>1, ElementOfSeq
  <2> QED BY <2>1 DEF Frames
<1>5. \A i \in 1 .. n : w[i] = fs[i].size
  BY <1>3
<1>6. w = [i \in 1 .. n |-> w[i]] /\ \A i \in 1 .. n : w[i] \in Nat
  BY <1>3, <1>4, <1>5
<1>7. w \in Seq(Nat) /\ Len(w) = n
  BY <1>6, FunctionIsSeq
<1> QED BY <1>1, <1>2, <1>4, <1>5, <1>7

(* Frames that are alike up to k, over stacks that agree there.             *)
Alike(f, g, k) ==
  k <= Len(f) /\ k <= Len(g) /\ \A i \in 1 .. k : g[i].size = f[i].size /\ g[i].kind = f[i].kind

LEMMA NestedKeeps ==
  ASSUME NEW f \in Seq(Frames), NEW g \in Seq(Frames), NEW k \in Nat, Alike(f, g, k),
         NEW s, NEW t, \A i \in 1 .. k : Typed(f, s, i),
         \A j \in 1 .. Totals(Sizes(f))[k] : t[j] = s[j]
  PROVE  /\ \A i \in 0 .. k : Totals(Sizes(g))[i] = Totals(Sizes(f))[i]
         /\ \A i \in 1 .. k : Typed(g, t, i)
<1>1. PICK w \in Seq(Nat) : w = Sizes(f) /\ Len(w) = Len(f) /\ \A i \in 1 .. Len(f) : w[i] = f[i].size
  BY SizesAre
<1>2. PICK v \in Seq(Nat) : v = Sizes(g) /\ Len(v) = Len(g) /\ \A i \in 1 .. Len(g) : v[i] = g[i].size
  BY SizesAre
<1>0. Len(f) \in Nat /\ Len(g) \in Nat
  BY LenProperties
<1>3. k <= Len(f) /\ k <= Len(g) /\ \A i \in 1 .. k : g[i].size = f[i].size /\ g[i].kind = f[i].kind
  BY DEF Alike
<1>4. k <= Len(w) /\ k <= Len(v) /\ \A i \in 1 .. k : v[i] = w[i]
  BY <1>0, <1>1, <1>2, <1>3
<1>5. \A i \in 0 .. k : Totals(v)[i] = Totals(w)[i]
  BY <1>4, TotalsAlike
<1>6. ASSUME NEW i \in 1 .. k PROVE Typed(g, t, i)
  <2>1. i \in 0 .. k /\ i - 1 \in 0 .. k
    OBVIOUS
  <2>2. Totals(v)[i] = Totals(w)[i] /\ Totals(v)[i - 1] = Totals(w)[i - 1]
    BY <1>5, <2>1
  <2>3. Totals(w)[i] <= Totals(w)[k]
    <3>1. i \in 0 .. Len(w) /\ k \in 0 .. Len(w) /\ i <= k
      BY <1>4, <2>1
    <3> QED BY <3>1, TotalsGrow
  <2>4. Totals(w)[i] \in Nat /\ Totals(w)[i - 1] \in Nat /\ Totals(w)[k] \in Nat
    <3>1. i \in 0 .. Len(w) /\ k \in 0 .. Len(w) /\ i - 1 \in 0 .. Len(w)
      BY <1>4, <2>1
    <3> QED BY <3>1, TotalsAre
  <2>5. PICK a, b, c : a = Totals(w)[i - 1] /\ b = Totals(w)[i] /\ c = Totals(w)[k]
    OBVIOUS
  <2>6. \A j \in (a + 1) .. b : s[j].type = TypeFor(f[i].kind)
    BY <1>1, <2>5 DEF Typed
  <2>7. \A j \in (a + 1) .. b : t[j] = s[j]
    <3>1. \A j \in (a + 1) .. b : j \in 1 .. c
      BY <2>3, <2>4, <2>5
    <3>2. \A j \in 1 .. c : t[j] = s[j]
      BY <1>1, <2>5
    <3> QED BY <3>1, <3>2
  <2>8. \A j \in (a + 1) .. b : t[j].type = TypeFor(g[i].kind)
    BY <1>3, <2>6, <2>7
  <2> QED BY <1>2, <2>2, <2>5, <2>8 DEF Typed
<1> QED BY <1>1, <1>2, <1>5, <1>6

(* An array or object begins.                                               *)
LEMMA NestedOpen ==
  ASSUME NEW f \in Seq(Frames), NEW s \in Seq(Items), Nested(f, s),
         NEW x \in Frames, x.size = 0
  PROVE  Nested(Append(f, x), s)
<1>0. Len(f) \in Nat
  BY LenProperties
<1>1. PICK g \in Seq(Frames) : g = Append(f, x)
  BY AppendProperties
<1>2. Len(g) = Len(f) + 1 /\ g[Len(f) + 1] = x /\ \A i \in 1 .. Len(f) : g[i] = f[i]
  BY <1>1, AppendProperties
<1>3. Alike(f, g, Len(f))
  BY <1>0, <1>2 DEF Alike
<1>4. PICK k \in Nat : k = Len(f)
  BY <1>0
<1>5. \A i \in 1 .. k : Typed(f, s, i)
  BY <1>4 DEF Nested
<1>6. /\ \A i \in 0 .. k : Totals(Sizes(g))[i] = Totals(Sizes(f))[i]
      /\ \A i \in 1 .. k : Typed(g, s, i)
  <2>1. Alike(f, g, k)
    BY <1>3, <1>4
  <2> QED BY <1>5, <2>1, NestedKeeps
<1>7. Totals(Sizes(f))[k] = Len(s) /\ Len(s) \in Nat
  <2>1. Len(Sizes(f)) = k
    BY <1>4, SizesAre
  <2>2. Len(s) = Totals(Sizes(f))[Len(Sizes(f))]
    BY DEF Nested, Total
  <2> QED BY <2>1, <2>2, LenProperties
<1>8. PICK v \in Seq(Nat) : v = Sizes(g) /\ Len(v) = k + 1 /\ v[k + 1] = 0
  <2>1. Len(g) \in 1 .. Len(g) /\ Len(g) = k + 1
    BY <1>2, <1>4
  <2>2. g[k + 1].size = 0
    BY <1>2, <1>4
  <2>3. Sizes(g) \in Seq(Nat) /\ Len(Sizes(g)) = Len(g) /\ \A i \in 1 .. Len(g) : Sizes(g)[i] = g[i].size
    BY SizesAre
  <2> QED BY <2>1, <2>2, <2>3
<1>9. Totals(v)[k + 1] = Len(s) /\ Totals(v)[k] = Len(s)
  <2>1. k + 1 \in 1 .. Len(v) /\ (k + 1) - 1 = k /\ k \in 0 .. k
    BY <1>8
  <2>2. Totals(v)[k + 1] = Totals(v)[(k + 1) - 1] + v[k + 1]
    BY <2>1, TotalsAre
  <2>3. Totals(v)[k] = Len(s)
    BY <1>6, <1>7, <1>8, <2>1
  <2> QED BY <1>7, <1>8, <2>1, <2>2, <2>3
<1>10. Typed(g, s, k + 1)
  <2>1. (k + 1) - 1 = k /\ (Len(s) + 1) .. Len(s) = {}
    BY <1>7
  <2>2. \A j \in (Totals(v)[(k + 1) - 1] + 1) .. Totals(v)[k + 1] : s[j].type = TypeFor(g[k + 1].kind)
    BY <1>9, <2>1
  <2> QED BY <1>8, <2>2 DEF Typed
<1>11. \A i \in 1 .. Len(g) : i \in 1 .. k \/ i = k + 1
  BY <1>2, <1>4
<1>12. Len(s) = Total(Sizes(g))
  BY <1>8, <1>9 DEF Total
<1> QED BY <1>1, <1>6, <1>10, <1>11, <1>12 DEF Nested

(* An entry is pushed for the last of them.                                 *)
LEMMA NestedPush ==
  ASSUME NEW f \in Seq(Frames), NEW s \in Seq(Items), Nested(f, s), f # <<>>,
         NEW g \in Seq(Frames), NEW e \in Items, Len(g) = Len(f),
         Alike(f, g, Len(f) - 1), g[Len(f)].size = f[Len(f)].size + 1,
         g[Len(f)].kind = f[Len(f)].kind, e.type = TypeFor(f[Len(f)].kind)
  PROVE  Nested(g, Append(s, e))
<1>0. Len(f) \in Nat /\ Len(s) \in Nat
  BY LenProperties
<1>1. PICK n \in Nat : n = Len(f)
  BY <1>0
<1>2. n # 0
  BY <1>1, EmptySeq
<1>3. PICK k \in Nat : n = k + 1 /\ k = n - 1
  <2>1. n - 1 \in Nat /\ n = (n - 1) + 1
    BY <1>2
  <2> QED BY <2>1
<1>4. PICK t \in Seq(Items) : t = Append(s, e)
  BY AppendProperties
<1>5. Len(t) = Len(s) + 1 /\ t[Len(s) + 1] = e /\ \A i \in 1 .. Len(s) : t[i] = s[i]
  BY <1>4, AppendProperties
<1>6. PICK w \in Seq(Nat) : w = Sizes(f) /\ Len(w) = n /\ w[n] = f[n].size
  <2>1. n \in 1 .. Len(f)
    BY <1>1, <1>2
  <2> QED BY <1>1, <2>1, SizesAre
<1>7. PICK v \in Seq(Nat) : v = Sizes(g) /\ Len(v) = n /\ v[n] = g[n].size
  <2>1. n \in 1 .. Len(g)
    BY <1>1, <1>2
  <2> QED BY <1>1, <2>1, SizesAre
<1>8. /\ n \in 1 .. Len(w) /\ n \in 0 .. Len(w) /\ k \in 0 .. Len(w) /\ k <= n
      /\ n \in 1 .. Len(v) /\ n \in 0 .. Len(v) /\ k \in 0 .. k /\ n - 1 = k
  BY <1>2, <1>3, <1>6, <1>7
<1>9. Totals(w)[n] = Len(s)
  BY <1>6 DEF Nested, Total
<1>10. Totals(w)[k] \in Nat /\ Totals(w)[k] <= Len(s) /\ Totals(w)[n] = Totals(w)[k] + w[n]
  BY <1>8, <1>9, TotalsAre, TotalsGrow
<1>11. \A j \in 1 .. Totals(w)[k] : t[j] = s[j]
  BY <1>0, <1>5, <1>10
<1>12. \A i \in 1 .. n : Typed(f, s, i)
  BY <1>1 DEF Nested
<1>13. /\ Totals(v)[k] = Totals(w)[k]
       /\ \A i \in 1 .. k : Typed(g, t, i)
  <2>1. Alike(f, g, k)
    BY <1>1, <1>3
  <2>2. \A i \in 1 .. k : Typed(f, s, i)
    <3>1. \A i \in 1 .. k : i \in 1 .. n
      BY <1>3
    <3> QED BY <1>12, <3>1
  <2>3. \A j \in 1 .. Totals(Sizes(f))[k] : t[j] = s[j]
    BY <1>6, <1>11
  <2>4. /\ \A i \in 0 .. k : Totals(Sizes(g))[i] = Totals(Sizes(f))[i]
        /\ \A i \in 1 .. k : Typed(g, t, i)
    BY <2>1, <2>2, <2>3, NestedKeeps
  <2> QED BY <1>6, <1>7, <1>8, <2>4
<1>14. Totals(v)[n] = Len(s) + 1
  <2>1. Totals(v)[n] = Totals(v)[n - 1] + v[n]
    BY <1>8, TotalsAre
  <2>2. v[n] = w[n] + 1 /\ w[n] \in Nat
    <3>1. w[n] \in Nat
      BY <1>8, ElementOfSeq
    <3> QED BY <1>1, <1>6, <1>7, <3>1
  <2>3. Totals(v)[n] = Totals(w)[k] + (w[n] + 1)
    BY <1>8, <1>13, <2>1, <2>2
  <2>4. PICK a, b : a = Totals(w)[k] /\ b = w[n]
    OBVIOUS
  <2>5. a \in Nat /\ b \in Nat /\ Len(s) = a + b
    BY <1>9, <1>10, <2>2, <2>4
  <2>6. a + (b + 1) = Len(s) + 1
    BY <2>5
  <2> QED BY <2>3, <2>4, <2>6
<1>15. Typed(g, t, n)
  <2>1. PICK a : a = Totals(w)[k]
    OBVIOUS
  <2>2. \A j \in (a + 1) .. Len(s) : s[j].type = TypeFor(f[n].kind)
    <3>1. n \in 1 .. n
      BY <1>2
    <3>2. Typed(f, s, n)
      BY <1>12, <3>1
    <3> QED BY <1>6, <1>8, <1>9, <2>1, <3>2 DEF Typed
  <2>3. \A j \in (a + 1) .. (Len(s) + 1) : t[j].type = TypeFor(f[n].kind)
    <3> SUFFICES ASSUME NEW j \in (a + 1) .. (Len(s) + 1) PROVE t[j].type = TypeFor(f[n].kind)
      OBVIOUS
    <3>1. a \in Nat
      BY <1>10, <2>1
    <3>2. CASE j = Len(s) + 1
      BY <1>1, <1>5, <3>2
    <3>3. CASE j # Len(s) + 1
      <4>1. j \in (a + 1) .. Len(s) /\ j \in 1 .. Len(s)
        <5>1. \A l \in Nat, b \in Nat : \A i \in (b + 1) .. (l + 1) :
                i # l + 1 => i \in (b + 1) .. l /\ i \in 1 .. l
          OBVIOUS
        <5> QED BY <1>0, <3>1, <3>3, <5>1
      <4> QED BY <1>5, <2>2, <4>1
    <3> QED BY <3>2, <3>3
  <2>4. f[n].kind = g[n].kind
    BY <1>1
  <2>5. \A j \in (Totals(v)[n - 1] + 1) .. Totals(v)[n] : t[j].type = TypeFor(g[n].kind)
    BY <1>8, <1>13, <1>14, <2>1, <2>3, <2>4
  <2> QED BY <1>7, <2>5 DEF Typed
<1>16. \A i \in 1 .. Len(g) : i \in 1 .. k \/ i = n
  BY <1>1, <1>3
<1>17. Len(t) = Total(Sizes(g))
  BY <1>5, <1>7, <1>14 DEF Total
<1> QED BY <1>4, <1>13, <1>15, <1>16, <1>17 DEF Nested

(* The last of them takes its entries off the stack.                        *)
LEMMA NestedPop ==
  ASSUME NEW f \in Seq(Frames), NEW s \in Seq(Items), Nested(f, s), f # <<>>,
         NEW n, n = f[Len(f)].size
  PROVE  /\ n \in Nat /\ n <= Len(s)
         /\ Front(f) \in Seq(Frames) /\ Nested(Front(f), SubSeq(s, 1, Len(s) - n))
<1>0. Len(f) \in Nat /\ Len(s) \in Nat
  BY LenProperties
<1>1. Len(f) # 0
  BY EmptySeq
<1>2. PICK k \in Nat : k = Len(f) - 1 /\ Len(f) = k + 1
  <2>1. Len(f) - 1 \in Nat /\ Len(f) = (Len(f) - 1) + 1
    BY <1>0, <1>1
  <2> QED BY <2>1
<1>3. PICK g \in Seq(Frames) : g = Front(f) /\ Len(g) = k /\ \A i \in 1 .. k : g[i] = f[i]
  <2>1. Len(f) \in 1 .. (Len(f) + 1)
    BY <1>0, <1>1
  <2>2. /\ SubSeq(f, 1, Len(f) - 1) \in Seq(Frames) /\ Len(SubSeq(f, 1, Len(f) - 1)) = Len(f) - 1
        /\ \A j \in 1 .. (Len(f) - 1) : SubSeq(f, 1, Len(f) - 1)[j] = f[j]
    BY <2>1, Prefix
  <2> QED BY <1>2, <2>2 DEF Front
<1>4. PICK w \in Seq(Nat) : w = Sizes(f) /\ Len(w) = k + 1 /\ w[k + 1] = n /\ n \in Nat
  <2>1. k + 1 \in 1 .. Len(f)
    BY <1>2
  <2> QED BY <1>2, <2>1, SizesAre
<1>5. /\ k + 1 \in 1 .. Len(w) /\ k \in 0 .. Len(w) /\ (k + 1) - 1 = k /\ k \in 0 .. k
  BY <1>4
<1>6. Totals(w)[k] \in Nat /\ Totals(w)[k + 1] = Totals(w)[k] + n
  BY <1>4, <1>5, TotalsAre
<1>7. Totals(w)[k + 1] = Len(s)
  BY <1>4 DEF Nested, Total
<1>8. PICK a \in Nat : a = Totals(w)[k]
  BY <1>6
<1>9. Len(s) = a + n /\ a = Len(s) - n /\ n <= Len(s)
  <2>1. PICK d \in Nat : d = n
    BY <1>4
  <2>2. PICK l : l = Len(s)
    OBVIOUS
  <2>3. l = a + d
    BY <1>6, <1>7, <1>8, <2>1, <2>2
  <2>4. a = l - d /\ d <= l
    BY <2>3
  <2> QED BY <2>1, <2>2, <2>3, <2>4
<1>10. PICK t : t = SubSeq(s, 1, a) /\ Len(t) = a /\ \A j \in 1 .. a : t[j] = s[j]
  <2>1. a + 1 \in 1 .. (Len(s) + 1) /\ (a + 1) - 1 = a
    <3>1. PICK d \in Nat : d = n
      BY <1>4
    <3>2. PICK l \in Nat : l = Len(s)
      BY <1>0
    <3>3. l = a + d
      BY <1>9, <3>1, <3>2
    <3>4. a + 1 \in 1 .. (l + 1) /\ (a + 1) - 1 = a
      BY <3>3
    <3> QED BY <3>2, <3>4
  <2>2. PICK b : b = a + 1
    OBVIOUS
  <2>3. Len(SubSeq(s, 1, b - 1)) = b - 1 /\ \A j \in 1 .. (b - 1) : SubSeq(s, 1, b - 1)[j] = s[j]
    BY <2>1, <2>2, Prefix
  <2> QED BY <2>1, <2>2, <2>3
<1>11. /\ \A i \in 0 .. k : Totals(Sizes(g))[i] = Totals(Sizes(f))[i]
       /\ \A i \in 1 .. k : Typed(g, t, i)
  <2>1. Alike(f, g, k)
    BY <1>2, <1>3 DEF Alike
  <2>2. \A i \in 1 .. k : Typed(f, s, i)
    <3>1. \A i \in 1 .. k : i \in 1 .. Len(f)
      BY <1>2
    <3> QED BY <3>1 DEF Nested
  <2>3. \A j \in 1 .. Totals(Sizes(f))[k] : t[j] = s[j]
    BY <1>4, <1>8, <1>10
  <2> QED BY <2>1, <2>2, <2>3, NestedKeeps
<1>12. Len(Sizes(g)) = k
  BY <1>3, SizesAre
<1>13. Len(t) = Total(Sizes(g))
  BY <1>4, <1>5, <1>8, <1>10, <1>11, <1>12 DEF Total
<1>14. Nested(g, t)
  BY <1>3, <1>11, <1>13 DEF Nested
<1> QED BY <1>3, <1>4, <1>9, <1>10, <1>14

(* What does not change sizes and kinds changes nothing here.               *)
LEMMA NestedSame ==
  ASSUME NEW f \in Seq(Frames), NEW g \in Seq(Frames), NEW s, Nested(f, s),
         Len(g) = Len(f), Alike(f, g, Len(f))
  PROVE  Nested(g, s)
<1>1. PICK k \in Nat : k = Len(f)
  BY LenProperties
<1>2. /\ \A i \in 0 .. k : Totals(Sizes(g))[i] = Totals(Sizes(f))[i]
      /\ \A i \in 1 .. k : Typed(g, s, i)
  <2>1. Alike(f, g, k) /\ \A i \in 1 .. k : Typed(f, s, i)
    BY <1>1 DEF Nested
  <2> QED BY <2>1, NestedKeeps
<1>3. Len(Sizes(f)) = k /\ Len(Sizes(g)) = k /\ k \in 0 .. k
  BY <1>1, SizesAre
<1>4. Total(Sizes(g)) = Total(Sizes(f))
  BY <1>2, <1>3 DEF Total
<1> QED BY <1>1, <1>2, <1>4 DEF Nested

-----------------------------------------------------------------------------
(* What the entries own, and the keys that have no value yet.               *)

LEMMA FrontIs ==
  ASSUME NEW S, NEW f \in Seq(S), f # <<>>
  PROVE  /\ Front(f) \in Seq(S) /\ Len(f) \in Nat \ {0} /\ Len(Front(f)) = Len(f) - 1
         /\ \A i \in 1 .. (Len(f) - 1) : Front(f)[i] = f[i]
         /\ Last(f) = f[Len(f)] /\ Last(f) \in S
<1>1. Len(f) \in Nat \ {0}
  BY EmptySeq, LenProperties
<1>2. Len(f) \in 1 .. (Len(f) + 1) /\ Len(f) \in 1 .. Len(f)
  BY <1>1
<1>3. /\ SubSeq(f, 1, Len(f) - 1) \in Seq(S) /\ Len(SubSeq(f, 1, Len(f) - 1)) = Len(f) - 1
      /\ \A j \in 1 .. (Len(f) - 1) : SubSeq(f, 1, Len(f) - 1)[j] = f[j]
  BY <1>2, Prefix
<1>4. f[Len(f)] \in S
  BY <1>2, ElementOfSeq
<1> QED BY <1>1, <1>3, <1>4 DEF Front, Last

Numbers(s) == [i \in 1 .. Len(s) |-> s[i].blocks]

LEMMA NumbersAre ==
  ASSUME NEW s \in Seq(Items)
  PROVE  /\ Numbers(s) \in Seq(Nat) /\ Len(Numbers(s)) = Len(s)
         /\ \A i \in 1 .. Len(s) : Numbers(s)[i] = s[i].blocks /\ s[i].blocks \in Nat
         /\ Owned(s) = Totals(Numbers(s))[Len(s)] /\ Owned(s) \in Nat
<1>1. PICK n \in Nat : n = Len(s)
  BY LenProperties
<1>2. PICK w : w = Numbers(s)
  OBVIOUS
<1>3. w = [i \in 1 .. n |-> s[i].blocks]
  BY <1>1, <1>2 DEF Numbers
<1>4. \A i \in 1 .. n : s[i].blocks \in Nat
  <2>1. \A i \in 1 .. n : s[i] \in Items
    BY <1>1, ElementOfSeq
  <2> QED BY <2>1 DEF Items
<1>5. \A i \in 1 .. n : w[i] = s[i].blocks
  BY <1>3
<1>6. w = [i \in 1 .. n |-> w[i]] /\ \A i \in 1 .. n : w[i] \in Nat
  BY <1>3, <1>4, <1>5
<1>7. w \in Seq(Nat) /\ Len(w) = n
  BY <1>6, FunctionIsSeq
<1>8. Owned(s) = Totals(w)[Len(w)]
  BY <1>2 DEF Owned, Total, Numbers
<1>9. Totals(w)[n] \in Nat
  <2>1. n \in 0 .. Len(w)
    BY <1>7
  <2> QED BY <1>7, <2>1, TotalsAre
<1> QED BY <1>1, <1>2, <1>4, <1>5, <1>7, <1>8, <1>9

LEMMA OwnedAppend ==
  ASSUME NEW s \in Seq(Items), NEW e \in Items
  PROVE  Owned(Append(s, e)) = Owned(s) + e.blocks
<1>0. Len(s) \in Nat
  BY LenProperties
<1>1. PICK t \in Seq(Items) : t = Append(s, e)
  BY AppendProperties
<1>2. Len(t) = Len(s) + 1 /\ t[Len(s) + 1] = e /\ \A i \in 1 .. Len(s) : t[i] = s[i]
  BY <1>1, AppendProperties
<1>3. PICK w \in Seq(Nat) : /\ Len(w) = Len(s) /\ \A i \in 1 .. Len(s) : w[i] = s[i].blocks
                            /\ Owned(s) = Totals(w)[Len(s)]
  BY NumbersAre
<1>4. PICK v \in Seq(Nat) : /\ Len(v) = Len(t) /\ \A i \in 1 .. Len(t) : v[i] = t[i].blocks
                            /\ Owned(t) = Totals(v)[Len(t)]
  BY NumbersAre
<1>5. Len(v) = Len(w) + 1 /\ Len(w) \in Nat
  BY <1>0, <1>2, <1>3, <1>4
<1>6. \A i \in 1 .. Len(w) : w[i] = v[i]
  <2>1. \A i \in 1 .. Len(s) : i \in 1 .. Len(t)
    BY <1>0, <1>2
  <2> QED BY <1>2, <1>3, <1>4, <2>1
<1>7. Total(v) = Total(w) + v[Len(v)]
  BY <1>5, <1>6, TotalLast
<1>8. v[Len(v)] = e.blocks
  <2>1. Len(t) \in 1 .. Len(t)
    BY <1>0, <1>2
  <2> QED BY <1>2, <1>4, <2>1
<1> QED BY <1>1, <1>3, <1>4, <1>7, <1>8 DEF Total

(* The last n entries and those below them.                                 *)
LEMMA OwnedSplit ==
  ASSUME NEW s \in Seq(Items), NEW n \in Nat, n <= Len(s)
  PROVE  /\ SubSeq(s, 1, Len(s) - n) \in Seq(Items)
         /\ SubSeq(s, Len(s) - n + 1, Len(s)) \in Seq(Items)
         /\ Owned(s) = Owned(SubSeq(s, 1, Len(s) - n)) + Owned(SubSeq(s, Len(s) - n + 1, Len(s)))
<1>0. Len(s) \in Nat
  BY LenProperties
<1>1. PICK m \in Nat : m = Len(s) - n /\ m + n = Len(s)
  <2>1. Len(s) - n \in Nat /\ (Len(s) - n) + n = Len(s)
    BY <1>0
  <2> QED BY <2>1
<1>2. PICK t \in Seq(Items) : t = SubSeq(s, 1, m) /\ Len(t) = m /\ \A j \in 1 .. m : t[j] = s[j]
  <2>1. m + 1 \in 1 .. (Len(s) + 1) /\ (m + 1) - 1 = m
    BY <1>0, <1>1
  <2>2. PICK b : b = m + 1
    OBVIOUS
  <2>3. /\ SubSeq(s, 1, b - 1) \in Seq(Items) /\ Len(SubSeq(s, 1, b - 1)) = b - 1
        /\ \A j \in 1 .. (b - 1) : SubSeq(s, 1, b - 1)[j] = s[j]
    BY <2>1, <2>2, Prefix
  <2> QED BY <2>1, <2>2, <2>3
<1>3. PICK u \in Seq(Items) :
        u = SubSeq(s, m + 1, Len(s)) /\ Len(u) = n /\ \A j \in 1 .. n : u[j] = s[m + j]
  <2>1. PICK a \in Nat, z \in Nat : a = m + 1 /\ z = Len(s)
    BY <1>0
  <2>2. \A j \in a .. z : s[j] \in Items
    <3>1. \A j \in a .. z : j \in 1 .. Len(s)
      BY <2>1
    <3> QED BY <3>1, ElementOfSeq
  <2>3. /\ SubSeq(s, a, z) \in Seq(Items)
        /\ Len(SubSeq(s, a, z)) = IF a <= z THEN z - a + 1 ELSE 0
        /\ \A j \in 1 .. z - a + 1 : SubSeq(s, a, z)[j] = s[a + j - 1]
    BY <2>2, SubSeqProperties
  <2>4. (IF a <= z THEN z - a + 1 ELSE 0) = n /\ z - a + 1 = n
    BY <1>1, <2>1
  <2>5. \A j \in 1 .. n : a + j - 1 = m + j
    BY <2>1
  <2>6. Len(SubSeq(s, a, z)) = n
    BY <2>3, <2>4
  <2>7. \A j \in 1 .. n : SubSeq(s, a, z)[j] = s[m + j]
    BY <2>3, <2>4, <2>5
  <2>8. SubSeq(s, a, z) = SubSeq(s, m + 1, Len(s))
    BY <2>1
  <2> QED BY <2>3, <2>6, <2>7, <2>8
<1>4. PICK w \in Seq(Nat) : /\ Len(w) = Len(s) /\ \A i \in 1 .. Len(s) : w[i] = s[i].blocks
                            /\ Owned(s) = Totals(w)[Len(s)]
  BY NumbersAre
<1>5. PICK v \in Seq(Nat) : /\ Len(v) = Len(t) /\ \A i \in 1 .. Len(t) : v[i] = t[i].blocks
                            /\ Owned(t) = Totals(v)[Len(t)]
  BY NumbersAre
<1>6. PICK x \in Seq(Nat) : /\ Len(x) = Len(u) /\ \A i \in 1 .. Len(u) : x[i] = u[i].blocks
                            /\ Owned(u) = Totals(x)[Len(u)]
  BY NumbersAre
<1>7. Totals(w)[m + n] = Totals(w)[m] + Totals(x)[n]
  <2>1. \A i \in 1 .. n : m + i \in 1 .. Len(s)
    BY <1>0, <1>1
  <2>2. \A i \in 1 .. n : x[i] = w[m + i]
    BY <1>3, <1>4, <1>6, <2>1
  <2>3. m + n <= Len(w) /\ n <= Len(x)
    BY <1>1, <1>3, <1>4, <1>6
  <2> QED BY <2>2, <2>3, TotalsPart
<1>8. Totals(v)[m] = Totals(w)[m]
  <2>1. \A i \in 1 .. m : i \in 1 .. Len(s)
    BY <1>0, <1>1
  <2>2. \A i \in 1 .. m : v[i] = w[i]
    BY <1>2, <1>4, <1>5, <2>1
  <2>3. m <= Len(w) /\ m <= Len(v) /\ m \in 0 .. m
    BY <1>1, <1>2, <1>4, <1>5
  <2> QED BY <2>2, <2>3, TotalsAlike
<1>9. Owned(s) = Owned(t) + Owned(u)
  BY <1>1, <1>2, <1>3, <1>4, <1>5, <1>6, <1>7, <1>8
<1>10. t = SubSeq(s, 1, Len(s) - n) /\ u = SubSeq(s, Len(s) - n + 1, Len(s))
  BY <1>1, <1>2, <1>3
<1> QED BY <1>9, <1>10

LEMMA OwnedEmpty == Owned(<<>>) = 0
<1>1. Len(<<>>) = 0 /\ Numbers(<<>>) \in Seq(Nat)
  <2>1. <<>> \in Seq(Items)
    OBVIOUS
  <2> QED BY <2>1, NumbersAre
<1>2. Owned(<<>>) = Totals(Numbers(<<>>))[0]
  <2>1. <<>> \in Seq(Items)
    OBVIOUS
  <2> QED BY <1>1, <2>1, NumbersAre
<1> QED BY <1>1, <1>2, TotalsAre

(* The keys of all but the last, and that of the last.                      *)
LEMMA KeysSplit ==
  ASSUME NEW f \in Seq(Frames), f # <<>>
  PROVE  /\ KeysHeld(f) = KeysHeld(Front(f)) + IF Last(f).key THEN 1 ELSE 0
         /\ KeysHeld(f) \in Nat /\ KeysHeld(Front(f)) \in Nat
<1>0. PICK n \in Nat : n = Len(f) /\ n # 0
  BY FrontIs
<1>1. PICK g : g = Front(f) /\ Len(g) = n - 1 /\ \A i \in 1 .. (n - 1) : g[i] = f[i]
  BY <1>0, FrontIs
<1>2. Last(f) = f[n]
  BY <1>0, FrontIs
<1> DEFINE K == {i \in 1 .. n : f[i].key}
           L == {i \in 1 .. (n - 1) : g[i].key}
<1>3. L = {i \in 1 .. (n - 1) : f[i].key}
  BY <1>1
<1>4. IsFiniteSet(L) /\ n \notin L
  <2>1. IsFiniteSet(1 .. (n - 1))
    BY <1>0, FS_Interval
  <2>2. L \subseteq 1 .. (n - 1)
    OBVIOUS
  <2>3. n \notin 1 .. (n - 1)
    OBVIOUS
  <2> HIDE DEF L
  <2> QED BY <2>1, <2>2, <2>3, FS_Subset
<1>5. K = IF f[n].key THEN L \cup {n} ELSE L
  <2>1. \A i : i \in 1 .. n <=> i \in 1 .. (n - 1) \/ i = n
    BY <1>0
  <2> QED BY <1>3, <2>1
<1>6. KeysHeld(f) = Cardinality(K) /\ KeysHeld(g) = Cardinality(L)
  BY <1>0, <1>1 DEF KeysHeld
<1> HIDE DEF K, L
<1>7. Cardinality(L \cup {n}) = Cardinality(L) + 1 /\ Cardinality(L) \in Nat
  BY <1>4, FS_AddElement, FS_CardinalityType
<1> QED BY <1>1, <1>2, <1>5, <1>6, <1>7

LEMMA KeysNone == KeysHeld(<<>>) = 0
<1>1. {i \in 1 .. Len(<<>>) : <<>>[i].key} = {}
  BY EmptySeq
<1> QED BY <1>1, FS_EmptySet DEF KeysHeld

LEMMA FrontOf ==
  ASSUME NEW f \in Seq(Frames), f # <<>>
  PROVE  \E n \in Nat \ {0}, p \in Seq(Frames) :
           /\ n = Len(f) /\ Last(f) = f[n] /\ f[n] \in Frames
           /\ p = Front(f) /\ Len(p) = n - 1 /\ \A i \in 1 .. (n - 1) : p[i] = f[i]
<1>1. Len(f) \in Nat \ {0}
  BY FrontIs
<1>2. PICK n \in Nat \ {0} : n = Len(f)
  BY <1>1
<1>3. /\ Front(f) \in Seq(Frames) /\ Len(f) \in Nat \ {0} /\ Len(Front(f)) = Len(f) - 1
      /\ \A i \in 1 .. (Len(f) - 1) : Front(f)[i] = f[i]
      /\ Last(f) = f[Len(f)] /\ Last(f) \in Frames
  BY FrontIs
<1>4. PICK p \in Seq(Frames) : p = Front(f)
  BY <1>3
<1>5. Last(f) = f[n] /\ f[n] \in Frames
  BY <1>2, <1>3
<1>6. Len(p) = n - 1 /\ \A i \in 1 .. (n - 1) : p[i] = f[i]
  BY <1>2, <1>3, <1>4
<1> QED BY <1>2, <1>4, <1>5, <1>6

(* Where only the last differs.                                             *)
LEMMA KeysLast ==
  ASSUME NEW f \in Seq(Frames), NEW g \in Seq(Frames), NEW n \in Nat \ {0},
         Len(f) = n, Len(g) = n, \A i \in 1 .. (n - 1) : g[i] = f[i]
  PROVE  \E k \in Nat : /\ KeysHeld(f) = k + IF f[n].key THEN 1 ELSE 0
                        /\ KeysHeld(g) = k + IF g[n].key THEN 1 ELSE 0
<1>1. f # <<>> /\ g # <<>>
  BY EmptySeq
<1>2. PICK p \in Seq(Frames) :
        /\ Last(f) = f[n] /\ p = Front(f) /\ Len(p) = n - 1 /\ \A i \in 1 .. (n - 1) : p[i] = f[i]
  BY <1>1, FrontOf
<1>3. PICK q \in Seq(Frames) :
        /\ Last(g) = g[n] /\ q = Front(g) /\ Len(q) = n - 1 /\ \A i \in 1 .. (n - 1) : q[i] = g[i]
  BY <1>1, FrontOf
<1>4. p = q
  <2>1. \A i \in 1 .. Len(p) : p[i] = q[i]
    BY <1>2, <1>3
  <2> QED BY <1>2, <1>3, <2>1, SeqEqual
<1>5. /\ KeysHeld(f) = KeysHeld(Front(f)) + IF Last(f).key THEN 1 ELSE 0
      /\ KeysHeld(Front(f)) \in Nat
  BY <1>1, KeysSplit
<1>6. KeysHeld(g) = KeysHeld(Front(g)) + IF Last(g).key THEN 1 ELSE 0
  BY <1>1, KeysSplit
<1> QED BY <1>2, <1>3, <1>4, <1>5, <1>6

-----------------------------------------------------------------------------
(* The lexemes read, what a value read from them needs, and the states of   *)
(* the automaton on the way.                                                *)

LEMMA PrefixGrows ==
  ASSUME NEW S, NEW t \in Seq(S), NEW k \in 1 .. Len(t)
  PROVE  SubSeq(t, 1, k) = Append(SubSeq(t, 1, k - 1), t[k])
<1>0. Len(t) \in Nat
  BY LenProperties
<1>1. k \in 1 .. (Len(t) + 1) /\ k + 1 \in 1 .. (Len(t) + 1) /\ (k + 1) - 1 = k
  BY <1>0
<1>2. PICK u \in Seq(S) : u = SubSeq(t, 1, k - 1) /\ Len(u) = k - 1 /\ \A j \in 1 .. (k - 1) : u[j] = t[j]
  <2>1. /\ SubSeq(t, 1, k - 1) \in Seq(S) /\ Len(SubSeq(t, 1, k - 1)) = k - 1
        /\ \A j \in 1 .. (k - 1) : SubSeq(t, 1, k - 1)[j] = t[j]
    BY <1>1, Prefix
  <2> QED BY <2>1
<1>3. PICK v \in Seq(S) : v = SubSeq(t, 1, k) /\ Len(v) = k /\ \A j \in 1 .. k : v[j] = t[j]
  <2>1. PICK b : b = k + 1
    OBVIOUS
  <2>2. /\ SubSeq(t, 1, b - 1) \in Seq(S) /\ Len(SubSeq(t, 1, b - 1)) = b - 1
        /\ \A j \in 1 .. (b - 1) : SubSeq(t, 1, b - 1)[j] = t[j]
    BY <1>1, <2>1, Prefix
  <2> QED BY <1>1, <2>1, <2>2
<1>4. t[k] \in S
  BY ElementOfSeq
<1>5. PICK x \in Seq(S) : /\ x = Append(u, t[k]) /\ Len(x) = k /\ x[k] = t[k]
                          /\ \A j \in 1 .. (k - 1) : x[j] = u[j]
  <2>1. /\ Append(u, t[k]) \in Seq(S) /\ Len(Append(u, t[k])) = Len(u) + 1
        /\ \A i \in 1 .. Len(u) : Append(u, t[k])[i] = u[i]
        /\ Append(u, t[k])[Len(u) + 1] = t[k]
    BY <1>4, AppendProperties
  <2>2. Len(u) + 1 = k
    BY <1>1, <1>2
  <2> QED BY <1>2, <2>1, <2>2
<1>6. \A j \in 1 .. k : v[j] = x[j]
  <2>1. \A j \in 1 .. k : j = k \/ j \in 1 .. (k - 1)
    OBVIOUS
  <2> QED BY <1>2, <1>3, <1>5, <2>1
<1>7. v = x
  BY <1>3, <1>5, <1>6, SeqEqual
<1> QED BY <1>3, <1>5, <1>7

(* A text that goes on has the same beginnings.                             *)
LEMMA PrefixStays ==
  ASSUME NEW S, NEW t \in Seq(S), NEW l \in S, NEW k \in 1 .. (Len(t) + 1)
  PROVE  SubSeq(Append(t, l), 1, k - 1) = SubSeq(t, 1, k - 1)
<1>0. Len(t) \in Nat
  BY LenProperties
<1>1. PICK u \in Seq(S) : u = SubSeq(t, 1, k - 1) /\ Len(u) = k - 1 /\ \A j \in 1 .. (k - 1) : u[j] = t[j]
  BY Prefix
<1>2. PICK x \in Seq(S) : x = Append(t, l) /\ Len(x) = Len(t) + 1 /\ \A j \in 1 .. Len(t) : x[j] = t[j]
  <2>1. PICK x \in Seq(S) : x = Append(t, l)
    BY AppendProperties
  <2>2. Len(x) = Len(t) + 1 /\ \A j \in 1 .. Len(t) : x[j] = t[j]
    BY <2>1, AppendProperties
  <2> QED BY <2>1, <2>2
<1>3. k \in 1 .. (Len(x) + 1)
  BY <1>0, <1>2
<1>4. PICK v \in Seq(S) : v = SubSeq(x, 1, k - 1) /\ Len(v) = k - 1 /\ \A j \in 1 .. (k - 1) : v[j] = x[j]
  BY <1>3, Prefix
<1>5. \A j \in 1 .. (k - 1) : j \in 1 .. Len(t)
  BY <1>0
<1>6. \A j \in 1 .. Len(u) : u[j] = v[j]
  BY <1>1, <1>2, <1>4, <1>5
<1>7. u = v
  BY <1>1, <1>4, <1>6, SeqEqual
<1> QED BY <1>1, <1>2, <1>4, <1>7

LEMMA NeedsAppend ==
  ASSUME NEW S, NEW t \in Seq(S), NEW l \in S
  PROVE  /\ Needs(t) \in Nat
         /\ l # "string" /\ l \notin Closing => Needs(Append(t, l)) = Needs(t)
         /\ l = "string" => Needs(Append(t, l)) = Needs(t) + 1
         /\ l \in Closing /\ Len(t) > 0 =>
              Needs(Append(t, l)) = Needs(t) + IF t[Len(t)] \in Opening THEN 0 ELSE 1
<1>0. PICK n \in Nat : n = Len(t)
  BY LenProperties
<1>1. PICK x \in Seq(S) : /\ x = Append(t, l) /\ Len(x) = n + 1 /\ x[n + 1] = l
                          /\ \A j \in 1 .. n : x[j] = t[j]
  <2>1. PICK x \in Seq(S) : x = Append(t, l)
    BY AppendProperties
  <2>2. Len(x) = Len(t) + 1 /\ x[Len(t) + 1] = l /\ \A j \in 1 .. Len(t) : x[j] = t[j]
    BY <2>1, AppendProperties
  <2> QED BY <1>0, <2>1, <2>2
<1> DEFINE K == {i \in 1 .. (n + 1) : Needing(x, i)}
           L == {i \in 1 .. n : Needing(t, i)}
<1>2. Needs(t) = Cardinality(L) /\ Needs(x) = Cardinality(K)
  BY <1>0, <1>1 DEF Needs
<1>3. IsFiniteSet(L) /\ n + 1 \notin L
  <2>1. IsFiniteSet(1 .. n)
    BY <1>0, FS_Interval
  <2>2. L \subseteq 1 .. n
    OBVIOUS
  <2>3. n + 1 \notin 1 .. n
    OBVIOUS
  <2> HIDE DEF L
  <2> QED BY <2>1, <2>2, <2>3, FS_Subset
<1>4. \A i \in 1 .. n : Needing(x, i) <=> Needing(t, i)
  <2> SUFFICES ASSUME NEW i \in 1 .. n PROVE Needing(x, i) <=> Needing(t, i)
    OBVIOUS
  <2>1. x[i] = t[i]
    BY <1>1
  <2>2. i > 1 => x[i - 1] = t[i - 1]
    <3>1. i > 1 => i - 1 \in 1 .. n
      OBVIOUS
    <3> QED BY <1>1, <3>1
  <2> QED BY <2>1, <2>2 DEF Needing
<1>5. K = IF Needing(x, n + 1) THEN L \cup {n + 1} ELSE L
  <2>1. \A i : i \in 1 .. (n + 1) <=> i \in 1 .. n \/ i = n + 1
    OBVIOUS
  <2> QED BY <1>4, <2>1
<1> HIDE DEF K, L
<1>6. Cardinality(L \cup {n + 1}) = Cardinality(L) + 1 /\ Cardinality(L) \in Nat
  BY <1>3, FS_AddElement, FS_CardinalityType
<1>7. /\ Needs(t) \in Nat
      /\ Needing(x, n + 1) => Needs(x) = Needs(t) + 1
      /\ ~Needing(x, n + 1) => Needs(x) = Needs(t)
  BY <1>2, <1>5, <1>6
<1>8. Needing(x, n + 1) <=> (\/ l = "string"
                             \/ n + 1 > 1 /\ l \in Closing /\ x[n] \notin Opening)
  <2>1. (n + 1) - 1 = n
    OBVIOUS
  <2> QED BY <1>1, <2>1 DEF Needing
<1>9. n > 0 => n + 1 > 1 /\ x[n] = t[n]
  <2>1. n > 0 => n \in 1 .. n
    OBVIOUS
  <2> QED BY <1>1, <2>1
<1>10. l # "string" /\ l \notin Closing => Needs(x) = Needs(t)
  <2>1. l # "string" /\ l \notin Closing => ~Needing(x, n + 1)
    BY <1>8
  <2> QED BY <1>7, <2>1
<1>11. l = "string" => Needs(x) = Needs(t) + 1
  <2>1. l = "string" => Needing(x, n + 1)
    BY <1>8
  <2> QED BY <1>7, <2>1
<1>12. l \in Closing /\ n > 0 =>
         Needs(x) = Needs(t) + IF t[n] \in Opening THEN 0 ELSE 1
  <2> SUFFICES ASSUME l \in Closing, n > 0
      PROVE  Needs(x) = Needs(t) + IF t[n] \in Opening THEN 0 ELSE 1
    OBVIOUS
  <2>1. n + 1 > 1 /\ x[n] = t[n] /\ l # "string"
    BY <1>9 DEF Closing
  <2>2. CASE t[n] \in Opening
    <3>1. ~Needing(x, n + 1)
      BY <1>8, <2>1, <2>2
    <3>2. PICK a \in Nat : a = Needs(t)
      BY <1>7
    <3>3. Needs(x) = Needs(t)
      BY <1>7, <3>1, Zenon
    <3>4. a + 0 = a
      OBVIOUS
    <3> QED BY <2>2, <3>2, <3>3, <3>4
  <2>3. CASE t[n] \notin Opening
    <3>1. Needing(x, n + 1)
      BY <1>8, <2>1, <2>3
    <3> QED BY <1>7, <2>3, <3>1
  <2> QED BY <2>2, <2>3
<1> QED BY <1>0, <1>1, <1>7, <1>10, <1>11, <1>12

LEMMA NeedsNone == Needs(<<>>) = 0
<1>1. {i \in 1 .. Len(<<>>) : Needing(<<>>, i)} = {}
  BY EmptySeq
<1> QED BY <1>1, FS_EmptySet DEF Needs

Follows(f, t, n) == f = [i \in 0 .. n |-> IF i = 0 THEN Start ELSE Delta(f[i - 1], t[i])]

LEMMA FollowsExists ==
  ASSUME NEW t, NEW n \in Nat
  PROVE  \E f : Follows(f, t, n)
<1> DEFINE S == {k \in Nat : ~ \E f : Follows(f, t, k)}
<1>1. SUFFICES ASSUME S # {} PROVE FALSE
  OBVIOUS
<1>2. PICK k \in S : \A j \in S : k <= j
  <2>1. S \in SUBSET Nat
    OBVIOUS
  <2> HIDE DEF S
  <2> QED BY <1>1, <2>1, Least
<1>3. k \in Nat /\ ~ \E f : Follows(f, t, k)
  OBVIOUS
<1>4. k # 0
  <2>1. Follows([i \in 0 .. 0 |-> Start], t, 0)
    BY DEF Follows
  <2> QED BY <1>3, <2>1
<1>5. PICK j \in Nat : k = j + 1
  <2>1. k - 1 \in Nat /\ k = (k - 1) + 1
    BY <1>3, <1>4
  <2> QED BY <2>1
<1>6. PICK g : Follows(g, t, j)
  BY <1>2, <1>5
<1> DEFINE h == [i \in 0 .. k |-> IF i = 0 THEN Start ELSE Delta(g[i - 1], t[i])]
<1>7. \A i \in 0 .. j : h[i] = g[i]
  <2>1. \A i \in 0 .. j : i \in 0 .. k
    BY <1>5
  <2>2. \A i \in 0 .. j : h[i] = IF i = 0 THEN Start ELSE Delta(g[i - 1], t[i])
    BY <2>1
  <2>3. \A i \in 0 .. j : g[i] = IF i = 0 THEN Start ELSE Delta(g[i - 1], t[i])
    BY <1>6 DEF Follows
  <2> QED BY <2>2, <2>3
<1>8. \A i \in 1 .. k : i - 1 \in 0 .. j
  BY <1>5
<1>9. h = [i \in 0 .. k |-> IF i = 0 THEN Start ELSE Delta(h[i - 1], t[i])]
  <2>1. \A i \in 0 .. k : i # 0 => i \in 1 .. k
    BY <1>3
  <2>2. \A i \in 0 .. k : (IF i = 0 THEN Start ELSE Delta(g[i - 1], t[i]))
                        = (IF i = 0 THEN Start ELSE Delta(h[i - 1], t[i]))
    BY <1>7, <1>8, <2>1
  <2>3. h = [i \in 0 .. k |-> IF i = 0 THEN Start ELSE Delta(g[i - 1], t[i])]
    OBVIOUS
  <2> HIDE DEF h
  <2> QED BY <2>2, <2>3
<1> HIDE DEF h
<1>10. Follows(h, t, k)
  BY <1>9 DEF Follows
<1> QED BY <1>3, <1>10

LEMMA StatesAre ==
  ASSUME NEW t, Len(t) \in Nat
  PROVE  /\ States(t)[0] = Start
         /\ \A i \in 1 .. Len(t) : States(t)[i] = Delta(States(t)[i - 1], t[i])
<1>1. PICK n \in Nat : n = Len(t)
  OBVIOUS
<1>2. PICK f : Follows(f, t, n)
  BY FollowsExists
<1>3. States(t) = CHOOSE g : g = [i \in 0 .. Len(t) |-> IF i = 0 THEN Start ELSE Delta(g[i - 1], t[i])]
  BY DEF States
<1>4. Follows(States(t), t, n)
  BY <1>1, <1>2, <1>3 DEF Follows
<1>5. \A i \in 0 .. n : States(t)[i] = IF i = 0 THEN Start ELSE Delta(States(t)[i - 1], t[i])
  BY <1>4 DEF Follows
<1> QED BY <1>1, <1>5

LEMMA ReadsNone == Reads(<<>>) = Start
<1>1. Len(<<>>) = 0
  OBVIOUS
<1>2. States(<<>>)[0] = Start
  BY <1>1, StatesAre
<1> QED BY <1>1, <1>2 DEF Reads

LEMMA ReadsAppend ==
  ASSUME NEW S, NEW t \in Seq(S), NEW l \in S
  PROVE  Reads(Append(t, l)) = Delta(Reads(t), l)
<1>0. PICK n \in Nat : n = Len(t)
  BY LenProperties
<1>1. PICK x \in Seq(S) : /\ x = Append(t, l) /\ Len(x) = n + 1 /\ x[n + 1] = l
                          /\ \A j \in 1 .. n : x[j] = t[j]
  <2>1. PICK x \in Seq(S) : x = Append(t, l)
    BY AppendProperties
  <2>2. Len(x) = Len(t) + 1 /\ x[Len(t) + 1] = l /\ \A j \in 1 .. Len(t) : x[j] = t[j]
    BY <2>1, AppendProperties
  <2> QED BY <1>0, <2>1, <2>2
<1>2. PICK f : /\ f = States(t) /\ f[0] = Start
               /\ \A i \in 1 .. n : f[i] = Delta(f[i - 1], t[i])
  BY <1>0, StatesAre
<1>3. PICK g : /\ g = States(x) /\ g[0] = Start
               /\ \A i \in 1 .. (n + 1) : g[i] = Delta(g[i - 1], x[i])
  <2>1. Len(x) \in Nat
    BY <1>1
  <2>2. /\ States(x)[0] = Start
        /\ \A i \in 1 .. Len(x) : States(x)[i] = Delta(States(x)[i - 1], x[i])
    BY <2>1, StatesAre
  <2> QED BY <1>1, <2>2
<1> DEFINE A == {i \in 0 .. n : g[i] # f[i]}
<1>4. A = {}
  <2> SUFFICES ASSUME A # {} PROVE FALSE
    OBVIOUS
  <2>1. PICK i \in A : \A j \in A : i <= j
    <3>1. A \in SUBSET Nat
      OBVIOUS
    <3> HIDE DEF A
    <3> QED BY <3>1, Least
  <2>2. i \in 0 .. n /\ g[i] # f[i]
    OBVIOUS
  <2>3. i # 0
    BY <1>2, <1>3, <2>2
  <2>4. i - 1 \in 0 .. n /\ ~(i <= i - 1) /\ i \in 1 .. n /\ i \in 1 .. (n + 1)
    BY <2>2, <2>3
  <2>5. g[i - 1] = f[i - 1]
    BY <2>1, <2>4
  <2>6. f[i] = Delta(f[i - 1], t[i]) /\ g[i] = Delta(g[i - 1], x[i])
    BY <1>2, <1>3, <2>4
  <2>7. x[i] = t[i]
    BY <1>1, <2>4
  <2> QED BY <2>2, <2>5, <2>6, <2>7
<1>5. g[n] = f[n]
  <2>1. n \in 0 .. n
    OBVIOUS
  <2> QED BY <1>4, <2>1
<1>6. g[n + 1] = Delta(g[n], l)
  <2>1. n + 1 \in 1 .. (n + 1) /\ (n + 1) - 1 = n
    OBVIOUS
  <2> QED BY <1>1, <1>3, <2>1
<1> QED BY <1>0, <1>1, <1>2, <1>3, <1>5, <1>6 DEF Reads

-----------------------------------------------------------------------------
(* The stack and the blocks.                                                *)

(* What has been read, and the lexeme before the position.                  *)
Done == SubSeq(text, 1, pos - 1)
Running == at \notin {"fail", "end"}

DecodeShape ==
  /\ build \in Builds /\ text \in Seq(Lexemes) /\ Len(text) <= MaxLexemes
  /\ ended \in BOOLEAN /\ pos \in 1 .. (Len(text) + 1)
  /\ stack \in Seq(Items)
  /\ frames \in Seq(Frames)
  /\ at \in {"value", "key", "colon", "parsed", "next", "fail", "end"}
  /\ val.blocks \in Nat /\ blocks \in Nat

(* Where the parser is goes with the value it has, the error and the keys:  *)
(* every object but the last has one, the last unless it is to come.        *)
StageOK ==
  /\ at \notin {"parsed", "end"} => val.blocks = 0
  /\ at \in {"key", "colon"} => frames # <<>> /\ Last(frames).kind = "object"
  /\ at = "next" => frames # <<>>
  /\ at = "fail" => Known /\ ret \notin {"OK", "ROOT_NOT_SINGULAR"}
  /\ Running => ret = "OK"
  /\ Running => \A i \in 1 .. Len(frames) :
                  frames[i].key <=> /\ frames[i].kind = "object"
                                    /\ i = Len(frames) => at \in {"value", "colon", "parsed"}
  /\ at \in {"parsed", "next"} => pos > 1 /\ text[pos - 1] \notin Opening

NeedsOK == Running => blocks = Needs(Done)

DecodeInv == DecodeShape /\ StageOK /\ TopIsZero /\ EntriesNested /\ BlocksOwned /\ NeedsOK

Fixed == UNCHANGED <<build, text, ended>>

(* One lexeme is read.                                                      *)
LEMMA Advance ==
  ASSUME DecodeShape, pos <= Len(text), text' = text, pos' = pos + 1
  PROVE  /\ pos' \in 1 .. (Len(text) + 1) /\ text[pos] \in Lexemes
         /\ Done \in Seq(Lexemes) /\ Done' = Append(Done, text[pos])
         /\ Len(Done) = pos - 1 /\ \A i \in 1 .. (pos - 1) : Done[i] = text[i]
<1>1. text \in Seq(Lexemes) /\ pos \in 1 .. (Len(text) + 1)
  BY DEF DecodeShape
<1>2. Len(text) \in Nat
  BY <1>1, LenProperties
<1>3. PICK t \in Seq(Lexemes) : t = text
  BY <1>1
<1>4. PICK k \in 1 .. Len(t) : k = pos
  BY <1>1, <1>2, <1>3
<1>5. k \in 1 .. (Len(t) + 1) /\ t[k] \in Lexemes
  <2>1. Len(t) \in Nat
    BY <1>2, <1>3
  <2> QED BY <2>1, ElementOfSeq
<1>6. /\ SubSeq(t, 1, k - 1) \in Seq(Lexemes) /\ Len(SubSeq(t, 1, k - 1)) = k - 1
      /\ \A j \in 1 .. (k - 1) : SubSeq(t, 1, k - 1)[j] = t[j]
  BY <1>5, Prefix
<1>7. SubSeq(t, 1, k) = Append(SubSeq(t, 1, k - 1), t[k])
  BY PrefixGrows
<1>8. (k + 1) - 1 = k
  OBVIOUS
<1>9. Done' = SubSeq(t, 1, k)
  BY <1>3, <1>4, <1>8 DEF Done
<1>10. Done = SubSeq(t, 1, k - 1)
  BY <1>3, <1>4 DEF Done
<1>11. pos' \in 1 .. (Len(text) + 1)
  BY <1>1, <1>2
<1> QED BY <1>3, <1>4, <1>5, <1>6, <1>7, <1>9, <1>10, <1>11

LEMMA FailKeeps ==
  ASSUME DecodeInv, Fixed, at \in {"value", "key", "colon", "next"}, Known,
         NEW error, error \notin {"OK", "ROOT_NOT_SINGULAR"}, Failed(error)
  PROVE  DecodeInv'
<1>0. /\ at' = "fail" /\ ret' = error /\ UNCHANGED <<pos, stack, frames, val, blocks>>
      /\ UNCHANGED <<build, text, ended>>
  BY DEF Failed, Fixed
<1>1. DecodeShape'
  BY <1>0 DEF DecodeInv, DecodeShape
<1>2. StageOK'
  <2>1. Known'
    BY <1>0 DEF Known
  <2>2. val'.blocks = 0
    BY <1>0 DEF DecodeInv, StageOK
  <2> QED BY <1>0, <2>1, <2>2 DEF StageOK, Running
<1>3. EntriesNested' /\ TopIsZero' /\ BlocksOwned' /\ NeedsOK'
  BY <1>0 DEF DecodeInv, EntriesNested, TopIsZero, BlocksOwned, NeedsOK, Running
<1> QED BY <1>1, <1>2, <1>3 DEF DecodeInv

(* While there is no value, the blocks are those of the entries and keys.   *)
LEMMA KeysNat ==
  ASSUME NEW f \in Seq(Frames)
  PROVE  KeysHeld(f) \in Nat
<1>1. CASE f = <<>>
  BY <1>1, KeysNone
<1>2. CASE f # <<>>
  BY <1>2, KeysSplit
<1> QED BY <1>1, <1>2

LEMMA Amounts ==
  ASSUME DecodeShape, StageOK, BlocksOwned, at \notin {"parsed", "end"}
  PROVE  \E o \in Nat, k \in Nat :
           o = Owned(stack) /\ k = KeysHeld(frames) /\ blocks = o + k
<1>1. blocks = val.blocks + Owned(stack) + KeysHeld(frames) /\ val.blocks = 0
  BY DEF BlocksOwned, StageOK
<1>2. PICK o \in Nat : o = Owned(stack)
  BY NumbersAre DEF DecodeShape
<1>3. PICK k \in Nat : k = KeysHeld(frames)
  BY KeysNat DEF DecodeShape
<1>4. 0 + o + k = o + k
  OBVIOUS
<1> QED BY <1>1, <1>2, <1>3, <1>4

(* A value of one lexeme.                                                   *)
LEMMA ParsedKeeps ==
  ASSUME DecodeInv, Fixed, at = "value", pos <= Len(text), NEW v, Parsed(v),
         v.blocks = IF text[pos] = "string" THEN 1 ELSE 0,
         text[pos] \notin Closing, text[pos] \notin Opening
  PROVE  DecodeInv'
<1>0. /\ at' = "parsed" /\ val' = v /\ pos' = pos + 1 /\ blocks' = blocks + v.blocks
      /\ UNCHANGED <<ret, stack, frames>> /\ UNCHANGED <<build, text, ended>>
  BY DEF Parsed, Fixed
<1>1. DecodeShape /\ StageOK /\ TopIsZero /\ EntriesNested /\ BlocksOwned /\ NeedsOK
  BY DEF DecodeInv
<1>2. PICK b \in Nat : b = v.blocks
  OBVIOUS
<1>3. /\ pos' \in 1 .. (Len(text) + 1) /\ text[pos] \in Lexemes
      /\ Done \in Seq(Lexemes) /\ Done' = Append(Done, text[pos])
  BY <1>0, <1>1, Advance
<1>4. DecodeShape'
  <2>1. blocks + b \in Nat
    BY <1>1, <1>2 DEF DecodeShape
  <2> QED BY <1>0, <1>1, <1>2, <1>3, <2>1 DEF DecodeShape
<1>5. StageOK'
  <2>1. pos' > 1 /\ text[pos' - 1] = text[pos]
    <3>1. pos \in Nat \ {0}
      BY <1>1 DEF DecodeShape
    <3>2. pos' - 1 = pos /\ pos' > 1
      BY <1>0, <3>1
    <3> QED BY <3>2
  <2>2. ret = "OK"
    BY <1>1 DEF StageOK, Running
  <2>3. \A i \in 1 .. Len(frames) : frames[i].key <=> frames[i].kind = "object"
    BY <1>1 DEF StageOK, Running
  <2> QED BY <1>0, <2>1, <2>2, <2>3 DEF StageOK, Running
<1>6. EntriesNested' /\ TopIsZero'
  BY <1>0, <1>1 DEF EntriesNested, TopIsZero
<1>7. BlocksOwned'
  <2>1. PICK o \in Nat, k \in Nat : o = Owned(stack) /\ k = KeysHeld(frames) /\ blocks = o + k
    BY <1>1, Amounts
  <2>2. blocks + b = b + o + k
    BY <2>1
  <2> QED BY <1>0, <1>2, <2>1, <2>2 DEF BlocksOwned
<1>8. NeedsOK'
  <2>1. blocks = Needs(Done)
    BY <1>1 DEF NeedsOK, Running
  <2>2. PICK d \in Seq(Lexemes), l \in Lexemes : d = Done /\ l = text[pos]
    BY <1>3
  <2>3. Needs(Append(d, l)) = IF l = "string" THEN Needs(d) + 1 ELSE Needs(d)
    BY <2>2, NeedsAppend
  <2>4. blocks + b = IF l = "string" THEN blocks + 1 ELSE blocks
    BY <1>1, <1>2, <2>2 DEF DecodeShape
  <2> QED BY <1>0, <1>2, <1>3, <2>1, <2>2, <2>3, <2>4 DEF NeedsOK
<1> QED BY <1>4, <1>5, <1>6, <1>7, <1>8 DEF DecodeInv

(* An array or object that is closed at once.                               *)
LEMMA EmptyKeeps ==
  ASSUME DecodeInv, Fixed, at = "value", NEW v, v.blocks = 0,
         pos < Len(text), text[pos] \in Opening, text[pos + 1] \in Closing,
         at' = "parsed", val' = v, pos' = pos + 2, UNCHANGED <<ret, stack, frames, blocks>>
  PROVE  DecodeInv'
<1>0. UNCHANGED <<build, text, ended>>
  BY DEF Fixed
<1>1. DecodeShape /\ StageOK /\ TopIsZero /\ EntriesNested /\ BlocksOwned /\ NeedsOK
  BY DEF DecodeInv
<1>2. PICK t \in Seq(Lexemes), n \in Nat, k \in Nat \ {0} :
        t = text /\ n = Len(t) /\ k = pos /\ k < n
  <2>1. text \in Seq(Lexemes) /\ pos \in 1 .. (Len(text) + 1) /\ Len(text) \in Nat
    BY <1>1, LenProperties DEF DecodeShape
  <2>2. pos \in Nat \ {0}
    BY <2>1
  <2> QED BY <2>1, <2>2
<1>3. /\ k \in 1 .. Len(t) /\ k + 1 \in 1 .. Len(t) /\ k \in 1 .. (Len(t) + 1)
      /\ k + 2 \in 1 .. (Len(t) + 1) /\ (k + 1) - 1 = k /\ (k + 2) - 1 = k + 1 /\ k + 2 > 1
  BY <1>2
<1>4. PICK d \in Seq(Lexemes) : d = SubSeq(t, 1, k - 1) /\ d = Done
  <2>1. SubSeq(t, 1, k - 1) \in Seq(Lexemes)
    BY <1>3, Prefix
  <2> QED BY <1>2, <2>1 DEF Done
<1>5. PICK l \in Lexemes, m \in Lexemes : l = t[k] /\ m = t[k + 1]
  BY <1>3, ElementOfSeq
<1>6. PICK e \in Seq(Lexemes) : /\ e = Append(d, l) /\ e = SubSeq(t, 1, k)
                               /\ Len(e) > 0 /\ e[Len(e)] = l
  <2>1. PICK e \in Seq(Lexemes) : e = Append(d, l)
    BY AppendProperties
  <2>2. Len(e) = Len(d) + 1 /\ e[Len(d) + 1] = l /\ Len(d) \in Nat
    BY <2>1, AppendProperties, LenProperties
  <2>3. SubSeq(t, 1, k) = Append(d, l)
    BY <1>3, <1>4, <1>5, PrefixGrows
  <2>4. Len(e) > 0
    BY <2>2
  <2>5. e[Len(e)] = l
    BY <2>2
  <2> QED BY <2>1, <2>3, <2>4, <2>5
<1>7. Done' = Append(e, m)
  <2>1. PICK j : j = k + 1
    OBVIOUS
  <2>2. SubSeq(t, 1, j) = Append(SubSeq(t, 1, j - 1), t[j])
    BY <1>3, <2>1, PrefixGrows
  <2>3. SubSeq(t, 1, k + 1) = Append(SubSeq(t, 1, k), t[k + 1])
    BY <1>3, <2>1, <2>2
  <2>4. Done' = SubSeq(t, 1, k + 1)
    BY <1>0, <1>2, <1>3 DEF Done
  <2> QED BY <1>5, <1>6, <2>3, <2>4
<1>8. DecodeShape'
  BY <1>0, <1>1, <1>2, <1>3 DEF DecodeShape
<1>9. StageOK'
  <2>1. pos' > 1 /\ text[pos' - 1] = m /\ m \notin Opening
    BY <1>2, <1>3, <1>5 DEF Opening, Closing
  <2>2. ret = "OK"
    BY <1>1 DEF StageOK, Running
  <2>3. \A i \in 1 .. Len(frames) : frames[i].key <=> frames[i].kind = "object"
    BY <1>1 DEF StageOK, Running
  <2> QED BY <1>0, <2>1, <2>2, <2>3 DEF StageOK, Running
<1>10. EntriesNested' /\ TopIsZero'
  BY <1>0, <1>1 DEF EntriesNested, TopIsZero
<1>11. BlocksOwned'
  BY <1>0, <1>1 DEF BlocksOwned, StageOK
<1>12. NeedsOK'
  <2>1. blocks = Needs(d) /\ Needs(d) \in Nat
    BY <1>1, <1>4, NeedsAppend DEF NeedsOK, Running
  <2>2. Needs(e) = Needs(d)
    <3>1. l # "string" /\ l \notin Closing
      BY <1>2, <1>5 DEF Opening, Closing
    <3>2. Needs(Append(d, l)) = Needs(d)
      BY <3>1, NeedsAppend
    <3> QED BY <1>6, <3>2
  <2>3. Needs(Append(e, m)) = Needs(e) + 0
    <3>1. m \in Closing /\ e[Len(e)] \in Opening /\ Len(e) > 0
      BY <1>2, <1>5, <1>6
    <3>2. Needs(Append(e, m)) = Needs(e) + IF e[Len(e)] \in Opening THEN 0 ELSE 1
      BY <3>1, NeedsAppend
    <3> QED BY <3>1, <3>2
  <2>4. PICK x \in Nat : x = Needs(d)
    BY <2>1
  <2>5. x + 0 = x
    OBVIOUS
  <2> QED BY <1>0, <1>7, <2>1, <2>2, <2>3, <2>4, <2>5 DEF NeedsOK
<1> QED BY <1>8, <1>9, <1>10, <1>11, <1>12 DEF DecodeInv

(* An array or object begins.                                               *)
LEMMA OpenKeeps ==
  ASSUME DecodeInv, Fixed, at = "value", pos <= Len(text), text[pos] \in Opening,
         NEW kind \in {"array", "object"},
         frames' = Append(frames, [kind |-> kind, size |-> 0, key |-> FALSE]),
         pos' = pos + 1, at' = (IF kind = "array" THEN "value" ELSE "key"),
         UNCHANGED <<ret, stack, val, blocks>>
  PROVE  DecodeInv'
<1>0. UNCHANGED <<build, text, ended>>
  BY DEF Fixed
<1>1. DecodeShape /\ StageOK /\ TopIsZero /\ EntriesNested /\ BlocksOwned /\ NeedsOK
  BY DEF DecodeInv
<1>2. PICK x \in Frames : /\ x = [kind |-> kind, size |-> 0, key |-> FALSE]
                          /\ x.kind = kind /\ x.size = 0 /\ x.key = FALSE
  <2>1. PICK x : x = [kind |-> kind, size |-> 0, key |-> FALSE]
    OBVIOUS
  <2>2. x \in Frames
    BY <2>1 DEF Frames
  <2>3. x.kind = kind /\ x.size = 0 /\ x.key = FALSE
    BY <2>1
  <2> QED BY <2>1, <2>2, <2>3
<1>3. PICK f \in Seq(Frames), n \in Nat : f = frames /\ n = Len(f)
  BY <1>1, LenProperties DEF DecodeShape
<1>4. PICK g \in Seq(Frames) : g = Append(f, x)
  BY AppendProperties
<1>5. /\ Len(g) = n + 1 /\ g[n + 1] = x /\ \A i \in 1 .. n : g[i] = f[i]
      /\ g # <<>> /\ Last(g) = x
  <2>1. /\ Len(g) = n + 1 /\ g[n + 1] = x /\ \A i \in 1 .. n : g[i] = f[i]
    BY <1>3, <1>4, AppendProperties
  <2>2. g # <<>>
    BY <1>4, AppendProperties
  <2> QED BY <2>1, <2>2, FrontIs
<1>6. frames' = g
  BY <1>2, <1>3, <1>4
<1>7. /\ pos' \in 1 .. (Len(text) + 1) /\ text[pos] \in Lexemes
      /\ Done \in Seq(Lexemes) /\ Done' = Append(Done, text[pos])
  BY <1>0, <1>1, Advance
<1>8. DecodeShape'
  BY <1>0, <1>1, <1>6, <1>7 DEF DecodeShape
<1>9. StageOK'
  <2>1. ret = "OK" /\ val.blocks = 0
    BY <1>1 DEF StageOK, Running
  <2>2. \A i \in 1 .. n : f[i].key <=> f[i].kind = "object"
    BY <1>1, <1>3 DEF StageOK, Running
  <2>3. \A i \in 1 .. Len(g) :
          g[i].key <=> g[i].kind = "object" /\ (i = Len(g) => at' \in {"value", "colon", "parsed"})
    <3> SUFFICES ASSUME NEW i \in 1 .. Len(g)
                 PROVE  g[i].key <=> /\ g[i].kind = "object"
                                     /\ i = Len(g) => at' \in {"value", "colon", "parsed"}
      OBVIOUS
    <3>1. CASE i = n + 1
      BY <1>2, <1>5, <3>1
    <3>2. CASE i # n + 1
      <4>1. i \in 1 .. n /\ i # Len(g)
        BY <1>5, <3>2
      <4> QED BY <1>5, <2>2, <4>1
    <3> QED BY <3>1, <3>2
  <2> QED BY <1>0, <1>2, <1>5, <1>6, <2>1, <2>3 DEF StageOK, Running
<1>10. EntriesNested' /\ TopIsZero'
  <2>1. Nested(f, stack) /\ stack \in Seq(Items)
    BY <1>1, <1>3 DEF EntriesNested, DecodeShape
  <2>2. Nested(g, stack)
    <3>1. PICK s \in Seq(Items) : s = stack
      BY <2>1
    <3> QED BY <1>2, <1>4, <2>1, <3>1, NestedOpen
  <2> QED BY <1>6, <2>2 DEF EntriesNested, TopIsZero
<1>11. BlocksOwned'
  <2>1. PICK o \in Nat, k \in Nat : o = Owned(stack) /\ k = KeysHeld(frames) /\ blocks = o + k
    BY <1>1, Amounts
  <2>2. KeysHeld(g) = k
    <3>1. Front(g) = f
      <4>1. Front(g) \in Seq(Frames) /\ Len(Front(g)) = n /\ \A i \in 1 .. n : Front(g)[i] = g[i]
        <5>1. g # <<>>
          BY <1>5
        <5>2. /\ Front(g) \in Seq(Frames) /\ Len(Front(g)) = Len(g) - 1
              /\ \A i \in 1 .. (Len(g) - 1) : Front(g)[i] = g[i]
          BY <5>1, FrontIs
        <5>3. Len(g) - 1 = n
          BY <1>5
        <5> QED BY <5>2, <5>3
      <4>2. \A i \in 1 .. Len(f) : f[i] = Front(g)[i]
        BY <1>3, <1>5, <4>1
      <4> QED BY <1>3, <4>1, <4>2, SeqEqual
    <3>2. KeysHeld(g) = KeysHeld(Front(g)) + IF Last(g).key THEN 1 ELSE 0
      BY <1>5, KeysSplit
    <3>3. k + 0 = k
      OBVIOUS
    <3> QED BY <1>2, <1>3, <1>5, <2>1, <3>1, <3>2, <3>3
  <2>3. val.blocks = 0 /\ 0 + o + k = o + k
    BY <1>1 DEF StageOK
  <2> QED BY <1>6, <2>1, <2>2, <2>3 DEF BlocksOwned
<1>12. NeedsOK'
  <2>1. blocks = Needs(Done)
    BY <1>1 DEF NeedsOK, Running
  <2>2. PICK d \in Seq(Lexemes), l \in Lexemes : d = Done /\ l = text[pos]
    BY <1>7
  <2>3. l # "string" /\ l \notin Closing
    BY <2>2 DEF Opening, Closing
  <2>4. Needs(Append(d, l)) = Needs(d)
    BY <2>3, NeedsAppend
  <2> QED BY <1>7, <2>1, <2>2, <2>4 DEF NeedsOK
<1> QED BY <1>8, <1>9, <1>10, <1>11, <1>12 DEF DecodeInv

(* The key of a member is copied.                                           *)
LEMMA KeyKeeps ==
  ASSUME DecodeInv, Fixed, at = "key", pos <= Len(text), text[pos] = "string",
         frames' = SetKey(frames), blocks' = blocks + 1, pos' = pos + 1, at' = "colon",
         UNCHANGED <<stack, val, ret>>
  PROVE  DecodeInv'
<1>0. UNCHANGED <<build, text, ended>>
  BY DEF Fixed
<1>1. DecodeShape /\ StageOK /\ TopIsZero /\ EntriesNested /\ BlocksOwned /\ NeedsOK
  BY DEF DecodeInv
<1>2. PICK f \in Seq(Frames), n \in Nat \ {0} :
        /\ f = frames /\ f # <<>> /\ n = Len(f) /\ f[n].kind = "object" /\ ~f[n].key
        /\ \A i \in 1 .. (n - 1) : f[i].key <=> f[i].kind = "object"
  <2>1. frames \in Seq(Frames) /\ frames # <<>> /\ Last(frames).kind = "object"
    BY <1>1 DEF DecodeShape, StageOK
  <2>2. Len(frames) \in Nat \ {0} /\ Last(frames) = frames[Len(frames)]
    BY <2>1, FrontIs
  <2>3. \A i \in 1 .. Len(frames) :
          frames[i].key <=> /\ frames[i].kind = "object"
                            /\ i = Len(frames) => at \in {"value", "colon", "parsed"}
    BY <1>1 DEF StageOK, Running
  <2>4. Len(frames) \in 1 .. Len(frames)
    BY <2>2
  <2>5. ~frames[Len(frames)].key
    BY <2>3, <2>4
  <2>6. \A i \in 1 .. (Len(frames) - 1) : frames[i].key <=> frames[i].kind = "object"
    <3>1. \A i \in 1 .. (Len(frames) - 1) : i \in 1 .. Len(frames) /\ i # Len(frames)
      BY <2>2
    <3> QED BY <2>3, <3>1
  <2> QED BY <2>1, <2>2, <2>5, <2>6
<1>3. PICK g \in Seq(Frames) :
        /\ g = SetKey(f) /\ g # <<>> /\ Len(g) = n /\ \A i \in 1 .. (n - 1) : g[i] = f[i]
        /\ g[n] = [f[n] EXCEPT !.key = TRUE]
  <2>1. n \in 1 .. Len(f) /\ f[n] \in Frames
    BY <1>2, ElementOfSeq
  <2>2. [f[n] EXCEPT !.key = TRUE] \in Frames
    BY <2>1 DEF Frames
  <2>3. PICK x \in Frames : x = [f[n] EXCEPT !.key = TRUE]
    BY <2>2
  <2>4. SetKey(f) = [f EXCEPT ![n] = x]
    BY <1>2, <2>3 DEF SetKey
  <2>5. /\ [f EXCEPT ![n] = x] \in Seq(Frames) /\ Len([f EXCEPT ![n] = x]) = Len(f)
        /\ \A i \in 1 .. Len(f) : [f EXCEPT ![n] = x][i] = IF i = n THEN x ELSE f[i]
    BY <2>1, ExceptSeq
  <2>6. \A i \in 1 .. (n - 1) : i \in 1 .. Len(f) /\ i # n
    BY <1>2
  <2>7. PICK g \in Seq(Frames) : /\ g = SetKey(f) /\ Len(g) = n
                                 /\ \A i \in 1 .. n : g[i] = IF i = n THEN x ELSE f[i]
    BY <1>2, <2>4, <2>5
  <2>8. g # <<>>
    BY <1>2, <2>7
  <2>9. g[n] = x
    BY <1>2, <2>7
  <2>10. \A i \in 1 .. (n - 1) : g[i] = f[i]
    BY <1>2, <2>6, <2>7
  <2> QED BY <2>3, <2>7, <2>8, <2>9, <2>10
<1>4. g[n].kind = f[n].kind /\ g[n].size = f[n].size /\ g[n].key = TRUE
  <2>1. f[n] \in Frames
    <3>1. n \in 1 .. Len(f)
      BY <1>2
    <3> QED BY <3>1, ElementOfSeq
  <2> QED BY <1>3, <2>1 DEF Frames
<1>5. frames' = g
  BY <1>2, <1>3
<1>6. /\ pos' \in 1 .. (Len(text) + 1) /\ text[pos] \in Lexemes
      /\ Done \in Seq(Lexemes) /\ Done' = Append(Done, text[pos])
  BY <1>0, <1>1, Advance
<1>7. DecodeShape'
  <2>1. blocks + 1 \in Nat
    BY <1>1 DEF DecodeShape
  <2> QED BY <1>0, <1>1, <1>5, <1>6, <2>1 DEF DecodeShape
<1>8. StageOK'
  <2>1. ret = "OK" /\ val.blocks = 0
    BY <1>1 DEF StageOK, Running
  <2>2. Last(g).kind = "object"
    <3>1. Last(g) = g[n]
      BY <1>3, FrontOf
    <3> QED BY <1>2, <1>4, <3>1
  <2>3. \A i \in 1 .. n : g[i].key <=> g[i].kind = "object"
    <3>1. \A i \in 1 .. n : i = n \/ i \in 1 .. (n - 1)
      OBVIOUS
    <3>2. g[n].key <=> g[n].kind = "object"
      BY <1>2, <1>4
    <3>3. \A i \in 1 .. (n - 1) : g[i].key <=> g[i].kind = "object"
      BY <1>2, <1>3
    <3> QED BY <3>1, <3>2, <3>3
  <2> QED BY <1>0, <1>3, <1>5, <2>1, <2>2, <2>3 DEF StageOK, Running
<1>9. EntriesNested' /\ TopIsZero'
  <2>1. Nested(f, stack)
    BY <1>1, <1>2 DEF EntriesNested
  <2>2. Alike(f, g, Len(f)) /\ Len(g) = Len(f)
    <3>1. \A i \in 1 .. n : g[i].size = f[i].size /\ g[i].kind = f[i].kind
      <4>1. \A i \in 1 .. n : i = n \/ i \in 1 .. (n - 1)
        OBVIOUS
      <4> QED BY <1>3, <1>4, <4>1
    <3> QED BY <1>2, <1>3, <3>1 DEF Alike
  <2>3. PICK s : s = stack
    OBVIOUS
  <2>4. Nested(g, s)
    BY <2>1, <2>2, <2>3, NestedSame
  <2> QED BY <1>5, <2>3, <2>4 DEF EntriesNested, TopIsZero
<1>10. BlocksOwned'
  <2>1. PICK o \in Nat, k \in Nat : o = Owned(stack) /\ k = KeysHeld(frames) /\ blocks = o + k
    BY <1>1, Amounts
  <2>2. KeysHeld(g) = k + 1
    <3>1. PICK b \in Nat : /\ KeysHeld(f) = b + IF f[n].key THEN 1 ELSE 0
                          /\ KeysHeld(g) = b + IF g[n].key THEN 1 ELSE 0
      <4>1. Len(f) = n /\ Len(g) = n
        BY <1>2, <1>3
      <4>2. \A i \in 1 .. (n - 1) : g[i] = f[i]
        BY <1>3
      <4> QED BY <4>1, <4>2, KeysLast
    <3>2. KeysHeld(f) = b /\ KeysHeld(g) = b + 1
      BY <1>2, <1>4, <3>1
    <3> QED BY <1>2, <2>1, <3>2
  <2>3. val.blocks = 0 /\ (o + k) + 1 = 0 + o + (k + 1)
    BY <1>1 DEF StageOK
  <2> QED BY <1>5, <2>1, <2>2, <2>3 DEF BlocksOwned
<1>11. NeedsOK'
  <2>1. blocks = Needs(Done)
    BY <1>1 DEF NeedsOK, Running
  <2>2. PICK d \in Seq(Lexemes), l \in Lexemes : d = Done /\ l = text[pos]
    BY <1>6
  <2>3. Needs(Append(d, l)) = Needs(d) + 1
    BY <2>2, NeedsAppend
  <2> QED BY <1>6, <2>1, <2>2, <2>3 DEF NeedsOK
<1> QED BY <1>7, <1>8, <1>9, <1>10, <1>11 DEF DecodeInv

(* A lexeme that only moves the position: a colon, a comma.                 *)
LEMMA SignKeeps ==
  ASSUME DecodeInv, Fixed, at \in {"colon", "next"}, pos <= Len(text),
         text[pos] \in {"colon", "comma"}, pos' = pos + 1,
         at' = IF at = "colon" THEN "value" ELSE IF InObject THEN "key" ELSE "value",
         UNCHANGED <<stack, frames, val, ret, blocks>>
  PROVE  DecodeInv'
<1>0. UNCHANGED <<build, text, ended>>
  BY DEF Fixed
<1>1. DecodeShape /\ StageOK /\ TopIsZero /\ EntriesNested /\ BlocksOwned /\ NeedsOK
  BY DEF DecodeInv
<1>2. /\ pos' \in 1 .. (Len(text) + 1) /\ text[pos] \in Lexemes
      /\ Done \in Seq(Lexemes) /\ Done' = Append(Done, text[pos])
  BY <1>0, <1>1, Advance
<1>3. DecodeShape'
  BY <1>0, <1>1, <1>2 DEF DecodeShape
<1>4. frames # <<>>
  BY <1>1 DEF StageOK
<1>5. PICK n \in Nat \ {0} : n = Len(frames) /\ Last(frames) = frames[n] /\ frames[n] \in Frames
  <2>1. PICK f \in Seq(Frames) : f = frames /\ f # <<>>
    BY <1>1, <1>4 DEF DecodeShape
  <2>2. \E n \in Nat \ {0} : n = Len(f) /\ Last(f) = f[n] /\ f[n] \in Frames
    BY <2>1, FrontOf
  <2> QED BY <2>1, <2>2
<1>6. at' = "key" => Last(frames).kind = "object"
  BY DEF InObject
<1>7. at = "colon" => frames[n].kind = "object"
  BY <1>1, <1>5 DEF StageOK
<1>8. at = "next" => (InObject <=> frames[n].kind = "object")
  BY <1>4, <1>5 DEF InObject
<1>9. \A i \in 1 .. n : frames[i].key <=> /\ frames[i].kind = "object"
                                          /\ i = n => at = "colon"
  BY <1>1, <1>5 DEF StageOK, Running
<1>10. \A i \in 1 .. n : frames[i].key <=> /\ frames[i].kind = "object"
                                           /\ i = n => at' \in {"value", "colon", "parsed"}
  <2> SUFFICES ASSUME NEW i \in 1 .. n
               PROVE  frames[i].key <=> /\ frames[i].kind = "object"
                                        /\ i = n => at' \in {"value", "colon", "parsed"}
    OBVIOUS
  <2>1. CASE i # n
    BY <1>9, <2>1
  <2>2. CASE i = n /\ at = "colon"
    BY <1>9, <2>2
  <2>3. CASE i = n /\ at = "next"
    BY <1>8, <1>9, <2>3
  <2> QED BY <2>1, <2>2, <2>3
<1>11. StageOK'
  <2>1. ret = "OK" /\ val.blocks = 0
    BY <1>1 DEF StageOK, Running
  <2>2. at' \in {"value", "key"}
    OBVIOUS
  <2> QED BY <1>0, <1>4, <1>5, <1>6, <1>10, <2>1, <2>2 DEF StageOK, Running
<1>12. EntriesNested' /\ TopIsZero' /\ BlocksOwned'
  BY <1>0, <1>1 DEF EntriesNested, TopIsZero, BlocksOwned
<1>13. NeedsOK'
  <2>1. blocks = Needs(Done)
    BY <1>1 DEF NeedsOK, Running
  <2>2. PICK d \in Seq(Lexemes), l \in Lexemes : d = Done /\ l = text[pos]
    BY <1>2
  <2>3. l # "string" /\ l \notin Closing
    BY <2>2 DEF Closing
  <2>4. Needs(Append(d, l)) = Needs(d)
    BY <2>3, NeedsAppend
  <2> QED BY <1>2, <2>1, <2>2, <2>4 DEF NeedsOK
<1> QED BY <1>3, <1>11, <1>12, <1>13 DEF DecodeInv

(* A value is pushed.                                                       *)
LEMMA PushKeeps ==
  ASSUME DecodeInv, PushStep
  PROVE  DecodeInv'
<1>0. /\ at = "parsed" /\ frames # <<>> /\ stack' = Append(stack, Entry) /\ frames' = Pushed(frames)
      /\ at' = "next" /\ val' = Null /\ UNCHANGED <<build, text, ended, pos, ret, blocks>>
  BY DEF PushStep
<1>1. DecodeShape /\ StageOK /\ TopIsZero /\ EntriesNested /\ BlocksOwned /\ NeedsOK
  BY DEF DecodeInv
<1>2. PICK f \in Seq(Frames) : f = frames /\ f # <<>>
  BY <1>0, <1>1 DEF DecodeShape
<1>3. PICK n \in Nat \ {0} : n = Len(f) /\ Last(f) = f[n] /\ f[n] \in Frames
  BY <1>2, FrontOf
<1>4. n \in 1 .. n /\ \A i \in 1 .. (n - 1) : i \in 1 .. n /\ i # n
  BY <1>3
<1>5. \A i \in 1 .. n : f[i].key <=> f[i].kind = "object"
  BY <1>0, <1>1, <1>2, <1>3 DEF StageOK, Running
<1>6. PICK x \in Frames : /\ x = [[f[n] EXCEPT !.size = @ + 1] EXCEPT !.key = FALSE]
                          /\ x.kind = f[n].kind /\ x.size = f[n].size + 1 /\ x.key = FALSE
  <2>1. PICK y \in Frames : y = f[n]
    BY <1>3
  <2>2. PICK x : x = [[y EXCEPT !.size = @ + 1] EXCEPT !.key = FALSE]
    OBVIOUS
  <2>3. y.size + 1 \in Nat
    BY DEF Frames
  <2>4. x \in Frames /\ x.kind = y.kind /\ x.size = y.size + 1 /\ x.key = FALSE
    BY <2>2, <2>3 DEF Frames
  <2> QED BY <2>1, <2>2, <2>4
<1>7. PICK g \in Seq(Frames) :
        /\ g = Pushed(f) /\ g # <<>> /\ Len(g) = n /\ \A i \in 1 .. (n - 1) : g[i] = f[i]
        /\ g[n] = x
  <2>1. n \in 1 .. Len(f) /\ DOMAIN f = 1 .. Len(f)
    BY <1>3, <1>4
  <2>2. Pushed(f) = [f EXCEPT ![n] = x]
    BY <1>3, <1>6, <2>1 DEF Pushed
  <2>3. /\ [f EXCEPT ![n] = x] \in Seq(Frames) /\ Len([f EXCEPT ![n] = x]) = Len(f)
        /\ \A i \in 1 .. Len(f) : [f EXCEPT ![n] = x][i] = IF i = n THEN x ELSE f[i]
    BY <2>1, ExceptSeq
  <2>4. PICK g \in Seq(Frames) : /\ g = Pushed(f) /\ Len(g) = n
                                 /\ \A i \in 1 .. n : g[i] = IF i = n THEN x ELSE f[i]
    BY <1>3, <2>2, <2>3
  <2>5. g # <<>>
    BY <1>3, <2>4
  <2>6. g[n] = x
    BY <1>4, <2>4
  <2>7. \A i \in 1 .. (n - 1) : g[i] = f[i]
    BY <1>4, <2>4
  <2> QED BY <2>4, <2>5, <2>6, <2>7
<1>8. frames' = g
  BY <1>0, <1>2, <1>7
<1>9. PICK e \in Items : /\ stack' = Append(stack, e) /\ e.type = TypeFor(f[n].kind)
                         /\ e.blocks = val.blocks + IF f[n].kind = "object" THEN 1 ELSE 0
  <2>1. InObject <=> f[n].kind = "object"
    BY <1>2, <1>3 DEF InObject
  <2>2. f[n].kind = "object" \/ f[n].kind = "array"
    BY <1>3 DEF Frames
  <2>3. PICK v \in Nat : v = val.blocks
    BY <1>1 DEF DecodeShape
  <2>4. PICK e : e = Entry
    OBVIOUS
  <2>5. CASE f[n].kind = "object"
    <3>1. e = [type |-> "member", blocks |-> v + 1]
      BY <2>1, <2>3, <2>4, <2>5 DEF Entry, Value
    <3>2. e \in Items /\ e.type = "member" /\ e.blocks = v + 1
      BY <3>1 DEF Items
    <3>3. TypeFor(f[n].kind) = "member"
      BY <2>5 DEF TypeFor
    <3> QED BY <1>0, <2>3, <2>4, <2>5, <3>2, <3>3
  <2>6. CASE f[n].kind = "array"
    <3>1. e = [type |-> "element", blocks |-> v + 0]
      BY <2>1, <2>3, <2>4, <2>6 DEF Entry, Value
    <3>2. e \in Items /\ e.type = "element" /\ e.blocks = v + 0
      BY <3>1 DEF Items
    <3>3. TypeFor(f[n].kind) = "element"
      BY <2>6 DEF TypeFor
    <3> QED BY <1>0, <2>3, <2>4, <2>6, <3>2, <3>3
  <2> QED BY <2>2, <2>5, <2>6
<1>10. PICK s \in Seq(Items) : s = stack
  BY <1>1 DEF DecodeShape
<1>11. DecodeShape'
  <2>1. Append(s, e) \in Seq(Items)
    BY AppendProperties
  <2>2. Null.blocks = 0
    BY DEF Null, Value
  <2> QED BY <1>0, <1>1, <1>8, <1>9, <1>10, <2>1, <2>2 DEF DecodeShape
<1>12. StageOK'
  <2>1. ret = "OK" /\ pos > 1 /\ text[pos - 1] \notin Opening
    BY <1>0, <1>1 DEF StageOK, Running
  <2>2. val'.blocks = 0
    BY <1>0 DEF Null, Value
  <2>3. \A i \in 1 .. n : g[i].key <=> g[i].kind = "object" /\ i # n
    <3>1. \A i \in 1 .. n : i = n \/ i \in 1 .. (n - 1)
      OBVIOUS
    <3>2. ~g[n].key
      BY <1>6, <1>7
    <3>3. \A i \in 1 .. (n - 1) : (g[i].key <=> g[i].kind = "object") /\ i # n
      BY <1>4, <1>5, <1>7
    <3> QED BY <3>1, <3>2, <3>3
  <2> QED BY <1>0, <1>7, <1>8, <2>1, <2>2, <2>3 DEF StageOK, Running
<1>13. EntriesNested' /\ TopIsZero'
  <2>1. Nested(f, s)
    BY <1>0, <1>1, <1>2, <1>10 DEF EntriesNested
  <2>2. Alike(f, g, Len(f) - 1) /\ Len(g) = Len(f)
    BY <1>3, <1>7 DEF Alike
  <2>3. g[Len(f)].size = f[Len(f)].size + 1 /\ g[Len(f)].kind = f[Len(f)].kind
    BY <1>3, <1>6, <1>7
  <2>4. e.type = TypeFor(f[Len(f)].kind)
    BY <1>3, <1>9
  <2>5. Nested(g, Append(s, e))
    BY <1>2, <2>1, <2>2, <2>3, <2>4, NestedPush
  <2> QED BY <1>0, <1>8, <1>9, <1>10, <2>5 DEF EntriesNested, TopIsZero
<1>14. BlocksOwned'
  <2>1. PICK o \in Nat, v \in Nat : o = Owned(s) /\ v = val.blocks
    BY <1>1, NumbersAre DEF DecodeShape
  <2>2. PICK k \in Nat : /\ KeysHeld(f) = k + IF f[n].key THEN 1 ELSE 0
                         /\ KeysHeld(g) = k + IF g[n].key THEN 1 ELSE 0
    <3>1. Len(f) = n /\ Len(g) = n
      BY <1>3, <1>7
    <3>2. \A i \in 1 .. (n - 1) : g[i] = f[i]
      BY <1>7
    <3> QED BY <3>1, <3>2, KeysLast
  <2>3. blocks = v + o + KeysHeld(f)
    BY <1>0, <1>1, <1>2, <1>10, <2>1 DEF BlocksOwned
  <2>4. Owned(Append(s, e)) = o + e.blocks
    BY <2>1, OwnedAppend
  <2>5. KeysHeld(g) = k
    BY <1>6, <1>7, <2>2
  <2>6. f[n].key <=> f[n].kind = "object"
    BY <1>4, <1>5
  <2>7. blocks = 0 + (o + e.blocks) + k
    <3>1. CASE f[n].kind = "object"
      <4>1. KeysHeld(f) = k + 1 /\ e.blocks = v + 1
        BY <1>9, <2>1, <2>2, <2>6, <3>1
      <4> QED BY <2>3, <4>1
    <3>2. CASE f[n].kind # "object"
      <4>1. KeysHeld(f) = k /\ e.blocks = v
        BY <1>9, <2>1, <2>2, <2>6, <3>2
      <4> QED BY <2>3, <4>1
    <3> QED BY <3>1, <3>2
  <2>8. val'.blocks = 0
    BY <1>0 DEF Null, Value
  <2> QED BY <1>0, <1>8, <1>9, <1>10, <2>4, <2>5, <2>7, <2>8 DEF BlocksOwned
<1>15. NeedsOK'
  BY <1>0, <1>1 DEF NeedsOK, Running, Done
<1> QED BY <1>11, <1>12, <1>13, <1>14, <1>15 DEF DecodeInv

(* The last array or object with its entries gives way to what it was in.   *)
LEMMA PopShape ==
  ASSUME DecodeShape, frames # <<>>, EntriesNested, at # "end", NEW n, n = Last(frames).size
  PROVE  /\ n \in Nat /\ n <= Len(stack)
         /\ Front(frames) \in Seq(Frames) /\ Below(n) \in Seq(Items)
         /\ Nested(Front(frames), Below(n))
         /\ \E a \in Nat, b \in Nat, k \in Nat :
              /\ a = Owned(Below(n)) /\ b = Owned(Entries(n)) /\ k = KeysHeld(Front(frames))
              /\ Owned(stack) = a + b
              /\ KeysHeld(frames) = k + IF Last(frames).key THEN 1 ELSE 0
<1>1. PICK f \in Seq(Frames), s \in Seq(Items) : f = frames /\ s = stack /\ f # <<>>
  BY DEF DecodeShape
<1>2. PICK m \in Nat \ {0} : m = Len(f) /\ Last(f) = f[m]
  BY <1>1, FrontOf
<1>3. Nested(f, s) /\ n = f[Len(f)].size
  BY <1>1, <1>2 DEF EntriesNested
<1>4. /\ n \in Nat /\ n <= Len(s)
      /\ Front(f) \in Seq(Frames) /\ Nested(Front(f), SubSeq(s, 1, Len(s) - n))
  BY <1>1, <1>3, NestedPop
<1>5. /\ SubSeq(s, 1, Len(s) - n) \in Seq(Items)
      /\ SubSeq(s, Len(s) - n + 1, Len(s)) \in Seq(Items)
      /\ Owned(s) = Owned(SubSeq(s, 1, Len(s) - n)) + Owned(SubSeq(s, Len(s) - n + 1, Len(s)))
  BY <1>4, OwnedSplit
<1>6. PICK t \in Seq(Items), u \in Seq(Items) : t = Below(n) /\ u = Entries(n)
                                                /\ Owned(s) = Owned(t) + Owned(u)
  BY <1>1, <1>5 DEF Below, Entries
<1>7. PICK a \in Nat, b \in Nat : a = Owned(t) /\ b = Owned(u)
  BY NumbersAre
<1>8. PICK k \in Nat : /\ k = KeysHeld(Front(f))
                       /\ KeysHeld(f) = k + IF Last(f).key THEN 1 ELSE 0
  BY <1>1, KeysSplit
<1>9. Nested(Front(f), Below(n))
  BY <1>1, <1>4 DEF Below
<1>10. /\ n \in Nat /\ n <= Len(stack) /\ Front(frames) \in Seq(Frames)
  BY <1>1, <1>4
<1>11. \E aa \in Nat, bb \in Nat, kk \in Nat :
              /\ aa = Owned(Below(n)) /\ bb = Owned(Entries(n)) /\ kk = KeysHeld(Front(frames))
              /\ Owned(stack) = aa + bb
              /\ KeysHeld(frames) = kk + IF Last(frames).key THEN 1 ELSE 0
  BY <1>1, <1>6, <1>7, <1>8
<1> QED BY <1>1, <1>6, <1>9, <1>10, <1>11

(* An array or object is complete: its entries are the value's.             *)
LEMMA CloseKeeps ==
  ASSUME DecodeInv, Fixed, at = "next", pos <= Len(text), text[pos] \in Closing,
         Closed(Taken(Last(frames).size))
  PROVE  DecodeInv'
<1>1. DecodeShape /\ StageOK /\ TopIsZero /\ EntriesNested /\ BlocksOwned /\ NeedsOK
  BY DEF DecodeInv
<1>2. PICK n : n = Last(frames).size
  OBVIOUS
<1>0. /\ val' = Value(Last(frames).kind, Owned(Entries(n)) + 1)
      /\ stack' = Below(n) /\ frames' = Front(frames) /\ blocks' = blocks + 1
      /\ pos' = pos + 1 /\ at' = "parsed" /\ UNCHANGED ret /\ UNCHANGED <<build, text, ended>>
  BY <1>2 DEF Closed, Taken, Fixed
<1>3. frames # <<>>
  BY <1>1 DEF StageOK
<1>4. PICK a \in Nat, b \in Nat, k \in Nat :
        /\ a = Owned(Below(n)) /\ b = Owned(Entries(n)) /\ k = KeysHeld(Front(frames))
        /\ Owned(stack) = a + b
        /\ KeysHeld(frames) = k + IF Last(frames).key THEN 1 ELSE 0
  BY <1>1, <1>2, <1>3, PopShape
<1>5. Below(n) \in Seq(Items) /\ Nested(Front(frames), Below(n))
  BY <1>1, <1>2, <1>3, PopShape
<1>6. PICK f \in Seq(Frames) : f = frames /\ f # <<>>
  BY <1>1, <1>3 DEF DecodeShape
<1>7. PICK m \in Nat \ {0}, g \in Seq(Frames) :
        /\ m = Len(f) /\ Last(f) = f[m] /\ g = Front(f) /\ Len(g) = m - 1
        /\ \A i \in 1 .. (m - 1) : g[i] = f[i]
  BY <1>6, FrontOf
<1>8. \A i \in 1 .. m : f[i].key <=> f[i].kind = "object" /\ i # m
  BY <1>1, <1>6, <1>7 DEF StageOK, Running
<1>9. /\ pos' \in 1 .. (Len(text) + 1) /\ text[pos] \in Lexemes
      /\ Done \in Seq(Lexemes) /\ Done' = Append(Done, text[pos])
      /\ Len(Done) = pos - 1 /\ \A i \in 1 .. (pos - 1) : Done[i] = text[i]
  BY <1>0, <1>1, Advance
<1>10. frames' = g
  BY <1>0, <1>6, <1>7
<1>11. val'.blocks = b + 1
  BY <1>0, <1>4 DEF Value
<1>12. DecodeShape'
  <2>1. blocks + 1 \in Nat /\ b + 1 \in Nat
    BY <1>1 DEF DecodeShape
  <2> QED BY <1>0, <1>1, <1>5, <1>9, <1>10, <1>11, <2>1 DEF DecodeShape
<1>13. StageOK'
  <2>1. ret = "OK"
    BY <1>1 DEF StageOK, Running
  <2>2. pos' > 1 /\ pos' - 1 = pos
    <3>1. pos \in 1 .. (Len(text) + 1)
      BY <1>1 DEF DecodeShape
    <3> QED BY <1>0, <3>1
  <2>3. text[pos' - 1] \notin Opening
    BY <2>2 DEF Opening, Closing
  <2>4. \A i \in 1 .. Len(g) : g[i].key <=> g[i].kind = "object"
    <3>1. \A i \in 1 .. (m - 1) : i \in 1 .. m /\ i # m
      OBVIOUS
    <3> QED BY <1>7, <1>8, <3>1
  <2> QED BY <1>0, <1>10, <2>1, <2>2, <2>3, <2>4 DEF StageOK, Running
<1>14. EntriesNested' /\ TopIsZero'
  BY <1>0, <1>5 DEF EntriesNested, TopIsZero
<1>15. BlocksOwned'
  <2>1. KeysHeld(frames) = k
    <3>1. m \in 1 .. m
      OBVIOUS
    <3>2. ~Last(frames).key
      BY <1>6, <1>7, <1>8, <3>1
    <3> QED BY <1>4, <3>2
  <2>2. blocks = a + b + k
    <3>1. blocks = val.blocks + Owned(stack) + KeysHeld(frames) /\ val.blocks = 0
      BY <1>1 DEF BlocksOwned, StageOK
    <3>2. 0 + (a + b) + k = a + b + k
      OBVIOUS
    <3> QED BY <1>4, <2>1, <3>1, <3>2
  <2>3. blocks + 1 = (b + 1) + a + k
    BY <2>2
  <2> QED BY <1>0, <1>4, <1>11, <2>3 DEF BlocksOwned
<1>16. NeedsOK'
  <2>1. blocks = Needs(Done)
    BY <1>1 DEF NeedsOK, Running
  <2>2. PICK d \in Seq(Lexemes), l \in Lexemes : d = Done /\ l = text[pos]
    BY <1>9
  <2>3. Len(d) > 0 /\ d[Len(d)] \notin Opening
    <3>1. pos > 1 /\ text[pos - 1] \notin Opening /\ pos \in Nat
      BY <1>1 DEF StageOK, DecodeShape
    <3>2. pos - 1 \in 1 .. (pos - 1)
      BY <3>1
    <3> QED BY <1>9, <2>2, <3>1, <3>2
  <2>4. Needs(Append(d, l)) = Needs(d) + IF d[Len(d)] \in Opening THEN 0 ELSE 1
    BY <2>2, <2>3, NeedsAppend
  <2>5. Needs(Append(d, l)) = Needs(d) + 1
    BY <2>3, <2>4
  <2> QED BY <1>0, <1>9, <2>1, <2>2, <2>5 DEF NeedsOK
<1> QED BY <1>12, <1>13, <1>14, <1>15, <1>16 DEF DecodeInv

(* Of an array or object that failed, the entries and the key are freed.    *)
LEMMA UnwindKeeps ==
  ASSUME DecodeInv, UnwindStep
  PROVE  DecodeInv'
<1>1. DecodeShape /\ StageOK /\ TopIsZero /\ EntriesNested /\ BlocksOwned /\ NeedsOK
  BY DEF DecodeInv
<1>2. PICK n : n = Last(frames).size
  OBVIOUS
<1>0. /\ at = "fail" /\ frames # <<>>
      /\ blocks' = blocks - (Owned(Entries(n)) + IF Last(frames).key THEN 1 ELSE 0)
      /\ stack' = Below(n) /\ frames' = Front(frames)
      /\ UNCHANGED <<build, text, ended, pos, at, val, ret>>
  BY <1>2 DEF UnwindStep, Freed
<1>4. PICK a \in Nat, b \in Nat, k \in Nat :
        /\ a = Owned(Below(n)) /\ b = Owned(Entries(n)) /\ k = KeysHeld(Front(frames))
        /\ Owned(stack) = a + b
        /\ KeysHeld(frames) = k + IF Last(frames).key THEN 1 ELSE 0
  BY <1>0, <1>1, <1>2, PopShape
<1>5. Below(n) \in Seq(Items) /\ Nested(Front(frames), Below(n)) /\ Front(frames) \in Seq(Frames)
  BY <1>0, <1>1, <1>2, PopShape
<1>6. PICK c \in Nat : c = IF Last(frames).key THEN 1 ELSE 0
  OBVIOUS
<1>7. blocks = a + b + k + c /\ val.blocks = 0
  <2>1. blocks = val.blocks + Owned(stack) + KeysHeld(frames) /\ val.blocks = 0
    BY <1>0, <1>1 DEF BlocksOwned, StageOK
  <2>2. 0 + (a + b) + (k + c) = a + b + k + c
    OBVIOUS
  <2> QED BY <1>4, <1>6, <2>1, <2>2
<1>8. blocks' = a + k
  <2>1. blocks' = blocks - (b + c)
    BY <1>0, <1>4, <1>6
  <2>2. (a + b + k + c) - (b + c) = a + k
    OBVIOUS
  <2> QED BY <1>7, <2>1, <2>2
<1>9. DecodeShape'
  BY <1>0, <1>1, <1>5, <1>8 DEF DecodeShape
<1>10. StageOK'
  <2>1. Known /\ ret \notin {"OK", "ROOT_NOT_SINGULAR"}
    BY <1>0, <1>1 DEF StageOK
  <2>2. Known'
    BY <1>0, <2>1 DEF Known
  <2> QED BY <1>0, <1>7, <2>1, <2>2 DEF StageOK, Running
<1>11. EntriesNested' /\ TopIsZero' /\ NeedsOK'
  BY <1>0, <1>5 DEF EntriesNested, TopIsZero, NeedsOK, Running
<1>12. BlocksOwned'
  <2>1. a + k = 0 + a + k
    OBVIOUS
  <2> QED BY <1>0, <1>4, <1>7, <1>8, <2>1 DEF BlocksOwned
<1> QED BY <1>9, <1>10, <1>11, <1>12 DEF DecodeInv

(* Outside all arrays and objects the stack is empty.                       *)
LEMMA NothingLeft ==
  ASSUME DecodeShape, EntriesNested, at # "end", frames = <<>>
  PROVE  stack = <<>> /\ Owned(stack) = 0 /\ KeysHeld(frames) = 0
<1>1. Nested(<<>>, stack)
  BY DEF EntriesNested
<1>2. /\ Sizes(<<>>) \in Seq(Nat) /\ Len(Sizes(<<>>)) = 0
  <2>1. <<>> \in Seq(Frames) /\ Len(<<>>) = 0
    OBVIOUS
  <2> QED BY <2>1, SizesAre
<1>3. Len(stack) = 0
  BY <1>1, <1>2, TotalsAre DEF Nested, Total
<1>4. stack = <<>>
  BY <1>3, EmptySeq DEF DecodeShape
<1> QED BY <1>4, OwnedEmpty, KeysNone

LEMMA ReturnKeeps ==
  ASSUME DecodeInv, json_decode
  PROVE  DecodeInv'
<1>0. /\ at \in {"parsed", "fail"} /\ frames = <<>> /\ at' = "end"
      /\ ret' = (IF at = "parsed" THEN Rest ELSE ret)
      /\ val' = (IF ret' = "OK" THEN val ELSE Null)
      /\ UNCHANGED <<build, text, ended, pos, stack, frames, blocks>>
  BY DEF json_decode
<1>1. DecodeShape /\ StageOK /\ TopIsZero /\ EntriesNested /\ BlocksOwned /\ NeedsOK
  BY DEF DecodeInv
<1>2. stack = <<>> /\ Owned(stack) = 0 /\ KeysHeld(frames) = 0
  BY <1>0, <1>1, NothingLeft
<1>3. DecodeShape'
  <2>1. Null.blocks = 0
    BY DEF Null, Value
  <2>2. val'.blocks \in Nat
    BY <1>0, <1>1, <2>1 DEF DecodeShape
  <2> QED BY <1>0, <1>1, <2>2 DEF DecodeShape
<1>4. StageOK' /\ NeedsOK' /\ EntriesNested' /\ TopIsZero'
  BY <1>0, <1>2 DEF StageOK, NeedsOK, Running, EntriesNested, TopIsZero
<1>5. BlocksOwned'
  <2>1. CASE at = "parsed"
    <3>1. ret' \in {"OK", "ROOT_NOT_SINGULAR"}
      BY <1>0, <2>1 DEF Rest
    <3>2. blocks = Needs(Done)
      BY <1>1, <2>1 DEF NeedsOK, Running
    <3> QED BY <1>0, <3>1, <3>2 DEF BlocksOwned, Done
  <2>2. CASE at = "fail"
    <3>1. ret' \notin {"OK", "ROOT_NOT_SINGULAR"}
      BY <1>0, <1>1, <2>2 DEF StageOK
    <3>2. blocks = 0
      <4>1. blocks = val.blocks + 0 + 0 /\ val.blocks = 0
        BY <1>1, <1>2, <2>2 DEF BlocksOwned, StageOK
      <4> QED BY <4>1
    <3> QED BY <1>0, <3>1, <3>2 DEF BlocksOwned
  <2> QED BY <1>0, <2>1, <2>2
<1> QED BY <1>3, <1>4, <1>5 DEF DecodeInv

LEMMA ReadKeeps ==
  ASSUME DecodeInv, Read
  PROVE  DecodeInv' /\ Done' = Done
<1>0. /\ ~Known /\ at # "end"
      /\ UNCHANGED <<build, pos, stack, frames, at, val, ret, blocks>>
  BY DEF Read
<1>1. DecodeShape /\ StageOK /\ TopIsZero /\ EntriesNested /\ BlocksOwned /\ NeedsOK
  BY DEF DecodeInv
<1>2. at # "fail"
  BY <1>0, <1>1 DEF StageOK
<1>3. CASE text' = text /\ ended' = TRUE
  <2>1. DecodeShape' /\ StageOK' /\ Done' = Done
    BY <1>0, <1>1, <1>2, <1>3 DEF DecodeShape, StageOK, Running, Done
  <2>2. TopIsZero' /\ EntriesNested' /\ BlocksOwned' /\ NeedsOK'
    BY <1>0, <1>1, <1>3, <2>1 DEF TopIsZero, EntriesNested, BlocksOwned, NeedsOK, Running
  <2> QED BY <2>1, <2>2 DEF DecodeInv
<1>4. CASE Len(text) < MaxLexemes /\ (\E l \in Lexemes : text' = Append(text, l)) /\ ended' = ended
  <2>1. PICK t \in Seq(Lexemes), n \in Nat : t = text /\ n = Len(t)
    BY <1>1, LenProperties DEF DecodeShape
  <2>2. PICK l \in Lexemes : text' = Append(t, l)
    BY <1>4, <2>1
  <2>3. PICK u \in Seq(Lexemes) : /\ u = Append(t, l) /\ Len(u) = n + 1
                                  /\ \A i \in 1 .. n : u[i] = t[i]
    <3>1. PICK u \in Seq(Lexemes) : u = Append(t, l)
      BY AppendProperties
    <3>2. Len(u) = Len(t) + 1 /\ \A i \in 1 .. Len(t) : u[i] = t[i]
      BY <3>1, AppendProperties
    <3> QED BY <2>1, <3>1, <3>2
  <2>4. PICK k \in 1 .. (n + 1) : k = pos
    BY <1>1, <2>1 DEF DecodeShape
  <2>5. text' = u
    BY <2>2, <2>3
  <2>6. Done' = Done
    <3>1. SubSeq(Append(t, l), 1, k - 1) = SubSeq(t, 1, k - 1)
      BY <2>1, <2>4, PrefixStays
    <3> QED BY <1>0, <2>1, <2>2, <2>4, <3>1 DEF Done
  <2>7. DecodeShape'
    <3>1. n + 1 <= MaxLexemes
      BY <1>4, <2>1, JsonDecodeAssumption
    <3>2. k \in 1 .. ((n + 1) + 1)
      OBVIOUS
    <3> QED BY <1>0, <1>1, <1>4, <2>3, <2>4, <2>5, <3>1, <3>2 DEF DecodeShape
  <2>8. StageOK'
    <3>1. at \in {"parsed", "next"} => text'[pos - 1] = text[pos - 1]
      <4>1. at \in {"parsed", "next"} => k > 1
        BY <1>1, <2>4 DEF StageOK
      <4>2. k > 1 => k - 1 \in 1 .. n
        OBVIOUS
      <4> QED BY <2>1, <2>3, <2>4, <2>5, <4>1, <4>2
    <3> QED BY <1>0, <1>1, <1>2, <3>1 DEF StageOK, Running
  <2>9. TopIsZero' /\ EntriesNested' /\ BlocksOwned' /\ NeedsOK'
    BY <1>0, <1>1, <2>6 DEF TopIsZero, EntriesNested, BlocksOwned, NeedsOK, Running
  <2> QED BY <2>6, <2>7, <2>8, <2>9 DEF DecodeInv
<1> QED BY <1>3, <1>4 DEF Read

(* What the parser looks at is the lexeme at its position, if there is one. *)
LEMMA HereIs ==
  ASSUME DecodeShape
  PROVE  /\ pos <= Len(text) => Here = text[pos] /\ Here # "end"
         /\ pos > Len(text) => Here = "end"
         /\ Len(text) \in Nat /\ pos \in Nat
<1>1. Len(text) \in Nat /\ pos \in 1 .. (Len(text) + 1)
  BY LenProperties DEF DecodeShape
<1>2. pos > Len(text) => Here = "end"
  BY <1>1 DEF Here
<1>3. pos <= Len(text) => text[pos] \in Lexemes /\ Here = text[pos]
  <2>1. pos <= Len(text) => pos \in 1 .. Len(text)
    BY <1>1
  <2> QED BY <2>1, ElementOfSeq DEF Here, DecodeShape
<1> QED BY <1>1, <1>2, <1>3, JsonDecodeAssumption

LEMMA ValueKeeps ==
  ASSUME DecodeInv, json_parse_value
  PROVE  DecodeInv'
<1>1. DecodeShape
  BY DEF DecodeInv
<1>2. /\ pos <= Len(text) => Here = text[pos] /\ Here # "end"
      /\ pos > Len(text) => Here = "end"
      /\ Len(text) \in Nat /\ pos \in Nat
  BY <1>1, HereIs
<1>3. at = "value" /\ Known /\ Fixed
  BY DEF json_parse_value, Fixed
<1>4. ASSUME NEW error, Failed(error), error \notin {"OK", "ROOT_NOT_SINGULAR"}
      PROVE  DecodeInv'
  BY <1>3, <1>4, FailKeeps
<1>5. ASSUME NEW t, NEW b, Parsed(Value(t, b)), Here # "end",
             b = (IF Here = "string" THEN 1 ELSE 0), Here \notin Closing, Here \notin Opening
      PROVE  DecodeInv'
  <2>1. pos <= Len(text) /\ Here = text[pos]
    BY <1>2, <1>5
  <2>2. PICK v : v = Value(t, b)
    OBVIOUS
  <2>3. v.blocks = IF text[pos] = "string" THEN 1 ELSE 0
    BY <1>5, <2>1, <2>2 DEF Value
  <2>4. text[pos] \notin Closing /\ text[pos] \notin Opening /\ Parsed(v)
    BY <1>5, <2>1, <2>2
  <2> QED BY <1>3, <2>1, <2>3, <2>4, ParsedKeeps
<1>6. ASSUME NEW kind \in {"array", "object"}, NEW close \in Closing,
             Opened(kind, close), Here \in Opening
      PROVE  DecodeInv'
  <2>1. pos <= Len(text) /\ text[pos] \in Opening
    BY <1>2, <1>6 DEF Opening
  <2>2. CASE pos < Len(text) /\ text[pos + 1] = close
    <3>1. /\ at' = "parsed" /\ val' = Value(kind, 0) /\ pos' = pos + 2
          /\ UNCHANGED <<ret, stack, frames, blocks>>
      BY <1>6, <2>2 DEF Opened
    <3>2. Value(kind, 0).blocks = 0
      BY DEF Value
    <3>3. text[pos + 1] \in Closing
      BY <1>6, <2>2
    <3> QED BY <1>3, <2>1, <2>2, <3>1, <3>2, <3>3, EmptyKeeps
  <2>3. CASE ~(pos < Len(text) /\ text[pos + 1] = close)
    <3>1. /\ frames' = Append(frames, [kind |-> kind, size |-> 0, key |-> FALSE])
          /\ pos' = pos + 1 /\ at' = (IF kind = "array" THEN "value" ELSE "key")
          /\ UNCHANGED <<ret, stack, val, blocks>>
      BY <1>6, <2>3 DEF Opened
    <3> QED BY <1>3, <2>1, <3>1, OpenKeeps
  <2> QED BY <2>2, <2>3
<1>7. CASE Here \in Booleans
  <2>1. Parsed(Value("boolean", 0)) \/ Failed("INVALID_VALUE")
    BY <1>7 DEF json_parse_value, Booleans
  <2>2. Here \notin Closing /\ Here \notin Opening /\ Here # "end" /\ Here # "string"
    BY <1>7 DEF Booleans, Closing, Opening
  <2> QED BY <1>4, <1>5, <2>1, <2>2
<1>8. CASE Here = "null"
  <2>1. Parsed(Value("null", 0))
    BY <1>8 DEF json_parse_value, Booleans, Null
  <2>2. Here \notin Closing /\ Here \notin Opening /\ Here # "end" /\ Here # "string"
    BY <1>8 DEF Closing, Opening
  <2> QED BY <1>5, <2>1, <2>2
<1>9. CASE Here \in {"string", "bad_string"}
  <2>1. json_parse_string
    BY <1>9 DEF json_parse_value, Booleans
  <2>2. \/ Here = "string" /\ Parsed(Value("string", 1))
        \/ Failed("STRING")
    BY <2>1 DEF json_parse_string
  <2>3. Here \notin Closing /\ Here \notin Opening /\ Here # "end"
    BY <1>9 DEF Closing, Opening
  <2> QED BY <1>4, <1>5, <2>2, <2>3
<1>10. CASE Here = "open_array"
  <2>1. Opened("array", "close_array")
    BY <1>10 DEF json_parse_value, Booleans
  <2>2. Here \in Opening /\ "close_array" \in Closing
    BY <1>10 DEF Closing, Opening
  <2> QED BY <1>6, <2>1, <2>2
<1>11. CASE Here = "open_object"
  <2>1. Opened("object", "close_object")
    BY <1>11 DEF json_parse_value, Booleans
  <2>2. Here \in Opening /\ "close_object" \in Closing
    BY <1>11 DEF Closing, Opening
  <2> QED BY <1>6, <2>1, <2>2
<1>12. CASE Here = "end"
  <2>1. Failed("EXPECT_VALUE")
    BY <1>12 DEF json_parse_value, Booleans
  <2> QED BY <1>4, <2>1
<1>13. CASE /\ Here \notin Booleans /\ Here # "null" /\ Here \notin {"string", "bad_string"}
            /\ Here # "open_array" /\ Here # "open_object" /\ Here # "end"
  <2>1. json_parse_number
    BY <1>13 DEF json_parse_value
  <2>2. \/ Here = "number" /\ Parsed(Value("number", 0))
        \/ Failed("NUMBER_TOO_BIG") \/ Failed("INVALID_VALUE")
    BY <2>1 DEF json_parse_number
  <2>3. CASE Here = "number" /\ Parsed(Value("number", 0))
    <3>1. Here \notin Closing /\ Here \notin Opening /\ Here # "end" /\ Here # "string"
      BY <2>3 DEF Closing, Opening
    <3> QED BY <1>5, <2>3, <3>1
  <2> QED BY <1>4, <2>2, <2>3
<1> QED BY <1>7, <1>8, <1>9, <1>10, <1>11, <1>12, <1>13

LEMMA MemberKeeps ==
  ASSUME DecodeInv, KeyStep \/ ColonStep
  PROVE  DecodeInv'
<1>1. DecodeShape
  BY DEF DecodeInv
<1>2. Here # "end" => pos <= Len(text) /\ Here = text[pos]
  BY <1>1, HereIs
<1>3. Known /\ Fixed
  BY DEF KeyStep, ColonStep, Fixed
<1>4. ASSUME NEW error, Failed(error), error \notin {"OK", "ROOT_NOT_SINGULAR"},
             at \in {"key", "colon"}
      PROVE  DecodeInv'
  BY <1>3, <1>4, FailKeeps
<1>5. CASE KeyStep
  <2>1. CASE Here = "string"
    <3>1. /\ at = "key" /\ frames' = SetKey(frames) /\ blocks' = blocks + 1 /\ pos' = pos + 1
          /\ at' = "colon" /\ UNCHANGED <<stack, val, ret>>
      BY <1>5, <2>1 DEF KeyStep
    <3>2. pos <= Len(text) /\ text[pos] = "string"
      BY <1>2, <2>1
    <3> QED BY <1>3, <3>1, <3>2, KeyKeeps
  <2>2. CASE Here # "string"
    <3>1. at = "key" /\ (Failed("STRING") \/ Failed("MISS_KEY"))
      BY <1>5, <2>2 DEF KeyStep
    <3> QED BY <1>4, <3>1
  <2> QED BY <2>1, <2>2
<1>6. CASE ColonStep
  <2>1. CASE Here = "colon"
    <3>1. /\ at = "colon" /\ pos' = pos + 1 /\ at' = "value"
          /\ UNCHANGED <<stack, frames, val, ret, blocks>>
      BY <1>6, <2>1 DEF ColonStep
    <3>2. pos <= Len(text) /\ text[pos] = "colon"
      BY <1>2, <2>1
    <3> QED BY <1>3, <3>1, <3>2, SignKeeps
  <2>2. CASE Here # "colon"
    <3>1. at = "colon" /\ Failed("MISS_COLON")
      BY <1>6, <2>2 DEF ColonStep
    <3> QED BY <1>4, <3>1
  <2> QED BY <2>1, <2>2
<1> QED BY <1>5, <1>6

LEMMA NextKeeps ==
  ASSUME DecodeInv, NextStep
  PROVE  DecodeInv'
<1>1. DecodeShape
  BY DEF DecodeInv
<1>2. Here # "end" => pos <= Len(text) /\ Here = text[pos]
  BY <1>1, HereIs
<1>3. at = "next" /\ Known /\ Fixed
  BY DEF NextStep, Fixed
<1>4. CASE Here = "comma"
  <2>1. /\ pos' = pos + 1 /\ at' = (IF InObject THEN "key" ELSE "value")
        /\ UNCHANGED <<stack, frames, val, ret, blocks>>
    BY <1>4 DEF NextStep, Close
  <2>2. pos <= Len(text) /\ text[pos] = "comma"
    BY <1>2, <1>4
  <2> QED BY <1>3, <2>1, <2>2, SignKeeps
<1>5. CASE Here # "comma" /\ Here = Close
  <2>1. Closed(Taken(Last(frames).size))
    BY <1>5 DEF NextStep
  <2>2. Here \in Closing /\ Here # "end"
    BY <1>5 DEF Close, Closing
  <2>3. pos <= Len(text) /\ text[pos] \in Closing
    BY <1>2, <2>2
  <2> QED BY <1>3, <2>1, <2>3, CloseKeeps
<1>6. CASE Here # "comma" /\ Here # Close
  <2>1. PICK error : /\ error \in {"MISS_COMMA_OR_CURLY_BRACKET", "MISS_COMMA_OR_SQUARE_BRACKET"}
                     /\ Failed(error)
    BY <1>6 DEF NextStep
  <2>2. error \notin {"OK", "ROOT_NOT_SINGULAR"}
    BY <2>1
  <2> QED BY <1>3, <2>1, <2>2, FailKeeps
<1> QED BY <1>4, <1>5, <1>6

LEMMA DecodeStarts == DecodeInit => DecodeInv
<1> SUFFICES ASSUME DecodeInit PROVE DecodeInv
  OBVIOUS
<1>1. /\ build \in Builds /\ text = <<>> /\ ended = FALSE /\ pos = 1 /\ stack = <<>>
      /\ frames = <<>> /\ at = "value" /\ val.blocks = 0 /\ ret = "OK" /\ blocks = 0
  BY DEF DecodeInit, Null, Value
<1>2. DecodeShape
  <2>1. text \in Seq(Lexemes) /\ Len(text) = 0 /\ stack \in Seq(Items) /\ frames \in Seq(Frames)
    BY <1>1
  <2>2. Len(text) <= MaxLexemes /\ pos \in 1 .. (Len(text) + 1)
    BY <1>1, <2>1, JsonDecodeAssumption
  <2>3. ended \in BOOLEAN /\ at \in {"value", "key", "colon", "parsed", "next", "fail", "end"}
    BY <1>1
  <2>4. val.blocks \in Nat /\ blocks \in Nat
    BY <1>1
  <2> QED BY <1>1, <2>1, <2>2, <2>3, <2>4 DEF DecodeShape
<1>3. StageOK
  BY <1>1 DEF StageOK, Running
<1>4. Done = <<>>
  BY <1>1 DEF Done
<1>5. Nested(<<>>, <<>>)
  <2>1. <<>> \in Seq(Frames) /\ Len(<<>>) = 0
    OBVIOUS
  <2>2. Sizes(<<>>) \in Seq(Nat) /\ Len(Sizes(<<>>)) = 0
    BY <2>1, SizesAre
  <2>3. Total(Sizes(<<>>)) = 0
    BY <2>2, TotalsAre DEF Total
  <2> QED BY <2>1, <2>3 DEF Nested
<1>6. TopIsZero /\ EntriesNested /\ BlocksOwned /\ NeedsOK
  BY <1>1, <1>4, <1>5, OwnedEmpty, KeysNone, NeedsNone
  DEF TopIsZero, EntriesNested, BlocksOwned, NeedsOK
<1> QED BY <1>2, <1>3, <1>6 DEF DecodeInv

LEMMA DecodeSteps == DecodeInv /\ [DecodeNext]_decodeVars => DecodeInv'
<1> SUFFICES ASSUME DecodeInv, [DecodeNext]_decodeVars PROVE DecodeInv'
  OBVIOUS
<1>1. CASE UNCHANGED decodeVars
  BY <1>1 DEF decodeVars, DecodeInv, DecodeShape, StageOK, TopIsZero, EntriesNested, BlocksOwned,
              NeedsOK, Running, Done, Known
<1>2. CASE Read
  BY <1>2, ReadKeeps
<1>3. CASE json_parse_value
  BY <1>3, ValueKeeps
<1>4. CASE KeyStep \/ ColonStep
  BY <1>4, MemberKeeps
<1>5. CASE PushStep
  BY <1>5, PushKeeps
<1>6. CASE NextStep
  BY <1>6, NextKeeps
<1>7. CASE UnwindStep
  BY <1>7, UnwindKeeps
<1>8. CASE json_decode
  BY <1>8, ReturnKeeps
<1> QED BY <1>1, <1>2, <1>3, <1>4, <1>5, <1>6, <1>7, <1>8 DEF DecodeNext, Step

LEMMA DecodeInvHolds == DecodeSpec => []DecodeInv
BY DecodeStarts, DecodeSteps, PTL DEF DecodeSpec

(* Whatever the text, the entries of the stack are those of the open arrays *)
(* and objects, every block has one owner, and the stack is empty when      *)
(* json_decode returns.                                                     *)
THEOREM StackCorrect == DecodeSpec => []StackOK
<1>1. DecodeInv => StackOK
  <2> SUFFICES ASSUME DecodeInv PROVE StackOK
    OBVIOUS
  <2>1. DecodeShape /\ TopIsZero /\ EntriesNested /\ BlocksOwned
    BY DEF DecodeInv
  <2>2. pos \in 1 .. (MaxLexemes + 2)
    <3>1. /\ Len(text) \in Nat /\ pos \in 1 .. (Len(text) + 1) /\ Len(text) <= MaxLexemes
      BY <2>1, LenProperties DEF DecodeShape
    <3> QED BY <3>1, JsonDecodeAssumption
  <2> QED BY <2>1, <2>2 DEF StackOK, DecodeTypeOK, DecodeShape, Items, Frames
<1> QED BY <1>1, DecodeInvHolds, PTL

(* What the automaton expects where the parser is.                          *)
Expected ==
  CASE at = "value" -> {"value", "first"}
    [] at = "key" -> {"key", "first_key"}
    [] at = "colon" -> {"colon"}
    [] OTHER -> {"more"}

Kinds(fs) == [i \in 1 .. Len(fs) |-> fs[i].kind]
Closer == IF at = "value" THEN "close_array" ELSE "close_object"

RefusedFor ==
  \/ \E i \in 1 .. Len(text) : text[i] \in Booleans
  \/ pos <= Len(text) /\ Reads(SubSeq(text, 1, pos)).expects = "nothing"
  \/ pos > Len(text) /\ ended /\ ~Accepts(text)
  \/ \E i \in 1 .. Len(text) : text[i] \in {"big", "bad_string"}

(* Until it fails, the parser is where the automaton is; it never looks at  *)
(* the closing bracket of what is empty.                                    *)
InStep(q) ==
  /\ q = [expects |-> q.expects, open |-> Kinds(frames)]
  /\ q.expects \in Expected
  /\ q.expects \in {"first", "first_key"} =>
       IF pos <= Len(text) THEN text[pos] # Closer ELSE ended
GrammarInv ==
  /\ Running => InStep(Reads(Done))
  /\ at = "fail" => RefusedFor
  /\ AcceptsGrammar

-----------------------------------------------------------------------------
(* The automaton.                                                           *)

State(e, o) == [expects |-> e, open |-> o]

LEMMA StateIs ==
  ASSUME NEW e, NEW o
  PROVE  \E q : q = State(e, o) /\ q.expects = e /\ q.open = o
<1>1. PICK q : q = State(e, o)
  OBVIOUS
<1>2. q.expects = e /\ q.open = o
  BY <1>1 DEF State
<1> QED BY <1>1, <1>2

LEMMA DeltaValue ==
  ASSUME NEW e \in {"value", "first"}, NEW o, NEW l
  PROVE  /\ l \in Scalars => Delta(State(e, o), l) = State("more", o)
         /\ l = "open_array" => Delta(State(e, o), l) = State("first", Append(o, "array"))
         /\ l = "open_object" => Delta(State(e, o), l) = State("first_key", Append(o, "object"))
         /\ l \notin Scalars \cup Opening /\ (e = "first" => l # "close_array") =>
              Delta(State(e, o), l).expects = "nothing"
<1>1. PICK q : q = State(e, o) /\ q.expects = e /\ q.open = o
  BY StateIs
<1>2. q.expects \in {"value", "first"} /\ q.expects \notin {"first_key", "key", "colon", "more"}
  BY <1>1
<1>3. To(q, "more") = State("more", o)
  BY <1>1 DEF To, State
<1>4. CASE l \in Scalars
  <2>1. l # "open_array" /\ l # "open_object" /\ l # "close_array"
    BY <1>4 DEF Scalars, Booleans
  <2>2. Delta(q, l) = To(q, "more")
    BY <1>2, <1>4, <2>1 DEF Delta
  <2>3. l \notin Opening
    BY <2>1 DEF Opening
  <2> QED BY <1>1, <1>3, <1>4, <2>1, <2>2, <2>3
<1>5. CASE l = "open_array"
  <2>1. l \notin Scalars /\ l \in Opening
    BY <1>5 DEF Scalars, Booleans, Opening
  <2>2. Delta(q, l) = Down(q, "array", "first")
    BY <1>2, <1>5, <2>1 DEF Delta
  <2> QED BY <1>1, <1>5, <2>1, <2>2 DEF Down, State
<1>6. CASE l = "open_object"
  <2>1. l \notin Scalars /\ l \in Opening
    BY <1>6 DEF Scalars, Booleans, Opening
  <2>2. Delta(q, l) = Down(q, "object", "first_key")
    BY <1>2, <1>6, <2>1 DEF Delta
  <2> QED BY <1>1, <1>6, <2>1, <2>2 DEF Down, State
<1>7. CASE l \notin Scalars \cup Opening
  <2>1. l \notin Scalars /\ l # "open_array" /\ l # "open_object"
    BY <1>7 DEF Opening
  <2>2. (e = "first" => l # "close_array") => Delta(q, l) = Reject
    BY <1>1, <1>2, <2>1 DEF Delta
  <2> QED BY <1>1, <1>7, <2>1, <2>2 DEF Reject
<1>8. l \in Scalars \/ l \in Opening \/ l \notin Scalars \cup Opening
  OBVIOUS
<1> QED BY <1>4, <1>5, <1>6, <1>7, <1>8 DEF Opening

LEMMA DeltaEmpty ==
  ASSUME NEW o
  PROVE  /\ Delta(State("first", o), "close_array") = State("more", Front(o))
         /\ Delta(State("first_key", o), "close_object") = State("more", Front(o))
<1>1. PICK q : q = State("first", o) /\ q.expects = "first" /\ q.open = o
  BY StateIs
<1>2. PICK r : r = State("first_key", o) /\ r.expects = "first_key" /\ r.open = o
  BY StateIs
<1>3. "close_array" \notin Scalars
  BY DEF Scalars, Booleans
<1>4. Delta(q, "close_array") = Up(q)
  BY <1>1, <1>3 DEF Delta
<1>5. Delta(r, "close_object") = Up(r)
  BY <1>2 DEF Delta
<1> QED BY <1>1, <1>2, <1>4, <1>5 DEF Up, State

LEMMA DeltaMember ==
  ASSUME NEW e \in {"key", "first_key"}, NEW o, NEW l
  PROVE  /\ l = "string" => Delta(State(e, o), l) = State("colon", o)
         /\ l # "string" /\ (e = "first_key" => l # "close_object") =>
              Delta(State(e, o), l).expects = "nothing"
         /\ l = "colon" => Delta(State("colon", o), l) = State("value", o)
         /\ l # "colon" => Delta(State("colon", o), l).expects = "nothing"
<1>1. PICK q : q = State(e, o) /\ q.expects = e /\ q.open = o
  BY StateIs
<1>2. PICK r : r = State("colon", o) /\ r.expects = "colon" /\ r.open = o
  BY StateIs
<1>3. l = "string" => Delta(q, l) = To(q, "colon")
  BY <1>1 DEF Delta
<1>4. l # "string" /\ (e = "first_key" => l # "close_object") => Delta(q, l) = Reject
  BY <1>1 DEF Delta
<1>5. l = "colon" => Delta(r, l) = To(r, "value")
  BY <1>2 DEF Delta
<1>6. l # "colon" => Delta(r, l) = Reject
  BY <1>2 DEF Delta
<1> QED BY <1>1, <1>2, <1>3, <1>4, <1>5, <1>6 DEF To, State, Reject

(* Behind a value, in an array or object and outside.                       *)
LEMMA DeltaMore ==
  ASSUME NEW o, NEW l
  PROVE  /\ o = <<>> => Delta(State("more", o), l).expects = "nothing"
         /\ o # <<>> /\ Last(o) = "array" =>
              /\ l = "comma" => Delta(State("more", o), l) = State("value", o)
              /\ l = "close_array" => Delta(State("more", o), l) = State("more", Front(o))
              /\ l \notin {"comma", "close_array"} => Delta(State("more", o), l).expects = "nothing"
         /\ o # <<>> /\ Last(o) = "object" =>
              /\ l = "comma" => Delta(State("more", o), l) = State("key", o)
              /\ l = "close_object" => Delta(State("more", o), l) = State("more", Front(o))
              /\ l \notin {"comma", "close_object"} => Delta(State("more", o), l).expects = "nothing"
<1>1. PICK q : q = State("more", o) /\ q.expects = "more" /\ q.open = o
  BY StateIs
<1>2. \A k : Inside(q, k) <=> o # <<>> /\ Last(o) = k
  BY <1>1 DEF Inside
<1>3. CASE o = <<>>
  <2>1. ~Inside(q, "array") /\ ~Inside(q, "object")
    BY <1>2, <1>3
  <2>2. Delta(q, l) = Reject
    BY <1>1, <2>1 DEF Delta
  <2> QED BY <1>1, <1>3, <2>2 DEF Reject
<1>4. CASE o # <<>> /\ Last(o) = "array"
  <2>1. Inside(q, "array") /\ ~Inside(q, "object")
    BY <1>2, <1>4
  <2>2. l = "comma" => Delta(q, l) = To(q, "value")
    BY <1>1, <2>1 DEF Delta
  <2>3. l = "close_array" => Delta(q, l) = Up(q)
    BY <1>1, <2>1 DEF Delta
  <2>4. l \notin {"comma", "close_array"} => Delta(q, l) = Reject
    BY <1>1, <2>1 DEF Delta
  <2>5. To(q, "value") = State("value", o) /\ Up(q) = State("more", Front(o)) /\ Reject.expects = "nothing"
    BY <1>1 DEF To, Up, State, Reject
  <2> QED BY <1>1, <1>4, <2>2, <2>3, <2>4, <2>5
<1>5. CASE o # <<>> /\ Last(o) = "object"
  <2>1. Inside(q, "object") /\ ~Inside(q, "array")
    BY <1>2, <1>5
  <2>2. l = "comma" => Delta(q, l) = To(q, "key")
    BY <1>1, <2>1 DEF Delta
  <2>3. l = "close_object" => Delta(q, l) = Up(q)
    BY <1>1, <2>1 DEF Delta
  <2>4. l \notin {"comma", "close_object"} => Delta(q, l) = Reject
    BY <1>1, <2>1 DEF Delta
  <2>5. To(q, "key") = State("key", o) /\ Up(q) = State("more", Front(o)) /\ Reject.expects = "nothing"
    BY <1>1 DEF To, Up, State, Reject
  <2> QED BY <1>1, <1>5, <2>2, <2>3, <2>4, <2>5
<1> QED BY <1>3, <1>4, <1>5

(* The arrays and objects that are open.                                    *)
LEMMA KindsAre ==
  ASSUME NEW f \in Seq(Frames)
  PROVE  /\ Kinds(f) \in Seq({"array", "object"}) /\ Len(Kinds(f)) = Len(f)
         /\ \A i \in 1 .. Len(f) : Kinds(f)[i] = f[i].kind
<1>1. PICK n \in Nat : n = Len(f)
  BY LenProperties
<1>2. PICK w : w = Kinds(f)
  OBVIOUS
<1>3. w = [i \in 1 .. n |-> f[i].kind]
  BY <1>1, <1>2 DEF Kinds
<1>4. \A i \in 1 .. n : f[i].kind \in {"array", "object"}
  <2>1. \A i \in 1 .. n : f[i] \in Frames
    BY <1>1, ElementOfSeq
  <2> QED BY <2>1 DEF Frames
<1>5. \A i \in 1 .. n : w[i] = f[i].kind
  BY <1>3
<1>6. w = [i \in 1 .. n |-> w[i]] /\ \A i \in 1 .. n : w[i] \in {"array", "object"}
  BY <1>3, <1>4, <1>5
<1>7. w \in Seq({"array", "object"}) /\ Len(w) = n
  BY <1>6, FunctionIsSeq
<1> QED BY <1>1, <1>2, <1>5, <1>7

LEMMA KindsSame ==
  ASSUME NEW f \in Seq(Frames), NEW g \in Seq(Frames), Len(f) = Len(g),
         \A i \in 1 .. Len(f) : f[i].kind = g[i].kind
  PROVE  Kinds(f) = Kinds(g)
<1>1. PICK x \in Seq({"array", "object"}) :
        x = Kinds(f) /\ Len(x) = Len(f) /\ \A i \in 1 .. Len(f) : x[i] = f[i].kind
  BY KindsAre
<1>2. PICK y \in Seq({"array", "object"}) :
        y = Kinds(g) /\ Len(y) = Len(g) /\ \A i \in 1 .. Len(g) : y[i] = g[i].kind
  BY KindsAre
<1>3. \A i \in 1 .. Len(x) : x[i] = y[i]
  BY <1>1, <1>2
<1>4. x = y
  BY <1>1, <1>2, <1>3, SeqEqual
<1> QED BY <1>1, <1>2, <1>4

LEMMA KindsNone == Kinds(<<>>) = <<>>
<1>1. <<>> \in Seq(Frames) /\ Len(<<>>) = 0
  OBVIOUS
<1>2. Kinds(<<>>) \in Seq({"array", "object"}) /\ Len(Kinds(<<>>)) = 0
  BY <1>1, KindsAre
<1> QED BY <1>2, EmptySeq

LEMMA KindsAppend ==
  ASSUME NEW f \in Seq(Frames), NEW x \in Frames
  PROVE  Kinds(Append(f, x)) = Append(Kinds(f), x.kind)
<1>0. PICK n \in Nat : n = Len(f)
  BY LenProperties
<1>1. PICK g \in Seq(Frames) : g = Append(f, x) /\ Len(g) = n + 1 /\ g[n + 1] = x
                               /\ \A i \in 1 .. n : g[i] = f[i]
  <2>1. PICK g \in Seq(Frames) : g = Append(f, x)
    BY AppendProperties
  <2>2. Len(g) = Len(f) + 1 /\ g[Len(f) + 1] = x /\ \A i \in 1 .. Len(f) : g[i] = f[i]
    BY <2>1, AppendProperties
  <2> QED BY <1>0, <2>1, <2>2
<1>2. PICK a \in Seq({"array", "object"}) :
        a = Kinds(f) /\ Len(a) = n /\ \A i \in 1 .. n : a[i] = f[i].kind
  BY <1>0, KindsAre
<1>3. PICK b \in Seq({"array", "object"}) :
        b = Kinds(g) /\ Len(b) = n + 1 /\ \A i \in 1 .. (n + 1) : b[i] = g[i].kind
  BY <1>1, KindsAre
<1>4. PICK k \in {"array", "object"} : k = x.kind
  BY DEF Frames
<1>5. PICK c \in Seq({"array", "object"}) :
        /\ c = Append(a, k) /\ Len(c) = n + 1 /\ c[n + 1] = k /\ \A i \in 1 .. n : c[i] = a[i]
  <2>1. PICK c \in Seq({"array", "object"}) : c = Append(a, k)
    BY AppendProperties
  <2>2. Len(c) = Len(a) + 1 /\ c[Len(a) + 1] = k /\ \A i \in 1 .. Len(a) : c[i] = a[i]
    BY <2>1, AppendProperties
  <2> QED BY <1>2, <2>1, <2>2
<1>6. \A i \in 1 .. (n + 1) : b[i] = c[i]
  <2>1. \A i \in 1 .. (n + 1) : i = n + 1 \/ i \in 1 .. n
    OBVIOUS
  <2>2. b[n + 1] = c[n + 1]
    <3>1. n + 1 \in 1 .. (n + 1)
      OBVIOUS
    <3> QED BY <1>1, <1>3, <1>4, <1>5, <3>1
  <2>3. ASSUME NEW i \in 1 .. n PROVE b[i] = c[i]
    <3>1. i \in 1 .. (n + 1)
      OBVIOUS
    <3>2. b[i] = g[i].kind /\ g[i] = f[i]
      BY <1>1, <1>3, <3>1
    <3>3. c[i] = a[i] /\ a[i] = f[i].kind
      BY <1>2, <1>5
    <3> QED BY <3>2, <3>3
  <2> QED BY <2>1, <2>2, <2>3
<1>7. b = c
  BY <1>3, <1>5, <1>6, SeqEqual
<1> QED BY <1>1, <1>2, <1>3, <1>4, <1>5, <1>7

LEMMA KindsFront ==
  ASSUME NEW f \in Seq(Frames), f # <<>>
  PROVE  /\ Kinds(f) # <<>> /\ Last(Kinds(f)) = Last(f).kind
         /\ Kinds(Front(f)) = Front(Kinds(f))
<1>1. PICK n \in Nat \ {0}, p \in Seq(Frames) :
        /\ n = Len(f) /\ Last(f) = f[n] /\ p = Front(f) /\ Len(p) = n - 1
        /\ \A i \in 1 .. (n - 1) : p[i] = f[i]
  BY FrontOf
<1>2. PICK a \in Seq({"array", "object"}) :
        a = Kinds(f) /\ Len(a) = n /\ \A i \in 1 .. n : a[i] = f[i].kind
  BY <1>1, KindsAre
<1>3. PICK b \in Seq({"array", "object"}) :
        b = Kinds(p) /\ Len(b) = n - 1 /\ \A i \in 1 .. (n - 1) : b[i] = p[i].kind
  <2>1. /\ Kinds(p) \in Seq({"array", "object"}) /\ Len(Kinds(p)) = Len(p)
        /\ \A i \in 1 .. Len(p) : Kinds(p)[i] = p[i].kind
    BY KindsAre
  <2>2. Len(p) = n - 1
    BY <1>1
  <2> QED BY <2>1, <2>2
<1>4. a # <<>>
  BY <1>2
<1>5. /\ Front(a) \in Seq({"array", "object"}) /\ Len(Front(a)) = Len(a) - 1
      /\ \A i \in 1 .. (Len(a) - 1) : Front(a)[i] = a[i]
      /\ Last(a) = a[Len(a)]
  BY <1>4, FrontIs
<1>6. PICK c \in Seq({"array", "object"}) :
        c = Front(a) /\ Len(c) = n - 1 /\ \A i \in 1 .. (n - 1) : c[i] = a[i]
  BY <1>2, <1>5
<1>7. \A i \in 1 .. (n - 1) : b[i] = c[i]
  <2> SUFFICES ASSUME NEW i \in 1 .. (n - 1) PROVE b[i] = c[i]
    OBVIOUS
  <2>1. i \in 1 .. n
    OBVIOUS
  <2>2. b[i] = p[i].kind /\ p[i] = f[i]
    BY <1>1, <1>3
  <2>3. c[i] = a[i] /\ a[i] = f[i].kind
    BY <1>2, <1>6, <2>1
  <2> QED BY <2>2, <2>3
<1>8. b = c
  BY <1>3, <1>6, <1>7, SeqEqual
<1>9. Last(a) = Last(f).kind
  <2>1. n \in 1 .. n
    OBVIOUS
  <2> QED BY <1>1, <1>2, <1>5, <2>1
<1> QED BY <1>1, <1>2, <1>3, <1>4, <1>6, <1>8, <1>9

(* What was opened is closed.                                               *)
LEMMA FrontAppend ==
  ASSUME NEW S, NEW o \in Seq(S), NEW k \in S
  PROVE  Front(Append(o, k)) = o
<1>0. PICK n \in Nat : n = Len(o)
  BY LenProperties
<1>1. PICK a \in Seq(S) : a = Append(o, k) /\ Len(a) = n + 1 /\ \A i \in 1 .. n : a[i] = o[i]
  <2>1. PICK a \in Seq(S) : a = Append(o, k)
    BY AppendProperties
  <2>2. Len(a) = Len(o) + 1 /\ \A i \in 1 .. Len(o) : a[i] = o[i]
    BY <2>1, AppendProperties
  <2> QED BY <1>0, <2>1, <2>2
<1>2. a # <<>>
  BY <1>1
<1>3. /\ Front(a) \in Seq(S) /\ Len(Front(a)) = Len(a) - 1
      /\ \A i \in 1 .. (Len(a) - 1) : Front(a)[i] = a[i]
  BY <1>2, FrontIs
<1>4. PICK c \in Seq(S) : c = Front(a) /\ Len(c) = n /\ \A i \in 1 .. n : c[i] = a[i]
  <2>1. Len(a) - 1 = n
    BY <1>1
  <2> QED BY <1>3, <2>1
<1>5. \A i \in 1 .. Len(c) : c[i] = o[i]
  BY <1>1, <1>4
<1>6. c = o
  BY <1>0, <1>4, <1>5, SeqEqual
<1> QED BY <1>1, <1>4, <1>6

-----------------------------------------------------------------------------
(* The parser keeps step with the automaton.                                *)

LEMMA ReadsOn ==
  ASSUME DecodeShape, pos <= Len(text)
  PROVE  /\ Reads(SubSeq(text, 1, pos)) = Delta(Reads(Done), text[pos])
         /\ text' = text /\ pos' = pos + 1 => Reads(Done') = Delta(Reads(Done), text[pos])
<1>1. Len(text) \in Nat /\ pos \in 1 .. (Len(text) + 1) /\ text \in Seq(Lexemes)
  BY LenProperties DEF DecodeShape
<1>2. pos \in 1 .. Len(text) /\ text[pos] \in Lexemes /\ (pos + 1) - 1 = pos
  BY <1>1, ElementOfSeq
<1>3. SubSeq(text, 1, pos) = Append(Done, text[pos]) /\ Done \in Seq(Lexemes)
  BY <1>1, <1>2, PrefixGrows, Prefix DEF Done
<1>4. PICK d \in Seq(Lexemes), l \in Lexemes : d = Done /\ l = text[pos]
  BY <1>2, <1>3
<1>5. Reads(Append(d, l)) = Delta(Reads(d), l)
  BY ReadsAppend
<1>6. Reads(SubSeq(text, 1, pos)) = Delta(Reads(Done), text[pos])
  BY <1>3, <1>4, <1>5
<1>7. text' = text /\ pos' = pos + 1 => Done' = SubSeq(text, 1, pos)
  BY <1>2 DEF Done
<1> QED BY <1>6, <1>7

LEMMA AllRead ==
  ASSUME DecodeShape, pos > Len(text)
  PROVE  Done = text
<1>1. PICK t \in Seq(Lexemes), n \in Nat, k \in Nat : t = text /\ n = Len(t) /\ k = pos - 1 /\ k = n
  <2>1. Len(text) \in Nat /\ pos \in 1 .. (Len(text) + 1) /\ text \in Seq(Lexemes)
    BY LenProperties DEF DecodeShape
  <2>2. pos - 1 \in Nat /\ pos - 1 = Len(text)
    BY <2>1
  <2> QED BY <2>1, <2>2
<1>2. n + 1 \in 1 .. (Len(t) + 1) /\ (n + 1) - 1 = n
  BY <1>1
<1>3. PICK d \in Seq(Lexemes) : d = SubSeq(t, 1, n) /\ Len(d) = n /\ \A j \in 1 .. n : d[j] = t[j]
  <2>1. PICK m \in 1 .. (Len(t) + 1) : m = n + 1 /\ m - 1 = n
    BY <1>2
  <2>2. /\ SubSeq(t, 1, m - 1) \in Seq(Lexemes) /\ Len(SubSeq(t, 1, m - 1)) = m - 1
        /\ \A j \in 1 .. (m - 1) : SubSeq(t, 1, m - 1)[j] = t[j]
    BY Prefix
  <2> QED BY <2>1, <2>2
<1>4. d = t
  BY <1>1, <1>3, SeqEqual
<1> QED BY <1>1, <1>3, <1>4 DEF Done

LEMMA NowReads ==
  ASSUME GrammarInv, Running
  PROVE  \E e : /\ Reads(Done) = State(e, Kinds(frames)) /\ e \in Expected
                /\ e \in {"first", "first_key"} =>
                     IF pos <= Len(text) THEN text[pos] # Closer ELSE ended
<1>1. InStep(Reads(Done))
  BY DEF GrammarInv
<1>2. PICK e : e = Reads(Done).expects
  OBVIOUS
<1>3. Reads(Done) = State(e, Kinds(frames)) /\ e \in Expected
  BY <1>1, <1>2 DEF InStep, State
<1>4. e \in {"first", "first_key"} => IF pos <= Len(text) THEN text[pos] # Closer ELSE ended
  BY <1>1, <1>2 DEF InStep
<1> QED BY <1>3, <1>4

LEMMA NextReads ==
  ASSUME Running', NEW e, Reads(Done') = State(e, Kinds(frames')), e \in Expected',
         e \in {"first", "first_key"} =>
           IF pos' <= Len(text') THEN text'[pos'] # Closer' ELSE ended'
  PROVE  GrammarInv'
<1>1. PICK q : q = State(e, Kinds(frames')) /\ q.expects = e /\ q.open = Kinds(frames')
  BY StateIs
<1>2. q = [expects |-> q.expects, open |-> Kinds(frames')]
  BY <1>1 DEF State
<1>3. InStep(Reads(Done))'
  BY <1>1, <1>2 DEF InStep
<1>4. at' # "fail" /\ at' # "end"
  BY DEF Running
<1> QED BY <1>3, <1>4 DEF GrammarInv, AcceptsGrammar

LEMMA FailReads ==
  ASSUME DecodeShape, Fixed, NEW error, Failed(error),
         \/ pos <= Len(text) /\ text[pos] \in Booleans \cup {"big", "bad_string"}
         \/ pos <= Len(text) /\ Delta(Reads(Done), text[pos]).expects = "nothing"
         \/ pos > Len(text) /\ ended /\ Reads(Done) # [expects |-> "more", open |-> <<>>]
  PROVE  GrammarInv'
<1>1. at' = "fail" /\ UNCHANGED <<text, ended, pos>>
  BY DEF Failed, Fixed
<1>2. RefusedFor
  <2>1. CASE pos <= Len(text) /\ text[pos] \in Booleans \cup {"big", "bad_string"}
    <3>1. Len(text) \in Nat /\ pos \in 1 .. (Len(text) + 1)
      BY LenProperties DEF DecodeShape
    <3>2. pos \in 1 .. Len(text)
      BY <2>1, <3>1
    <3> QED BY <2>1, <3>2 DEF RefusedFor
  <2>2. CASE pos <= Len(text) /\ Delta(Reads(Done), text[pos]).expects = "nothing"
    BY <2>2, ReadsOn DEF RefusedFor
  <2>3. CASE pos > Len(text) /\ ended /\ Reads(Done) # [expects |-> "more", open |-> <<>>]
    BY <2>3, AllRead DEF RefusedFor, Accepts
  <2> QED BY <2>1, <2>2, <2>3
<1>3. RefusedFor'
  BY <1>1, <1>2 DEF RefusedFor
<1> QED BY <1>1, <1>3 DEF GrammarInv, Running, AcceptsGrammar

(* Where another lexeme is expected the end is an error.                    *)
LEMMA EndReads ==
  ASSUME DecodeShape, StageOK, Fixed, GrammarInv, at \in {"value", "key", "colon", "next"},
         Known, Here = "end", NEW error, Failed(error)
  PROVE  GrammarInv'
<1>1. pos > Len(text) /\ ended
  <2>1. /\ pos <= Len(text) => Here # "end"
        /\ Len(text) \in Nat /\ pos \in Nat
    BY HereIs
  <2> QED BY <2>1 DEF Known
<1>2. PICK e : Reads(Done) = State(e, Kinds(frames)) /\ e \in Expected
  BY NowReads DEF Running
<1>3. State(e, Kinds(frames)) # [expects |-> "more", open |-> <<>>]
  <2>1. PICK q : q = State(e, Kinds(frames)) /\ q.expects = e /\ q.open = Kinds(frames)
    BY StateIs
  <2>2. PICK r : r = [expects |-> "more", open |-> <<>>] /\ r.expects = "more" /\ r.open = <<>>
    BY StateIs DEF State
  <2>3. CASE at = "next"
    <3>1. frames # <<>> /\ frames \in Seq(Frames)
      BY <2>3 DEF StageOK, DecodeShape
    <3>2. Kinds(frames) # <<>>
      BY <3>1, KindsFront
    <3> QED BY <2>1, <2>2, <3>2
  <2>4. CASE at # "next"
    <3>1. e # "more"
      BY <1>2, <2>4 DEF Expected
    <3> QED BY <2>1, <2>2, <3>1
  <2> QED BY <2>3, <2>4
<1> QED BY <1>1, <1>2, <1>3, FailReads

LEMMA GrammarStarts == DecodeInit => GrammarInv
<1> SUFFICES ASSUME DecodeInit PROVE GrammarInv
  OBVIOUS
<1>1. text = <<>> /\ pos = 1 /\ frames = <<>> /\ at = "value"
  BY DEF DecodeInit
<1>2. Done = <<>>
  BY <1>1 DEF Done
<1>3. PICK q : q = Reads(Done)
  OBVIOUS
<1>4. q = [expects |-> "value", open |-> <<>>]
  BY <1>2, <1>3, ReadsNone DEF Start
<1>5. q.expects = "value" /\ q = [expects |-> q.expects, open |-> Kinds(frames)]
  BY <1>1, <1>4, KindsNone
<1>6. InStep(q)
  BY <1>1, <1>5 DEF InStep, Expected
<1> QED BY <1>1, <1>3, <1>6 DEF GrammarInv, AcceptsGrammar

LEMMA ValueReads ==
  ASSUME DecodeInv, GrammarInv, json_parse_value
  PROVE  GrammarInv'
<1>1. DecodeShape /\ StageOK
  BY DEF DecodeInv
<1>2. /\ pos <= Len(text) => Here = text[pos] /\ Here # "end"
      /\ pos > Len(text) => Here = "end"
      /\ Len(text) \in Nat /\ pos \in Nat
  BY <1>1, HereIs
<1>3. at = "value" /\ Known /\ Fixed
  BY DEF json_parse_value, Fixed
<1>4. PICK e : /\ Reads(Done) = State(e, Kinds(frames)) /\ e \in Expected
               /\ e \in {"first", "first_key"} =>
                     IF pos <= Len(text) THEN text[pos] # Closer ELSE ended
  BY <1>3, NowReads DEF Running
<1>5. /\ e \in {"value", "first"}
      /\ e = "first" /\ pos <= Len(text) => text[pos] # "close_array"
  BY <1>3, <1>4 DEF Expected, Closer
<1>6. PICK o : o = Kinds(frames)
  OBVIOUS
<1>7. CASE Here = "end"
  <2>1. Failed("EXPECT_VALUE")
    BY <1>7 DEF json_parse_value, Booleans
  <2> QED BY <1>1, <1>3, <1>7, <2>1, EndReads
<1>8. ASSUME pos <= Len(text), NEW v, Parsed(v), text[pos] \in Scalars
      PROVE  GrammarInv'
  <2>1. Delta(State(e, o), text[pos]) = State("more", o)
    BY <1>5, <1>8, DeltaValue
  <2>2. at' = "parsed" /\ pos' = pos + 1 /\ text' = text /\ frames' = frames
    BY <1>3, <1>8 DEF Parsed, Fixed
  <2>3. Reads(Done') = State("more", Kinds(frames'))
    BY <1>1, <1>4, <1>6, <1>8, <2>1, <2>2, ReadsOn
  <2>4. "more" \in Expected' /\ Running'
    BY <2>2 DEF Expected, Running
  <2> QED BY <2>3, <2>4, NextReads
<1>9. ASSUME pos <= Len(text), NEW error, Failed(error),
             \/ text[pos] \in Booleans \cup {"big", "bad_string"}
             \/ text[pos] \notin Scalars \cup Opening
      PROVE  GrammarInv'
  <2>1. text[pos] \notin Scalars \cup Opening => Delta(Reads(Done), text[pos]).expects = "nothing"
    BY <1>4, <1>5, <1>9, DeltaValue
  <2> QED BY <1>1, <1>3, <1>9, <2>1, FailReads
<1>10. ASSUME pos <= Len(text), NEW kind \in {"array", "object"}, NEW close, NEW x,
              close = (IF kind = "array" THEN "close_array" ELSE "close_object"),
              x = (IF kind = "array" THEN "first" ELSE "first_key"),
              Opened(kind, close),
              text[pos] = IF kind = "array" THEN "open_array" ELSE "open_object"
       PROVE  GrammarInv'
  <2>1. Delta(State(e, o), text[pos]) = State(x, Append(o, kind))
    BY <1>5, <1>10, DeltaValue
  <2>2. o \in Seq({"array", "object"}) /\ frames \in Seq(Frames)
    BY <1>1, <1>6, KindsAre DEF DecodeShape
  <2>3. Reads(SubSeq(text, 1, pos)) = State(x, Append(o, kind))
    BY <1>1, <1>4, <1>6, <1>10, <2>1, ReadsOn
  <2>4. CASE pos < Len(text) /\ text[pos + 1] = close
    <3>1. at' = "parsed" /\ pos' = pos + 2 /\ text' = text /\ frames' = frames
      BY <1>3, <1>10, <2>4 DEF Opened, Fixed
    <3>2. text \in Seq(Lexemes) /\ pos \in Nat /\ Len(text) \in Nat /\ pos + 1 <= Len(text)
      BY <1>1, <1>2, <2>4 DEF DecodeShape
    <3>3. PICK k \in 1 .. Len(text) : k = pos + 1 /\ k - 1 = pos /\ pos' - 1 = k
      BY <3>1, <3>2
    <3>4. text[k] \in Lexemes /\ k \in 1 .. (Len(text) + 1)
      BY <3>2, ElementOfSeq
    <3>5. SubSeq(text, 1, k) = Append(SubSeq(text, 1, k - 1), text[k])
      BY <3>2, PrefixGrows
    <3>6. SubSeq(text, 1, k - 1) \in Seq(Lexemes)
      BY <3>2, <3>4, Prefix
    <3>7. Reads(SubSeq(text, 1, k)) = Delta(Reads(SubSeq(text, 1, k - 1)), text[k])
      BY <3>4, <3>5, <3>6, ReadsAppend
    <3>8. Reads(Done') = Delta(State(x, Append(o, kind)), close)
      BY <2>3, <2>4, <3>1, <3>3, <3>7 DEF Done
    <3>9. Delta(State(x, Append(o, kind)), close) = State("more", Front(Append(o, kind)))
      BY <1>10, DeltaEmpty
    <3>10. Front(Append(o, kind)) = o
      BY <1>10, <2>2, FrontAppend
    <3>11. Reads(Done') = State("more", Kinds(frames'))
      BY <1>6, <3>1, <3>8, <3>9, <3>10
    <3>12. "more" \in Expected' /\ Running'
      BY <3>1 DEF Expected, Running
    <3> QED BY <3>11, <3>12, NextReads
  <2>5. CASE ~(pos < Len(text) /\ text[pos + 1] = close)
    <3>1. PICK f : f = [kind |-> kind, size |-> 0, key |-> FALSE] /\ f.kind = kind /\ f \in Frames
      <4>1. PICK f : f = [kind |-> kind, size |-> 0, key |-> FALSE]
        OBVIOUS
      <4>2. f.kind = kind /\ f \in Frames
        BY <4>1 DEF Frames
      <4> QED BY <4>1, <4>2
    <3>2. /\ frames' = Append(frames, f) /\ pos' = pos + 1 /\ text' = text /\ ended' = ended
          /\ at' = (IF kind = "array" THEN "value" ELSE "key")
      BY <1>3, <1>10, <2>5, <3>1 DEF Opened, Fixed
    <3>3. Kinds(frames') = Append(o, kind)
      BY <1>6, <2>2, <3>1, <3>2, KindsAppend
    <3>4. Reads(Done') = State(x, Kinds(frames'))
      BY <1>1, <1>4, <1>6, <1>10, <2>1, <3>2, <3>3, ReadsOn
    <3>5. x \in Expected' /\ Running' /\ Closer' = close
      BY <1>10, <3>2 DEF Expected, Running, Closer
    <3>6. IF pos' <= Len(text') THEN text'[pos'] # Closer' ELSE ended'
      <4>1. CASE pos + 1 <= Len(text)
        <5>1. pos < Len(text)
          BY <1>2, <4>1
        <5> QED BY <2>5, <3>2, <3>5, <4>1, <5>1
      <4>2. CASE ~(pos + 1 <= Len(text))
        <5>1. ended
          BY <1>2, <1>3, <4>2 DEF Known
        <5> QED BY <3>2, <4>2, <5>1
      <4> QED BY <4>1, <4>2
    <3> QED BY <3>4, <3>5, <3>6, NextReads
  <2> QED BY <2>4, <2>5
<1>11. ASSUME Here # "end" PROVE pos <= Len(text) /\ Here = text[pos]
  BY <1>2, <1>11
<1>12. CASE Here \in Booleans
  <2>1. Parsed(Value("boolean", 0)) \/ Failed("INVALID_VALUE")
    BY <1>12 DEF json_parse_value, Booleans
  <2>2. Here # "end" /\ Here \in Scalars
    BY <1>12 DEF Booleans, Scalars
  <2> QED BY <1>8, <1>9, <1>11, <1>12, <2>1, <2>2
<1>13. CASE Here = "null"
  <2>1. Parsed(Null)
    BY <1>13 DEF json_parse_value, Booleans
  <2>2. Here # "end" /\ Here \in Scalars
    BY <1>13 DEF Scalars
  <2> QED BY <1>8, <1>11, <2>1, <2>2
<1>14. CASE Here \in {"string", "bad_string"}
  <2>1. json_parse_string
    BY <1>14 DEF json_parse_value, Booleans
  <2>2. \/ Here = "string" /\ Parsed(Value("string", 1))
        \/ Here = "bad_string" /\ Failed("STRING")
    BY <1>14, <2>1 DEF json_parse_string
  <2>3. Here # "end" /\ (Here = "string" => Here \in Scalars)
    BY <1>14 DEF Scalars
  <2> QED BY <1>8, <1>9, <1>11, <2>2, <2>3
<1>15. CASE Here = "open_array"
  <2>1. Opened("array", "close_array") /\ Here # "end"
    BY <1>15 DEF json_parse_value, Booleans
  <2> QED BY <1>10, <1>11, <1>15, <2>1
<1>16. CASE Here = "open_object"
  <2>1. Opened("object", "close_object") /\ Here # "end"
    BY <1>16 DEF json_parse_value, Booleans
  <2> QED BY <1>10, <1>11, <1>16, <2>1
<1>17. CASE /\ Here \notin Booleans /\ Here # "null" /\ Here \notin {"string", "bad_string"}
            /\ Here # "open_array" /\ Here # "open_object" /\ Here # "end"
  <2>1. json_parse_number
    BY <1>17 DEF json_parse_value
  <2>2. \/ Here = "number" /\ Parsed(Value("number", 0))
        \/ Here = "big" /\ Failed("NUMBER_TOO_BIG")
        \/ Here # "number" /\ Failed("INVALID_VALUE")
    BY <2>1 DEF json_parse_number
  <2>3. /\ Here = "number" => Here \in Scalars
        /\ Here # "number" => Here \notin Scalars \cup Opening
    BY <1>17 DEF Scalars, Opening
  <2> QED BY <1>8, <1>9, <1>11, <1>17, <2>2, <2>3
<1> QED BY <1>7, <1>12, <1>13, <1>14, <1>15, <1>16, <1>17

LEMMA MemberReads ==
  ASSUME DecodeInv, GrammarInv, KeyStep \/ ColonStep
  PROVE  GrammarInv'
<1>1. DecodeShape /\ StageOK
  BY DEF DecodeInv
<1>2. Here # "end" => pos <= Len(text) /\ Here = text[pos]
  BY <1>1, HereIs
<1>3. Known /\ Fixed /\ at \in {"key", "colon"}
  BY DEF KeyStep, ColonStep, Fixed
<1>4. PICK e : /\ Reads(Done) = State(e, Kinds(frames)) /\ e \in Expected
               /\ e \in {"first", "first_key"} =>
                     IF pos <= Len(text) THEN text[pos] # Closer ELSE ended
  BY <1>3, NowReads DEF Running
<1>5. ASSUME Here = "end", NEW error, Failed(error)
      PROVE  GrammarInv'
  BY <1>1, <1>3, <1>5, EndReads
<1>6. CASE KeyStep
  <2>1. /\ at = "key" /\ e \in {"key", "first_key"}
        /\ e = "first_key" /\ pos <= Len(text) => text[pos] # "close_object"
    BY <1>4, <1>6 DEF KeyStep, Expected, Closer
  <2>2. CASE Here = "string"
    <3>1. /\ frames' = SetKey(frames) /\ pos' = pos + 1 /\ text' = text /\ at' = "colon"
      BY <1>6, <2>2 DEF KeyStep
    <3>2. pos <= Len(text) /\ text[pos] = "string"
      BY <1>2, <2>2
    <3>3. Reads(Done') = State("colon", Kinds(frames))
      BY <1>1, <1>4, <2>1, <3>1, <3>2, ReadsOn, DeltaMember
    <3>4. Kinds(frames') = Kinds(frames)
      <4>1. PICK f \in Seq(Frames) : f = frames /\ f # <<>>
        BY <1>1, <2>1 DEF StageOK, DecodeShape
      <4>2. PICK n \in Nat \ {0} : n = Len(f) /\ f[n] \in Frames
        BY <4>1, FrontOf
      <4>3. PICK y \in Frames : y = f[n]
        BY <4>2
      <4>4. PICK x : x = [y EXCEPT !.key = TRUE]
        OBVIOUS
      <4>5. x \in Frames /\ x.kind = y.kind
        BY <4>4 DEF Frames
      <4>6. n \in 1 .. Len(f) /\ DOMAIN f = 1 .. Len(f)
        BY <4>2
      <4>7. SetKey(f) = [f EXCEPT ![n] = x]
        BY <4>2, <4>3, <4>4, <4>6 DEF SetKey
      <4>8. /\ [f EXCEPT ![n] = x] \in Seq(Frames) /\ Len([f EXCEPT ![n] = x]) = Len(f)
            /\ \A i \in 1 .. Len(f) : [f EXCEPT ![n] = x][i] = IF i = n THEN x ELSE f[i]
        BY <4>5, <4>6, ExceptSeq
      <4>9. PICK g \in Seq(Frames) : /\ g = SetKey(f) /\ Len(g) = Len(f)
                                     /\ \A i \in 1 .. Len(f) : g[i] = IF i = n THEN x ELSE f[i]
        BY <4>7, <4>8
      <4>10. \A i \in 1 .. Len(g) : g[i].kind = f[i].kind
        BY <4>3, <4>5, <4>9
      <4>11. Kinds(g) = Kinds(f)
        BY <4>9, <4>10, KindsSame
      <4> QED BY <3>1, <4>1, <4>9, <4>11
    <3>5. "colon" \in Expected' /\ Running'
      BY <3>1 DEF Expected, Running
    <3> QED BY <3>3, <3>4, <3>5, NextReads
  <2>3. CASE Here = "bad_string"
    <3>1. Failed("STRING")
      BY <1>6, <2>3 DEF KeyStep
    <3>2. pos <= Len(text) /\ text[pos] = "bad_string"
      BY <1>2, <2>3
    <3> QED BY <1>1, <1>3, <3>1, <3>2, FailReads
  <2>4. CASE Here # "string" /\ Here # "bad_string"
    <3>1. Failed("MISS_KEY")
      BY <1>6, <2>4 DEF KeyStep
    <3>2. CASE Here # "end"
      <4>1. pos <= Len(text) /\ text[pos] # "string"
        BY <1>2, <2>4, <3>2
      <4>2. Delta(Reads(Done), text[pos]).expects = "nothing"
        BY <1>4, <2>1, <4>1, DeltaMember
      <4> QED BY <1>1, <1>3, <3>1, <4>1, <4>2, FailReads
    <3> QED BY <1>5, <3>1, <3>2
  <2> QED BY <2>2, <2>3, <2>4
<1>7. CASE ColonStep
  <2>1. at = "colon" /\ e = "colon" /\ "key" \in {"key", "first_key"}
    BY <1>4, <1>7 DEF ColonStep, Expected
  <2>2. CASE Here = "colon"
    <3>1. at' = "value" /\ frames' = frames /\ pos' = pos + 1 /\ text' = text
      BY <1>7, <2>2 DEF ColonStep
    <3>2. pos <= Len(text) /\ text[pos] = "colon"
      BY <1>2, <2>2
    <3>3. Delta(Reads(Done), text[pos]) = State("value", Kinds(frames))
      BY <1>4, <2>1, <3>2, DeltaMember
    <3>4. Reads(Done') = State("value", Kinds(frames'))
      BY <1>1, <3>1, <3>2, <3>3, ReadsOn
    <3>5. "value" \in Expected' /\ Running'
      BY <3>1 DEF Expected, Running
    <3> QED BY <3>4, <3>5, NextReads
  <2>3. CASE Here # "colon"
    <3>1. Failed("MISS_COLON")
      BY <1>7, <2>3 DEF ColonStep
    <3>2. CASE Here # "end"
      <4>1. pos <= Len(text) /\ text[pos] # "colon"
        BY <1>2, <2>3, <3>2
      <4>2. Delta(Reads(Done), text[pos]).expects = "nothing"
        BY <1>4, <2>1, <4>1, DeltaMember
      <4> QED BY <1>1, <1>3, <3>1, <4>1, <4>2, FailReads
    <3> QED BY <1>5, <3>1, <3>2
  <2> QED BY <2>2, <2>3
<1> QED BY <1>6, <1>7

LEMMA NextStepReads ==
  ASSUME DecodeInv, GrammarInv, NextStep
  PROVE  GrammarInv'
<1>1. DecodeShape /\ StageOK
  BY DEF DecodeInv
<1>2. Here # "end" => pos <= Len(text) /\ Here = text[pos]
  BY <1>1, HereIs
<1>3. at = "next" /\ Known /\ Fixed
  BY DEF NextStep, Fixed
<1>4. PICK e : Reads(Done) = State(e, Kinds(frames)) /\ e \in Expected
  BY <1>3, NowReads DEF Running
<1>5. Reads(Done) = State("more", Kinds(frames))
  BY <1>3, <1>4 DEF Expected
<1>6. frames # <<>> /\ frames \in Seq(Frames)
  BY <1>1, <1>3 DEF StageOK, DecodeShape
<1>7. PICK o : /\ o = Kinds(frames) /\ o # <<>> /\ Last(o) = Last(frames).kind
               /\ Kinds(Front(frames)) = Front(o)
  BY <1>6, KindsFront
<1>8. /\ Last(o) = "array" \/ Last(o) = "object"
      /\ InObject <=> Last(o) = "object"
  <2>1. Last(frames) \in Frames
    BY <1>6, FrontOf
  <2> QED BY <1>6, <1>7, <2>1 DEF Frames, InObject
<1>9. Close = IF Last(o) = "object" THEN "close_object" ELSE "close_array"
  BY <1>8 DEF Close
<1>10. CASE Here = "comma"
  <2>1. /\ pos' = pos + 1 /\ text' = text /\ frames' = frames
        /\ at' = (IF InObject THEN "key" ELSE "value")
    BY <1>10 DEF NextStep, Close
  <2>2. pos <= Len(text) /\ text[pos] = "comma"
    BY <1>2, <1>10
  <2>3. PICK x : x = IF Last(o) = "object" THEN "key" ELSE "value"
    OBVIOUS
  <2>4. Delta(State("more", o), text[pos]) = State(x, o)
    BY <1>7, <1>8, <2>2, <2>3, DeltaMore
  <2>5. Reads(Done') = State(x, Kinds(frames'))
    BY <1>1, <1>5, <1>7, <2>1, <2>2, <2>4, ReadsOn
  <2>6. x \in Expected' /\ Running' /\ x \notin {"first", "first_key"}
    BY <1>8, <2>1, <2>3 DEF Expected, Running
  <2> QED BY <2>5, <2>6, NextReads
<1>11. CASE Here # "comma" /\ Here = Close
  <2>1. Closed(Taken(Last(frames).size)) /\ text' = text
    BY <1>11 DEF NextStep
  <2>2. frames' = Front(frames) /\ pos' = pos + 1 /\ at' = "parsed"
    BY <2>1 DEF Closed
  <2>3. Here # "end"
    BY <1>9, <1>11
  <2>4. pos <= Len(text) /\ text[pos] = IF Last(o) = "object" THEN "close_object" ELSE "close_array"
    BY <1>2, <1>9, <1>11, <2>3
  <2>5. Delta(State("more", o), text[pos]) = State("more", Front(o))
    BY <1>7, <1>8, <2>4, DeltaMore
  <2>6. Reads(Done') = State("more", Kinds(frames'))
    BY <1>1, <1>5, <1>7, <2>1, <2>2, <2>4, <2>5, ReadsOn
  <2>7. "more" \in Expected' /\ Running'
    BY <2>2 DEF Expected, Running
  <2> QED BY <2>6, <2>7, NextReads
<1>12. CASE Here # "comma" /\ Here # Close
  <2>1. PICK error : Failed(error)
    BY <1>12 DEF NextStep
  <2>2. CASE Here # "end"
    <3>1. pos <= Len(text) /\ text[pos] # "comma" /\ text[pos] # Close
      BY <1>2, <1>12, <2>2
    <3>2. Delta(State("more", o), text[pos]).expects = "nothing"
      BY <1>7, <1>8, <1>9, <3>1, DeltaMore
    <3> QED BY <1>1, <1>3, <1>5, <1>7, <2>1, <3>1, <3>2, FailReads
  <2>3. CASE Here = "end"
    BY <1>1, <1>3, <2>1, <2>3, EndReads
  <2> QED BY <2>2, <2>3
<1> QED BY <1>10, <1>11, <1>12

LEMMA PushReads ==
  ASSUME DecodeInv, GrammarInv, PushStep
  PROVE  GrammarInv'
<1>0. /\ at = "parsed" /\ frames # <<>> /\ frames' = Pushed(frames)
      /\ at' = "next" /\ UNCHANGED <<text, ended, pos>>
  BY DEF PushStep
<1>1. DecodeShape
  BY DEF DecodeInv
<1>2. PICK e : Reads(Done) = State(e, Kinds(frames)) /\ e \in Expected
  BY <1>0, NowReads DEF Running
<1>3. e = "more"
  BY <1>0, <1>2 DEF Expected
<1>4. Kinds(frames') = Kinds(frames)
  <2>1. PICK f \in Seq(Frames) : f = frames /\ f # <<>>
    BY <1>0, <1>1 DEF DecodeShape
  <2>2. PICK n \in Nat \ {0} : n = Len(f) /\ f[n] \in Frames
    BY <2>1, FrontOf
  <2>3. PICK y \in Frames : y = f[n]
    BY <2>2
  <2>4. PICK x : x = [[y EXCEPT !.size = @ + 1] EXCEPT !.key = FALSE]
    OBVIOUS
  <2>5. y.size + 1 \in Nat
    BY DEF Frames
  <2>6. x \in Frames /\ x.kind = y.kind
    BY <2>4, <2>5 DEF Frames
  <2>7. n \in 1 .. Len(f) /\ DOMAIN f = 1 .. Len(f)
    BY <2>2
  <2>8. Pushed(f) = [f EXCEPT ![n] = x]
    BY <2>2, <2>3, <2>4, <2>7 DEF Pushed
  <2>9. /\ [f EXCEPT ![n] = x] \in Seq(Frames) /\ Len([f EXCEPT ![n] = x]) = Len(f)
        /\ \A i \in 1 .. Len(f) : [f EXCEPT ![n] = x][i] = IF i = n THEN x ELSE f[i]
    BY <2>6, <2>7, ExceptSeq
  <2>10. PICK g \in Seq(Frames) : /\ g = Pushed(f) /\ Len(g) = Len(f)
                                  /\ \A i \in 1 .. Len(f) : g[i] = IF i = n THEN x ELSE f[i]
    BY <2>8, <2>9
  <2>11. \A i \in 1 .. Len(g) : g[i].kind = f[i].kind
    BY <2>3, <2>6, <2>10
  <2>12. Kinds(g) = Kinds(f)
    BY <2>10, <2>11, KindsSame
  <2> QED BY <1>0, <2>1, <2>10, <2>12
<1>5. Reads(Done') = State("more", Kinds(frames'))
  <2>1. Done' = Done
    BY <1>0 DEF Done
  <2> QED BY <1>2, <1>3, <1>4, <2>1
<1>6. "more" \in Expected' /\ Running'
  BY <1>0 DEF Expected, Running
<1> QED BY <1>5, <1>6, NextReads

(* A text whose value is followed by nothing is in the grammar.             *)
LEMMA ReturnReads ==
  ASSUME DecodeInv, GrammarInv, json_decode
  PROVE  GrammarInv'
<1>0. /\ at \in {"parsed", "fail"} /\ frames = <<>> /\ (at = "parsed" => Known) /\ at' = "end"
      /\ ret' = (IF at = "parsed" THEN Rest ELSE ret) /\ UNCHANGED <<text, ended, pos>>
  BY DEF json_decode
<1>1. DecodeShape /\ StageOK
  BY DEF DecodeInv
<1>2. CASE at = "fail"
  <2>1. RefusedFor /\ ret' # "OK"
    BY <1>0, <1>1, <1>2 DEF GrammarInv, StageOK
  <2>2. AcceptsGrammar'
    BY <1>0, <2>1 DEF AcceptsGrammar, RefusedFor
  <2> QED BY <1>0, <2>2 DEF GrammarInv, Running
<1>3. CASE at = "parsed"
  <2>1. PICK e : Reads(Done) = State(e, Kinds(frames)) /\ e \in Expected
    BY <1>3, NowReads DEF Running
  <2>2. Reads(Done) = State("more", <<>>)
    BY <1>0, <1>3, <2>1, KindsNone DEF Expected
  <2>3. /\ pos <= Len(text) => Here = text[pos] /\ Here # "end"
        /\ pos > Len(text) => Here = "end"
        /\ Len(text) \in Nat /\ pos \in Nat
    BY <1>1, HereIs
  <2>4. CASE pos > Len(text)
    <3>1. ended /\ Done = text
      BY <1>0, <1>1, <1>3, <2>3, <2>4, AllRead DEF Known
    <3>2. Accepts(text)
      BY <2>2, <3>1 DEF Accepts, State
    <3>3. ret' = "OK"
      BY <1>0, <1>3, <2>3, <2>4 DEF Rest
    <3>4. AcceptsGrammar'
      BY <1>0, <3>1, <3>2, <3>3 DEF AcceptsGrammar
    <3> QED BY <1>0, <3>4 DEF GrammarInv, Running
  <2>5. CASE pos <= Len(text)
    <3>1. Reads(SubSeq(text, 1, pos)).expects = "nothing"
      BY <1>1, <2>2, <2>5, ReadsOn, DeltaMore
    <3>2. ret' # "OK"
      BY <1>0, <1>3, <2>3, <2>5 DEF Rest
    <3>3. AcceptsGrammar'
      BY <1>0, <2>5, <3>1, <3>2 DEF AcceptsGrammar
    <3> QED BY <1>0, <3>3 DEF GrammarInv, Running
  <2> QED BY <2>3, <2>4, <2>5
<1> QED BY <1>0, <1>2, <1>3

LEMMA ReadReads ==
  ASSUME DecodeInv, GrammarInv, Read
  PROVE  GrammarInv'
<1>0. /\ ~Known /\ at # "end"
      /\ UNCHANGED <<build, pos, stack, frames, at, val, ret, blocks>>
  BY DEF Read
<1>1. DecodeShape /\ StageOK
  BY DEF DecodeInv
<1>2. Running
  BY <1>0, <1>1 DEF StageOK, Running
<1>3. PICK e : /\ Reads(Done) = State(e, Kinds(frames)) /\ e \in Expected
               /\ e \in {"first", "first_key"} =>
                     IF pos <= Len(text) THEN text[pos] # Closer ELSE ended
  BY <1>2, NowReads
<1>4. Reads(Done') = State(e, Kinds(frames'))
  BY <1>0, <1>3, ReadKeeps
<1>5. e \in Expected' /\ Running' /\ Closer' = Closer
  BY <1>0, <1>2, <1>3 DEF Expected, Running, Closer
<1>6. ASSUME e \in {"first", "first_key"}
      PROVE  IF pos' <= Len(text') THEN text'[pos'] # Closer' ELSE ended'
  <2>1. PICK t \in Seq(Lexemes), n \in Nat, k \in Nat \ {0} : t = text /\ n = Len(t) /\ k = pos
    BY <1>1, LenProperties DEF DecodeShape
  <2>2. k <= n /\ t[k] # Closer
    BY <1>0, <1>3, <1>6, <2>1 DEF Known
  <2>3. CASE text' = text
    BY <1>0, <1>5, <2>1, <2>2, <2>3
  <2>4. CASE \E l \in Lexemes : text' = Append(text, l)
    <3>1. PICK l \in Lexemes : text' = Append(t, l)
      BY <2>1, <2>4
    <3>2. Len(Append(t, l)) = n + 1 /\ \A i \in 1 .. n : Append(t, l)[i] = t[i]
      BY <2>1, AppendProperties
    <3>3. k \in 1 .. n /\ k <= n + 1
      BY <2>2
    <3> QED BY <1>0, <1>5, <2>1, <2>2, <3>1, <3>2, <3>3
  <2> QED BY <2>3, <2>4 DEF Read
<1> QED BY <1>4, <1>5, <1>6, NextReads

LEMMA GrammarSteps == DecodeInv /\ GrammarInv /\ [DecodeNext]_decodeVars => GrammarInv'
<1> SUFFICES ASSUME DecodeInv, GrammarInv, [DecodeNext]_decodeVars PROVE GrammarInv'
  OBVIOUS
<1>1. CASE UNCHANGED decodeVars
  BY <1>1 DEF decodeVars, GrammarInv, AcceptsGrammar, InStep, Expected, Closer, RefusedFor, Running, Done
<1>2. CASE Read
  BY <1>2, ReadReads
<1>3. CASE json_parse_value
  BY <1>3, ValueReads
<1>4. CASE KeyStep \/ ColonStep
  BY <1>4, MemberReads
<1>5. CASE PushStep
  BY <1>5, PushReads
<1>6. CASE NextStep
  BY <1>6, NextStepReads
<1>7. CASE UnwindStep
  <2>1. at = "fail" /\ UNCHANGED <<text, ended, pos, at>>
    BY <1>7 DEF UnwindStep
  <2>2. RefusedFor'
    BY <2>1 DEF GrammarInv, RefusedFor
  <2> QED BY <2>1, <2>2 DEF GrammarInv, AcceptsGrammar, Running
<1>8. CASE json_decode
  BY <1>8, ReturnReads
<1> QED BY <1>1, <1>2, <1>3, <1>4, <1>5, <1>6, <1>7, <1>8 DEF DecodeNext, Step

(* Whatever the text, it is accepted only when it is in the grammar, and    *)
(* refused only for a boolean, a number out of range, a string that fails,  *)
(* or because it leaves the grammar at the position of the error.           *)
THEOREM GrammarCorrect == DecodeSpec => []AcceptsGrammar
<1>1. DecodeInit => DecodeInv /\ GrammarInv
  BY DecodeStarts, GrammarStarts
<1>2. DecodeInv /\ GrammarInv /\ [DecodeNext]_decodeVars => (DecodeInv /\ GrammarInv)'
  BY DecodeSteps, GrammarSteps
<1>3. GrammarInv => AcceptsGrammar
  BY DEF GrammarInv
<1> QED BY <1>1, <1>2, <1>3, PTL DEF DecodeSpec

-----------------------------------------------------------------------------
(* The files and the log.                                                   *)

\* At a path is nothing, a directory, or a sequence of pieces.
TreeType(t) == t \in [Paths -> {NULL, Dir} \cup Seq(Pieces)]

\* What is at a path is in a directory.
Rooted(t) == \A p \in Paths : t[p] # NULL => IsDir(t, Parent(p))

\* The log's stream, if there is one, is at an offset of a path, or of a file
\* that is at no path any more.
StreamType == stream = NULL \/ stream \in [at : Paths \cup {Gone}, offset : Nat]

\* What holds between the calls.
LogInv == TreeType(tree) /\ Rooted(tree) /\ StreamType /\ StreamAtEnd

\* The prefixes of a path are paths, each the parent of the next.
LEMMA PathFacts ==
  ASSUME NEW p \in Paths
  PROVE  /\ p \in Seq(STRING) /\ Len(p) \in Nat \ {0} /\ SubSeq(p, 1, Len(p)) = p
         /\ \A k \in 1 .. Len(p) : SubSeq(p, 1, k) \in Paths
         /\ \A k \in 2 .. Len(p) : Parent(SubSeq(p, 1, k)) = SubSeq(p, 1, k - 1)
         /\ Parent(p) = <<>> \/ Parent(p) \in Paths
<1>1. p \in Seq(STRING) /\ p # <<>> /\ \A k \in 1 .. Len(p) - 1 : SubSeq(p, 1, k) \in Paths
  BY FilesAssumption
<1>2. Len(p) \in Nat \ {0}
  BY <1>1, EmptySeq
<1>3. SubSeq(p, 1, Len(p)) = p
  BY <1>1
<1>4. \A k \in 1 .. Len(p) : SubSeq(p, 1, k) \in Paths
  <2>1. \A k \in 1 .. Len(p) : k = Len(p) \/ k \in 1 .. Len(p) - 1
    BY <1>2
  <2> QED BY <2>1, <1>1, <1>3
<1>5. \A k \in 2 .. Len(p) : Parent(SubSeq(p, 1, k)) = SubSeq(p, 1, k - 1)
  <2>1. SUFFICES ASSUME NEW k \in 2 .. Len(p) PROVE Parent(SubSeq(p, 1, k)) = SubSeq(p, 1, k - 1)
    OBVIOUS
  <2>2. k \in 1 .. Len(p) + 1 /\ k + 1 \in 1 .. Len(p) + 1 /\ k \in Nat /\ k - 1 \in Nat
    BY <1>2
  <2>3. PICK q : q = SubSeq(p, 1, k)
    OBVIOUS
  <2>4. q \in Seq(STRING) /\ Len(q) = k /\ \A i \in 1 .. k : q[i] = p[i]
    BY <1>1, <1>2, <2>2, <2>3
  <2>5. PICK a, b : a = SubSeq(q, 1, k - 1) /\ b = SubSeq(p, 1, k - 1)
    OBVIOUS
  <2>6. a \in Seq(STRING) /\ b \in Seq(STRING) /\ Len(a) = k - 1 /\ Len(b) = k - 1
    BY <1>1, <1>2, <2>2, <2>4, <2>5
  <2>7. \A i \in 1 .. k - 1 : a[i] = b[i]
    BY <1>1, <1>2, <2>2, <2>4, <2>5
  <2>8. a = b
    BY <2>6, <2>7, SeqEqual
  <2> QED BY <2>3, <2>4, <2>5, <2>8 DEF Parent
<1>6. Parent(p) = <<>> \/ Parent(p) \in Paths
  <2>1. CASE Len(p) = 1
    <3>1. Parent(p) = SubSeq(p, 1, 0)
      BY <2>1 DEF Parent
    <3>2. SubSeq(p, 1, 0) = <<>>
      OBVIOUS
    <3> QED BY <3>1, <3>2
  <2>2. CASE Len(p) # 1
    BY <2>2, <1>1, <1>2 DEF Parent
  <2> QED BY <2>1, <2>2
<1> QED BY <1>1, <1>2, <1>3, <1>4, <1>5, <1>6

\* What is new lies in a directory, and no directory goes: all stay rooted.
LEMMA KeepsRoots ==
  ASSUME NEW t, NEW u, Rooted(t), \A p \in Paths : t[p] = Dir => u[p] = Dir,
         \A p \in Paths : u[p] # NULL => t[p] # NULL \/ IsDir(t, Parent(p))
  PROVE  Rooted(u)
BY PathFacts DEF Rooted, IsDir

\* What Mkdir does.
LEMMA MkdirIs ==
  ASSUME NEW t, TreeType(t), Rooted(t), NEW p \in Paths
  PROVE  /\ TreeType(Mkdir(t, p)) /\ Rooted(Mkdir(t, p))
         /\ \A q \in Paths : t[q] # NULL => Mkdir(t, p)[q] = t[q]
         /\ Mkdir(t, p) # t => Mkdir(t, p)[p] = Dir
<1>1. PICK u : u = Mkdir(t, p)
  OBVIOUS
<1>2. u = IF IsDir(t, Parent(p)) /\ t[p] = NULL THEN [t EXCEPT ![p] = Dir] ELSE t
  BY <1>1 DEF Mkdir
<1>3. TreeType(u)
  BY <1>2 DEF TreeType
<1>4. \A q \in Paths : t[q] # NULL => u[q] = t[q]
  BY <1>2 DEF TreeType
<1>5. u # t => u[p] = Dir
  BY <1>2 DEF TreeType
<1>6. \A q \in Paths : u[q] # NULL => t[q] # NULL \/ IsDir(t, Parent(q))
  BY <1>2 DEF TreeType
<1>7. \A q \in Paths : t[q] = Dir => u[q] = Dir
  BY <1>4, FilesAssumption
<1>8. Rooted(u)
  BY <1>6, <1>7, KeepsRoots
<1> QED BY <1>1, <1>3, <1>4, <1>5, <1>8

\* The trees that file_create_directory makes on its way.
Makes(t, p, n) ==
  t = [k \in 0 .. n |-> IF k = 0 THEN tree ELSE Mkdir(t[k - 1], SubSeq(p, 1, k))]

\* There is such a function, for every number of names.
LEMMA MakesExists ==
  ASSUME NEW p, NEW n \in Nat
  PROVE  \E t : Makes(t, p, n)
<1> DEFINE S == {k \in Nat : ~ \E t : Makes(t, p, k)}
<1>1. SUFFICES ASSUME S # {} PROVE FALSE
  OBVIOUS
<1>2. PICK k \in S : \A j \in S : k <= j
  <2>1. S \in SUBSET Nat
    OBVIOUS
  <2> HIDE DEF S
  <2> QED BY <1>1, <2>1, Least
<1>3. k \in Nat /\ ~ \E t : Makes(t, p, k)
  OBVIOUS
<1>4. k # 0
  <2>1. Makes([i \in 0 .. 0 |-> tree], p, 0)
    BY DEF Makes
  <2> QED BY <1>3, <2>1
<1>5. PICK j \in Nat : k = j + 1
  <2>1. k - 1 \in Nat /\ k = (k - 1) + 1
    BY <1>3, <1>4
  <2> QED BY <2>1
<1>6. PICK g : Makes(g, p, j)
  BY <1>2, <1>5
<1> DEFINE h == [i \in 0 .. k |-> IF i = 0 THEN tree ELSE Mkdir(g[i - 1], SubSeq(p, 1, i))]
<1>7. \A i \in 0 .. j : h[i] = g[i]
  <2>1. \A i \in 0 .. j : i \in 0 .. k
    BY <1>5
  <2>2. \A i \in 0 .. j : h[i] = IF i = 0 THEN tree ELSE Mkdir(g[i - 1], SubSeq(p, 1, i))
    BY <2>1
  <2>3. \A i \in 0 .. j : g[i] = IF i = 0 THEN tree ELSE Mkdir(g[i - 1], SubSeq(p, 1, i))
    BY <1>6 DEF Makes
  <2> QED BY <2>2, <2>3
<1>8. \A i \in 1 .. k : i - 1 \in 0 .. j
  BY <1>5
<1>9. h = [i \in 0 .. k |-> IF i = 0 THEN tree ELSE Mkdir(h[i - 1], SubSeq(p, 1, i))]
  <2>1. \A i \in 0 .. k : i # 0 => i \in 1 .. k
    BY <1>3
  <2>2. \A i \in 0 .. k : (IF i = 0 THEN tree ELSE Mkdir(g[i - 1], SubSeq(p, 1, i)))
                        = (IF i = 0 THEN tree ELSE Mkdir(h[i - 1], SubSeq(p, 1, i)))
    BY <1>7, <1>8, <2>1
  <2>3. h = [i \in 0 .. k |-> IF i = 0 THEN tree ELSE Mkdir(g[i - 1], SubSeq(p, 1, i))]
    OBVIOUS
  <2> HIDE DEF h
  <2> QED BY <2>2, <2>3
<1> HIDE DEF h
<1>10. Makes(h, p, k)
  BY <1>9 DEF Makes
<1> QED BY <1>3, <1>10

\* So file_create_directory makes them.
LEMMA MadeUpToIs ==
  ASSUME NEW p \in Paths
  PROVE  Makes(MadeUpTo(p), p, Len(p))
<1>1. \E t : Makes(t, p, Len(p))
  BY MakesExists, PathFacts
<1>2. MadeUpTo(p) = CHOOSE t : Makes(t, p, Len(p))
  BY DEF MadeUpTo, Makes
<1> QED BY <1>1, <1>2

\* Each of them has what was there, in directories.
Extends(u) ==
  TreeType(u) /\ Rooted(u) /\ \A q \in Paths : tree[q] # NULL => u[q] = tree[q]

\* By the number of names.
LEMMA MadeKeeps ==
  ASSUME TreeType(tree), Rooted(tree), NEW p \in Paths, NEW k \in 0 .. Len(p)
  PROVE  Extends(MadeUpTo(p)[k])
<1>1. PICK t : t = MadeUpTo(p)
  OBVIOUS
<1>2. Len(p) \in Nat
  BY PathFacts
<1>3. \A i \in 0 .. Len(p) : t[i] = IF i = 0 THEN tree ELSE Mkdir(t[i - 1], SubSeq(p, 1, i))
  BY <1>1, MadeUpToIs DEF Makes
<1> DEFINE S == {i \in 0 .. Len(p) : ~Extends(t[i])}
<1>4. SUFFICES ASSUME S # {} PROVE FALSE
  BY <1>1
<1>5. PICK i \in S : \A j \in S : i <= j
  <2>1. S \in SUBSET Nat
    BY <1>2
  <2> HIDE DEF S
  <2> QED BY <1>4, <2>1, Least
<1>6. i \in 0 .. Len(p) /\ ~Extends(t[i])
  OBVIOUS
<1>7. i # 0
  BY <1>3, <1>6 DEF Extends
<1>8. PICK j : j = i - 1
  OBVIOUS
<1>9. j \in 0 .. Len(p) /\ ~(i <= j) /\ i \in 1 .. Len(p)
  BY <1>2, <1>6, <1>7, <1>8
<1>10. Extends(t[j])
  BY <1>5, <1>9
<1>11. PICK q \in Paths : q = SubSeq(p, 1, i)
  BY <1>9, PathFacts
<1>12. PICK v : v = t[j]
  OBVIOUS
<1>13. t[i] = Mkdir(v, q)
  BY <1>3, <1>6, <1>7, <1>8, <1>11, <1>12
<1>14. /\ TreeType(Mkdir(v, q)) /\ Rooted(Mkdir(v, q))
       /\ \A x \in Paths : v[x] # NULL => Mkdir(v, q)[x] = v[x]
  BY <1>10, <1>12, MkdirIs DEF Extends
<1>15. Extends(Mkdir(v, q))
  BY <1>10, <1>12, <1>14 DEF Extends
<1> QED BY <1>6, <1>13, <1>15

\* A directory is in directories all the way up.
LEMMA DirsUp ==
  ASSUME NEW t, Rooted(t), NEW p \in Paths, t[p] = Dir, NEW k \in 1 .. Len(p)
  PROVE  t[SubSeq(p, 1, k)] = Dir
<1>1. /\ Len(p) \in Nat \ {0} /\ SubSeq(p, 1, Len(p)) = p
      /\ \A i \in 1 .. Len(p) : SubSeq(p, 1, i) \in Paths
      /\ \A i \in 2 .. Len(p) : Parent(SubSeq(p, 1, i)) = SubSeq(p, 1, i - 1)
  BY PathFacts
<1> DEFINE S == {i \in 1 .. Len(p) : t[SubSeq(p, 1, i)] # Dir}
<1>2. SUFFICES ASSUME S # {} PROVE FALSE
  OBVIOUS
<1>3. PICK i \in S : \A j \in S : j <= i
  <2>1. S \in SUBSET (0 .. Len(p)) /\ Len(p) \in Nat
    BY <1>1
  <2> HIDE DEF S
  <2> QED BY <1>2, <2>1, Greatest
<1>4. i \in 1 .. Len(p) /\ t[SubSeq(p, 1, i)] # Dir
  OBVIOUS
<1>5. i # Len(p)
  BY <1>1, <1>4
<1>6. PICK j : j = i + 1
  OBVIOUS
<1>7. j \in 2 .. Len(p) /\ ~(j <= i) /\ j \in 1 .. Len(p) /\ j - 1 = i
  <2>1. PICK n \in Nat : n = Len(p)
    BY <1>1
  <2>2. i \in 1 .. n /\ i # n
    BY <2>1, <1>4, <1>5
  <2>3. j \in 2 .. n /\ ~(j <= i) /\ j \in 1 .. n /\ j - 1 = i
    BY <2>2, <1>6
  <2> QED BY <2>1, <2>3
<1>8. t[SubSeq(p, 1, j)] = Dir
  BY <1>3, <1>7
<1>9. PICK q \in Paths : q = SubSeq(p, 1, j)
  BY <1>1, <1>7
<1>10. Parent(q) = SubSeq(p, 1, i)
  BY <1>1, <1>7, <1>9
<1>11. IsDir(t, Parent(q))
  BY <1>8, <1>9, FilesAssumption DEF Rooted
<1>12. SubSeq(p, 1, i) # <<>>
  BY <1>1, <1>4, FilesAssumption
<1> QED BY <1>4, <1>10, <1>11, <1>12 DEF IsDir

-----------------------------------------------------------------------------
\* Each part of the step, from the invariant.

\* file_create_directory: the invariant is what its report rests on.
LEMMA CreateOK == LogInv => CreateTells
<1> SUFFICES ASSUME LogInv, NEW p \in Paths, file_create_directory(p)
             PROVE  /\ created(p) => \A k \in 1 .. Len(p) : tree'[SubSeq(p, 1, k)] = Dir
                    /\ \A q \in Paths : IsFile(q) => tree'[q] = tree[q]
  BY DEF CreateTells
<1>1. PICK t, n : t = MadeUpTo(p) /\ n = Len(p)
  OBVIOUS
<1>2. n \in Nat \ {0} /\ SubSeq(p, 1, n) = p
  BY <1>1, PathFacts
<1>3. \A k \in 0 .. n : Extends(t[k])
  BY <1>1, MadeKeeps DEF LogInv
<1>4. n \in 0 .. n /\ n - 1 \in 0 .. n
  BY <1>2
<1>5. tree' = t[n]
  BY <1>1 DEF file_create_directory, Leaves
<1>6. \A q \in Paths : IsFile(q) => tree'[q] = tree[q]
  BY <1>3, <1>4, <1>5 DEF Extends, IsFile
<1>7. ASSUME created(p), NEW k \in 1 .. Len(p) PROVE tree'[SubSeq(p, 1, k)] = Dir
  <2>1. t[n] # t[n - 1]
    BY <1>1, <1>7 DEF created
  <2>2. t[n] = Mkdir(t[n - 1], p)
    <3>1. \A i \in 0 .. n : t[i] = IF i = 0 THEN tree ELSE Mkdir(t[i - 1], SubSeq(p, 1, i))
      BY <1>1, MadeUpToIs DEF Makes
    <3> QED BY <3>1, <1>2, <1>4
  <2>3. PICK u : u = t[n - 1]
    OBVIOUS
  <2>4. TreeType(u) /\ Rooted(u)
    BY <2>3, <1>3, <1>4 DEF Extends
  <2>5. Mkdir(u, p) # u
    BY <2>1, <2>2, <2>3
  <2>6. Mkdir(u, p)[p] = Dir
    BY <2>4, <2>5, MkdirIs
  <2>7. PICK v : v = Mkdir(u, p)
    OBVIOUS
  <2>8. Rooted(v) /\ v[p] = Dir
    BY <2>4, <2>6, <2>7, MkdirIs
  <2>9. v[SubSeq(p, 1, k)] = Dir
    BY <2>8, <1>7, DirsUp
  <2> QED BY <2>2, <2>3, <2>7, <2>9, <1>5
<1> QED BY <1>6, <1>7

\* What a call reads of a path.
LEMMA FileIs ==
  ASSUME TreeType(tree), NEW p \in Paths
  PROVE  /\ Content(p) \in Seq(Pieces) /\ Content(p) \notin {NULL, Dir}
         /\ IsFile(p) => Content(p) = tree[p]
         /\ ~IsFile(p) => Content(p) = <<>>
<1>1. IsFile(p) => tree[p] \in Seq(Pieces)
  BY DEF TreeType, IsFile
<1>2. <<>> \in Seq(Pieces)
  BY EmptySeq
<1>3. Content(p) \in Seq(Pieces)
  BY <1>1, <1>2 DEF Content
<1> QED BY <1>3, FilesAssumption DEF Content

\* file_copy and file_rename.
LEMMA CopyOK == LogInv => CopyTells
<1> SUFFICES ASSUME LogInv, NEW p \in Paths, NEW to \in Paths
             PROVE  /\ file_copy(p, to) =>
                         (IF tree'[to] \in {NULL, Dir} THEN <<>> ELSE tree'[to])
                            = IF copied(p, to) /\ p # to THEN Content(p) ELSE <<>>
                    /\ file_rename(p, to) /\ tree' # tree => tree'[to] = tree[p]
                    /\ file_copy(p, to) \/ file_rename(p, to) =>
                         \A q \in Paths \ {p, to} : tree'[q] = tree[q]
  BY DEF CopyTells
<1>1. TreeType(tree) /\ Rooted(tree)
  BY DEF LogInv
<1>2. /\ Content(p) \notin {NULL, Dir} /\ (~IsFile(p) => Content(p) = <<>>)
      /\ <<>> \notin {NULL, Dir}
  <2>1. <<>> \in Seq(Pieces)
    BY EmptySeq
  <2> QED BY <2>1, <1>1, FileIs, FilesAssumption
<1>3. ASSUME file_copy(p, to)
      PROVE  (IF tree'[to] \in {NULL, Dir} THEN <<>> ELSE tree'[to])
                = IF copied(p, to) /\ p # to THEN Content(p) ELSE <<>>
  <2>1. CASE Writable(to)
    <3>1. tree' = [tree EXCEPT ![to] = IF p = to THEN <<>> ELSE Content(p)]
      BY <2>1, <1>3 DEF file_copy, Leaves
    <3>2. tree'[to] = IF p = to THEN <<>> ELSE Content(p)
      BY <3>1, <1>1 DEF TreeType
    <3>3. tree[p] = NULL => ~IsFile(p)
      BY DEF IsFile
    <3> QED BY <3>2, <3>3, <2>1, <1>2 DEF copied
  <2>2. CASE ~Writable(to)
    <3>1. tree' = tree
      BY <2>2, <1>3 DEF file_copy, Leaves
    <3>2. tree[to] \in {NULL, Dir}
      BY <2>2, <1>1 DEF Writable, Rooted
    <3> QED BY <3>1, <3>2, <2>2 DEF copied
  <2> QED BY <2>1, <2>2
<1>4. ASSUME file_rename(p, to), tree' # tree PROVE tree'[to] = tree[p]
  <2>1. tree' = [tree EXCEPT ![to] = tree[p], ![p] = NULL] /\ p # to
    BY <1>4 DEF file_rename, files
  <2> QED BY <2>1, <1>1 DEF TreeType
<1>5. ASSUME file_copy(p, to) \/ file_rename(p, to), NEW q \in Paths \ {p, to}
      PROVE  tree'[q] = tree[q]
  BY <1>1, <1>5 DEF TreeType, file_copy, file_rename, files, Leaves
<1> QED BY <1>3, <1>4, <1>5

-----------------------------------------------------------------------------
\* What is in a file, and how it changes.

\* A sequence that agrees with another as far as that goes, goes on with it.
LEMMA PrefixIs ==
  ASSUME NEW d \in Seq(Pieces), NEW e \in Seq(Pieces), Len(d) <= Len(e),
         \A i \in 1 .. Len(d) : e[i] = d[i]
  PROVE  IsPrefixOf(d, e)
<1>1. Len(d) \in Nat /\ Len(e) \in Nat
  BY LenProperties
<1>2. PICK n \in Nat : n = Len(d)
  BY <1>1
<1>3. PICK k : k = n + 1
  OBVIOUS
<1>4. k \in 1 .. Len(e) + 1 /\ k - 1 = n
  BY <1>1, <1>2, <1>3
<1>5. PICK f : f = SubSeq(e, 1, n)
  OBVIOUS
<1>6. f \in Seq(Pieces) /\ Len(f) = n /\ \A i \in 1 .. n : f[i] = e[i]
  <2>1. /\ SubSeq(e, 1, k - 1) \in Seq(Pieces) /\ Len(SubSeq(e, 1, k - 1)) = k - 1
        /\ \A i \in 1 .. (k - 1) : SubSeq(e, 1, k - 1)[i] = e[i]
    BY <1>4, Prefix
  <2> QED BY <2>1, <1>4, <1>5
<1>7. f = d
  BY <1>2, <1>6, SeqEqual
<1> QED BY <1>2, <1>5, <1>7 DEF IsPrefixOf

\* A piece behind the rest.
LEMMA PrefixAppend ==
  ASSUME NEW d \in Seq(Pieces), NEW x \in Pieces
  PROVE  /\ Append(d, x) \in Seq(Pieces) /\ Len(Append(d, x)) = Len(d) + 1
         /\ IsPrefixOf(d, Append(d, x))
<1>1. PICK e : e = Append(d, x)
  OBVIOUS
<1>2. Len(d) \in Nat
  BY LenProperties
<1>3. e \in Seq(Pieces) /\ Len(e) = Len(d) + 1 /\ \A i \in 1 .. Len(d) : e[i] = d[i]
  BY <1>1, <1>2, AppendProperties
<1>4. Len(d) <= Len(e)
  BY <1>2, <1>3
<1>5. IsPrefixOf(d, e)
  BY <1>3, <1>4, PrefixIs
<1> QED BY <1>1, <1>3, <1>5

\* A line at the end of the file is appended; anywhere else the file is still one.
LEMMA WriteAtIs ==
  ASSUME NEW d \in Seq(Pieces), NEW n \in Nat, NEW x \in Pieces
  PROVE  /\ WriteAt(d, n, x) \in Seq(Pieces)
         /\ n = Len(d) => Len(WriteAt(d, n, x)) = n + 1 /\ IsPrefixOf(d, WriteAt(d, n, x))
<1>1. PICK e : e = WriteAt(d, n, x)
  OBVIOUS
<1>2. PICK l \in Nat : l = Len(d) /\ \A i \in 1 .. l : d[i] \in Pieces
  BY LenProperties, ElementOfSeq
<1>3. PICK m \in Nat : m = IF l > n THEN l ELSE n + 1
  BY <1>2
<1>4. e = [i \in 1 .. m |-> IF i = n + 1 THEN x ELSE IF i <= l THEN d[i] ELSE "hole"]
  BY <1>1, <1>2, <1>3 DEF WriteAt
<1>5. \A i \in 1 .. m : e[i] = IF i = n + 1 THEN x ELSE IF i <= l THEN d[i] ELSE "hole"
  BY <1>4
<1>6. \A i \in 1 .. m : e[i] \in Pieces
  <2>1. ASSUME NEW i \in 1 .. m, i <= l PROVE d[i] \in Pieces
    BY <2>1, <1>2
  <2>2. "hole" \in Pieces
    BY DEF Pieces
  <2> QED BY <2>1, <2>2, <1>5
<1>7. e = [i \in 1 .. m |-> e[i]]
  BY <1>4
<1>8. e \in Seq(Pieces) /\ Len(e) = m
  BY <1>6, <1>7, FunctionIsSeq
<1>9. ASSUME n = Len(d) PROVE Len(e) = n + 1 /\ IsPrefixOf(d, e)
  <2>1. m = n + 1 /\ l = n
    BY <1>2, <1>3, <1>9
  <2>2. \A i \in 1 .. Len(d) : e[i] = d[i]
    BY <2>1, <1>2, <1>5, <1>9
  <2>3. Len(d) <= Len(e)
    BY <2>1, <1>8, <1>9
  <2> QED BY <2>1, <2>2, <2>3, <1>8, PrefixIs
<1> QED BY <1>1, <1>8, <1>9

\* A path whose content goes on with what was there.
GoesOn(p) == tree'[p] \notin {NULL, Dir} /\ IsPrefixOf(tree[p], tree'[p])

\* A file that is left alone keeps its content.
LEMMA Unchanged ==
  ASSUME TreeType(tree), NEW p \in Paths, IsFile(p), tree'[p] = tree[p]
  PROVE  GoesOn(p)
<1>1. tree[p] \in Seq(Pieces) /\ tree[p] \notin {NULL, Dir}
  BY DEF TreeType, IsFile
<1>2. IsPrefixOf(tree[p], tree[p])
  <2>1. Len(tree[p]) \in Nat
    BY <1>1, LenProperties
  <2> QED BY <2>1, <1>1, PrefixIs
<1> QED BY <1>1, <1>2 DEF GoesOn

\* The calls of tools.h that write.
LEMMA WriteIs ==
  ASSUME TreeType(tree), NEW p \in Paths, NEW given \in BOOLEAN, file_write(p, given)
  PROVE  /\ \A q \in Paths \ {p} : tree'[q] = tree[q]
         /\ \/ tree'[p] = tree[p]
            \/ /\ Writable(p) /\ tree'[p] \notin {NULL, Dir}
               /\ IsFile(p) => IsPrefixOf(tree[p], tree'[p])
         /\ TreeType(tree')
<1>1. CASE given /\ Writable(p)
  <2>1. tree' = [tree EXCEPT ![p] = Append(Content(p), "piece")]
    BY <1>1 DEF file_write, Leaves
  <2>2. PICK d, e : d = Content(p) /\ e = Append(d, "piece")
    OBVIOUS
  <2>3. d \in Seq(Pieces) /\ (IsFile(p) => d = tree[p])
    BY <2>2, FileIs
  <2>4. e \in Seq(Pieces) /\ IsPrefixOf(d, e)
    <3>1. "piece" \in Pieces
      BY DEF Pieces
    <3>2. Append(d, "piece") \in Seq(Pieces) /\ IsPrefixOf(d, Append(d, "piece"))
      BY <2>3, <3>1, PrefixAppend
    <3> QED BY <3>2, <2>2
  <2>5. tree'[p] = e /\ \A q \in Paths \ {p} : tree'[q] = tree[q]
    BY <2>1, <2>2 DEF TreeType
  <2>6. TreeType(tree')
    BY <2>1, <2>2, <2>4 DEF TreeType
  <2> QED BY <2>3, <2>4, <2>5, <2>6, <1>1, FilesAssumption
<1>2. CASE ~(given /\ Writable(p))
  <2>1. tree' = tree
    BY <1>2 DEF file_write, Leaves
  <2>2. TreeType(tree')
    BY <2>1 DEF TreeType
  <2> QED BY <2>1, <2>2
<1> QED BY <1>1, <1>2

\* The step is right for p.
LeftAsWritten(p) ==
  IsFile(p) =>
    \/ GoesOn(p)
    \/ log_set_file(p) \/ file_remove(p)
    \/ \E q \in Paths : file_copy(q, p) \/ file_rename(q, p) \/ file_rename(p, q)
    \/ touched /\ StreamOn(p) /\ stream' # stream

\* Right for each path is right for the step.
LEMMA WrittenAll ==
  ASSUME \A p \in Paths : LeftAsWritten(p)
  PROVE  WrittenKept
BY DEF LeftAsWritten, WrittenKept, GoesOn

\* What has to be shown of every action.
LogStep == LogInv' /\ \A p \in Paths : LeftAsWritten(p)

\* The tree after the step.
Grown ==
  /\ TreeType(tree')
  /\ \A p \in Paths : tree[p] = Dir => tree'[p] = Dir
  /\ \A p \in Paths : tree'[p] # NULL => tree[p] # NULL \/ IsDir(tree, Parent(p))

\* No directory goes, and what is new has one.
LEMMA GrownRooted ==
  ASSUME LogInv, Grown
  PROVE  TreeType(tree)' /\ Rooted(tree)'
<1>1. TreeType(tree)'
  BY DEF Grown, TreeType
<1>2. PICK t, u : t = tree /\ u = tree'
  OBVIOUS
<1>3. Rooted(t) /\ \A p \in Paths : t[p] = Dir => u[p] = Dir
  BY <1>2 DEF LogInv, Grown
<1>4. \A p \in Paths : u[p] # NULL => t[p] # NULL \/ IsDir(t, Parent(p))
  BY <1>2 DEF Grown
<1>5. Rooted(u)
  BY <1>3, <1>4, KeepsRoots
<1>6. Rooted(tree)'
  BY <1>2, <1>5 DEF Rooted, IsDir
<1> QED BY <1>1, <1>6

\* A step that leaves the files alone.
LEMMA SameFiles ==
  ASSUME LogInv, UNCHANGED <<tree, stream>>, ~touched' => ~touched
  PROVE  LogStep
<1>1. LogInv'
  BY DEF LogInv, TreeType, Rooted, StreamType, StreamAtEnd, StreamOn, IsFile, IsDir
<1>2. ASSUME NEW p \in Paths PROVE LeftAsWritten(p)
  BY Unchanged DEF LogInv, LeftAsWritten
<1> QED BY <1>1, <1>2 DEF LogStep

\* log_set_file: the stream is at the end of an emptied file.
LEMMA StepSetFile ==
  ASSUME LogInv, NEW q \in Paths \cup {NULL}, log_set_file(q)
  PROVE  LogStep
<1>1. CASE q # NULL /\ Writable(q)
  <2>1. tree' = [tree EXCEPT ![q] = <<>>] /\ stream' = [at |-> q, offset |-> 0] /\ q \in Paths
    BY <1>1 DEF log_set_file
  <2>2. <<>> \in Seq(Pieces) /\ Len(<<>>) = 0
    BY EmptySeq
  <2>3. TreeType(tree)
    BY DEF LogInv
  <2>4. tree'[q] = <<>> /\ \A p \in Paths \ {q} : tree'[p] = tree[p]
    BY <2>1, <2>3 DEF TreeType
  <2>5. TreeType(tree')
    BY <2>1, <2>2, <2>3 DEF TreeType
  <2>6. Grown
    BY <2>4, <2>5, <1>1 DEF Grown, Writable
  <2>7. StreamType'
    BY <2>1 DEF StreamType
  <2>8. \A p \in Paths : StreamOn(p)' => p = q
    BY <2>1 DEF StreamOn
  <2>9. stream'.offset = 0
    BY <2>1
  <2>10. StreamAtEnd'
    BY <2>2, <2>4, <2>8, <2>9, FilesAssumption DEF StreamAtEnd, IsFile
  <2>11. ASSUME NEW p \in Paths PROVE LeftAsWritten(p)
    <3>1. CASE p = q
      BY <3>1 DEF LeftAsWritten
    <3>2. CASE p # q
      BY <3>2, <2>3, <2>4, Unchanged DEF LeftAsWritten
    <3> QED BY <3>1, <3>2
  <2> QED BY <2>6, <2>7, <2>10, <2>11, GrownRooted DEF LogStep, LogInv
<1>2. CASE ~(q # NULL /\ Writable(q))
  <2>1. tree' = tree /\ stream' = NULL
    BY <1>2 DEF log_set_file
  <2>2. TreeType(tree)' /\ Rooted(tree)'
    BY <2>1 DEF LogInv, TreeType, Rooted, IsDir
  <2>3. StreamType' /\ StreamAtEnd'
    BY <2>1 DEF StreamType, StreamAtEnd, StreamOn
  <2>4. ASSUME NEW p \in Paths PROVE LeftAsWritten(p)
    BY <2>1, Unchanged DEF LeftAsWritten, LogInv
  <2> QED BY <2>2, <2>3, <2>4 DEF LogStep, LogInv
<1> QED BY <1>1, <1>2

\* A line: at the end of the file while nobody else wrote to it.
LEMMA StepLog ==
  ASSUME LogInv, NEW l, NEW args \in BOOLEAN, __pct_log(l, args)
  PROVE  LogStep
<1>1. touched' = touched
  BY DEF __pct_log
<1>2. CASE UNCHANGED <<tree, stream>>
  BY <1>1, <1>2, SameFiles
<1>3. CASE ~UNCHANGED <<tree, stream>>
  <2>1. PICK line : line = IF args THEN "garbled" ELSE "line"
    OBVIOUS
  <2>2. /\ stream # NULL /\ ~StreamOn(Gone)
        /\ tree' = [tree EXCEPT ![stream.at] = WriteAt(@, stream.offset, line)]
        /\ stream' = [stream EXCEPT !.offset = @ + 1]
    BY <1>3, <2>1 DEF __pct_log
  <2>3. PICK q \in Paths, n \in Nat : q = stream.at /\ n = stream.offset /\ stream = [at |-> q, offset |-> n]
    BY <2>2 DEF LogInv, StreamType, StreamOn
  <2>4. stream' = [at |-> q, offset |-> n + 1] /\ stream'.offset = n + 1 /\ stream'.at = q
    BY <2>2, <2>3
  <2>5. StreamOn(q)
    BY <2>2, <2>3 DEF StreamOn
  <2>6. TreeType(tree) /\ IsFile(q) /\ (~touched => n = Len(tree[q]))
    BY <2>3, <2>5 DEF LogInv, StreamAtEnd
  <2>7. PICK d \in Seq(Pieces) : d = tree[q]
    BY <2>6 DEF TreeType, IsFile
  <2>8. line \in Pieces
    BY <2>1 DEF Pieces
  <2>9. PICK e : e = WriteAt(d, n, line)
    OBVIOUS
  <2>10. e \in Seq(Pieces) /\ (n = Len(d) => Len(e) = n + 1 /\ IsPrefixOf(d, e))
    BY <2>8, <2>9, WriteAtIs
  <2>11. tree' = [tree EXCEPT ![q] = e]
    BY <2>2, <2>3, <2>7, <2>9
  <2>12. tree'[q] = e /\ \A p \in Paths \ {q} : tree'[p] = tree[p]
    BY <2>6, <2>11 DEF TreeType
  <2>13. TreeType(tree')
    BY <2>6, <2>10, <2>11 DEF TreeType
  <2>14. Grown
    BY <2>6, <2>12, <2>13 DEF Grown, IsFile
  <2>15. StreamType'
    BY <2>4 DEF StreamType
  <2>16. \A p \in Paths : StreamOn(p)' => p = q
    BY <2>4 DEF StreamOn
  <2>17. e \notin {NULL, Dir}
    BY <2>10, FilesAssumption
  <2>18. StreamAtEnd'
    BY <2>4, <2>6, <2>7, <2>10, <2>12, <2>16, <2>17, <1>1 DEF StreamAtEnd, IsFile
  <2>19. ASSUME NEW p \in Paths PROVE LeftAsWritten(p)
    <3>1. CASE p # q
      BY <3>1, <2>6, <2>12, Unchanged DEF LeftAsWritten
    <3>2. CASE p = q /\ ~touched
      BY <3>2, <2>6, <2>7, <2>10, <2>12, <2>17 DEF LeftAsWritten, GoesOn
    <3>3. CASE p = q /\ touched
      <4>1. stream' # stream
        BY <2>3, <2>4
      <4> QED BY <3>3, <4>1, <2>5 DEF LeftAsWritten
    <3> QED BY <3>1, <3>2, <3>3
  <2> QED BY <2>14, <2>15, <2>18, <2>19, GrownRooted DEF LogStep, LogInv
<1> QED BY <1>2, <1>3

\* Another call changed the file under the stream.
Touches ==
  touched' = (touched \/ \E p \in Paths : StreamOn(p) /\ StreamOn(p)' /\ tree'[p] # tree[p])

\* A call that leaves the stream alone.
LEMMA TreeOnly ==
  ASSUME LogInv, Grown, stream' = stream, Touches,
         \A p \in Paths : IsFile(p) => tree'[p] \notin {NULL, Dir}
  PROVE  LogInv'
<1>1. StreamType' /\ \A p \in Paths : StreamOn(p)' = StreamOn(p)
  BY DEF LogInv, StreamType, StreamOn
<1>2. ASSUME NEW p \in Paths, StreamOn(p)
      PROVE  tree'[p] \notin {NULL, Dir} /\ (~touched' => stream.offset = Len(tree'[p]))
  <2>1. IsFile(p) /\ (~touched => stream.offset = Len(tree[p]))
    BY <1>2 DEF LogInv, StreamAtEnd
  <2>2. ~touched' => ~touched /\ tree'[p] = tree[p]
    BY <1>1, <1>2 DEF Touches
  <2> QED BY <2>1, <2>2
<1>3. StreamAtEnd'
  BY <1>1, <1>2 DEF StreamAtEnd, IsFile
<1> QED BY <1>1, <1>3, GrownRooted DEF LogInv

\* file_write.
LEMMA StepWrite ==
  ASSUME LogInv, NEW p \in Paths, NEW given \in BOOLEAN, file_write(p, given), Touches
  PROVE  LogStep
<1>1. TreeType(tree)
  BY DEF LogInv
<1>2. /\ \A q \in Paths \ {p} : tree'[q] = tree[q]
      /\ \/ tree'[p] = tree[p]
         \/ /\ Writable(p) /\ tree'[p] \notin {NULL, Dir}
            /\ IsFile(p) => IsPrefixOf(tree[p], tree'[p])
      /\ TreeType(tree')
  BY <1>1, WriteIs
<1>3. Grown
  BY <1>2 DEF Grown, Writable
<1>4. \A q \in Paths : IsFile(q) => tree'[q] \notin {NULL, Dir}
  BY <1>2 DEF IsFile
<1>5. LogInv'
  BY <1>3, <1>4, TreeOnly DEF file_write, Leaves
<1>6. ASSUME NEW q \in Paths PROVE LeftAsWritten(q)
  <2>1. CASE tree'[q] = tree[q]
    BY <2>1, <1>1, Unchanged DEF LeftAsWritten
  <2>2. CASE tree'[q] # tree[q]
    BY <2>2, <1>2 DEF LeftAsWritten, GoesOn
  <2> QED BY <2>1, <2>2
<1> QED BY <1>5, <1>6 DEF LogStep

\* file_copy.
LEMMA StepCopy ==
  ASSUME LogInv, NEW p \in Paths, NEW to \in Paths, file_copy(p, to), Touches
  PROVE  LogStep
<1>1. TreeType(tree)
  BY DEF LogInv
<1>2. PICK d \in Seq(Pieces) : d = IF p = to THEN <<>> ELSE Content(p)
  <2>1. <<>> \in Seq(Pieces)
    BY EmptySeq
  <2> QED BY <2>1, <1>1, FileIs
<1>3. d \notin {NULL, Dir}
  BY <1>2, FilesAssumption
<1>4. tree' = IF Writable(to) THEN [tree EXCEPT ![to] = d] ELSE tree
  BY <1>2 DEF file_copy, Leaves
<1>5. /\ \A q \in Paths \ {to} : tree'[q] = tree[q]
      /\ tree'[to] = IF Writable(to) THEN d ELSE tree[to]
  BY <1>1, <1>4 DEF TreeType
<1>6. TreeType(tree')
  BY <1>1, <1>2, <1>4 DEF TreeType
<1>7. Grown
  BY <1>3, <1>5, <1>6 DEF Grown, Writable
<1>8. \A q \in Paths : IsFile(q) => tree'[q] \notin {NULL, Dir}
  BY <1>3, <1>5 DEF IsFile
<1>9. LogInv'
  BY <1>7, <1>8, TreeOnly DEF file_copy, Leaves
<1>10. ASSUME NEW q \in Paths PROVE LeftAsWritten(q)
  <2>1. CASE q = to
    BY <2>1 DEF LeftAsWritten
  <2>2. CASE q # to
    BY <2>2, <1>1, <1>5, Unchanged DEF LeftAsWritten
  <2> QED BY <2>1, <2>2
<1> QED BY <1>9, <1>10 DEF LogStep

\* The two calls that make directories.
LEMMA StepExtends ==
  ASSUME LogInv, Extends(tree'), stream' = stream, Touches
  PROVE  LogStep
<1>1. TreeType(tree) /\ Rooted(tree)
  BY DEF LogInv
<1>2. \A q \in Paths : tree[q] # NULL => tree'[q] = tree[q]
  BY DEF Extends
<1>3. TreeType(tree)' /\ Rooted(tree)'
  BY DEF Extends, TreeType, Rooted, IsDir
<1>4. StreamType' /\ \A p \in Paths : StreamOn(p)' = StreamOn(p)
  BY DEF LogInv, StreamType, StreamOn
<1>5. ASSUME NEW p \in Paths, StreamOn(p)
      PROVE  tree'[p] \notin {NULL, Dir} /\ (~touched' => stream.offset = Len(tree'[p]))
  <2>1. IsFile(p) /\ (~touched => stream.offset = Len(tree[p]))
    BY <1>5 DEF LogInv, StreamAtEnd
  <2>2. ~touched' => ~touched
    BY DEF Touches
  <2> QED BY <2>1, <2>2, <1>2 DEF IsFile
<1>6. StreamAtEnd'
  BY <1>4, <1>5 DEF StreamAtEnd, IsFile
<1>7. ASSUME NEW p \in Paths PROVE LeftAsWritten(p)
  BY <1>1, <1>2, Unchanged DEF LeftAsWritten, IsFile
<1> QED BY <1>3, <1>4, <1>6, <1>7 DEF LogStep, LogInv

\* file_mkdir and file_create_directory.
LEMMA StepMkdir ==
  ASSUME LogInv, NEW p \in Paths, file_mkdir(p) \/ file_create_directory(p), Touches
  PROVE  LogStep
<1>1. TreeType(tree) /\ Rooted(tree)
  BY DEF LogInv
<1>2. stream' = stream
  BY DEF file_mkdir, file_create_directory, Leaves
<1>3. CASE file_mkdir(p)
  <2>1. PICK u : u = Mkdir(tree, p)
    OBVIOUS
  <2>2. Extends(u)
    BY <2>1, <1>1, MkdirIs DEF Extends
  <2>3. tree' = u
    BY <2>1, <1>3 DEF file_mkdir, Leaves
  <2> QED BY <2>2, <2>3, <1>2, StepExtends
<1>4. CASE file_create_directory(p)
  <2>1. Len(p) \in 0 .. Len(p)
    <3>1. Len(p) \in Nat
      BY PathFacts
    <3> QED BY <3>1
  <2>2. PICK u : u = MadeUpTo(p)[Len(p)]
    OBVIOUS
  <2>3. Extends(u)
    BY <2>1, <2>2, <1>1, MadeKeeps
  <2>4. tree' = u
    BY <2>2, <1>4 DEF file_create_directory, Leaves
  <2> QED BY <2>3, <2>4, <1>2, StepExtends
<1> QED BY <1>3, <1>4

\* file_remove: the stream keeps a file that is at no path.
LEMMA StepRemove ==
  ASSUME LogInv, NEW p \in Paths, file_remove(p), Touches
  PROVE  LogStep
<1>1. TreeType(tree) /\ Rooted(tree) /\ tree[p] # Dir
  BY DEF LogInv, file_remove
<1>2. tree' = [tree EXCEPT ![p] = NULL]
  BY DEF file_remove
<1>3. tree'[p] = NULL /\ \A q \in Paths \ {p} : tree'[q] = tree[q]
  BY <1>1, <1>2 DEF TreeType
<1>4. TreeType(tree')
  BY <1>1, <1>2 DEF TreeType
<1>5. Grown
  BY <1>1, <1>3, <1>4 DEF Grown
<1>6. stream' = IF StreamOn(p) THEN [at |-> Gone, offset |-> 0] ELSE stream
  BY DEF file_remove
<1>7. StreamType'
  BY <1>6 DEF StreamType, LogInv
<1>8. ASSUME NEW q \in Paths, StreamOn(q)' PROVE q # p /\ StreamOn(q) /\ stream' = stream
  BY <1>6, <1>8, FilesAssumption DEF StreamOn
<1>9. ASSUME NEW q \in Paths, StreamOn(q)'
      PROVE  tree'[q] \notin {NULL, Dir} /\ (~touched' => stream'.offset = Len(tree'[q]))
  <2>1. q # p /\ StreamOn(q) /\ stream' = stream
    BY <1>8, <1>9
  <2>2. IsFile(q) /\ (~touched => stream.offset = Len(tree[q]))
    BY <2>1 DEF LogInv, StreamAtEnd
  <2>3. ~touched' => ~touched
    BY DEF Touches
  <2>4. tree'[q] = tree[q]
    BY <2>1, <1>3
  <2> QED BY <2>1, <2>2, <2>3, <2>4 DEF IsFile
<1>10. StreamAtEnd'
  BY <1>9 DEF StreamAtEnd, IsFile
<1>11. ASSUME NEW q \in Paths PROVE LeftAsWritten(q)
  <2>1. CASE q = p
    BY <2>1 DEF LeftAsWritten
  <2>2. CASE q # p
    BY <2>2, <1>1, <1>3, Unchanged DEF LeftAsWritten
  <2> QED BY <2>1, <2>2
<1> QED BY <1>5, <1>7, <1>10, <1>11, GrownRooted DEF LogStep, LogInv

\* file_rename: the stream follows its file.
LEMMA StepRename ==
  ASSUME LogInv, NEW p \in Paths, NEW to \in Paths, file_rename(p, to), Touches
  PROVE  LogStep
<1>1. TreeType(tree) /\ Rooted(tree)
  BY DEF LogInv
<1>2. CASE ~(IsFile(p) /\ Writable(to) /\ p # to)
  <2>1. UNCHANGED <<tree, stream>>
    BY <1>2 DEF file_rename, files
  <2>2. ~touched' => ~touched
    BY DEF Touches
  <2> QED BY <2>1, <2>2, SameFiles
<1>3. CASE IsFile(p) /\ Writable(to) /\ p # to
  <2>1. tree' = [tree EXCEPT ![to] = tree[p], ![p] = NULL] /\ stream' = Followed(p, to)
    BY <1>3 DEF file_rename
  <2>2. /\ tree'[to] = tree[p] /\ tree'[p] = NULL
        /\ \A q \in Paths \ {p, to} : tree'[q] = tree[q]
    BY <2>1, <1>1, <1>3 DEF TreeType
  <2>3. TreeType(tree')
    BY <2>1, <1>1 DEF TreeType
  <2>4. Grown
    BY <2>2, <2>3, <1>3 DEF Grown, Writable, IsFile
  <2>5. stream' = IF StreamOn(p) THEN [stream EXCEPT !.at = to]
                  ELSE IF StreamOn(to) THEN [at |-> Gone, offset |-> 0] ELSE stream
    BY <2>1 DEF Followed
  <2>6. StreamType'
    BY <2>5 DEF StreamType, LogInv, StreamOn
  <2>7. ASSUME NEW q \in Paths, StreamOn(q)'
        PROVE  \/ q = to /\ StreamOn(p) /\ stream'.offset = stream.offset
               \/ q \notin {p, to} /\ StreamOn(q) /\ stream' = stream
    <3>1. CASE StreamOn(p)
      <4>1. PICK n \in Nat : stream = [at |-> p, offset |-> n] /\ stream.offset = n
        BY <3>1 DEF LogInv, StreamType, StreamOn
      <4>2. stream' = [at |-> to, offset |-> n] /\ stream'.at = to /\ stream'.offset = n
        BY <3>1, <4>1, <2>5
      <4> QED BY <3>1, <4>1, <4>2, <2>7 DEF StreamOn
    <3>2. CASE ~StreamOn(p)
      BY <3>2, <2>5, <2>7, FilesAssumption DEF StreamOn
    <3> QED BY <3>1, <3>2
  <2>8. ASSUME NEW q \in Paths, StreamOn(q)'
        PROVE  tree'[q] \notin {NULL, Dir} /\ (~touched' => stream'.offset = Len(tree'[q]))
    <3>1. ~touched' => ~touched
      BY DEF Touches
    <3>2. \A x \in Paths : StreamOn(x) => IsFile(x) /\ (~touched => stream.offset = Len(tree[x]))
      BY DEF LogInv, StreamAtEnd
    <3>3. CASE q = to /\ StreamOn(p) /\ stream'.offset = stream.offset
      BY <3>1, <3>2, <3>3, <2>2 DEF IsFile
    <3>4. CASE q \notin {p, to} /\ StreamOn(q) /\ stream' = stream
      <4>1. tree'[q] = tree[q]
        BY <3>4, <2>2
      <4> QED BY <3>1, <3>2, <3>4, <4>1 DEF IsFile
    <3> QED BY <3>3, <3>4, <2>7, <2>8
  <2>9. StreamAtEnd'
    BY <2>8 DEF StreamAtEnd, IsFile
  <2>10. ASSUME NEW q \in Paths PROVE LeftAsWritten(q)
    <3>1. CASE q \in {p, to}
      BY <3>1 DEF LeftAsWritten
    <3>2. CASE q \notin {p, to}
      BY <3>2, <2>2, <1>1, Unchanged DEF LeftAsWritten
    <3> QED BY <3>1, <3>2
  <2> QED BY <2>4, <2>6, <2>9, <2>10, GrownRooted DEF LogStep, LogInv
<1> QED BY <1>2, <1>3

\* Every call of tools.h.
LEMMA StepTools ==
  ASSUME LogInv, Tools
  PROVE  LogStep
<1>1. FilesNext /\ Touches
  BY DEF Tools, Touches
<1>2. ASSUME UNCHANGED <<tree, stream>> PROVE LogStep
  <2>1. ~touched' => ~touched
    BY <1>1 DEF Touches
  <2> QED BY <2>1, <1>2, SameFiles
<1>3. ASSUME NEW p \in Paths, NEW given \in BOOLEAN, file_write(p, given) PROVE LogStep
  BY <1>1, <1>3, StepWrite
<1>4. ASSUME NEW p \in Paths, file_read(p) PROVE LogStep
  BY <1>2, <1>4 DEF file_read
<1>5. ASSUME NEW p \in Paths, file_remove(p) PROVE LogStep
  BY <1>1, <1>5, StepRemove
<1>6. ASSUME NEW p \in Paths, file_mkdir(p) \/ file_create_directory(p) PROVE LogStep
  BY <1>1, <1>6, StepMkdir
<1>7. ASSUME NEW p \in Paths, NEW to \in Paths, file_copy(p, to) PROVE LogStep
  BY <1>1, <1>7, StepCopy
<1>8. ASSUME NEW p \in Paths, NEW to \in Paths, file_rename(p, to) PROVE LogStep
  BY <1>1, <1>8, StepRename
<1>9. ASSUME tools_set_env PROVE LogStep
  BY <1>2, <1>9 DEF tools_set_env
<1> QED BY <1>1, <1>3, <1>4, <1>5, <1>6, <1>7, <1>8, <1>9 DEF FilesNext

\* Every action of the program.
LEMMA LogNextKeeps == LogInv /\ [LogNext]_logVars => LogStep
<1> SUFFICES ASSUME LogInv, [LogNext]_logVars PROVE LogStep
  OBVIOUS
<1>1. ASSUME NEW q \in BOOLEAN, log_set_quiet(q) PROVE LogStep
  BY <1>1, SameFiles DEF log_set_quiet, files
<1>2. ASSUME NEW l \in Levels, log_set_level(l) PROVE LogStep
  BY <1>2, SameFiles DEF log_set_level, files
<1>3. ASSUME NEW p \in Paths \cup {NULL}, log_set_file(p) PROVE LogStep
  BY <1>3, StepSetFile
<1>4. ASSUME NEW l \in Levels, NEW args \in BOOLEAN, __pct_log(l, args) PROVE LogStep
  BY <1>4, StepLog
<1>5. CASE UNCHANGED logVars
  BY <1>5, SameFiles DEF logVars, files
<1> QED BY <1>1, <1>2, <1>3, <1>4, <1>5, StepTools DEF LogNext

(* What is in a file stays there unless a call says otherwise, calls that   *)
(* report success did what they say, and the log's stream is at the end of  *)
(* its file until another call writes there (tools.h, log.h).               *)
THEOREM FilesCorrect == LogSpec => FilesAgree
<1>1. LogInit => LogInv
  <2> SUFFICES ASSUME LogInit PROVE LogInv
    OBVIOUS
  <2>1. TreeType(tree) /\ Rooted(tree)
    BY DEF LogInit, FilesInit, TreeType, Rooted
  <2> QED BY <2>1 DEF LogInit, FilesInit, LogInv, StreamType, StreamAtEnd, StreamOn
<1>2. LogInv /\ [LogNext]_logVars => LogInv' /\ [FilesStep]_logVars
  <2> SUFFICES ASSUME LogInv, [LogNext]_logVars PROVE LogInv' /\ FilesStep
    OBVIOUS
  <2>1. LogInv' /\ \A p \in Paths : LeftAsWritten(p)
    BY LogNextKeeps DEF LogStep
  <2>2. WrittenKept /\ StreamAtEnd'
    BY <2>1, WrittenAll DEF LogInv
  <2> QED BY <2>1, <2>2, CopyOK, CreateOK DEF FilesStep
<1> QED BY <1>1, <1>2, PTL DEF LogSpec, FilesAgree

----------------------------------------------------------------------------
(* The command line.                                                        *)

Params == [type : Types, letter : {p[2] : p \in ParamsGiven}, name : {p[3] : p \in ParamsGiven},
           ptr : {p[4] : p \in ParamsGiven}, found : BOOLEAN]
Commands == [letter : {c[1] : c \in CommandsGiven}, name : {c[2] : c \in CommandsGiven},
             found : BOOLEAN, params : Seq(Params)]

\* The parameters of a command without what a run notes in them.
Bare(ps) ==
  [k \in 1 .. Len(ps) |->
     [type |-> ps[k].type, letter |-> ps[k].letter, name |-> ps[k].name, ptr |-> ps[k].ptr]]

(* What an argument means to the parameters d.                              *)
Meant(d, a) == FirstOf({k \in DOMAIN d : Named(d[k], _cargs_get_tag_value(a).name)})
Wants(d, a) ==
  IsTag(a) /\ Meant(d, a) # 0 /\ ~_cargs_get_tag_value(a).eq /\ d[Meant(d, a)].type # "boolean"
Given(d, v, k) ==
  LET t == _cargs_get_tag_value(v[k])
  IN IF t.eq THEN t.value ELSE IF Wants(d, v[k]) THEN ArgText(v[k + 1]) ELSE "true"
Parse(d, v, k) == ParsedText(d[Meant(d, v[k])].type, Given(d, v, k))
Error(d, v, k) ==
  IF Meant(d, v[k]) = 0 THEN "UNKNOWN_PARAM"
  ELSE IF Wants(d, v[k]) /\ k = Len(v) THEN "MISSING_VALUE"
  ELSE Parse(d, v, k).err

\* f tells which of the first n arguments are values.
Marks(d, v, n, f) == f = [k \in 1 .. n |-> k > 2 /\ ~f[k - 1] /\ Wants(d, v[k - 1])]

TagAt(v, f, k) == k \in 2 .. Len(v) /\ ~f[k] /\ IsTag(v[k])
EndAt(v, f, k) == ~f[k] /\ _cargs_is_end_tag(v[k])
StopAt(d, v, f, k) ==
  k \in 2 .. Len(v) /\ (EndAt(v, f, k) \/ (TagAt(v, f, k) /\ Error(d, v, k) # "OK"))

\* What the arguments before n have stored for a variable.
Before(d, v, f, n, ptr) ==
  {k \in 2 .. Len(v) : TagAt(v, f, k) /\ k < n /\ d[Meant(d, v[k])].ptr = ptr}
StoredUpTo(d, v, f, n, x) ==
  \A ptr \in DOMAIN x :
    x[ptr] = IF Before(d, v, f, n, ptr) = {} THEN Initial[ptr]
             ELSE Parse(d, v, LastOf(Before(d, v, f, n, ptr))).value

\* The walk is at n: nothing before it has stopped it.
Walking(d, v, f, n, x) ==
  /\ Marks(d, v, Len(v), f)
  /\ n \in 2 .. Len(v) + 1
  /\ n <= Len(v) => ~f[n]
  /\ \A k \in 2 .. n - 1 : ~StopAt(d, v, f, k)
  /\ StoredUpTo(d, v, f, n, x)

----------------------------------------------------------------------------
\* It is decided for any number of arguments: from the least for which it were not.
LEMMA MarksExist ==
  ASSUME NEW d, NEW v, NEW n \in Nat
  PROVE  \E f : Marks(d, v, n, f)
<1> DEFINE S == {k \in Nat : ~ \E f : Marks(d, v, k, f)}
<1>1. SUFFICES ASSUME S # {} PROVE FALSE
  OBVIOUS
<1>2. PICK k \in S : \A j \in S : k <= j
  <2>1. S \in SUBSET Nat
    OBVIOUS
  <2> HIDE DEF S
  <2> QED BY <1>1, <2>1, Least
<1>3. k \in Nat /\ ~ \E f : Marks(d, v, k, f)
  OBVIOUS
<1>4. k # 0
  <2>1. Marks(d, v, 0, [i \in 1 .. 0 |-> FALSE])
    BY DEF Marks
  <2> QED BY <1>3, <2>1
<1>5. PICK j \in Nat : k = j + 1
  <2>1. k - 1 \in Nat /\ k = (k - 1) + 1
    BY <1>3, <1>4
  <2> QED BY <2>1
<1>6. PICK g : Marks(d, v, j, g)
  BY <1>2, <1>5
<1> DEFINE h == [i \in 1 .. k |-> i > 2 /\ ~g[i - 1] /\ Wants(d, v[i - 1])]
<1>7. \A i \in 1 .. j : h[i] = g[i]
  <2>1. \A i \in 1 .. j : i \in 1 .. k
    BY <1>5
  <2>2. \A i \in 1 .. j : h[i] = (i > 2 /\ ~g[i - 1] /\ Wants(d, v[i - 1]))
    BY <2>1
  <2>3. \A i \in 1 .. j : g[i] = (i > 2 /\ ~g[i - 1] /\ Wants(d, v[i - 1]))
    BY <1>6 DEF Marks
  <2> QED BY <2>2, <2>3
<1>8. \A i \in 1 .. k : i > 2 => i - 1 \in 1 .. j
  BY <1>5
<1>9. h = [i \in 1 .. k |-> i > 2 /\ ~h[i - 1] /\ Wants(d, v[i - 1])]
  <2>1. \A i \in 1 .. k : (i > 2 /\ ~g[i - 1] /\ Wants(d, v[i - 1]))
                        = (i > 2 /\ ~h[i - 1] /\ Wants(d, v[i - 1]))
    BY <1>7, <1>8
  <2>2. h = [i \in 1 .. k |-> i > 2 /\ ~g[i - 1] /\ Wants(d, v[i - 1])]
    OBVIOUS
  <2> HIDE DEF h
  <2> QED BY <2>1, <2>2
<1> HIDE DEF h
<1>10. Marks(d, v, k, h)
  BY <1>9 DEF Marks
<1> QED BY <1>3, <1>10

\* And only in one way: at the least place where two differed, they agreed before.
LEMMA MarksAgree ==
  ASSUME NEW d, NEW v, NEW n \in Nat, NEW f, NEW g, Marks(d, v, n, f), Marks(d, v, n, g)
  PROVE  f = g
<1> DEFINE S == {k \in 1 .. n : f[k] # g[k]}
<1>1. SUFFICES S = {}
  <2>1. f = [k \in 1 .. n |-> f[k]] /\ g = [k \in 1 .. n |-> g[k]]
    BY DEF Marks
  <2>2. ASSUME S = {} PROVE \A k \in 1 .. n : f[k] = g[k]
    BY <2>2
  <2> HIDE DEF S
  <2> QED BY <2>1, <2>2
<1>2. SUFFICES ASSUME S # {} PROVE FALSE
  OBVIOUS
<1>3. PICK k \in S : \A j \in S : k <= j
  <2>1. S \in SUBSET Nat
    OBVIOUS
  <2> HIDE DEF S
  <2> QED BY <1>2, <2>1, Least
<1>4. /\ f[k] = (k > 2 /\ ~f[k - 1] /\ Wants(d, v[k - 1]))
      /\ g[k] = (k > 2 /\ ~g[k - 1] /\ Wants(d, v[k - 1]))
  BY DEF Marks
<1>5. k \in 1 .. n /\ f[k] # g[k]
  OBVIOUS
<1>6. k > 2 => f[k - 1] = g[k - 1]
  <2>1. ASSUME k > 2 PROVE k - 1 \in 1 .. n /\ ~(k <= k - 1)
    BY <1>5, <2>1
  <2>2. ASSUME k > 2 PROVE k - 1 \notin S
    BY <1>3, <2>1, <2>2
  <2> QED BY <2>1, <2>2
<1> QED BY <1>4, <1>5, <1>6

\* How one of them is decided.
LEMMA MarksAre ==
  ASSUME NEW d, NEW v, NEW n \in Nat, NEW f, Marks(d, v, n, f), NEW k \in 1 .. n
  PROVE  f[k] = (k > 2 /\ ~f[k - 1] /\ Wants(d, v[k - 1]))
BY DEF Marks

----------------------------------------------------------------------------
\* An end tag is no other tag.
LEMMA EndIsNoTag ==
  ASSUME NEW a, _cargs_is_end_tag(a)
  PROVE  ~IsTag(a)
BY DEF _cargs_is_end_tag, IsTag, _cargs_is_letter_tag, _cargs_is_name_tag

\* The first of a set of places.
LEMMA FirstIs ==
  ASSUME NEW S \in SUBSET Nat, NEW n \in S, \A k \in S : n <= k
  PROVE  FirstOf(S) = n
<1>1. \A k \in S : (\A j \in S : k <= j) => k = n
  OBVIOUS
<1> QED BY <1>1 DEF FirstOf

\* It is one of them, or there is none.
LEMMA FirstIn ==
  ASSUME NEW S \in SUBSET (Nat \ {0})
  PROVE  (S = {} => FirstOf(S) = 0) /\ (S # {} => FirstOf(S) \in S)
<1>1. ASSUME S # {} PROVE \E x \in S : \A y \in S : x <= y
  <2>1. S \in SUBSET Nat
    OBVIOUS
  <2> QED BY <1>1, <2>1, Least
<1> QED BY <1>1 DEF FirstOf

\* The last of a set of places.
LEMMA LastIs ==
  ASSUME NEW S \in SUBSET Nat, NEW n \in S, \A k \in S : k <= n
  PROVE  LastOf(S) = n
<1>1. \A k \in S : (\A j \in S : j <= k) => k = n
  OBVIOUS
<1> QED BY <1>1 DEF LastOf

\* The walk begins behind the command, with the variables as they were.
LEMMA WalkStarts ==
  ASSUME NEW d, NEW v, Len(v) \in Nat \ {0}, NEW f, Marks(d, v, Len(v), f)
  PROVE  Walking(d, v, f, 2, Initial)
<1>1. 2 <= Len(v) => ~f[2]
  <2>1. SUFFICES ASSUME 2 <= Len(v) PROVE ~f[2]
    OBVIOUS
  <2>2. PICK m \in 1 .. Len(v) : m = 2
    BY <2>1
  <2>3. f[m] = (m > 2 /\ ~f[m - 1] /\ Wants(d, v[m - 1]))
    BY MarksAre
  <2>4. ~(m > 2)
    BY <2>2
  <2> QED BY <2>2, <2>3, <2>4
<1>2. \A ptr : Before(d, v, f, 2, ptr) = {}
  BY DEF Before
<1>3. StoredUpTo(d, v, f, 2, Initial)
  BY <1>2 DEF StoredUpTo
<1> QED BY <1>1, <1>3 DEF Walking

\* It passes over what is a value, or neither a tag nor the end.
LEMMA WalkOver ==
  ASSUME NEW d, NEW v, Len(v) \in Nat, NEW f, NEW n \in 2 .. Len(v), NEW x,
         Marks(d, v, Len(v), f), f[n] \/ ~(IsTag(v[n]) \/ _cargs_is_end_tag(v[n])),
         \A k \in 2 .. n - 1 : ~StopAt(d, v, f, k), StoredUpTo(d, v, f, n, x)
  PROVE  Walking(d, v, f, n + 1, x)
<1>1. n \in 1 .. Len(v) /\ n + 1 \in 2 .. Len(v) + 1
  OBVIOUS
<1>2. n + 1 <= Len(v) => ~f[n + 1]
  <2>1. SUFFICES ASSUME n + 1 <= Len(v) PROVE ~f[n + 1]
    OBVIOUS
  <2>2. PICK m : m = n + 1
    OBVIOUS
  <2>3. m \in 1 .. Len(v) /\ m - 1 = n
    BY <2>1, <2>2
  <2>4. f[m] = (m > 2 /\ ~f[m - 1] /\ Wants(d, v[m - 1]))
    BY <2>3, MarksAre
  <2> QED BY <2>2, <2>3, <2>4 DEF Wants
<1>3. ~TagAt(v, f, n) /\ ~StopAt(d, v, f, n)
  BY DEF TagAt, StopAt, EndAt
<1>4. \A k \in 2 .. (n + 1) - 1 : ~StopAt(d, v, f, k)
  <2>1. \A k \in 2 .. (n + 1) - 1 : k \in 2 .. n - 1 \/ k = n
    OBVIOUS
  <2> QED BY <1>3, <2>1
<1>5. ASSUME NEW ptr PROVE Before(d, v, f, n + 1, ptr) = Before(d, v, f, n, ptr)
  <2>1. \A k \in 2 .. Len(v) : k < n + 1 <=> k < n \/ k = n
    OBVIOUS
  <2> QED BY <1>3, <2>1 DEF Before
<1>6. StoredUpTo(d, v, f, n + 1, x)
  BY <1>5 DEF StoredUpTo
<1> QED BY <1>1, <1>2, <1>4, <1>6 DEF Walking

\* A text that no tag asks for is skipped.
LEMMA WalkSkips ==
  ASSUME NEW d, NEW v, Len(v) \in Nat, NEW f, NEW n \in 2 .. Len(v), NEW x,
         Walking(d, v, f, n, x), ~IsTag(v[n]), ~_cargs_is_end_tag(v[n])
  PROVE  Walking(d, v, f, n + 1, x)
BY WalkOver DEF Walking

\* It stores the value of a tag, and goes on behind the value.
LEMMA WalkStores ==
  ASSUME NEW d, NEW v, Len(v) \in Nat, NEW f, NEW n \in 2 .. Len(v), NEW x,
         Walking(d, v, f, n, x), IsTag(v[n]), Error(d, v, n) = "OK", NEW y,
         y = [x EXCEPT ![d[Meant(d, v[n])].ptr] = Parse(d, v, n).value]
  PROVE  Walking(d, v, f, IF Wants(d, v[n]) THEN n + 2 ELSE n + 1, y)
<1> DEFINE p == d[Meant(d, v[n])].ptr
<1>1. ~f[n] /\ Marks(d, v, Len(v), f) /\ \A k \in 2 .. n - 1 : ~StopAt(d, v, f, k)
  BY DEF Walking
<1>2. TagAt(v, f, n) /\ ~StopAt(d, v, f, n)
  BY <1>1, EndIsNoTag DEF TagAt, StopAt, EndAt
<1>3. \A k \in 2 .. (n + 1) - 1 : ~StopAt(d, v, f, k)
  <2>1. \A k \in 2 .. (n + 1) - 1 : k \in 2 .. n - 1 \/ k = n
    OBVIOUS
  <2> QED BY <1>1, <1>2, <2>1
<1>4. ASSUME NEW ptr, ptr # p PROVE Before(d, v, f, n + 1, ptr) = Before(d, v, f, n, ptr)
  <2>1. \A k \in 2 .. Len(v) : k < n + 1 <=> k < n \/ k = n
    OBVIOUS
  <2> QED BY <1>4, <2>1 DEF Before
<1>5. Before(d, v, f, n + 1, p) # {} /\ LastOf(Before(d, v, f, n + 1, p)) = n
  <2>1. n \in Before(d, v, f, n + 1, p)
    BY <1>2 DEF Before
  <2>2. Before(d, v, f, n + 1, p) \in SUBSET Nat /\ \A k \in Before(d, v, f, n + 1, p) : k <= n
    BY DEF Before
  <2>3. PICK S : S = Before(d, v, f, n + 1, p)
    OBVIOUS
  <2>4. S \in SUBSET Nat /\ n \in S /\ \A k \in S : k <= n
    BY <2>1, <2>2, <2>3
  <2>5. LastOf(S) = n
    BY <2>4, LastIs
  <2> QED BY <2>3, <2>4, <2>5
<1>6. StoredUpTo(d, v, f, n + 1, y)
  <2>1. SUFFICES ASSUME NEW ptr \in DOMAIN y PROVE
          y[ptr] = IF Before(d, v, f, n + 1, ptr) = {} THEN Initial[ptr]
                   ELSE Parse(d, v, LastOf(Before(d, v, f, n + 1, ptr))).value
    BY DEF StoredUpTo
  <2>2. DOMAIN y = DOMAIN x
    OBVIOUS
  <2>3. CASE ptr = p
    <3>1. y[ptr] = Parse(d, v, n).value
      BY <2>2, <2>3
    <3> QED BY <1>5, <2>3, <3>1
  <2>4. CASE ptr # p
    <3>1. y[ptr] = x[ptr]
      BY <2>2, <2>4
    <3>2. x[ptr] = IF Before(d, v, f, n, ptr) = {} THEN Initial[ptr]
                   ELSE Parse(d, v, LastOf(Before(d, v, f, n, ptr))).value
      BY <2>2 DEF Walking, StoredUpTo
    <3> QED BY <1>4, <2>4, <3>1, <3>2
  <2> QED BY <2>3, <2>4
<1>7. PICK m : m = n + 1
  OBVIOUS
<1>8. m \in 2 .. Len(v) + 1 /\ m - 1 = n /\ m > 2
  BY <1>7
<1>9. m <= Len(v) => f[m] = Wants(d, v[n])
  <2>1. SUFFICES ASSUME m <= Len(v) PROVE f[m] = Wants(d, v[n])
    OBVIOUS
  <2>2. m \in 1 .. Len(v)
    BY <1>8, <2>1
  <2>3. f[m] = (m > 2 /\ ~f[m - 1] /\ Wants(d, v[m - 1]))
    BY <1>1, <2>2, MarksAre
  <2>4. Wants(d, v[n]) \in BOOLEAN
    BY DEF Wants
  <2> QED BY <1>1, <1>8, <2>3, <2>4
<1>10. CASE ~Wants(d, v[n])
  <2>1. Walking(d, v, f, m, y)
    BY <1>1, <1>3, <1>6, <1>7, <1>8, <1>9, <1>10 DEF Walking
  <2> QED BY <1>7, <1>10, <2>1
<1>11. CASE Wants(d, v[n])
  <2>1. n # Len(v)
    <3>1. Meant(d, v[n]) # 0
      BY <1>11 DEF Wants
    <3> QED BY <1>11, <3>1 DEF Error
  <2>2. m \in 2 .. Len(v) /\ m + 1 = n + 2
    BY <1>7, <2>1
  <2>3. f[m]
    <3>1. m <= Len(v)
      BY <2>2
    <3>2. f[m] = Wants(d, v[n])
      BY <1>9, <3>1
    <3> QED BY <1>11, <3>2, Zenon
  <2>4. StoredUpTo(d, v, f, m, y) /\ \A k \in 2 .. m - 1 : ~StopAt(d, v, f, k)
    BY <1>3, <1>6, <1>7
  <2>5. Walking(d, v, f, m + 1, y)
    BY <1>1, <2>2, <2>3, <2>4, WalkOver
  <2> QED BY <1>11, <2>2, <2>5
<1> QED BY <1>10, <1>11

----------------------------------------------------------------------------
\* What a required parameter without a value is: one that was found.
Required(ps, x) ==
  \A p \in 1 .. Len(ps) : ps[p].type # "boolean" /\ x[ps[p].ptr] = REQUIRE => ps[p].found

\* How a run ends: at the argument that stops the walk, or behind the last.
EndsAt(d, v, f, n, c) ==
  StopAt(d, v, f, n) /\ c = IF EndAt(v, f, n) THEN "OK" ELSE Error(d, v, n)
EndsBehind(ps, v, n, x, c) ==
  n = Len(v) + 1 /\ c \in {"OK", "MISSING_PARAM"} /\ (c = "OK" => Required(ps, x))
Outcome(ps, v, n, x, c, e) ==
  /\ \E f : /\ Walking(Bare(ps), v, f, n, x)
            /\ EndsAt(Bare(ps), v, f, n, c) \/ EndsBehind(ps, v, n, x, c)
  /\ (e = Nothing) <=> (c = "UNKNOWN_PARAM")

Walks(ps, v, n, x) == \E f : Walking(Bare(ps), v, f, n, x)

RunInv ==
  LET ps == list[selected].params
  IN /\ selected \in 1 .. Len(list)
     /\ \A c \in 1 .. Len(list) : list[c].found <=> c = selected
     /\ phase # "done" => extra \in {"text", "param"}
     /\ phase = "loop" => Walks(ps, argv, index, variables)
     /\ phase = "check" /\ ps # <<>> => Walks(ps, argv, Len(argv) + 1, variables)
     /\ phase = "done" /\ ps # <<>> => \E n : Outcome(ps, argv, n, variables, code, extra)

CargsInv ==
  /\ list \in Seq(Commands) /\ argv \in Seq(Args)
  /\ phase \in {"declare", "select", "assert"} =>
       /\ selected = 0 /\ variables = Initial /\ extra = Nothing
       /\ \A c \in 1 .. Len(list) : ~list[c].found
  /\ phase \in {"loop", "check"} => selected # 0
  /\ phase \in {"loop", "check", "done"} /\ selected # 0 => RunInv

----------------------------------------------------------------------------
\* The parameters of a command, with and without what was noted in them.
LEMMA BareIs ==
  ASSUME NEW ps \in Seq(Params)
  PROVE  /\ Len(ps) \in Nat /\ DOMAIN Bare(ps) = 1 .. Len(ps)
         /\ \A k \in 1 .. Len(ps) :
              /\ ps[k] \in Params
              /\ Bare(ps)[k].type = ps[k].type /\ Bare(ps)[k].letter = ps[k].letter
              /\ Bare(ps)[k].name = ps[k].name /\ Bare(ps)[k].ptr = ps[k].ptr
<1>1. Len(ps) \in Nat /\ \A k \in 1 .. Len(ps) : ps[k] \in Params
  BY LenProperties, ElementOfSeq
<1> QED BY <1>1 DEF Bare

\* Which parameter an argument means: 0, or one of them.
LEMMA MeantIs ==
  ASSUME NEW ps \in Seq(Params), NEW a
  PROVE  /\ Meant(Bare(ps), a) = FirstOf({k \in 1 .. Len(ps) : Named(ps[k], _cargs_get_tag_value(a).name)})
         /\ Meant(Bare(ps), a) = 0 \/ Meant(Bare(ps), a) \in 1 .. Len(ps)
<1>1. PICK t : t = _cargs_get_tag_value(a).name
  OBVIOUS
<1>2. PICK d : d = Bare(ps)
  OBVIOUS
<1>3. PICK n \in Nat : n = Len(ps)
  BY BareIs
<1>4. \A k \in 1 .. n : Named(d[k], t) <=> Named(ps[k], t)
  BY <1>2, <1>3, BareIs DEF Named
<1>5. PICK S : S = {k \in 1 .. n : Named(ps[k], t)}
  OBVIOUS
<1>6. S = {k \in DOMAIN d : Named(d[k], t)}
  BY <1>2, <1>3, <1>4, <1>5, BareIs
<1>7. Meant(d, a) = FirstOf(S)
  BY <1>1, <1>6 DEF Meant
<1>8. S \in SUBSET (Nat \ {0}) /\ S \in SUBSET (1 .. n)
  BY <1>5
<1>9. FirstOf(S) = 0 \/ FirstOf(S) \in S
  BY <1>8, FirstIn
<1> QED BY <1>1, <1>2, <1>3, <1>5, <1>7, <1>8, <1>9

\* The commands of the list.
LEMMA ListIs ==
  ASSUME list \in Seq(Commands)
  PROVE  /\ Len(list) \in Nat
         /\ \A c \in 1 .. Len(list) : list[c] \in Commands /\ list[c].params \in Seq(Params)
<1>1. Len(list) \in Nat /\ \A c \in 1 .. Len(list) : list[c] \in Commands
  BY LenProperties, ElementOfSeq
<1> QED BY <1>1 DEF Commands

\* What _cargs_parse reports.
LEMMA ParsedIs ==
  ASSUME NEW type \in Types, NEW t
  PROVE  ParsedText(type, t).err \in {"OK", "INVALID_VALUE", "MISSING_VALUE"}
<1>1. CASE type = "boolean"
  BY <1>1 DEF ParsedText
<1>2. CASE type \in {"integer", "number"}
  BY <1>2 DEF ParsedText
<1>3. CASE type = "string"
  BY <1>3 DEF ParsedText
<1> QED BY <1>1, <1>2, <1>3 DEF Types

----------------------------------------------------------------------------
\* The meaning of the command line as the property states it.
LEMMA MeaningIs ==
  ASSUME list \in Seq(Commands), selected \in 1 .. Len(list), argv \in Seq(Args),
         NEW d, d = Bare(list[selected].params), NEW f, Marks(d, argv, Len(argv), f)
  PROVE  /\ \A a : ParamOf(a) = Meant(d, a) /\ (NeedsValue(a) <=> Wants(d, a))
         /\ IsValue = f
         /\ \A a : ParamOf(a) # 0 => TypeOf(a) = d[Meant(d, a)].type
<1>1. PICK ps : ps = list[selected].params
  OBVIOUS
<1>2. ps \in Seq(Params) /\ d = Bare(ps)
  BY <1>1, ListIs
<1>3. ASSUME NEW a
      PROVE  /\ ParamOf(a) = Meant(d, a)
             /\ ParamOf(a) # 0 => TypeOf(a) = d[Meant(d, a)].type
  <2>1. ParamOf(a) = FirstOf({k \in 1 .. Len(ps) : Named(ps[k], _cargs_get_tag_value(a).name)})
    BY <1>1 DEF ParamOf, _cargs_find_param
  <2>2. ParamOf(a) = Meant(d, a) /\ (ParamOf(a) = 0 \/ ParamOf(a) \in 1 .. Len(ps))
    BY <1>2, <2>1, MeantIs
  <2>3. TypeOf(a) = ps[ParamOf(a)].type
    BY <1>1 DEF TypeOf
  <2> QED BY <1>2, <2>2, <2>3, BareIs
<1>4. ASSUME NEW a PROVE NeedsValue(a) <=> Wants(d, a)
  BY <1>3 DEF NeedsValue, Wants
<1>5. PICK n \in Nat : n = Len(argv)
  BY LenProperties
<1> DEFINE E(g) == g = [k \in 1 .. Len(argv) |-> k > 2 /\ ~g[k - 1] /\ NeedsValue(argv[k - 1])]
<1>6. ASSUME NEW g PROVE E(g) <=> Marks(d, argv, n, g)
  <2>1. \A k \in 1 .. n : (k > 2 /\ ~g[k - 1] /\ NeedsValue(argv[k - 1]))
                        = (k > 2 /\ ~g[k - 1] /\ Wants(d, argv[k - 1]))
    BY <1>4
  <2> QED BY <1>5, <2>1 DEF Marks
<1>7. PICK g : g = CHOOSE h : E(h)
  OBVIOUS
<1>8. IsValue = g
  BY <1>7 DEF IsValue
<1>9. E(f)
  BY <1>5, <1>6
<1>10. E(g)
  BY <1>7, <1>9
<1>11. g = f
  BY <1>5, <1>6, <1>10, MarksAgree
<1> QED BY <1>3, <1>4, <1>8, <1>11

\* It is one of them.
LEMMA LastIn ==
  ASSUME NEW n \in Nat, NEW S \in SUBSET (0 .. n), S # {}
  PROVE  LastOf(S) \in S
<1>1. \E x \in S : \A y \in S : y <= x
  BY Greatest
<1> QED BY <1>1 DEF LastOf

\* The arguments as the property reads them.
LEMMA ReadingIs ==
  ASSUME list \in Seq(Commands), selected \in 1 .. Len(list), argv \in Seq(Args),
         NEW d, d = Bare(list[selected].params), NEW f, Marks(d, argv, Len(argv), f),
         NEW k \in 2 .. Len(argv)
  PROVE  /\ k \in Tags <=> TagAt(argv, f, k)
         /\ Ending(k) <=> EndAt(argv, f, k)
         /\ Failure(k) = Error(d, argv, k)
         /\ k \in Stops <=> StopAt(d, argv, f, k)
         /\ ParamOf(argv[k]) # 0 => ParsedText(TypeOf(argv[k]), TextOf(k)) = Parse(d, argv, k)
         /\ ParamOf(argv[k]) = 0 => Failure(k) = "UNKNOWN_PARAM"
<1>1. /\ \A a : ParamOf(a) = Meant(d, a) /\ (NeedsValue(a) <=> Wants(d, a))
      /\ IsValue = f
      /\ \A a : ParamOf(a) # 0 => TypeOf(a) = d[Meant(d, a)].type
  BY MeaningIs
<1>2. k \in Tags <=> TagAt(argv, f, k)
  BY <1>1 DEF Tags, TagAt
<1>3. Ending(k) <=> EndAt(argv, f, k)
  BY <1>1 DEF Ending, EndAt
<1>4. TextOf(k) = Given(d, argv, k)
  BY <1>1 DEF TextOf, Given
<1>5. ParamOf(argv[k]) # 0 => ParsedText(TypeOf(argv[k]), TextOf(k)) = Parse(d, argv, k)
  BY <1>1, <1>4 DEF Parse
<1>6. Failure(k) = Error(d, argv, k)
  <2>1. CASE ParamOf(argv[k]) = 0
    BY <1>1, <2>1 DEF Failure, Error
  <2>2. CASE ParamOf(argv[k]) # 0
    BY <1>1, <1>5, <2>2 DEF Failure, Error
  <2> QED BY <2>1, <2>2
<1>7. k \in Stops <=> StopAt(d, argv, f, k)
  BY <1>2, <1>3, <1>6 DEF Stops, StopAt
<1>8. ParamOf(argv[k]) = 0 => Failure(k) = "UNKNOWN_PARAM"
  BY DEF Failure
<1> QED BY <1>2, <1>3, <1>5, <1>6, <1>7, <1>8

\* At the end of the walk, the property.
LEMMA AgreesAtEnd == CargsInv => RunAgrees
<1> SUFFICES ASSUME CargsInv, phase = "done", selected # 0, list[selected].params # <<>>
             PROVE  RunAgrees
  BY DEF RunAgrees
<1>1. PICK ps : ps = list[selected].params
  OBVIOUS
<1>2. /\ list \in Seq(Commands) /\ argv \in Seq(Args) /\ selected \in 1 .. Len(list)
      /\ \A c \in 1 .. Len(list) : list[c].found <=> c = selected
      /\ \E n : Outcome(ps, argv, n, variables, code, extra)
  BY <1>1 DEF CargsInv, RunInv
<1>3. PICK n : Outcome(ps, argv, n, variables, code, extra)
  BY <1>2
<1>4. PICK d : d = Bare(ps)
  OBVIOUS
<1>5. PICK f : /\ Walking(d, argv, f, n, variables)
               /\ EndsAt(d, argv, f, n, code) \/ EndsBehind(ps, argv, n, variables, code)
  BY <1>3, <1>4 DEF Outcome
<1>6. (extra = Nothing) <=> (code = "UNKNOWN_PARAM")
  BY <1>3 DEF Outcome
<1>7. PICK l \in Nat : l = Len(argv)
  BY <1>2, LenProperties
<1>8. /\ Marks(d, argv, Len(argv), f) /\ n \in 2 .. l + 1
      /\ \A k \in 2 .. n - 1 : ~StopAt(d, argv, f, k)
      /\ StoredUpTo(d, argv, f, n, variables)
  BY <1>5, <1>7 DEF Walking
<1>9. \A k \in 2 .. l :
        /\ k \in Tags <=> TagAt(argv, f, k)
        /\ Ending(k) <=> EndAt(argv, f, k)
        /\ Failure(k) = Error(d, argv, k)
        /\ k \in Stops <=> StopAt(d, argv, f, k)
        /\ ParamOf(argv[k]) # 0 => ParsedText(TypeOf(argv[k]), TextOf(k)) = Parse(d, argv, k)
        /\ ParamOf(argv[k]) = 0 => Failure(k) = "UNKNOWN_PARAM"
  BY <1>1, <1>2, <1>4, <1>7, <1>8, ReadingIs
<1>10. Stops \in SUBSET (2 .. l) /\ Tags \in SUBSET (2 .. l)
  BY <1>7 DEF Stops, Tags
<1>11. \A s \in Stops : n <= s
  <2> SUFFICES ASSUME NEW s \in Stops PROVE n <= s
    OBVIOUS
  <2>1. s \in 2 .. l /\ StopAt(d, argv, f, s)
    BY <1>9, <1>10
  <2>2. s \notin 2 .. n - 1
    BY <1>8, <2>1
  <2> QED BY <1>8, <2>1, <2>2
<1>12. /\ Stops # {} => n \in Stops /\ code = IF Ending(n) THEN "OK" ELSE Failure(n)
       /\ Stops = {} => EndsBehind(ps, argv, n, variables, code)
  <2>1. CASE EndsAt(d, argv, f, n, code)
    <3>1. n \in 2 .. l /\ StopAt(d, argv, f, n)
      BY <1>7, <2>1 DEF EndsAt, StopAt
    <3>2. n \in Stops
      BY <1>9, <3>1
    <3>3. code = IF Ending(n) THEN "OK" ELSE Failure(n)
      BY <1>9, <2>1, <3>1 DEF EndsAt
    <3> QED BY <3>2, <3>3
  <2>2. CASE EndsBehind(ps, argv, n, variables, code)
    <3>1. n = l + 1
      BY <1>7, <2>2 DEF EndsBehind
    <3>2. Stops = {}
      BY <1>10, <1>11, <3>1
    <3> QED BY <2>2, <3>2
  <2> QED BY <1>5, <2>1, <2>2
<1>13. Stops # {} => FirstOf(Stops) = n
  <2>1. Stops \in SUBSET Nat
    BY <1>10
  <2> QED BY <1>11, <1>12, <2>1, FirstIs
<1>14. \A k \in 2 .. l : k < n <=> \A s \in Stops : k < s
  <2> SUFFICES ASSUME NEW k \in 2 .. l PROVE k < n <=> \A s \in Stops : k < s
    OBVIOUS
  <2>1. k < n => \A s \in Stops : k < s
    BY <1>8, <1>10, <1>11
  <2>2. Stops # {} => ((\A s \in Stops : k < s) => k < n)
    BY <1>12
  <2>3. Stops = {} => k < n
    BY <1>7, <1>12 DEF EndsBehind
  <2> QED BY <2>1, <2>2, <2>3
<1>15. \A k \in 2 .. l : TagAt(argv, f, k) /\ k < n => ParamOf(argv[k]) # 0
  <2> SUFFICES ASSUME NEW k \in 2 .. l, TagAt(argv, f, k), k < n PROVE ParamOf(argv[k]) # 0
    OBVIOUS
  <2>1. k \in 2 .. n - 1
    BY <1>8
  <2>2. ~StopAt(d, argv, f, k)
    BY <1>8, <2>1
  <2>3. Error(d, argv, k) = "OK"
    BY <1>7, <2>2 DEF StopAt
  <2> QED BY <1>9, <2>3
<1>16. \A a : ParamOf(a) # 0 => ps[ParamOf(a)].ptr = d[Meant(d, a)].ptr
  <2> SUFFICES ASSUME NEW a, ParamOf(a) # 0 PROVE ps[ParamOf(a)].ptr = d[Meant(d, a)].ptr
    OBVIOUS
  <2>1. ParamOf(a) = Meant(d, a)
    BY <1>1, <1>2, <1>4, <1>8, MeaningIs
  <2>2. ps \in Seq(Params)
    BY <1>1, <1>2, ListIs
  <2>3. ParamOf(a) \in 1 .. Len(ps)
    BY <1>4, <2>1, <2>2, MeantIs
  <2> QED BY <1>4, <2>1, <2>2, <2>3, BareIs
<1>17. ASSUME NEW ptr PROVE StoredFor(ptr) = Before(d, argv, f, n, ptr)
  <2>1. \A k \in 2 .. l : k \in StoredFor(ptr)
                      <=> TagAt(argv, f, k) /\ k < n /\ ps[ParamOf(argv[k])].ptr = ptr
    BY <1>1, <1>9, <1>14 DEF StoredFor
  <2>2. \A k \in 2 .. l : k \in Before(d, argv, f, n, ptr)
                      <=> TagAt(argv, f, k) /\ k < n /\ d[Meant(d, argv[k])].ptr = ptr
    BY <1>7 DEF Before
  <2>3. \A k \in 2 .. l : k \in StoredFor(ptr) <=> k \in Before(d, argv, f, n, ptr)
    BY <1>1, <1>2, <1>4, <1>8, <1>15, <1>16, <2>1, <2>2, MeaningIs
  <2>4. StoredFor(ptr) \in SUBSET (2 .. l) /\ Before(d, argv, f, n, ptr) \in SUBSET (2 .. l)
    BY <1>7, <1>10 DEF StoredFor, Before
  <2> QED BY <2>3, <2>4
<1>18. ASSUME NEW ptr \in DOMAIN variables
       PROVE  variables[ptr] =
                IF StoredFor(ptr) = {} THEN Initial[ptr]
                ELSE LET k == LastOf(StoredFor(ptr)) IN ParsedText(TypeOf(argv[k]), TextOf(k)).value
  <2>1. PICK S : S = StoredFor(ptr) /\ S = Before(d, argv, f, n, ptr)
    BY <1>17
  <2>2. variables[ptr] = IF S = {} THEN Initial[ptr] ELSE Parse(d, argv, LastOf(S)).value
    BY <1>8, <2>1 DEF StoredUpTo
  <2>3. ASSUME S # {}
        PROVE  ParsedText(TypeOf(argv[LastOf(S)]), TextOf(LastOf(S))) = Parse(d, argv, LastOf(S))
    <3>1. S \in SUBSET (0 .. l)
      BY <1>7, <2>1 DEF Before
    <3>2. PICK k \in S : k = LastOf(S)
      BY <1>7, <2>3, <3>1, LastIn
    <3>3. k \in 2 .. l /\ TagAt(argv, f, k) /\ k < n
      BY <1>7, <2>1 DEF Before
    <3>4. ParamOf(argv[k]) # 0
      BY <1>15, <3>3
    <3>5. ParsedText(TypeOf(argv[k]), TextOf(k)) = Parse(d, argv, k)
      BY <1>9, <3>3, <3>4
    <3> QED BY <3>2, <3>5
  <2> QED BY <2>1, <2>2, <2>3
<1>19. /\ Stops # {} => LET k == FirstOf(Stops) IN code = IF Ending(k) THEN "OK" ELSE Failure(k)
       /\ Stops = {} => code \in {"OK", "MISSING_PARAM"}
  BY <1>12, <1>13 DEF EndsBehind
<1>20. code = "OK" /\ Stops = {} =>
         \A p \in 1 .. Len(list[selected].params) :
           LET prm == list[selected].params[p] IN _cargs_is_non_val(prm) => prm.found
  BY <1>1, <1>12 DEF EndsBehind, Required, _cargs_is_non_val
<1> QED BY <1>2, <1>6, <1>18, <1>19, <1>20 DEF RunAgrees

----------------------------------------------------------------------------
\* What a run notes in the list changes nothing that is declared.
CommandNoted(l, c) == l = [list EXCEPT ![c].found = TRUE]
Replaced(l, c, q) == l = [list EXCEPT ![c].params = q]
ParamNoted(l, c, p) == l = [list EXCEPT ![c].params[p].found = TRUE]

\* The command that was selected.
LEMMA CommandFound ==
  ASSUME list \in Seq(Commands), NEW c \in 1 .. Len(list), NEW l, CommandNoted(l, c)
  PROVE  /\ l \in Seq(Commands) /\ Len(l) = Len(list) /\ l[c].found
         /\ \A k \in 1 .. Len(list) :
              l[k].params = list[k].params /\ (k # c => l[k].found = list[k].found)
<1>1. PICK n \in Nat : n = Len(list) /\ \A k \in 1 .. n : list[k] \in Commands
  BY ListIs
<1>2. list = [k \in 1 .. n |-> list[k]]
  BY <1>1, LenProperties
<1>3. PICK m : m = l
  OBVIOUS
<1>4. m = [k \in 1 .. n |-> IF k = c THEN [list[k] EXCEPT !.found = TRUE] ELSE list[k]]
  BY <1>1, <1>2, <1>3 DEF CommandNoted
<1>5. ASSUME NEW k \in 1 .. n
      PROVE  /\ m[k] \in Commands
             /\ m[k].params = list[k].params
             /\ k = c => m[k].found
             /\ k # c => m[k].found = list[k].found
  <2>1. PICK e : e = list[k] /\ e \in Commands
    BY <1>1
  <2>2. m[k] = IF k = c THEN [e EXCEPT !.found = TRUE] ELSE e
    BY <1>4, <2>1
  <2>3. CASE k = c
    BY <2>1, <2>2, <2>3 DEF Commands
  <2>4. CASE k # c
    BY <2>1, <2>2, <2>4
  <2> QED BY <2>3, <2>4
<1>6. m = [k \in 1 .. n |-> m[k]]
  BY <1>4
<1>7. m \in Seq(Commands) /\ Len(m) = n
  BY <1>5, <1>6, FunctionIsSeq
<1> QED BY <1>1, <1>3, <1>5, <1>7

\* A parameter that was found, among its own.
LEMMA ParamFound ==
  ASSUME NEW ps \in Seq(Params), NEW p \in 1 .. Len(ps), NEW q,
         q = [ps EXCEPT ![p].found = TRUE]
  PROVE  q \in Seq(Params) /\ Len(q) = Len(ps) /\ Bare(q) = Bare(ps)
<1>1. PICK n \in Nat : n = Len(ps) /\ \A k \in 1 .. n : ps[k] \in Params
  BY BareIs
<1>2. ps = [k \in 1 .. n |-> ps[k]]
  BY <1>1, LenProperties
<1>3. PICK m : m = q
  OBVIOUS
<1>4. m = [k \in 1 .. n |-> IF k = p THEN [ps[k] EXCEPT !.found = TRUE] ELSE ps[k]]
  BY <1>1, <1>2, <1>3
<1>5. ASSUME NEW k \in 1 .. n
      PROVE  /\ m[k] \in Params
             /\ m[k].type = ps[k].type /\ m[k].letter = ps[k].letter
             /\ m[k].name = ps[k].name /\ m[k].ptr = ps[k].ptr
  <2>1. PICK e : e = ps[k] /\ e \in Params
    BY <1>1
  <2>2. m[k] = IF k = p THEN [e EXCEPT !.found = TRUE] ELSE e
    BY <1>4, <2>1
  <2>3. CASE k = p
    BY <2>1, <2>2, <2>3 DEF Params
  <2>4. CASE k # p
    BY <2>1, <2>2, <2>4
  <2> QED BY <2>3, <2>4
<1>6. m = [k \in 1 .. n |-> m[k]]
  BY <1>4
<1>7. m \in Seq(Params) /\ Len(m) = n
  BY <1>5, <1>6, FunctionIsSeq
<1>8. Bare(m) = Bare(ps)
  BY <1>1, <1>5, <1>7 DEF Bare
<1> QED BY <1>1, <1>3, <1>7, <1>8

\* Other parameters for one command.
LEMMA ParamsReplaced ==
  ASSUME list \in Seq(Commands), NEW c \in 1 .. Len(list), NEW q \in Seq(Params), NEW l,
         Replaced(l, c, q)
  PROVE  /\ l \in Seq(Commands) /\ Len(l) = Len(list) /\ l[c].params = q
         /\ \A k \in 1 .. Len(list) : l[k].found = list[k].found
<1>1. PICK n \in Nat : n = Len(list) /\ \A k \in 1 .. n : list[k] \in Commands
  BY ListIs
<1>2. list = [k \in 1 .. n |-> list[k]]
  BY <1>1, LenProperties
<1>3. PICK m : m = l
  OBVIOUS
<1>4. m = [k \in 1 .. n |-> IF k = c THEN [list[k] EXCEPT !.params = q] ELSE list[k]]
  BY <1>1, <1>2, <1>3 DEF Replaced
<1>5. ASSUME NEW k \in 1 .. n
      PROVE  /\ m[k] \in Commands /\ m[k].found = list[k].found
             /\ k = c => m[k].params = q
  <2>1. PICK e : e = list[k] /\ e \in Commands
    BY <1>1
  <2>2. m[k] = IF k = c THEN [e EXCEPT !.params = q] ELSE e
    BY <1>4, <2>1
  <2>3. CASE k = c
    BY <2>1, <2>2, <2>3 DEF Commands
  <2>4. CASE k # c
    BY <2>1, <2>2, <2>4
  <2> QED BY <2>3, <2>4
<1>6. m = [k \in 1 .. n |-> m[k]]
  BY <1>4
<1>7. m \in Seq(Commands) /\ Len(m) = n
  BY <1>5, <1>6, FunctionIsSeq
<1>8. m[c].params = q
  BY <1>1, <1>5
<1> QED BY <1>1, <1>3, <1>5, <1>7, <1>8

\* A parameter that was found, in the list.
LEMMA NoteFound ==
  ASSUME list \in Seq(Commands), NEW c \in 1 .. Len(list), NEW p \in 1 .. Len(list[c].params),
         NEW l, ParamNoted(l, c, p)
  PROVE  /\ l \in Seq(Commands) /\ Len(l) = Len(list)
         /\ \A k \in 1 .. Len(list) : l[k].found = list[k].found
         /\ Bare(l[c].params) = Bare(list[c].params)
<1>1. PICK q : q = [list[c].params EXCEPT ![p].found = TRUE]
  OBVIOUS
<1>2. q \in Seq(Params) /\ Bare(q) = Bare(list[c].params)
  BY <1>1, ListIs, ParamFound
<1>3. Replaced(l, c, q)
  BY <1>1 DEF Replaced, ParamNoted
<1>4. /\ l \in Seq(Commands) /\ Len(l) = Len(list) /\ l[c].params = q
      /\ \A k \in 1 .. Len(list) : l[k].found = list[k].found
  BY <1>2, <1>3, ParamsReplaced
<1> QED BY <1>2, <1>4

----------------------------------------------------------------------------
\* A declaration.
LEMMA StepCommand ==
  ASSUME CargsInv, NEW c \in CommandsGiven, cargs_command(c[1], c[2])
  PROVE  CargsInv'
<1>1. /\ list \in Seq(Commands) /\ argv \in Seq(Args) /\ phase = "declare"
      /\ selected = 0 /\ variables = Initial /\ extra = Nothing
      /\ \A k \in 1 .. Len(list) : ~list[k].found
  BY DEF CargsInv, cargs_command
<1>2. UNCHANGED <<variables, argv, index, selected, code, extra>> /\ phase' \in {"declare", "assert"}
  BY <1>1 DEF cargs_command
<1>3. list' \in Seq(Commands) /\ \A k \in 1 .. Len(list') : ~list'[k].found
  <2>1. CASE UNCHANGED list
    BY <1>1, <2>1
  <2>2. CASE list' = Append(list, [letter |-> c[1], name |-> c[2], found |-> FALSE, params |-> <<>>])
    <3>1. PICK e : e = [letter |-> c[1], name |-> c[2], found |-> FALSE, params |-> <<>>]
      OBVIOUS
    <3>2. e \in Commands /\ ~e.found
      <4>1. PICK z : z = <<>>
        OBVIOUS
      <4>2. z \in Seq(Params)
        BY <4>1, EmptySeq
      <4> QED BY <3>1, <4>1, <4>2 DEF Commands
    <3>3. list' = Append(list, e)
      BY <2>2, <3>1
    <3>4. PICK l : l = list'
      OBVIOUS
    <3>5. PICK n \in Nat : n = Len(list)
      BY <1>1, LenProperties
    <3>6. /\ l \in Seq(Commands) /\ Len(l) = n + 1 /\ l[n + 1] = e
          /\ \A k \in 1 .. n : l[k] = list[k]
      BY <1>1, <3>2, <3>3, <3>4, <3>5, AppendProperties
    <3>7. \A k \in 1 .. n + 1 : k \in 1 .. n \/ k = n + 1
      BY <3>5
    <3>8. \A k \in 1 .. Len(l) : ~l[k].found
      BY <1>1, <3>2, <3>5, <3>6, <3>7
    <3> QED BY <3>4, <3>6, <3>8
  <2> QED BY <2>1, <2>2 DEF cargs_command
<1> QED BY <1>1, <1>2, <1>3 DEF CargsInv

\* The declaration of a parameter.
LEMMA StepParam ==
  ASSUME CargsInv, NEW p \in ParamsGiven, _cargs_add_param(p[1], p[2], p[3], p[4])
  PROVE  CargsInv'
<1>1. /\ list \in Seq(Commands) /\ argv \in Seq(Args) /\ phase = "declare"
      /\ selected = 0 /\ variables = Initial /\ extra = Nothing
      /\ \A k \in 1 .. Len(list) : ~list[k].found
  BY DEF CargsInv, _cargs_add_param
<1>2. UNCHANGED <<variables, argv, index, selected, code, extra>> /\ phase' \in {"declare", "assert"}
  BY <1>1 DEF _cargs_add_param
<1>3. list' \in Seq(Commands) /\ \A k \in 1 .. Len(list') : ~list'[k].found
  <2>1. CASE UNCHANGED list
    BY <1>1, <2>1
  <2>2. PICK e : e = [type |-> p[1], letter |-> p[2], name |-> p[3], ptr |-> p[4], found |-> FALSE]
    OBVIOUS
  <2>3. CASE Len(list) > 0 /\ list' = [list EXCEPT ![Len(list)].params = Append(@, e)]
    <3>1. e \in Params
      BY <2>2, CargsAssumption DEF Params
    <3>2. PICK n \in Nat : n = Len(list) /\ n > 0 /\ \A k \in 1 .. n : list[k] \in Commands
      BY <1>1, <2>3, ListIs
    <3>3. list = [k \in 1 .. n |-> list[k]]
      BY <1>1, <3>2, LenProperties
    <3>4. PICK q : q = Append(list[n].params, e)
      OBVIOUS
    <3>5. q \in Seq(Params)
      BY <1>1, <3>1, <3>2, <3>4, ListIs, AppendProperties
    <3>6. PICK l : l = list'
      OBVIOUS
    <3>7. l = [k \in 1 .. n |-> IF k = n THEN [list[k] EXCEPT !.params = q] ELSE list[k]]
      BY <2>3, <3>2, <3>3, <3>4, <3>6
    <3>8. \A k \in 1 .. n : l[k] \in Commands /\ l[k].found = list[k].found
      BY <3>2, <3>5, <3>7 DEF Commands
    <3>9. l = [k \in 1 .. n |-> l[k]]
      BY <3>7
    <3>10. l \in Seq(Commands) /\ Len(l) = n
      BY <3>8, <3>9, FunctionIsSeq
    <3> QED BY <1>1, <3>2, <3>6, <3>8, <3>10
  <2> QED BY <2>1, <2>2, <2>3 DEF _cargs_add_param
<1> QED BY <1>1, <1>2, <1>3 DEF CargsInv

\* The call of cargs_run.
LEMMA StepNew ==
  ASSUME CargsInv, NEW n \in 0 .. MaxArgs, NEW v \in [1 .. n -> Args], cargs_new(v)
  PROVE  CargsInv'
<1>1. v \in Seq(Args)
  <2>1. n \in Nat
    BY CargsAssumption
  <2>2. v = [k \in 1 .. n |-> v[k]] /\ \A k \in 1 .. n : v[k] \in Args
    OBVIOUS
  <2> QED BY <2>1, <2>2, FunctionIsSeq
<1> QED BY <1>1 DEF CargsInv, cargs_new

\* The choice of the command.
LEMMA StepSelect ==
  ASSUME CargsInv, Select
  PROVE  CargsInv'
<1>1. /\ list \in Seq(Commands) /\ argv \in Seq(Args) /\ phase = "select"
      /\ selected = 0 /\ variables = Initial /\ extra = Nothing
      /\ \A k \in 1 .. Len(list) : ~list[k].found
  BY DEF CargsInv, Select
<1>2. UNCHANGED <<variables, argv>>
  BY DEF Select
<1>3. ASSUME phase' = "done", UNCHANGED <<list, selected>> PROVE CargsInv'
  BY <1>1, <1>2, <1>3 DEF CargsInv
<1>4. CASE ~Selects
  BY <1>3, <1>4 DEF Select, ReturnCode
<1>5. CASE Selects
  <2>1. PICK t : t = _cargs_get_tag_value(argv[1])
    OBVIOUS
  <2>2. PICK c : c = IF t.eq THEN 0 ELSE _cargs_find_command(t.name)
    OBVIOUS
  <2>3. CASE c = 0
    BY <1>3, <1>5, <2>1, <2>2, <2>3 DEF Select, ReturnCode
  <2>4. CASE c # 0
    <3>1. /\ selected' = c /\ list' = [list EXCEPT ![c].found = TRUE]
          /\ index' = 2 /\ extra' = "text"
          /\ phase' = IF list[c].params = <<>> THEN "check" ELSE "loop"
      BY <1>5, <2>1, <2>2, <2>4 DEF Select
    <3>2. c \in 1 .. Len(list)
      <4>1. PICK S : S = {k \in 1 .. Len(list) : Named(list[k], t.name)}
        OBVIOUS
      <4>2. S \in SUBSET (Nat \ {0}) /\ c = FirstOf(S)
        BY <1>1, <2>2, <2>4, <4>1, ListIs DEF _cargs_find_command
      <4> QED BY <2>4, <4>1, <4>2, FirstIn
    <3>3. PICK l : l = list'
      OBVIOUS
    <3>4. /\ l \in Seq(Commands) /\ Len(l) = Len(list)
          /\ l[c].found
          /\ \A k \in 1 .. Len(list) :
               l[k].params = list[k].params /\ (k # c => l[k].found = list[k].found)
      <4>1. CommandNoted(l, c)
        BY <3>1, <3>3 DEF CommandNoted
      <4>2. list \in Seq(Commands)
        BY <1>1
      <4> QED BY <3>2, <4>1, <4>2, CommandFound
    <3>5. Len(argv) \in Nat \ {0}
      BY <1>1, <1>5, LenProperties DEF Selects
    <3>6. Walks(l[c].params, argv, 2, variables)
      <4>1. PICK d : d = Bare(l[c].params)
        OBVIOUS
      <4>2. PICK f : Marks(d, argv, Len(argv), f)
        BY <3>5, MarksExist
      <4>3. Walking(d, argv, f, 2, variables)
        BY <1>1, <3>5, <4>2, WalkStarts
      <4> QED BY <4>1, <4>3 DEF Walks
    <3>7. phase' \in {"loop", "check"} /\ (phase' = "check" => l[c].params = <<>>)
      BY <3>1, <3>2, <3>4
    <3>8. /\ selected' \in 1 .. Len(l) /\ \A k \in 1 .. Len(l) : l[k].found <=> k = selected'
          /\ extra' \in {"text", "param"} /\ Walks(l[selected'].params, argv', index', variables')
      BY <1>1, <1>2, <3>1, <3>2, <3>4, <3>6
    <3>9. RunInv'
      BY <3>1, <3>3, <3>7, <3>8 DEF RunInv
    <3> QED BY <1>1, <1>2, <2>4, <3>1, <3>3, <3>4, <3>7, <3>9 DEF CargsInv
  <2> QED BY <2>3, <2>4
<1> QED BY <1>4, <1>5

----------------------------------------------------------------------------
\* What holds while the arguments are walked.
LEMMA InRun ==
  ASSUME CargsInv, phase \in {"loop", "check"}
  PROVE  /\ list \in Seq(Commands) /\ argv \in Seq(Args) /\ Len(argv) \in Nat
         /\ selected \in 1 .. Len(list) /\ selected # 0
         /\ list[selected].params \in Seq(Params)
         /\ \A c \in 1 .. Len(list) : list[c].found <=> c = selected
         /\ extra \in {"text", "param"}
         /\ phase = "loop" => Walks(list[selected].params, argv, index, variables)
         /\ phase = "check" /\ list[selected].params # <<>> =>
              Walks(list[selected].params, argv, Len(argv) + 1, variables)
<1>1. list \in Seq(Commands) /\ argv \in Seq(Args) /\ selected # 0 /\ RunInv
  BY DEF CargsInv
<1>2. Len(argv) \in Nat
  BY <1>1, LenProperties
<1>3. selected \in 1 .. Len(list)
  BY <1>1 DEF RunInv
<1>4. list[selected].params \in Seq(Params)
  BY <1>1, <1>3, ListIs
<1> QED BY <1>1, <1>2, <1>3, <1>4 DEF RunInv

\* A step that stays in the loop.
LEMMA StaysInLoop ==
  ASSUME CargsInv, phase = "loop", UNCHANGED <<argv, selected, phase>>,
         list' \in Seq(Commands), Len(list') = Len(list),
         \A c \in 1 .. Len(list) : list'[c].found = list[c].found,
         extra' \in {"text", "param"},
         Walks(list'[selected].params, argv, index', variables')
  PROVE  CargsInv'
<1>1. RunInv'
  BY InRun DEF RunInv
<1> QED BY <1>1, InRun DEF CargsInv

\* A return from the loop.
LEMMA LeavesLoop ==
  ASSUME CargsInv, phase \in {"loop", "check"}, UNCHANGED <<list, variables, argv, selected>>,
         phase' = "done", NEW n,
         list[selected].params # <<>> =>
           Outcome(list[selected].params, argv, n, variables, code', extra')
  PROVE  CargsInv'
<1>1. RunInv'
  BY InRun DEF RunInv
<1> QED BY <1>1, InRun DEF CargsInv

\* The end of the loop.
LEMMA StepLoopEnds ==
  ASSUME CargsInv, LoopEnds
  PROVE  CargsInv'
<1>1. phase = "loop" /\ index > Len(argv) /\ phase' = "check"
      /\ UNCHANGED <<list, variables, argv, index, selected, code, extra>>
  BY DEF LoopEnds
<1>2. PICK f : Walking(Bare(list[selected].params), argv, f, index, variables)
  BY <1>1, InRun DEF Walks
<1>3. index = Len(argv) + 1
  BY <1>1, <1>2, InRun DEF Walking
<1>4. Walks(list[selected].params, argv, Len(argv) + 1, variables)
  BY <1>2, <1>3 DEF Walks
<1>5. RunInv'
  BY <1>1, <1>4, InRun DEF RunInv
<1> QED BY <1>1, <1>5, InRun DEF CargsInv

\* The check for what is required.
LEMMA StepCheck ==
  ASSUME CargsInv, _cargs_check_require
  PROVE  CargsInv'
<1>1. /\ phase = "check" /\ phase' = "done"
      /\ UNCHANGED <<list, variables, argv, selected>>
      /\ code' \in {"OK", "MISSING_PARAM"} /\ extra' \in {"text", extra}
      /\ code' = "OK" => Required(list[selected].params, variables)
  BY DEF _cargs_check_require, ReturnCode, Required, _cargs_is_non_val
<1>2. extra' # Nothing
  BY <1>1, InRun, CargsAssumption
<1>3. PICK ps : ps = list[selected].params
  OBVIOUS
<1>4. PICK n : n = Len(argv) + 1
  OBVIOUS
<1>5. ASSUME ps # <<>> PROVE Outcome(ps, argv, n, variables, code', extra')
  <2>1. PICK f : Walking(Bare(ps), argv, f, n, variables)
    BY <1>1, <1>3, <1>4, <1>5, InRun DEF Walks
  <2>2. EndsBehind(ps, argv, n, variables, code')
    BY <1>1, <1>3, <1>4 DEF EndsBehind
  <2> QED BY <1>1, <1>2, <2>1, <2>2 DEF Outcome
<1> QED BY <1>1, <1>3, <1>5, LeavesLoop

\* Where the walk is in the loop.
LEMMA AtArgument ==
  ASSUME CargsInv, phase = "loop", index <= Len(argv), NEW d, d = Bare(list[selected].params)
  PROVE  /\ index \in 2 .. Len(argv)
         /\ \E f : Walking(d, argv, f, index, variables)
<1>1. PICK f : Walking(d, argv, f, index, variables)
  BY InRun DEF Walks
<1> QED BY <1>1, InRun DEF Walking

\* An error where the walk is.
LEMMA StopsHere ==
  ASSUME CargsInv, phase = "loop", index <= Len(argv), NEW d, d = Bare(list[selected].params),
         UNCHANGED <<list, variables, argv, selected>>, phase' = "done",
         \/ _cargs_is_end_tag(argv[index]) /\ code' = "OK"
         \/ IsTag(argv[index]) /\ code' = Error(d, argv, index) /\ code' # "OK",
         (extra' = Nothing) <=> (code' = "UNKNOWN_PARAM")
  PROVE  CargsInv'
<1>1. PICK f : Walking(d, argv, f, index, variables)
  BY AtArgument
<1>2. index \in 2 .. Len(argv) /\ ~f[index]
  BY <1>1, AtArgument DEF Walking
<1>3. EndsAt(d, argv, f, index, code')
  BY <1>2, EndIsNoTag DEF EndsAt, StopAt, EndAt, TagAt
<1>4. Outcome(list[selected].params, argv, index, variables, code', extra')
  BY <1>1, <1>3 DEF Outcome
<1> QED BY <1>4, LeavesLoop

\* _cargs_parse of the value an argument gives.
LEMMA ParseKeeps ==
  ASSUME CargsInv, phase = "loop", index <= Len(argv), UNCHANGED <<argv, selected>>,
         NEW d, d = Bare(list[selected].params), IsTag(argv[index]),
         NEW p, p = Meant(d, argv[index]), p # 0,
         Wants(d, argv[index]) => index # Len(argv),
         _cargs_parse(p, Given(d, argv, index), IF Wants(d, argv[index]) THEN index + 2 ELSE index + 1)
  PROVE  CargsInv'
<1>1. PICK ps : ps = list[selected].params /\ ps \in Seq(Params)
  BY InRun
<1>2. p \in 1 .. Len(ps) /\ ps[p] \in Params /\ d[p].type = ps[p].type /\ d[p].ptr = ps[p].ptr
  BY <1>1, MeantIs, BareIs
<1>3. PICK r : r = Parse(d, argv, index)
  OBVIOUS
<1>4. r = ParsedText(ps[p].type, Given(d, argv, index))
  BY <1>2, <1>3 DEF Parse
<1>5. r.err \in {"OK", "INVALID_VALUE", "MISSING_VALUE"}
  <2>1. ps[p].type \in Types
    BY <1>2 DEF Params
  <2> QED BY <1>4, <2>1, ParsedIs
<1>6. Error(d, argv, index) = r.err
  BY <1>3 DEF Error
<1>7. PICK m : m = IF Wants(d, argv[index]) THEN index + 2 ELSE index + 1
  OBVIOUS
<1>8. IF r.err = "OK"
      THEN /\ variables' = [variables EXCEPT ![ps[p].ptr] = r.value]
           /\ list' = [list EXCEPT ![selected].params[p].found = TRUE]
           /\ index' = m /\ extra' = "param" /\ UNCHANGED <<phase, code>>
      ELSE phase' = "done" /\ code' = r.err /\ extra' = "param" /\ UNCHANGED <<variables, list, index>>
  BY <1>1, <1>4, <1>7 DEF _cargs_parse, ReturnCode, GoOn
<1>9. CASE r.err = "OK"
  <2>1. PICK f : Walking(d, argv, f, index, variables)
    BY AtArgument
  <2>2. PICK y : y = variables'
    OBVIOUS
  <2>3. y = [variables EXCEPT ![d[Meant(d, argv[index])].ptr] = Parse(d, argv, index).value]
    BY <1>2, <1>3, <1>8, <1>9, <2>2
  <2>4. Walking(d, argv, f, m, y)
    BY <1>6, <1>7, <1>9, <2>1, <2>3, InRun, AtArgument, WalkStores
  <2>5. PICK l : l = list'
    OBVIOUS
  <2>6. ParamNoted(l, selected, p)
    BY <1>8, <1>9, <2>5 DEF ParamNoted
  <2>7. list \in Seq(Commands) /\ selected \in 1 .. Len(list) /\ p \in 1 .. Len(list[selected].params)
    BY <1>1, <1>2, InRun
  <2>8. /\ l \in Seq(Commands) /\ Len(l) = Len(list)
        /\ \A k \in 1 .. Len(list) : l[k].found = list[k].found
        /\ Bare(l[selected].params) = d
    BY <2>6, <2>7, NoteFound
  <2>9. Walks(l[selected].params, argv, m, y)
    BY <2>4, <2>8 DEF Walks
  <2> QED BY <1>8, <1>9, <2>2, <2>5, <2>8, <2>9, StaysInLoop
<1>10. CASE r.err # "OK"
  <2>1. code' = Error(d, argv, index) /\ code' # "OK" /\ code' # "UNKNOWN_PARAM" /\ extra' # Nothing
    BY <1>5, <1>6, <1>8, <1>10, CargsAssumption
  <2> QED BY <1>8, <1>10, <2>1, StopsHere
<1> QED BY <1>9, <1>10

\* A round of the loop.
LEMMA StepRound ==
  ASSUME CargsInv, Round
  PROVE  CargsInv'
<1>1. phase = "loop" /\ index <= Len(argv) /\ UNCHANGED <<argv, selected>>
  BY DEF Round
<1>2. PICK d : d = Bare(list[selected].params)
  OBVIOUS
<1>3. PICK a : a = argv[index]
  OBVIOUS
<1>4. PICK t : t = _cargs_get_tag_value(a)
  OBVIOUS
<1>5. PICK p : p = Meant(d, a)
  OBVIOUS
<1>6. p = _cargs_find_param(selected, t.name)
  <2>1. list[selected].params \in Seq(Params)
    BY <1>1, InRun
  <2> QED BY <1>2, <1>4, <1>5, <2>1, MeantIs DEF _cargs_find_param
<1>7. p # 0 => list[selected].params[p].type = d[p].type
  <2>1. list[selected].params \in Seq(Params)
    BY <1>1, InRun
  <2> QED BY <1>2, <1>5, <2>1, MeantIs, BareIs
<1>8. CASE _cargs_is_end_tag(a) /\ ReturnCode("OK", extra) /\ UNCHANGED <<list, variables, index>>
  <2>1. extra' # Nothing /\ code' = "OK" /\ phase' = "done"
    BY <1>1, <1>8, InRun, CargsAssumption DEF ReturnCode
  <2> QED BY <1>1, <1>2, <1>3, <1>8, <2>1, StopsHere
<1>9. CASE /\ ~_cargs_is_end_tag(a) /\ ~IsTag(a)
           /\ index' = index + 1 /\ UNCHANGED <<list, variables, phase, code, extra>>
  <2>1. PICK f : Walking(d, argv, f, index, variables)
    BY <1>1, <1>2, AtArgument
  <2>2. Walking(d, argv, f, index + 1, variables)
    BY <1>1, <1>2, <1>3, <1>9, <2>1, InRun, AtArgument, WalkSkips
  <2>3. Walks(list[selected].params, argv, index + 1, variables)
    BY <1>2, <2>2 DEF Walks
  <2>4. /\ list \in Seq(Commands) /\ extra \in {"text", "param"}
    BY <1>1, InRun
  <2> QED BY <1>1, <1>9, <2>3, <2>4, StaysInLoop
<1>10. CASE /\ IsTag(a) /\ p = 0
            /\ ReturnCode("UNKNOWN_PARAM", Nothing) /\ UNCHANGED <<list, variables, index>>
  <2>1. Error(d, argv, index) = "UNKNOWN_PARAM"
    BY <1>3, <1>5, <1>10 DEF Error
  <2> QED BY <1>1, <1>2, <1>3, <1>10, <2>1, StopsHere DEF ReturnCode
<1>11. CASE IsTag(a) /\ p # 0 /\ t.eq /\ _cargs_parse(p, t.value, index + 1)
  <2>1. ~Wants(d, a) /\ Given(d, argv, index) = t.value
    BY <1>3, <1>4, <1>11 DEF Wants, Given
  <2> QED BY <1>1, <1>2, <1>3, <1>5, <1>11, <2>1, ParseKeeps
<1>12. CASE /\ IsTag(a) /\ p # 0 /\ ~t.eq /\ list[selected].params[p].type = "boolean"
            /\ _cargs_parse(p, "true", index + 1)
  <2>1. ~Wants(d, a)
    BY <1>5, <1>7, <1>12 DEF Wants
  <2>2. Given(d, argv, index) = "true"
    BY <1>3, <1>4, <1>12, <2>1 DEF Given
  <2> QED BY <1>1, <1>2, <1>3, <1>5, <1>12, <2>1, <2>2, ParseKeeps
<1>13. CASE /\ IsTag(a) /\ p # 0 /\ ~t.eq /\ list[selected].params[p].type # "boolean"
            /\ IF index + 1 > Len(argv)
               THEN ReturnCode("MISSING_VALUE", "param") /\ UNCHANGED <<list, variables, index>>
               ELSE _cargs_parse(p, ArgText(argv[index + 1]), index + 2)
  <2>1. Wants(d, a)
    BY <1>4, <1>5, <1>7, <1>13 DEF Wants
  <2>2. Given(d, argv, index) = ArgText(argv[index + 1])
    BY <1>3, <1>4, <1>13, <2>1 DEF Given
  <2>3. index \in 2 .. Len(argv) /\ Len(argv) \in Nat
    BY <1>1, <1>2, AtArgument, InRun
  <2>4. CASE index + 1 > Len(argv)
    <3>1. index = Len(argv)
      BY <2>3, <2>4
    <3>2. Error(d, argv, index) = "MISSING_VALUE"
      BY <1>3, <1>5, <1>13, <2>1, <3>1 DEF Error
    <3>3. /\ phase' = "done" /\ code' = "MISSING_VALUE" /\ extra' # Nothing
          /\ UNCHANGED <<list, variables, index>>
      BY <1>13, <2>4, CargsAssumption DEF ReturnCode
    <3> QED BY <1>1, <1>2, <1>3, <1>13, <3>2, <3>3, StopsHere
  <2>5. CASE ~(index + 1 > Len(argv))
    <3>1. index # Len(argv)
      BY <2>3, <2>5
    <3> QED BY <1>1, <1>2, <1>3, <1>5, <1>13, <2>1, <2>2, <2>5, <3>1, ParseKeeps
  <2> QED BY <2>4, <2>5
<1> QED BY <1>3, <1>4, <1>6, <1>8, <1>9, <1>10, <1>11, <1>12, <1>13 DEF Round

\* Every action of the program.
LEMMA CargsKeep == CargsInv /\ [CargsNext]_cargsVars => CargsInv'
<1> SUFFICES ASSUME CargsInv, [CargsNext]_cargsVars PROVE CargsInv'
  OBVIOUS
<1>1. CASE UNCHANGED cargsVars
  BY <1>1 DEF cargsVars, CargsInv, RunInv
<1> QED BY <1>1, StepCommand, StepParam, StepNew, StepSelect, StepRound, StepLoopEnds, StepCheck
     DEF CargsNext

(* For any commands, parameters and arguments, cargs_run has stored what    *)
(* comes before the first argument that is wrong or the end tag, and its    *)
(* code is that of this argument; when it reports success without having    *)
(* met the end tag, every required value is there (cargs.h).                *)
THEOREM RunCorrect == CargsSpec => []RunAgrees
<1>1. CargsInit => CargsInv
  <2> SUFFICES ASSUME CargsInit PROVE CargsInv
    OBVIOUS
  <2>1. PICK z : z = <<>>
    OBVIOUS
  <2>2. z \in Seq(Commands) /\ z \in Seq(Args) /\ Len(z) = 0
    BY <2>1, EmptySeq
  <2>3. \A k \in 1 .. Len(z) : ~z[k].found
    BY <2>2
  <2> QED BY <2>1, <2>2, <2>3 DEF CargsInit, CargsInv
<1> QED BY <1>1, CargsKeep, AgreesAtEnd, PTL DEF CargsSpec

----------------------------------------------------------------------------
(* Conversions.                                                             *)

CharCodes == 1 .. 255

\* The least of a set of numbers.
LEMMA MinIs ==
  ASSUME NEW S \in SUBSET Nat, S # {}
  PROVE  Min(S) \in S /\ \A y \in S : Min(S) <= y
<1>1. \E x \in S : \A y \in S : x <= y
  BY Least
<1> QED BY <1>1 DEF Min

\* The greatest.
LEMMA MaxIs ==
  ASSUME NEW n \in Nat, NEW S \in SUBSET (0 .. n), S # {}
  PROVE  Max(S) \in S /\ \A y \in S : y <= Max(S)
<1>1. \E x \in S : \A y \in S : y <= x
  BY Greatest
<1>2. \E x \in S : \A y \in S : x >= y
  BY <1>1
<1> QED BY <1>2 DEF Max

\* A text and its characters.
LEMMA BytesAre ==
  ASSUME NEW C, NEW s \in Seq(C)
  PROVE  /\ Len(s) \in Nat /\ DOMAIN s = 1 .. Len(s) /\ \A i \in 1 .. Len(s) : s[i] \in C
         /\ s = [i \in 1 .. Len(s) |-> s[i]]
<1>1. Len(s) \in Nat /\ DOMAIN s = 1 .. Len(s) /\ s \in [1 .. Len(s) -> C]
  BY LenProperties
<1> QED BY <1>1

----------------------------------------------------------------------------
(* time_zone is the offset in hours, up to the dates, at every minute of    *)
(* the day and for every offset of whole hours (time.h).                    *)
THEOREM ZonesCorrect == \A minute \in 0 .. Day - 1, offset \in Int : ZoneAgrees(minute, offset)
<1> SUFFICES ASSUME NEW m \in 0 .. 1439, NEW o \in Int, o % 60 = 0
             PROVE  ((m + o) % 1440) \div 60 - m \div 60 = o \div 60 - 24 * ((m + o) \div 1440)
  BY DEF ZoneAgrees, time_zone, Day
<1> QED OBVIOUS

----------------------------------------------------------------------------
(* Upper and lower case.                                                    *)

\* Two characters in lower case, in upper case and in neither.
LEMMA CasesAre ==
  ASSUME NEW c \in 0 .. 255, NEW d \in 0 .. 255
  PROVE  /\ tolower(c) \in Nat /\ (tolower(c) = 0 <=> c = 0)
         /\ tolower(c) = tolower(d) <=> toupper(c) = toupper(d)
         /\ tolower(c) = tolower(d) => Bit32(c) = Bit32(d)
BY DEF tolower, toupper, Bit32

\* The character of s at place k in lower case, NUL behind the end.
Lowered(s, k) == tolower(Follow(s, k))

\* What is in s at a place, and what behind it.
LEMMA LoweredIs ==
  ASSUME NEW s \in Seq(CharCodes), NEW k \in Nat \ {0}
  PROVE  /\ Lowered(s, k) \in Nat /\ (Lowered(s, k) = 0 <=> k > Len(s))
         /\ k <= Len(s) => Lowered(s, k) = tolower(s[k])
<1>1. PICK n \in Nat : n = Len(s) /\ \A i \in 1 .. n : s[i] \in CharCodes
  BY BytesAre
<1>2. CASE k <= n
  <2>1. PICK c : c = s[k] /\ c \in CharCodes
    BY <1>1, <1>2
  <2>2. c \in 0 .. 255 /\ c # 0
    <3>1. c \in 1 .. 255
      BY <2>1 DEF CharCodes
    <3> QED BY <3>1
  <2>3. Follow(s, k) = c
    BY <1>1, <1>2, <2>1 DEF Follow
  <2>4. tolower(c) \in Nat /\ tolower(c) # 0
    BY <2>2, CasesAre, Zenon
  <2>5. Lowered(s, k) = tolower(c)
    BY <2>3 DEF Lowered
  <2> QED BY <1>1, <1>2, <2>1, <2>4, <2>5
<1>3. CASE ~(k <= n)
  <2>1. Follow(s, k) = 0
    BY <1>1, <1>3 DEF Follow
  <2>2. Lowered(s, k) = 0
    BY <2>1 DEF Lowered, tolower
  <2> QED BY <1>1, <1>3, <2>2
<1> QED BY <1>2, <1>3

\* d is the difference of s and t at the first place where they differ.
Differs(s, t, i, d) ==
  /\ i \in Nat \ {0} /\ Lowered(s, i) # Lowered(t, i) /\ d = Lowered(s, i) - Lowered(t, i)
  /\ \A k \in 1 .. i - 1 : Lowered(s, k) = Lowered(t, k)
Same(s, t) == Len(s) = Len(t) /\ \A k \in 1 .. Len(s) : Lowered(s, k) = Lowered(t, k)

\* istrcmp compares at the first difference.
LEMMA CompareIs ==
  ASSUME NEW s \in Seq(CharCodes), NEW t \in Seq(CharCodes)
  PROVE  \/ Same(s, t) /\ istrcmp(s, t) = 0
         \/ \E i : Differs(s, t, i, istrcmp(s, t))
<1>1. PICK n \in Nat, m \in Nat : n = Len(s) /\ m = Len(t) /\ DOMAIN s = 1 .. n
  BY BytesAre
<1>2. PICK S : S = {k \in DOMAIN s : tolower(s[k]) # tolower(Follow(t, k))} \cup {n + 1}
  OBVIOUS
<1>3. S = {k \in 1 .. n : Lowered(s, k) # Lowered(t, k)} \cup {n + 1}
  <2>1. ASSUME NEW k \in 1 .. n PROVE Lowered(s, k) = tolower(s[k])
    <3>1. k \in Nat \ {0} /\ k <= Len(s)
      BY <1>1
    <3> QED BY <3>1, LoweredIs
  <2> QED BY <1>1, <1>2, <2>1 DEF Lowered
<1>4. PICK i : i = Min(S) /\ i \in S /\ \A k \in S : i <= k
  <2>1. S \in SUBSET Nat /\ S # {}
    BY <1>3
  <2> QED BY <2>1, MinIs
<1>5. i \in 1 .. n + 1 /\ i \in Nat \ {0}
  BY <1>3, <1>4
<1>6. istrcmp(s, t) = Lowered(s, i) - Lowered(t, i)
  BY <1>1, <1>2, <1>4 DEF istrcmp, Lowered
<1>7. \A k \in 1 .. i - 1 : Lowered(s, k) = Lowered(t, k)
  BY <1>3, <1>4, <1>5
<1>8. Lowered(s, i) \in Nat /\ Lowered(t, i) \in Nat
  BY <1>5, LoweredIs
<1>9. CASE Lowered(s, i) # Lowered(t, i)
  BY <1>5, <1>6, <1>7, <1>9 DEF Differs
<1>10. CASE Lowered(s, i) = Lowered(t, i)
  <2>1. i = n + 1
    BY <1>3, <1>4, <1>10
  <2>2. \A k \in 1 .. n : Lowered(s, k) = Lowered(t, k)
    BY <1>7, <2>1
  <2>3. m <= n
    BY <1>1, <1>5, <1>10, <2>1, LoweredIs
  <2>4. n <= m
    <3>1. CASE n = 0
      BY <3>1
    <3>2. CASE n # 0
      BY <1>1, <2>2, <3>2, LoweredIs
    <3> QED BY <3>1, <3>2
  <2>5. istrcmp(s, t) = 0
    BY <1>6, <1>8, <1>10
  <2> QED BY <1>1, <2>2, <2>3, <2>4, <2>5 DEF Same
<1> QED BY <1>9, <1>10

\* Texts are the same when they are in lower case, and in upper case.
LEMMA SameIs ==
  ASSUME NEW s \in Seq(CharCodes), NEW t \in Seq(CharCodes)
  PROVE  /\ Same(s, t) <=> strlower(s) = strlower(t)
         /\ Same(s, t) <=> strupper(s) = strupper(t)
         /\ Same(s, t) => streqi(s, t)
<1>1. PICK n \in Nat, m \in Nat : /\ n = Len(s) /\ DOMAIN s = 1 .. n
                                  /\ m = Len(t) /\ DOMAIN t = 1 .. m
  BY BytesAre
<1>2. \A k \in 1 .. n : s[k] \in 0 .. 255 /\ Lowered(s, k) = tolower(s[k])
  BY <1>1, LoweredIs, BytesAre DEF CharCodes
<1>3. \A k \in 1 .. m : t[k] \in 0 .. 255 /\ Lowered(t, k) = tolower(t[k])
  BY <1>1, LoweredIs, BytesAre DEF CharCodes
<1>4. Same(s, t) <=> n = m /\ \A k \in 1 .. n : tolower(s[k]) = tolower(t[k])
  BY <1>1, <1>2, <1>3 DEF Same
<1>5. n = m => \A k \in 1 .. n : /\ tolower(s[k]) = tolower(t[k]) <=> toupper(s[k]) = toupper(t[k])
                                 /\ tolower(s[k]) = tolower(t[k]) => Bit32(s[k]) = Bit32(t[k])
  BY <1>2, <1>3, CasesAre, ZenonT(60)
<1>6. strlower(s) = strlower(t) <=> n = m /\ \A k \in 1 .. n : tolower(s[k]) = tolower(t[k])
  <2>1. strlower(s) = [k \in 1 .. n |-> tolower(s[k])] /\ strlower(t) = [k \in 1 .. m |-> tolower(t[k])]
    BY <1>1 DEF strlower
  <2>2. strlower(s) = strlower(t) => n = m
    <3>1. DOMAIN strlower(s) = 1 .. n /\ DOMAIN strlower(t) = 1 .. m
      BY <2>1
    <3>2. 1 .. n = 1 .. m => n = m
      OBVIOUS
    <3> QED BY <3>1, <3>2
  <2> QED BY <2>1, <2>2
<1>7. strupper(s) = strupper(t) <=> n = m /\ \A k \in 1 .. n : toupper(s[k]) = toupper(t[k])
  <2>1. strupper(s) = [k \in 1 .. n |-> toupper(s[k])] /\ strupper(t) = [k \in 1 .. m |-> toupper(t[k])]
    BY <1>1 DEF strupper
  <2>2. strupper(s) = strupper(t) => n = m
    <3>1. DOMAIN strupper(s) = 1 .. n /\ DOMAIN strupper(t) = 1 .. m
      BY <2>1
    <3>2. 1 .. n = 1 .. m => n = m
      OBVIOUS
    <3> QED BY <3>1, <3>2
  <2> QED BY <2>1, <2>2
<1>8. Same(s, t) => streqi(s, t)
  BY <1>1, <1>4, <1>5 DEF streqi
<1> QED BY <1>4, <1>5, <1>6, <1>7, <1>8

\* A difference the other way round.
LEMMA Turned == \A x, y \in Int : x - y = -(y - x)
OBVIOUS

(* The comparisons without case (cstring.h), of any texts.                  *)
THEOREM CaseCorrect == \A s, t \in Seq(CharCodes) : CaseAgrees(s, t)
<1> SUFFICES ASSUME NEW s \in Seq(CharCodes), NEW t \in Seq(CharCodes)
             PROVE  CaseAgrees(s, t)
  OBVIOUS
<1>1. istrcmp(s, t) = 0 <=> Same(s, t)
  <2>1. ASSUME NEW i, Differs(s, t, i, istrcmp(s, t)) PROVE ~Same(s, t) /\ istrcmp(s, t) # 0
    <3>1. PICK n \in Nat, m \in Nat : n = Len(s) /\ m = Len(t)
      BY BytesAre
    <3>2. i \in Nat \ {0} /\ Lowered(s, i) # Lowered(t, i) /\ istrcmp(s, t) = Lowered(s, i) - Lowered(t, i)
      BY <2>1 DEF Differs
    <3>3. Lowered(s, i) \in Nat /\ Lowered(t, i) \in Nat
      BY <3>2, LoweredIs
    <3>4. ~Same(s, t)
      <4>1. CASE i \in 1 .. n
        BY <3>1, <3>2, <4>1 DEF Same
      <4>2. CASE i \notin 1 .. n
        <5>1. Lowered(s, i) = 0 /\ Lowered(t, i) # 0
          BY <3>1, <3>2, <4>2, LoweredIs
        <5>2. i > n /\ ~(i > m)
          BY <3>1, <3>2, <4>2, <5>1, LoweredIs
        <5>3. n # m
          BY <3>2, <5>2
        <5> QED BY <3>1, <5>3 DEF Same
      <4> QED BY <4>1, <4>2
    <3> QED BY <3>2, <3>3, <3>4
  <2> QED BY <2>1, CompareIs
<1>2. istrcmp(s, t) = -istrcmp(t, s)
  <2>1. Same(s, t) <=> Same(t, s)
    BY DEF Same
  <2>2. ASSUME Same(s, t) PROVE istrcmp(s, t) = 0 /\ istrcmp(t, s) = 0
    <3>1. Lowered(s, 1) \in Nat
      BY LoweredIs
    <3>2. ASSUME NEW p \in Seq(CharCodes), NEW q \in Seq(CharCodes), Same(p, q) PROVE istrcmp(p, q) = 0
      <4>1. ASSUME NEW i, Differs(p, q, i, istrcmp(p, q)) PROVE FALSE
        <5>1. PICK n \in Nat : n = Len(p) /\ n = Len(q)
          BY <3>2, BytesAre DEF Same
        <5>2. i \in Nat \ {0} /\ Lowered(p, i) # Lowered(q, i)
          BY <4>1 DEF Differs
        <5>3. CASE i \in 1 .. n
          BY <3>2, <5>1, <5>2, <5>3 DEF Same
        <5>4. CASE i \notin 1 .. n
          <6>1. i \in Nat \ {0} /\ i > n
            BY <5>2, <5>4
          <6>2. Lowered(p, i) = 0 /\ Lowered(q, i) = 0
            BY <5>1, <6>1, LoweredIs
          <6> QED BY <5>2, <6>2
        <5> QED BY <5>3, <5>4
      <4> QED BY <4>1, CompareIs
    <3> QED BY <2>1, <2>2, <3>2
  <2>3. ASSUME NEW i, NEW j, Differs(s, t, i, istrcmp(s, t)), Differs(t, s, j, istrcmp(t, s))
        PROVE  istrcmp(s, t) = -istrcmp(t, s)
    <3>1. i \in Nat \ {0} /\ j \in Nat \ {0}
      BY <2>3 DEF Differs
    <3>2. ~(i < j) /\ ~(j < i)
      BY <2>3, <3>1 DEF Differs
    <3>3. i = j
      BY <3>1, <3>2
    <3>4. Lowered(s, i) \in Nat /\ Lowered(t, i) \in Nat
      BY <3>1, LoweredIs
    <3> QED BY <2>3, <3>3, <3>4 DEF Differs
  <2>4. CASE Same(s, t)
    <3>1. PICK v \in Int : TRUE
      OBVIOUS
    <3>2. istrcmp(s, t) = v - v /\ istrcmp(t, s) = v - v
      BY <2>2, <2>4
    <3> QED BY <3>2, Turned, Zenon
  <2>5. CASE ~Same(s, t)
    <3>1. PICK i : Differs(s, t, i, istrcmp(s, t))
      BY <2>5, CompareIs
    <3>2. PICK j : Differs(t, s, j, istrcmp(t, s))
      BY <2>1, <2>5, CompareIs
    <3> QED BY <2>3, <3>1, <3>2
  <2> QED BY <2>4, <2>5
<1>3. ASSUME streqi(s, t), ~Same(s, t)
      PROVE  \E i \in DOMAIN s \cap DOMAIN t :
               /\ Bit32(s[i]) = Bit32(t[i]) /\ s[i] # t[i] /\ tolower(s[i]) # tolower(t[i])
  <2>1. PICK n \in Nat : /\ n = Len(s) /\ DOMAIN s = 1 .. n
                         /\ n = Len(t) /\ DOMAIN t = 1 .. n
    BY <1>3, BytesAre DEF streqi
  <2>2. PICK k \in 1 .. n : Lowered(s, k) # Lowered(t, k)
    BY <1>3, <2>1 DEF Same
  <2>3. Lowered(s, k) = tolower(s[k]) /\ Lowered(t, k) = tolower(t[k])
    BY <2>1, LoweredIs
  <2>4. Bit32(s[k]) = Bit32(t[k])
    BY <1>3, <2>1 DEF streqi
  <2> QED BY <2>1, <2>2, <2>3, <2>4
<1> QED BY <1>1, <1>2, <1>3, SameIs DEF CaseAgrees

----------------------------------------------------------------------------
(* UTF-8.                                                                   *)

\* What is left of a code point at each of its n bytes.
Marked(cp, n, f) == f = [k \in 1 .. n |-> IF k = n THEN cp ELSE f[k + 1] \div 64 + Mark8[k + 1]]

\* It is there: its bytes from the last one on.
LEMMA MarkedExists ==
  ASSUME NEW cp, NEW n \in 1 .. 6
  PROVE  \E f : Marked(cp, n, f)
<1> DEFINE a == cp
           b == a \div 64 + Mark8[n]
           c == b \div 64 + Mark8[n - 1]
           d == c \div 64 + Mark8[n - 2]
           e == d \div 64 + Mark8[n - 3]
           z == e \div 64 + Mark8[n - 4]
           f == [k \in 1 .. n |-> IF k = n THEN a ELSE IF k = n - 1 THEN b ELSE IF k = n - 2 THEN c
                                  ELSE IF k = n - 3 THEN d ELSE IF k = n - 4 THEN e ELSE z]
<1>1. ASSUME NEW k \in 1 .. n
      PROVE  f[k] = IF k = n THEN cp ELSE f[k + 1] \div 64 + Mark8[k + 1]
  <2>1. n - 1 + 1 = n /\ n - 2 + 1 = n - 1 /\ n - 3 + 1 = n - 2 /\ n - 4 + 1 = n - 3 /\ n - 5 + 1 = n - 4
    OBVIOUS
  <2>2. k = n \/ k = n - 1 \/ k = n - 2 \/ k = n - 3 \/ k = n - 4 \/ k = n - 5
    OBVIOUS
  <2> QED BY <2>1, <2>2
<1>2. f = [k \in 1 .. n |-> IF k = n THEN cp ELSE f[k + 1] \div 64 + Mark8[k + 1]]
  BY <1>1
<1> HIDE DEF f
<1> QED BY <1>2 DEF Marked

LEMMA ShiftedIs ==
  ASSUME NEW cp \in Nat
  PROVE  Units8(cp) \in 1 .. 6 /\ Marked(cp, Units8(cp), Shifted(cp))
<1>1. PICK n : n = Units8(cp) /\ n \in 1 .. 6
  BY DEF Units8
<1>2. PICK f : f = CHOOSE h : Marked(cp, n, h)
  OBVIOUS
<1>3. Marked(cp, n, f)
  BY <1>1, <1>2, MarkedExists
<1>4. Shifted(cp) = f
  <2>1. f = CHOOSE h : h = [k \in 1 .. Units8(cp) |-> IF k = Units8(cp) THEN cp ELSE h[k + 1] \div 64 + Mark8[k + 1]]
    BY <1>1, <1>2 DEF Marked
  <2> QED BY <2>1 DEF Shifted
<1> QED BY <1>1, <1>3, <1>4

\* The bytes of a code point, in each length.
U1(cp) == <<cp>>
U2(cp) == <<192 + cp \div 64, 128 + (cp % 64)>>
U3(cp) == <<224 + cp \div 4096, 128 + ((cp \div 64) % 64), 128 + (cp % 64)>>
U4(cp) == <<240 + cp \div 262144, 128 + ((cp \div 4096) % 64), 128 + ((cp \div 64) % 64), 128 + (cp % 64)>>

LEMMA OneByte ==
  ASSUME NEW cp \in Nat, cp < 128
  PROVE  strutf8(cp) = U1(cp)
<1>1. Units8(cp) = 1
  BY DEF Units8
<1>2. PICK f : f = Shifted(cp) /\ Marked(cp, 1, f)
  BY <1>1, ShiftedIs
<1>3. f[1] = cp
  BY <1>2 DEF Marked
<1>4. strutf8(cp) = [k \in 1 .. 1 |-> IF k = 1 THEN f[1] ELSE 128 + (f[k] % 64)]
  BY <1>1, <1>2 DEF strutf8
<1>5. strutf8(cp) = <<f[1]>>
  BY <1>4
<1> QED BY <1>3, <1>5 DEF U1

LEMMA TwoBytes ==
  ASSUME NEW cp \in Nat, cp >= 128, cp < 2048
  PROVE  strutf8(cp) = U2(cp)
<1>1. Units8(cp) = 2
  BY DEF Units8
<1>2. PICK f : f = Shifted(cp) /\ Marked(cp, 2, f)
  BY <1>1, ShiftedIs
<1>3. f[2] = cp /\ f[1] = f[2] \div 64 + Mark8[2]
  BY <1>2 DEF Marked
<1>4. Mark8[2] = 192
  BY DEF Mark8
<1>5. f[1] = 192 + cp \div 64
  BY <1>3, <1>4
<1>6. strutf8(cp) = [k \in 1 .. 2 |-> IF k = 1 THEN f[1] ELSE 128 + (f[k] % 64)]
  BY <1>1, <1>2 DEF strutf8
<1>7. strutf8(cp) = <<f[1], 128 + (f[2] % 64)>>
  BY <1>6
<1> QED BY <1>3, <1>5, <1>7 DEF U2

LEMMA ThreeBytes ==
  ASSUME NEW cp \in Nat, cp >= 2048, cp < 65536
  PROVE  strutf8(cp) = U3(cp)
<1>1. Units8(cp) = 3
  BY DEF Units8
<1>2. PICK f : f = Shifted(cp) /\ Marked(cp, 3, f)
  BY <1>1, ShiftedIs
<1>3. f[3] = cp /\ f[2] = f[3] \div 64 + Mark8[3] /\ f[1] = f[2] \div 64 + Mark8[2]
  BY <1>2 DEF Marked
<1>4. Mark8[3] = 2048 /\ Mark8[2] = 192
  BY DEF Mark8
<1>5. PICK b \in Nat, c \in Nat : /\ f[2] = b /\ b = cp \div 64 + 2048 /\ f[1] = c /\ c = b \div 64 + 192
  BY <1>3, <1>4
<1>6. c = 224 + cp \div 4096 /\ b % 64 = (cp \div 64) % 64
  BY <1>5
<1>7. strutf8(cp) = [k \in 1 .. 3 |-> IF k = 1 THEN f[1] ELSE 128 + (f[k] % 64)]
  BY <1>1, <1>2 DEF strutf8
<1>8. strutf8(cp) = <<f[1], 128 + (f[2] % 64), 128 + (f[3] % 64)>>
  BY <1>7
<1> QED BY <1>3, <1>5, <1>6, <1>8 DEF U3

LEMMA FourBytes ==
  ASSUME NEW cp \in Nat, cp >= 65536, cp < 2097152
  PROVE  strutf8(cp) = U4(cp)
<1>1. Units8(cp) = 4
  BY DEF Units8
<1>2. PICK f : f = Shifted(cp) /\ Marked(cp, 4, f)
  BY <1>1, ShiftedIs
<1>3. /\ f[4] = cp /\ f[3] = f[4] \div 64 + Mark8[4] /\ f[2] = f[3] \div 64 + Mark8[3]
      /\ f[1] = f[2] \div 64 + Mark8[2]
  BY <1>2 DEF Marked
<1>4. Mark8[4] = 65536 /\ Mark8[3] = 2048 /\ Mark8[2] = 192
  BY DEF Mark8
<1>5. PICK b \in Nat, c \in Nat, d \in Nat :
        /\ f[3] = b /\ b = cp \div 64 + 65536 /\ f[2] = c /\ c = b \div 64 + 2048
        /\ f[1] = d /\ d = c \div 64 + 192
  BY <1>3, <1>4
<1>6. d = 240 + cp \div 262144 /\ c % 64 = (cp \div 4096) % 64 /\ b % 64 = (cp \div 64) % 64
  BY <1>5
<1>7. strutf8(cp) = [k \in 1 .. 4 |-> IF k = 1 THEN f[1] ELSE 128 + (f[k] % 64)]
  BY <1>1, <1>2 DEF strutf8
<1>8. strutf8(cp) = <<f[1], 128 + (f[2] % 64), 128 + (f[3] % 64), 128 + (f[4] % 64)>>
  BY <1>7
<1> QED BY <1>3, <1>5, <1>6, <1>8 DEF U4

\* Of five and six bytes only the lead byte matters, which strutf32 does not know.
LEMMA ManyBytes ==
  ASSUME NEW cp \in Nat, cp >= 2097152, cp <= 2147483647
  PROVE  strutf8(cp)[1] \in 248 .. 255
<1>1. CASE cp < 67108864
  <2>1. Units8(cp) = 5
    BY <1>1 DEF Units8
  <2>2. PICK f : f = Shifted(cp) /\ Marked(cp, 5, f)
    BY <2>1, ShiftedIs
  <2>3. /\ f[5] = cp /\ f[4] = f[5] \div 64 + Mark8[5] /\ f[3] = f[4] \div 64 + Mark8[4]
        /\ f[2] = f[3] \div 64 + Mark8[3] /\ f[1] = f[2] \div 64 + Mark8[2]
    BY <2>2 DEF Marked
  <2>4. Mark8[5] = 2097152 /\ Mark8[4] = 65536 /\ Mark8[3] = 2048 /\ Mark8[2] = 192
    BY DEF Mark8
  <2>5. f[1] \in 248 .. 255
    BY <1>1, <2>3, <2>4
  <2>6. strutf8(cp)[1] = f[1]
    BY <2>1, <2>2 DEF strutf8
  <2> QED BY <2>5, <2>6
<1>2. CASE cp >= 67108864
  <2>1. Units8(cp) = 6
    BY <1>2 DEF Units8
  <2>2. PICK f : f = Shifted(cp) /\ Marked(cp, 6, f)
    BY <2>1, ShiftedIs
  <2>3. /\ f[6] = cp /\ f[5] = f[6] \div 64 + Mark8[6] /\ f[4] = f[5] \div 64 + Mark8[5]
        /\ f[3] = f[4] \div 64 + Mark8[4]
        /\ f[2] = f[3] \div 64 + Mark8[3] /\ f[1] = f[2] \div 64 + Mark8[2]
    BY <2>2 DEF Marked
  <2>4. /\ Mark8[6] = 67108864 /\ Mark8[5] = 2097152 /\ Mark8[4] = 65536 /\ Mark8[3] = 2048
        /\ Mark8[2] = 192
    BY DEF Mark8
  <2>5. f[1] \in 248 .. 255
    BY <1>2, <2>3, <2>4
  <2>6. strutf8(cp)[1] = f[1]
    BY <2>1, <2>2 DEF strutf8
  <2> QED BY <2>5, <2>6
<1> QED BY <1>1, <1>2

\* The or of two numbers of two bits.
LEMMA OrIs ==
  ASSUME NEW x \in 0 .. 3, NEW y \in 0 .. 3
  PROVE  /\ Or2(x, y) \in x .. x + y /\ (y = 0 => Or2(x, y) = x)
         /\ (Or2(x, y) = x => y \in {0, x} \/ x = 3)
<1>1. x \in {0, 1, 2, 3} /\ y \in {0, 1, 2, 3}
  OBVIOUS
<1>2. CASE x = 0
  BY <1>1, <1>2 DEF Or2
<1>3. CASE x = 1
  BY <1>1, <1>3 DEF Or2
<1>4. CASE x = 2
  BY <1>1, <1>4 DEF Or2
<1>5. CASE x = 3
  BY <1>1, <1>5 DEF Or2
<1> QED BY <1>1, <1>2, <1>3, <1>4, <1>5

\* Where strutf32 moves the third byte of four by 8 bits and not by 6.
Skewed(h, m, c, l) == h * 262144 + (m \div 4) * 16384 + Or2(m % 4, c \div 16) * 4096 + ((c % 16) * 256) + l
Straight(h, m, c, l) == h * 262144 + m * 4096 + c * 64 + l
LEMMA ShiftedBy8 ==
  ASSUME NEW h \in Nat, NEW m \in Nat, m <= 63, NEW c \in Nat, c <= 63, NEW l \in Nat
  PROVE  Skewed(h, m, c, l) = Straight(h, m, c, l) <=> c = 0
<1> DEFINE x == m % 4
           y == c \div 16
           u == m \div 4
           v == c % 16
           o == Or2(x, y)
<1>1. x \in 0 .. 3 /\ y \in 0 .. 3 /\ u \in 0 .. 15 /\ v \in 0 .. 15
  BY SMT
<1>2. m = 4 * u + x /\ c = 16 * y + v
  BY SMT
<1>3. o \in Int /\ o >= x /\ (y = 0 => o = x)
  BY <1>1, OrIs
<1> HIDE DEF x, y, u, v, o
<1>4. c = 0 <=> y = 0 /\ v = 0
  BY <1>1, <1>2, SMT
<1>5. (h * 262144 + u * 16384 + o * 4096 + (v * 256) + l = h * 262144 + m * 4096 + c * 64 + l) <=> c = 0
  <2>1. CASE y = 0
    <3>1. o = x
      BY <1>3, <2>1
    <3> QED BY <1>1, <1>2, <2>1, <3>1, SMT
  <2>2. CASE y > 0
    <3>1. m * 4096 = u * 16384 + x * 4096 /\ c * 64 = 1024 * y + 64 * v
      BY <1>1, <1>2, SMT
    <3>2. o * 4096 + v * 256 # x * 4096 + 1024 * y + 64 * v
      <4>1. CASE o = x
        BY <1>1, <1>3, <2>2, <4>1, SMT
      <4>2. CASE o >= x + 1
        BY <1>1, <1>3, <2>2, <4>2, SMT
      <4> QED BY <1>1, <1>3, <4>1, <4>2, SMT
    <3>3. c # 0
      BY <1>1, <1>4, <2>2, SMT
    <3> QED BY <1>1, <1>3, <3>1, <3>2, <3>3, SMT
  <2> QED BY <1>1, <2>1, <2>2, SMT
<1>6. Skewed(h, m, c, l) = h * 262144 + u * 16384 + o * 4096 + (v * 256) + l
  BY SMT DEF Skewed, x, y, u, v, o
<1>7. Straight(h, m, c, l) = h * 262144 + m * 4096 + c * 64 + l
  BY SMT DEF Straight
<1> QED BY <1>5, <1>6, <1>7, SMT

\* The four bytes of a code point, by their bits.
LEMMA FourParts ==
  ASSUME NEW cp \in Nat, cp < 2097152,
         NEW a, NEW m, NEW c, NEW l,
         a = cp \div 262144, m = (cp \div 4096) % 64, c = (cp \div 64) % 64, l = cp % 64
  PROVE  /\ a \in 0 .. 7 /\ m \in 0 .. 63 /\ c \in 0 .. 63 /\ l \in 0 .. 63
         /\ cp = a * 262144 + m * 4096 + c * 64 + l
<1>1. a \in 0 .. 7 /\ m \in 0 .. 63 /\ c \in 0 .. 63 /\ l \in 0 .. 63
  BY SMT
<1>2. cp = a * 262144 + m * 4096 + c * 64 + l
  BY SMT
<1> QED BY <1>1, <1>2

\* A code point of four bytes, as strutf32 reads it.
LEMMA ReadFour ==
  ASSUME NEW cp \in Nat, cp >= 65536, cp < 2097152
  PROVE  /\ strutf32(U4(cp)) = <<cp, 4>> <=> (cp \div 64) % 64 = 0
         /\ CodePoint(U4(cp), 4) = cp /\ Len(U4(cp)) = 4
<1> DEFINE a == cp \div 262144
           m == (cp \div 4096) % 64
           c == (cp \div 64) % 64
           l == cp % 64
           s == U4(cp)
           x == Skewed(a, m, c, l)
<1>1. s[1] = 240 + a /\ s[2] = 128 + m /\ s[3] = 128 + c /\ s[4] = 128 + l /\ Len(s) = 4
  BY SMT DEF U4
<1> HIDE DEF a, m, c, l, s
<1>2. /\ a \in 0 .. 7 /\ m \in 0 .. 63 /\ c \in 0 .. 63 /\ l \in 0 .. 63
      /\ cp = a * 262144 + m * 4096 + c * 64 + l
  BY FourParts, SMT DEF a, m, c, l
<1>3. Low(s[2]) = m /\ Low(s[3]) = c /\ Low(s[4]) = l
  BY <1>1, <1>2, SMT DEF Low
<1>4. s[2] % 4 = m % 4 /\ s[1] % 8 = a
  BY <1>1, <1>2, SMT
<1>5. ~(s[1] < 128) /\ s[1] \div 32 # 6 /\ s[1] \div 16 # 14 /\ s[1] \div 8 = 30
  BY <1>1, <1>2, SMT
<1>6. CodePoint(s, 4) = a * 262144 + m * 4096 + c * 64 + l
  BY <1>3, <1>4, SMT DEF CodePoint
<1>7. Straight(a, m, c, l) = a * 262144 + m * 4096 + c * 64 + l
  BY SMT DEF Straight
<1>8. strutf32(s) = <<x, 4>>
  BY <1>3, <1>4, <1>5, SMT DEF strutf32, Skewed
<1> HIDE DEF x
<1>9. x = cp <=> c = 0
  <2>1. a \in Nat /\ m \in Nat /\ m <= 63 /\ c \in Nat /\ c <= 63 /\ l \in Nat
    BY <1>2, SMT
  <2>2. Skewed(a, m, c, l) = Straight(a, m, c, l) <=> c = 0
    BY <2>1, ShiftedBy8, SMT
  <2>3. x = Straight(a, m, c, l) <=> c = 0
    BY <2>2, SMT DEF x
  <2> QED BY <1>2, <1>7, <2>3, SMT
<1>10. CodePoint(s, 4) = cp
  BY <1>2, <1>6, SMT
<1>11. strutf32(s) = <<cp, 4>> <=> c = 0
  BY <1>8, <1>9, SMT
<1> QED BY <1>1, <1>10, <1>11, SMT DEF s, c

\* One of up to three bytes.
LEMMA ReadThree ==
  ASSUME NEW cp \in Nat, cp < 65536, NEW s, s = strutf8(cp)
  PROVE  strutf32(s) = <<cp, Len(s)>> /\ CodePoint(s, Len(s)) = cp
<1>1. CASE cp < 128
  <2>1. s[1] = cp /\ Len(s) = 1
    BY <1>1, OneByte DEF U1
  <2> QED BY <1>1, <2>1 DEF strutf32, CodePoint
<1>2. CASE cp >= 128 /\ cp < 2048
  <2>1. s[1] = 192 + cp \div 64 /\ s[2] = 128 + (cp % 64) /\ Len(s) = 2
    BY <1>2, TwoBytes DEF U2
  <2>2. ~(s[1] < 128) /\ s[1] \div 32 = 6 /\ ((s[1] % 32) * 64) + (s[2] % 64) = cp
    BY <1>2, <2>1
  <2> QED BY <2>1, <2>2 DEF strutf32, CodePoint, Low
<1>3. CASE cp >= 2048
  <2>1. s[1] = 224 + cp \div 4096 /\ s[2] = 128 + ((cp \div 64) % 64) /\ s[3] = 128 + (cp % 64) /\ Len(s) = 3
    BY <1>3, ThreeBytes DEF U3
  <2>2. /\ ~(s[1] < 128) /\ s[1] \div 32 # 6 /\ s[1] \div 16 = 14
        /\ ((s[1] % 16) * 4096) + (s[2] % 64) * 64 + (s[3] % 64) = cp
    BY <1>3, <2>1
  <2> QED BY <2>1, <2>2 DEF strutf32, CodePoint, Low
<1> QED BY <1>1, <1>2, <1>3

(* UTF-8 of every code point that fits 31 bits.                             *)
THEOREM Utf8Correct == \A cp \in Nat : cp <= 2147483647 => Utf8Agrees(cp)
<1> SUFFICES ASSUME NEW cp \in Nat, cp <= 2147483647 PROVE Utf8Agrees(cp)
  OBVIOUS
<1>0. cp \in Nat /\ cp <= 2147483647
  OBVIOUS
<1>1. CASE cp < 65536
  <2>1. json_encode_utf8(cp) = strutf8(cp)
    BY <1>0, <1>1, OneByte, TwoBytes, ThreeBytes, SMT DEF json_encode_utf8, U1, U2, U3
  <2> QED BY <1>0, <1>1, <2>1, ReadThree, SMT DEF Utf8Agrees, ReadBack
<1>2. CASE cp >= 65536 /\ cp < 2097152
  <2>1. strutf8(cp) = U4(cp)
    BY <1>0, <1>2, FourBytes, SMT
  <2>2. json_encode_utf8(cp) = U4(cp)
    BY <1>0, <1>2, SMT DEF json_encode_utf8, U4
  <2>3. /\ strutf32(U4(cp)) = <<cp, 4>> <=> (cp \div 64) % 64 = 0
        /\ CodePoint(U4(cp), 4) = cp /\ Len(U4(cp)) = 4
    BY <1>0, <1>2, ReadFour, SMT
  <2>4. ReadBack(cp) <=> (cp \div 64) % 64 = 0
    BY <2>1, <2>3, SMT DEF ReadBack
  <2> QED BY <1>0, <1>2, <2>1, <2>2, <2>3, <2>4, SMT DEF Utf8Agrees
<1>3. CASE cp >= 2097152
  <2>1. PICK b \in 248 .. 255 : b = strutf8(cp)[1]
    BY <1>0, <1>3, ManyBytes, SMT
  <2>2. ~(b < 128) /\ b \div 32 # 6 /\ b \div 16 # 14 /\ b \div 8 # 30
    BY SMT
  <2>3. strutf32(strutf8(cp)) = <<0, 0>>
    BY <2>1, <2>2, SMT DEF strutf32
  <2>4. ~ReadBack(cp)
    BY <1>0, <1>3, <2>3, SMT DEF ReadBack
  <2> QED BY <1>0, <1>3, <2>4, SMT DEF Utf8Agrees
<1> QED BY <1>0, <1>1, <1>2, <1>3, SMT
=============================================================================
