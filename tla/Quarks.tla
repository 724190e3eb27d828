------------------------------- MODULE Quarks -------------------------------
(* strput and strget of cstring.h: the strings a thread interns, one behind *)
(* the other in one block of memory. quarkcap counts the room behind them.  *)
(* Growing gives the block quarklen + extend bytes, but adds extend to what *)
(* room was left: that room is counted twice.                               *)
EXTENDS Libc

CONSTANTS Letters,
          MaxText,     \* bound: letters of a text
          MaxQuarks    \* bound: bytes the strings take

ASSUME QuarksAssumption == Letters \subseteq Chars /\ MaxText \in Nat /\ MaxQuarks \in Nat

VARIABLES quarks,      \* the block, a sequence of bytes; empty before it is allocated
          quarklen, quarkcap,
          keys,        \* <<key, text>> for every call of strput
          twice,       \* the room that was left when the block last grew, and counts twice
          outside      \* a write went outside the block, which ends the program
quarksVars == <<quarks, quarklen, quarkcap, keys, twice, outside>>

QuarksInit ==
  /\ quarks = <<>> /\ quarklen = 0 /\ quarkcap = 0
  /\ keys = {} /\ twice = 0 /\ outside = FALSE

Resized(block, size) == [i \in 1 .. size |-> IF i <= Len(block) THEN block[i] ELSE Junk]
Stored(block, at, text) ==
  [i \in 1 .. Len(block) |->
     IF i \in at + 1 .. at + Len(text) THEN text[i - at]
     ELSE IF i = at + Len(text) + 1 THEN NUL ELSE block[i]]

(* The block after the first call has made it: two bytes, of which one is   *)
(* taken and none is counted as room.                                       *)
First(block) == IF block = <<>> THEN <<NUL, Junk>> ELSE block
FirstLen(n) == IF quarks = <<>> THEN 1 ELSE n

(* strput of NULL or of the empty string only makes the block.              *)
PutEmpty ==
  /\ ~outside
  /\ quarks' = First(quarks) /\ quarklen' = FirstLen(quarklen)
  /\ keys' = keys \cup {<<0, <<>>>>}
  /\ UNCHANGED <<quarkcap, twice, outside>>

Extend(len) == (3 * len) \div 2
(* Mutant: the block grows to the bytes asked for, without those in use.    *)
NewSize_short(n, len) == Extend(len)
NewSize(n, len) == n + Extend(len)
NewCap(cap, len) == cap + Extend(len)
strput(text) ==
  LET len == Len(text) + 1
      at == FirstLen(quarklen)
      grows == quarkcap < len
      block == IF grows THEN Resized(First(quarks), NewSize(at, len)) ELSE First(quarks)
  IN /\ ~outside /\ text # <<>> /\ at + len <= MaxQuarks
     /\ quarks' = Stored(block, at, text)
     /\ quarklen' = at + len
     /\ quarkcap' = (IF grows THEN NewCap(quarkcap, len) ELSE quarkcap) - len
     /\ keys' = keys \cup {<<at, text>>}
     /\ twice' = IF grows THEN quarkcap ELSE twice
     /\ outside' = (at + len > Len(block))

Texts == UNION {[1 .. n -> Letters] : n \in 1 .. MaxText}
QuarksNext == PutEmpty \/ \E text \in Texts : strput(text)
QuarksSpec == QuarksInit /\ [][QuarksNext]_quarksVars

(* strget: the text at a key. The assertion that there is a block holds for *)
(* every key there is.                                                      *)
strget(key, text) ==
  /\ \A i \in 1 .. Len(text) : quarks[key + i] = text[i]
  /\ quarks[key + Len(text) + 1] = NUL

(* Every key reads the string it was given for, whatever was put after it   *)
(* and however the block has grown.                                         *)
KeysRead == ~outside => \A k \in keys : strget(k[1], k[2])

(* The room counted is the room there is and what counts twice; of the      *)
(* first block a byte is not counted. Nothing else leads a string outside.  *)
RoomCounted ==
  /\ quarklen + quarkcap \in {Len(quarks) + twice, Len(quarks) - 1}
  /\ outside => twice > 0

QuarksAgree == KeysRead /\ (quarks # <<>> => RoomCounted)
=============================================================================
