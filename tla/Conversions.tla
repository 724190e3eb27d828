----------------------------- MODULE Conversions -----------------------------
(* Conversions between forms of the same data: base64.h, UTF-8 in cstring.h *)
(* and json.h, and the numbers of tools.h and time.h. Bytes, characters and *)
(* code points are numbers; a text ends before its NUL. An or of values     *)
(* with no bit in common is their sum.                                      *)
EXTENDS Integers, Sequences, FiniteSetsExt, SequencesExt

BeforeNUL(s) == SubSeq(s, 1, Min({i \in DOMAIN s : s[i] = 0} \cup {Len(s) + 1}) - 1)

----------------------------------------------------------------------------
(* base64.h. A character of the code is its place in the table, Pad is "=", *)
(* and anything above it is no character of the code. Of the 32 bits of v   *)
(* only 24 are ever used; a char that is signed and negative sets all the   *)
(* bits above its own, and so does the table's -1 for "=".                  *)
Pad == 64
Bits24 == 16777216

(* Mutant: the size of whole groups. *)
base64_encoded_size_whole(len) == (len \div 3) * 4
base64_encoded_size(len) == ((len + IF len % 3 = 0 THEN 0 ELSE 3 - (len % 3)) \div 3) * 4

Sextets(v) == <<v \div 262144, (v \div 4096) % 64, (v \div 64) % 64, v % 64>>
Octets(v) == <<v \div 65536, (v \div 256) % 256, v % 256>>
OrByte(v, c, signed) == IF signed /\ c >= 128 THEN Bits24 - 256 + c ELSE (v * 256 + c) % Bits24
Packed(s, i, signed) ==
  LET v1 == OrByte(0, s[i], signed)
      v2 == IF i + 1 <= Len(s) THEN OrByte(v1 % 65536, s[i + 1], signed) ELSE (v1 % 65536) * 256
  IN IF i + 2 <= Len(s) THEN OrByte(v2 % 65536, s[i + 2], signed) ELSE (v2 % 65536) * 256
base64_encode(s, signed) ==
  [j \in 1 .. base64_encoded_size(Len(s)) |->
     LET i == 3 * ((j - 1) \div 4) + 1
         k == ((j - 1) % 4) + 1
     IN IF i + k - 2 <= Len(s) THEN Sextets(Packed(s, i, signed))[k] ELSE Pad]

(* calloc is asked for one pointer more than the size: where more than two   *)
(* "=" end the text it may be asked for none, or for more than there is.    *)
Pads(t) == Len(t) - Max({i \in DOMAIN t : t[i] # Pad} \cup {0})
base64_decoded_size(t) == (Len(t) \div 4) * 3 - Pads(t)
PointerSize == 8
Allocated(t) == (base64_decoded_size(t) + 1) * PointerSize

base64_is_valid_char(c) == c <= Pad
Refused(t) == Len(t) % 4 # 0 \/ \E i \in DOMAIN t : ~base64_is_valid_char(t[i])
OrSextet(v, c) == IF c = Pad THEN Bits24 - 1 ELSE ((v * 64) % Bits24) + c
(* The bytes at the offsets the loop writes; calloc left 0 at the others.   *)
Written(t) == {j \in 0 .. (Len(t) \div 4) * 3 - 1 :
                 j % 3 = 0 \/ t[4 * (j \div 3) + (j % 3) + 2] # Pad}
Unpacked(t, i) ==
  LET v2 == OrSextet(OrSextet(0, t[i]) % 262144, t[i + 1]) % 262144
      v3 == IF t[i + 2] = Pad THEN v2 * 64 ELSE OrSextet(v2, t[i + 2])
  IN IF t[i + 3] = Pad THEN (v3 % 262144) * 64 ELSE OrSextet(v3 % 262144, t[i + 3])
base64_decode(t) ==
  [j \in 1 .. (Len(t) \div 4) * 3 |->
     IF j - 1 \in Written(t) THEN Octets(Unpacked(t, 4 * ((j - 1) \div 3) + 1))[((j - 1) % 3) + 1] ELSE 0]

(* What was encoded decodes to itself, unless char is signed and a byte     *)
(* from 128 on has overwritten a byte of its group before it.               *)
Overwrites(s) ==
  \E i \in DOMAIN s : s[i] >= 128 /\ \E j \in (i - ((i - 1) % 3)) .. i - 1 : s[j] # 255
Base64Agrees(s) ==
  \A signed \in BOOLEAN :
    LET t == base64_encode(s, signed)
    IN /\ Len(t) % 4 = 0 /\ ~Refused(t)
       /\ (BeforeNUL(base64_decode(t)) = s) <=> ~(signed /\ Overwrites(s))

(* Decoding stays inside its memory as long as each group has at most two   *)
(* "=", which is all encoding writes, and those at the end: sizes are       *)
(* counted from the end of the text only.                                   *)
Base64Inside(t) ==
  ~Refused(t) /\ Pads(t) <= 2 => \A j \in Written(t) : j < Allocated(t)

----------------------------------------------------------------------------
(* UTF-8. strutf8 writes a code point to up to six bytes, from the last to  *)
(* the first, and marks the lead byte bit by bit on the way.                *)
Mark8 == <<0, 192, 2048, 65536, 2097152, 67108864>>
Units8(cp) ==
  IF cp < 128 THEN 1 ELSE IF cp < 2048 THEN 2 ELSE IF cp < 65536 THEN 3
  ELSE IF cp < 2097152 THEN 4 ELSE IF cp < 67108864 THEN 5 ELSE 6
Shifted(cp) ==
  LET n == Units8(cp)
      rest[k \in 1 .. n] == IF k = n THEN cp ELSE rest[k + 1] \div 64 + Mark8[k + 1]
  IN rest
strutf8(cp) == [k \in 1 .. Units8(cp) |-> IF k = 1 THEN Shifted(cp)[1] ELSE 128 + (Shifted(cp)[k] % 64)]

(* The code point of the n bytes at the front of s. *)
Low(b) == b % 64
CodePoint(s, n) ==
  CASE n = 1 -> s[1]
    [] n = 2 -> ((s[1] % 32) * 64) + Low(s[2])
    [] n = 3 -> ((s[1] % 16) * 4096) + Low(s[2]) * 64 + Low(s[3])
    [] n = 4 -> ((s[1] % 8) * 262144) + Low(s[2]) * 4096 + Low(s[3]) * 64 + Low(s[4])

(* The code point at the front, and how many bytes it took; a lead byte of  *)
(* five or six gives 0 and takes none. Of four bytes the third is moved by  *)
(* 8 bits, over the second, and not by 6.                                   *)
Or2(x, y) == x + y - ((x % 2) * (y % 2) + 2 * (x \div 2) * (y \div 2))
strutf32(s) ==
  LET b == s[1] IN
  CASE b < 128 -> <<CodePoint(s, 1), 1>>
    [] b \div 32 = 6 -> <<CodePoint(s, 2), 2>>
    [] b \div 16 = 14 -> <<CodePoint(s, 3), 3>>
    [] b \div 8 = 30 ->
         LET c == Low(s[3])
         IN <<(b % 8) * 262144 + (Low(s[2]) \div 4) * 16384 + Or2(s[2] % 4, c \div 16) * 4096
                + ((c % 16) * 256) + Low(s[4]), 4>>
    [] OTHER -> <<0, 0>>

(* Mutant: no code point takes four bytes.                                  *)
json_encode_utf8_three(u) ==
  IF u <= 127 THEN <<u>>
  ELSE IF u <= 2047 THEN <<192 + u \div 64, 128 + (u % 64)>>
  ELSE <<224 + u \div 4096, 128 + ((u \div 64) % 64), 128 + (u % 64)>>
json_encode_utf8(u) ==
  IF u <= 127 THEN <<u>>
  ELSE IF u <= 2047 THEN <<192 + u \div 64, 128 + (u % 64)>>
  ELSE IF u <= 65535 THEN <<224 + u \div 4096, 128 + ((u \div 64) % 64), 128 + (u % 64)>>
  ELSE <<240 + u \div 262144, 128 + ((u \div 4096) % 64), 128 + ((u \div 64) % 64), 128 + (u % 64)>>

(* json.h writes a code point as strutf8 does. strutf32 reads back those of *)
(* up to three bytes, and of four only those whose third byte has no bits.  *)
ReadBack(cp) == strutf32(strutf8(cp)) = <<cp, Len(strutf8(cp))>>
Utf8Agrees(cp) ==
  /\ cp <= 1114111 => json_encode_utf8(cp) = strutf8(cp)
  /\ ReadBack(cp) <=> cp < 65536 \/ (cp < 2097152 /\ (cp \div 64) % 64 = 0)
  /\ cp < 2097152 => CodePoint(strutf8(cp), Len(strutf8(cp))) = cp

(* strwiden_: the wide characters, a pair of surrogates for a code point    *)
(* from 2^16 on; NoText for what is no UTF-8. The text ends at its NUL.       *)
NoText == <<-1>>
Follow(s, i) == IF i <= Len(s) THEN s[i] ELSE 0
strwiden_(text) ==
  LET s == BeforeNUL(text)
      Ok(i, from, to) == Follow(s, i) \in from .. to
      Takes(i) ==
        LET b == s[i] IN
        CASE b < 128 -> 1
          [] b \div 32 = 6 -> IF b >= 194 /\ Ok(i + 1, 128, 191) THEN 2 ELSE 0
          [] b \div 16 = 14 ->
               IF /\ b = 224 => Ok(i + 1, 160, 191)
                  /\ b = 237 => Follow(s, i + 1) <= 159
                  /\ Ok(i + 1, 128, 191) /\ Ok(i + 2, 128, 191) THEN 3 ELSE 0
          [] b \div 8 = 30 ->
               IF /\ b <= 244
                  /\ b = 240 => Ok(i + 1, 144, 191)
                  /\ b = 244 => Follow(s, i + 1) <= 143
                  /\ \A k \in 1 .. 3 : Ok(i + k, 128, 191) THEN 4 ELSE 0
          [] OTHER -> 0
      Wide(c) == IF c < 65536 THEN <<c>>
                 ELSE <<55296 + (c - 65536) \div 1024, 56320 + ((c - 65536) % 1024)>>
      W[i \in 1 .. Len(s) + 1] ==
        IF i = Len(s) + 1 THEN <<>>
        ELSE IF Takes(i) = 0 \/ W[i + Takes(i)] = NoText THEN NoText
        ELSE Wide(CodePoint(SubSeq(s, i, Len(s)), Takes(i))) \o W[i + Takes(i)]
  IN W[1]

(* strshorten_, of characters of 16 bits up to the first 0: NoText for the    *)
(* low half of a pair where no high one was before it. The high half takes  *)
(* whatever follows for the low one: at the end the terminator, and the     *)
(* loop goes on behind the text (Past).                                     *)
Past == <<-2>>
High(u) == u \in 55296 .. 56319
LowHalf(u) == u \in 56320 .. 57343
strshorten_(w) ==
  LET Pair(k) == ((w[k] - 55296) * 1024 + (Follow(w, k + 1) - 56320)) + 65536
      Four(c) == <<240 + c \div 262144, 128 + ((c \div 4096) % 64), 128 + ((c \div 64) % 64), 128 + (c % 64)>>
      Before(bytes, rest) == IF rest \in {NoText, Past} THEN rest ELSE bytes \o rest
      S[i \in 1 .. Len(w) + 2] ==
        IF i = Len(w) + 2 THEN Past
        ELSE LET u == Follow(w, i)
             IN CASE u = 0 -> <<>>
                  [] High(u) -> Before(Four(Pair(i)), S[i + 2])
                  [] LowHalf(u) -> NoText
                  [] OTHER -> Before(json_encode_utf8(u), S[i + 1])
  IN S[1]

(* strwiden and strshorten allocate six bytes for each byte or character.   *)
(* That is room for characters of two bytes and for a terminator as soon as *)
(* the text is not empty; for those of four only from two bytes on.         *)
Allotted(n) == 6 * n
WideInside(s, w) ==
  /\ \A size \in {2, 4} : size * (Len(w) + 1) <= Allotted(Len(s)) <=> Len(s) >= size \div 2
  /\ Len(s) + 1 <= Allotted(Len(w)) <=> w # <<>>

(* What is widened is UTF-8 of code points that are no surrogates, in the   *)
(* shortest form, and shortened it is what it was.                          *)
IsPoint(c) == c \in 1 .. 1114111 /\ c \notin 55296 .. 57343
WideAgrees(text) ==
  LET s == BeforeNUL(text)
      w == strwiden_(text)
      Shortest(part) == \E k \in 1 .. 4 :
        /\ Len(part) = k /\ IsPoint(CodePoint(part, k)) /\ strutf8(CodePoint(part, k)) = part
      Valid[i \in 1 .. Len(s) + 1] ==
        \/ i = Len(s) + 1
        \/ \E j \in i .. Min({i + 3, Len(s)}) : Shortest(SubSeq(s, i, j)) /\ Valid[j + 1]
  IN IF Valid[1] THEN w # NoText /\ strshorten_(w) = s /\ WideInside(s, w) ELSE w = NoText

----------------------------------------------------------------------------
(* Upper and lower case, in cstring.h. istrcmp asks the C library, streqi   *)
(* sets the bit in which the cases of a letter differ.                      *)
tolower(c) == IF c \in 65 .. 90 THEN c + 32 ELSE c
toupper(c) == IF c \in 97 .. 122 THEN c - 32 ELSE c
Bit32(c) == IF (c \div 32) % 2 = 0 THEN c + 32 ELSE c
istrcmp(p, q) ==
  LET i == Min({k \in DOMAIN p : tolower(p[k]) # tolower(Follow(q, k))} \cup {Len(p) + 1})
  IN tolower(Follow(p, i)) - tolower(Follow(q, i))
(* Mutant: a text that goes on where the other one ends is equal to it.     *)
streqi_prefix(s, t) == \A i \in DOMAIN s \cap DOMAIN t : Bit32(s[i]) = Bit32(t[i])
streqi(s, t) == Len(s) = Len(t) /\ \A i \in DOMAIN s : Bit32(s[i]) = Bit32(t[i])
strlower(s) == [i \in DOMAIN s |-> tolower(s[i])]
strupper(s) == [i \in DOMAIN s |-> toupper(s[i])]

(* The comparison is one of texts in lower case and in upper case alike;    *)
(* streqi takes for equal what is, and two characters that are no letters   *)
(* and differ in the same bit, as "@" and "`" do.                           *)
CaseAgrees(s, t) ==
  LET alike == \E i \in DOMAIN s \cap DOMAIN t :
                 /\ Bit32(s[i]) = Bit32(t[i]) /\ s[i] # t[i] /\ tolower(s[i]) # tolower(t[i])
  IN /\ istrcmp(s, t) = 0 <=> strlower(s) = strlower(t)
     /\ istrcmp(s, t) = 0 <=> strupper(s) = strupper(t)
     /\ istrcmp(s, t) = -istrcmp(t, s)
     /\ istrcmp(s, t) = 0 => streqi(s, t)
     /\ streqi(s, t) /\ istrcmp(s, t) # 0 => alike

----------------------------------------------------------------------------
(* Hexadecimal numbers of tools.h and md5.h: a number is its digits, the    *)
(* highest first, and a text the codes of its characters. A result that is  *)
(* no int is `Undefined`.                                                   *)
Hash == 35
Zero == 48
LowerDigit(d) == IF d < 10 THEN Zero + d ELSE 87 + d
UpperDigit(d) == IF d < 10 THEN Zero + d ELSE 55 + d
Map(f(_), s) == [i \in DOMAIN s |-> f(s[i])]

(* Mutant: letters are taken for the characters behind the digits.          *)
char_to_int_plain(c) == IF c - Zero \in 0 .. 15 THEN c - Zero ELSE 0
char_to_int(c) ==
  LET i == IF c - Zero >= 49 THEN c - Zero - 39 ELSE c - Zero
  IN IF i \in 0 .. 15 THEN i ELSE 0

Undefined == <<>>
Significant(d) == SubSeq(d, Min({i \in DOMAIN d : d[i] # 0} \cup {Len(d)}), Len(d))
color_hex_to_int(str) ==
  LET d == Significant(Map(char_to_int, str))
  IN IF Len(d) > 8 \/ (Len(d) = 8 /\ d[1] >= 8) THEN Undefined ELSE d

color_hex_to_str(hex) == <<Hash>> \o Map(UpperDigit, hex)
(* strtol takes the digits of both cases up to what is none.                *)
strtol16(str) ==
  LET Value(c) == CHOOSE d \in 0 .. 16 : d = 16 \/ c \in {LowerDigit(d), UpperDigit(d)}
      n == Min({i \in DOMAIN str : Value(str[i]) = 16} \cup {Len(str) + 1}) - 1
  IN IF n = 0 THEN <<0>> ELSE Significant(Map(Value, SubSeq(str, 1, n)))
color_str_to_hex(str) == strtol16(IF str # <<>> /\ str[1] = Hash THEN Tail(str) ELSE str)

(* A word as the bytes the colour functions take it apart into, by name.    *)
BytesOf(hex) == [i \in 1 .. 4 |-> 16 * hex[2 * i - 1] + hex[2 * i]]
color_hex_to_argb(hex) == [a |-> BytesOf(hex)[1], r |-> BytesOf(hex)[2], g |-> BytesOf(hex)[3], b |-> BytesOf(hex)[4]]
color_hex_to_rgba(hex) == [r |-> BytesOf(hex)[1], g |-> BytesOf(hex)[2], b |-> BytesOf(hex)[3], a |-> BytesOf(hex)[4]]
color_hex_to_rgb(hex) == [r |-> BytesOf(hex)[2], g |-> BytesOf(hex)[3], b |-> BytesOf(hex)[4]]
Word(bytes) == [i \in 1 .. 8 |-> IF i % 2 = 1 THEN bytes[(i + 1) \div 2] \div 16 ELSE bytes[i \div 2] % 16]
color_argb_to_hex(c) == Word(<<c.a, c.r, c.g, c.b>>)
color_rgba_to_hex(c) == Word(<<c.r, c.g, c.b, c.a>>)
color_rgb_to_hex(c) == Word(<<0, c.r, c.g, c.b>>)

(* A word packs and unpacks in either order, and its text is read back by   *)
(* color_str_to_hex; color_hex_to_int reads the text of a word as another   *)
(* number as soon as a digit is a letter: it takes only small ones.         *)
ColoursAgree(hex) ==
  /\ color_argb_to_hex(color_hex_to_argb(hex)) = hex
  /\ color_rgba_to_hex(color_hex_to_rgba(hex)) = hex
  /\ color_rgb_to_hex(color_hex_to_rgb(hex)) = <<0, 0>> \o SubSeq(hex, 3, 8)
  /\ color_str_to_hex(color_hex_to_str(hex)) = Significant(hex)
  /\ hex[1] < 8 =>
       /\ color_hex_to_int(Map(LowerDigit, hex)) = Significant(hex)
       /\ (color_hex_to_int(color_hex_to_str(hex)) = Significant(hex)) <=> \A i \in 1 .. 8 : hex[i] < 10

(* md5_format: the digits of a digest of n bytes, if they and a NUL fit;    *)
(* what was in the buffer of dstCap bytes otherwise stays, or is cut off.   *)
(* Mutant: the low digit first.                                             *)
md5_format_byte_low(byte) == <<LowerDigit(byte % 16), LowerDigit(byte \div 16)>>
md5_format_byte(byte) == <<LowerDigit(byte \div 16), LowerDigit(byte % 16)>>
md5_format(dst, dstCap, hash) ==
  IF dstCap < 2 * Len(hash) + 1 THEN IF dstCap > 0 THEN <<0>> \o Tail(dst) ELSE dst
  ELSE [i \in DOMAIN dst |-> IF i <= 2 * Len(hash) THEN md5_format_byte(hash[(i + 1) \div 2])[2 - (i % 2)]
                             ELSE IF i = 2 * Len(hash) + 1 THEN 0 ELSE dst[i]]

(* The buffer keeps its length and holds a text: the digits, whose bytes    *)
(* char_to_int reads, or none.                                              *)
FormatAgrees(dstCap, hash) ==
  LET dst == md5_format([i \in 1 .. dstCap |-> Hash], dstCap, hash)
      text == BeforeNUL(dst)
  IN /\ Len(dst) = dstCap /\ (dstCap > 0 => Len(text) < dstCap)
     /\ text # <<>> => [i \in DOMAIN hash |-> 16 * char_to_int(text[2 * i - 1]) + char_to_int(text[2 * i])] = hash

----------------------------------------------------------------------------
(* time_zone (time.h): the local hour less that of UTC, from the minute of  *)
(* the day in UTC and the offset in minutes. It is the offset in hours, or  *)
(* 24 away from it while the two have different dates.                      *)
Day == 1440
time_zone(minute, offset) == ((minute + offset) % Day) \div 60 - minute \div 60
ZoneAgrees(minute, offset) ==
  LET days == (minute + offset) \div Day
  IN offset % 60 = 0 => time_zone(minute, offset) = offset \div 60 - 24 * days
=============================================================================
