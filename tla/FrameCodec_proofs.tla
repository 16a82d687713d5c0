-------------------------- MODULE FrameCodec_proofs --------------------------
(***************************************************************************)
(* Proofs about FrameCodec: a mask that is put on twice is gone, lengths   *)
(* are read as they were written, and extractFrame reads a frame wherever  *)
(* one is laid out.                                                        *)
(***************************************************************************)
EXTENDS FrameCodec, SequenceTheorems, TLAPS

Byte == 0..255

------------------------------------------------------------------------------
(* The operator ^ *)

LEMMA BitType ==
    ASSUME NEW n \in Nat, NEW weight \in Nat \ {0}
    PROVE  Bit(n, weight) \in {0, 1}
BY DEF Bit

\* A byte is its bits, and has the bits it is made of.
LEMMA BitsMakeByte ==
    ASSUME NEW n \in Byte
    PROVE  n = Bit(n, 1) + 2 * Bit(n, 2) + 4 * Bit(n, 4) + 8 * Bit(n, 8) + 16 * Bit(n, 16)
               + 32 * Bit(n, 32) + 64 * Bit(n, 64) + 128 * Bit(n, 128)
BY DEF Bit, Byte

LEMMA ByteHasBits ==
    ASSUME NEW a \in {0, 1}, NEW b \in {0, 1}, NEW c \in {0, 1}, NEW d \in {0, 1},
           NEW e \in {0, 1}, NEW f \in {0, 1}, NEW g \in {0, 1}, NEW h \in {0, 1},
           NEW n, n = a + 2 * b + 4 * c + 8 * d + 16 * e + 32 * f + 64 * g + 128 * h
    PROVE  /\ n \in Byte
           /\ Bit(n, 1) = a /\ Bit(n, 2) = b /\ Bit(n, 4) = c /\ Bit(n, 8) = d
           /\ Bit(n, 16) = e /\ Bit(n, 32) = f /\ Bit(n, 64) = g /\ Bit(n, 128) = h
BY DEF Bit, Byte

Flip(m, n, weight) == (Bit(m, weight) + Bit(n, weight)) % 2

LEMMA XorIs ==
    ASSUME NEW m \in Byte, NEW n \in Byte
    PROVE  /\ Xor(m, n) \in Byte
           /\ \A weight \in {1, 2, 4, 8, 16, 32, 64, 128} : Bit(Xor(m, n), weight) = Flip(m, n, weight)
<1>1. \A weight \in {1, 2, 4, 8, 16, 32, 64, 128} : Flip(m, n, weight) \in {0, 1}
  BY BitType DEF Flip, Byte
<1>2. Xor(m, n) = Flip(m, n, 1) + 2 * Flip(m, n, 2) + 4 * Flip(m, n, 4) + 8 * Flip(m, n, 8)
                  + 16 * Flip(m, n, 16) + 32 * Flip(m, n, 32) + 64 * Flip(m, n, 64)
                  + 128 * Flip(m, n, 128)
  <2>1. 1 * Flip(m, n, 1) = Flip(m, n, 1)
    BY <1>1
  <2> QED BY <2>1 DEF Xor, Flip
<1> QED BY <1>1, <1>2, ByteHasBits

\* What was masked is unmasked by the same key.
LEMMA XorTwice ==
    ASSUME NEW m \in Byte, NEW n \in Byte
    PROVE  Xor(Xor(m, n), n) = m
<1>1. Xor(m, n) \in Byte
  BY XorIs
<1>2. ASSUME NEW weight \in {1, 2, 4, 8, 16, 32, 64, 128}
      PROVE  Bit(Xor(Xor(m, n), n), weight) = Bit(m, weight)
  <2>1. Bit(Xor(Xor(m, n), n), weight) = (Flip(m, n, weight) + Bit(n, weight)) % 2
    BY <1>1, XorIs DEF Flip
  <2>2. Bit(m, weight) \in {0, 1} /\ Bit(n, weight) \in {0, 1}
    BY BitType DEF Byte
  <2> QED BY <2>1, <2>2 DEF Flip
<1>3. Xor(Xor(m, n), n) \in Byte
  BY <1>1, XorIs
<1> QED BY <1>2, <1>3, BitsMakeByte

------------------------------------------------------------------------------
(* Lengths *)

\* Each byte of a number is one, and the two readers put them together again.
LEMMA Read16 ==
    ASSUME NEW n \in Nat, n < 65536, NEW bytes, NEW at,
           bytes[at] = UInt16BE(n)[1], bytes[at + 1] = UInt16BE(n)[2]
    PROVE  ReadUInt16(bytes, at) = n
BY DEF ReadUInt16, UInt16BE

\* The eight bytes from `at' are those of n.
Holds64(bytes, at, n) ==
    /\ bytes[at] = UInt64BE(n)[1] /\ bytes[at + 1] = UInt64BE(n)[2]
    /\ bytes[at + 2] = UInt64BE(n)[3] /\ bytes[at + 3] = UInt64BE(n)[4]
    /\ bytes[at + 4] = UInt64BE(n)[5] /\ bytes[at + 5] = UInt64BE(n)[6]
    /\ bytes[at + 6] = UInt64BE(n)[7] /\ bytes[at + 7] = UInt64BE(n)[8]

LEMMA Read64 ==
    ASSUME NEW n \in Nat, n < Endless, NEW bytes, NEW at \in Nat, Holds64(bytes, at, n)
    PROVE  ReadUInt64(bytes, at) = n
<1>1. /\ bytes[at] = 0 /\ bytes[at + 1] = 0 /\ bytes[at + 2] = 0 /\ bytes[at + 3] = 0
      /\ bytes[at + 4] = (n \div 16777216) % 256
      /\ bytes[at + 5] = (n \div 65536) % 256
      /\ bytes[at + 6] = (n \div 256) % 256
      /\ bytes[at + 7] = n % 256
  BY SMT DEF Holds64, UInt64BE
<1>2. /\ (n \div 16777216) % 256 = n \div 16777216 /\ n \div 16777216 < 64
      /\ n = 256 * (256 * (256 * ((n \div 16777216) % 256) + ((n \div 65536) % 256))
                    + ((n \div 256) % 256)) + (n % 256)
  <2>1. n = 256 * (n \div 256) + (n % 256) /\ n \div 256 \in Nat
    BY SMT
  <2>2. n \div 256 = 256 * (n \div 65536) + ((n \div 256) % 256) /\ n \div 65536 \in Nat
    BY SMT
  <2>3. n \div 65536 = 256 * (n \div 16777216) + ((n \div 65536) % 256)
    BY SMT
  <2>4. n \div 16777216 \in Nat /\ n \div 16777216 < 64
    BY SMT DEF Endless
  <2>5. (n \div 16777216) % 256 = n \div 16777216
    BY <2>4, SMT
  <2> QED BY <2>1, <2>2, <2>3, <2>4, <2>5, SMT
<1>3. \A i \in 0..3 : bytes[at + i] = 0
  <2>1. ASSUME NEW i \in 0..3
        PROVE  i = 0 \/ i = 1 \/ i = 2 \/ i = 3
    BY SMT
  <2>2. at + 0 = at
    BY SMT
  <2> QED BY <1>1, <2>1, <2>2, SMT
<1>4. /\ bytes[at + 4] < 64
      /\ n = 256 * (256 * (256 * bytes[at + 4] + bytes[at + 5]) + bytes[at + 6]) + bytes[at + 7]
  BY <1>1, <1>2, SMT
<1>5. ~(bytes[at + 4] >= 64)
  BY <1>1, <1>4, SMT
<1> QED BY <1>3, <1>4, <1>5, SMT DEF ReadUInt64

------------------------------------------------------------------------------
(* extractFrame *)

\* The second byte's length, and how many bytes of the length follow it.
Code(length) == CASE length < 126                    -> length
                  [] 126 <= length /\ length < 65536 -> 126
                  [] length >= 65536                 -> 127
Skip(length) == CASE length < 126                    -> 0
                  [] 126 <= length /\ length < 65536 -> 2
                  [] length >= 65536                 -> 8

\* A header of a frame is laid out at `at'.
HeaderAt(bytes, at, fin, opcode, masked, length) ==
    /\ bytes[at] = (IF fin THEN 128 ELSE 0) + opcode
    /\ bytes[at + 1] = (IF masked THEN 128 ELSE 0) + Code(length)
    /\ 126 <= length /\ length < 65536 =>
           bytes[at + 2] = UInt16BE(length)[1] /\ bytes[(at + 2) + 1] = UInt16BE(length)[2]
    /\ length >= 65536 => Holds64(bytes, at + 2, length)
KeyAt(at, length)          == at + 2 + Skip(length)
From(at, masked, length) == KeyAt(at, length) + (IF masked THEN 4 ELSE 0)

LEMMA Skips ==
    ASSUME NEW length \in Nat
    PROVE  /\ Code(length) \in 0..127 /\ Skip(length) \in {0, 2, 8}
           /\ Extended(Code(length)) = Skip(length)
           /\ length < 126 => Code(length) = length /\ Code(length) # 126 /\ Code(length) # 127
           /\ 126 <= length /\ length < 65536 => Code(length) = 126
           /\ length >= 65536 => Code(length) = 127
BY SMT DEF Code, Skip, Extended

\* Opcodes, and the lengths that frames of this model have.
Opcode == 0..15
Length == {n \in Nat : n < Endless}

\* The frame with that header, if its payload has come.
FrameAt(bytes, at, end, fin, opcode, masked, length) ==
    LET from == From(at, masked, length)
    IN  IF end < from + length THEN NoFrame
        ELSE [fin     |-> fin,
              opcode  |-> opcode,
              payload |-> Payload(IF masked THEN Unmasked(bytes, KeyAt(at, length), from) ELSE bytes,
                                  from, length),
              size    |-> from + length - at]

LEMMA Extracts ==
    ASSUME NEW bytes, NEW at \in Nat, NEW end \in Nat,
           NEW fin \in BOOLEAN, NEW opcode \in Opcode, NEW masked \in BOOLEAN,
           NEW length \in Length,
           HeaderAt(bytes, at, fin, opcode, masked, length)
    PROVE  ExtractFrame(bytes, at, end) = FrameAt(bytes, at, end, fin, opcode, masked, length)
<1>0. length \in Nat /\ length < Endless
  BY DEF Length
<1> USE <1>0
<1> DEFINE key  == KeyAt(at, length)
           from == From(at, masked, length)
           code == bytes[at + 1] % 128
           told == CASE code = 126 -> ReadUInt16(bytes, at + 2)
                     [] code = 127 -> ReadUInt64(bytes, at + 2)
                     [] OTHER      -> code
<1>1. code = Code(length) /\ (bytes[at + 1] >= 128 <=> masked)
  <2>1. bytes[at + 1] = (IF masked THEN 128 ELSE 0) + Code(length)
    BY DEF HeaderAt
  <2>2. Code(length) \in Nat /\ Code(length) < 128
    BY Skips
  <2>3. \A c \in Nat : c < 128 => c % 128 = c /\ (128 + c) % 128 = c
    BY SMT
  <2>4. CASE masked
    BY <2>1, <2>2, <2>3, <2>4
  <2>5. CASE ~masked
    BY <2>1, <2>2, <2>3, <2>5
  <2> QED BY <2>4, <2>5
<1>2. at + 2 + Extended(code) = key /\ key \in Nat /\ key >= at + 2
  BY <1>1, Skips, SMT DEF KeyAt
<1>3. key + (IF bytes[at + 1] >= 128 THEN 4 ELSE 0) = from /\ from \in Nat /\ from >= at + 2
  BY <1>1, <1>2, SMT DEF From
<1>4. told = length
  <2>1. CASE length < 126
    BY <1>1, <2>1, Skips, SMT
  <2>2. CASE 126 <= length /\ length < 65536
    <3>1. ReadUInt16(bytes, at + 2) = length
      BY <2>2, Read16 DEF HeaderAt
    <3> QED BY <1>1, <2>2, <3>1, Skips, SMT
  <2>3. CASE length >= 65536
    <3>1. ReadUInt64(bytes, at + 2) = length
      BY <2>3, Read64 DEF HeaderAt
    <3> QED BY <1>1, <2>3, <3>1, Skips, SMT
  <2> QED BY <2>1, <2>2, <2>3, SMT
<1>5. (bytes[at] >= 128 <=> fin) /\ bytes[at] % 16 = opcode
  BY SMT DEF HeaderAt, Opcode
<1> DEFINE Read(k, f) ==
               IF end - at < 2 THEN NoFrame
               ELSE IF end < f \/ end - f < told THEN NoFrame
               ELSE [fin     |-> bytes[at] >= 128,
                     opcode  |-> bytes[at] % 16,
                     payload |-> Payload(IF bytes[at + 1] >= 128 THEN Unmasked(bytes, k, f) ELSE bytes,
                                         f, told),
                     size    |-> f + told - at]
<1>6. ExtractFrame(bytes, at, end) = Read(key, from)
  <2>1. ExtractFrame(bytes, at, end)
            = Read(at + 2 + Extended(code),
                   at + 2 + Extended(code) + (IF bytes[at + 1] >= 128 THEN 4 ELSE 0))
    BY DEF ExtractFrame
  <2> HIDE DEF Read, key, from, code
  <2> QED BY <1>2, <1>3, <2>1
<1> HIDE DEF told, from, key, code
<1>7. (end - at < 2 \/ end < from \/ end - from < length) <=> end < from + length
  BY <1>3, SMT
<1>8. (bytes[at] >= 128) = fin /\ (bytes[at + 1] >= 128) = masked
  BY <1>1, <1>5
<1> QED BY <1>4, <1>5, <1>6, <1>7, <1>8 DEF from, key, FrameAt

------------------------------------------------------------------------------
(* buildFrame *)

\* Two pieces of a header, put together.
LEMMA Joined ==
    ASSUME NEW s \in Seq(Int), NEW t \in Seq(Int)
    PROVE  /\ s \o t \in Seq(Int) /\ Len(s \o t) = Len(s) + Len(t)
           /\ \A i \in 1..Len(s) : (s \o t)[i] = s[i]
           /\ \A i \in 1..Len(t) : (s \o t)[Len(s) + i] = t[i]
<1>1. /\ s \o t \in Seq(Int) /\ Len(s \o t) = Len(s) + Len(t)
      /\ \A i \in 1..(Len(s) + Len(t)) : (s \o t)[i] = IF i <= Len(s) THEN s[i] ELSE t[i - Len(s)]
  BY ConcatProperties
<1>2. Len(s) \in Nat /\ Len(t) \in Nat
  BY LenProperties
<1>3. ASSUME NEW i \in 1..Len(s)
      PROVE  (s \o t)[i] = s[i]
  BY <1>1, <1>2
<1>4. ASSUME NEW i \in 1..Len(t)
      PROVE  (s \o t)[Len(s) + i] = t[i]
  <2>1. Len(s) + i \in 1..(Len(s) + Len(t)) /\ ~(Len(s) + i <= Len(s)) /\ (Len(s) + i) - Len(s) = i
    BY <1>2
  <2> QED BY <1>1, <2>1
<1> QED BY <1>1, <1>3, <1>4

LEMMA UInts ==
    ASSUME NEW n \in Nat
    PROVE  /\ UInt16BE(n) \in Seq(Int) /\ Len(UInt16BE(n)) = 2
           /\ UInt64BE(n) \in Seq(Int) /\ Len(UInt64BE(n)) = 8
           /\ \A i \in 1..2 : UInt16BE(n)[i] \in Byte
           /\ \A i \in 1..8 : UInt64BE(n)[i] \in Byte
<1>1. /\ (n \div 16777216) % 256 \in Byte /\ (n \div 65536) % 256 \in Byte
      /\ (n \div 256) % 256 \in Byte /\ n % 256 \in Byte /\ 0 \in Byte
  BY SMT DEF Byte
<1>2. \A b \in Byte : b \in Int
  BY DEF Byte
<1>3. UInt16BE(n) \in Seq(Byte) /\ Len(UInt16BE(n)) = 2
  BY <1>1, SMT DEF UInt16BE
<1>4. UInt64BE(n) \in Seq(Byte) /\ Len(UInt64BE(n)) = 8
  BY <1>1, SMT DEF UInt64BE
<1>5. \A s \in Seq(Byte) : s \in Seq(Int) /\ \A i \in 1..Len(s) : s[i] \in Byte
  BY <1>2, SeqMonotonic, ElementOfSeq
<1> QED BY <1>3, <1>4, <1>5

\* The bytes of a header, but for a mask.
Header(h, fin, opcode, masked, length) ==
    /\ h[1] = (IF fin THEN 128 ELSE 0) + opcode
    /\ h[2] = (IF masked THEN 128 ELSE 0) + Code(length)
    /\ 126 <= length /\ length < 65536 =>
           h[3] = UInt16BE(length)[1] /\ h[4] = UInt16BE(length)[2]
    /\ length >= 65536 =>
           /\ h[3] = UInt64BE(length)[1] /\ h[4] = UInt64BE(length)[2]
           /\ h[5] = UInt64BE(length)[3] /\ h[6] = UInt64BE(length)[4]
           /\ h[7] = UInt64BE(length)[5] /\ h[8] = UInt64BE(length)[6]
           /\ h[9] = UInt64BE(length)[7] /\ h[10] = UInt64BE(length)[8]

LEMMA LaidOut ==
    ASSUME NEW h, NEW bytes, NEW at \in Nat, NEW length \in Nat, NEW fin, NEW opcode, NEW masked,
           Header(h, fin, opcode, masked, length),
           \A i \in 0..(1 + Skip(length)) : bytes[at + i] = h[i + 1]
    PROVE  HeaderAt(bytes, at, fin, opcode, masked, length)
<1>1. bytes[at] = h[1] /\ bytes[at + 1] = h[2]
  <2>1. 0 \in 0..(1 + Skip(length)) /\ 1 \in 0..(1 + Skip(length)) /\ at + 0 = at /\ 0 + 1 = 1 /\ 1 + 1 = 2
    BY Skips
  <2>2. bytes[at + 0] = h[0 + 1] /\ bytes[at + 1] = h[1 + 1]
    BY <2>1
  <2> QED BY <2>1, <2>2
<1>2. CASE length < 126
  BY <1>1, <1>2, SMT DEF Header, HeaderAt
<1>3. CASE 126 <= length /\ length < 65536
  <2>1. Skip(length) = 2
    BY <1>3, SMT DEF Skip
  <2>2. 2 \in 0..(1 + Skip(length)) /\ 3 \in 0..(1 + Skip(length)) /\ (at + 2) + 1 = at + 3
    BY <2>1
  <2>3. bytes[at + 2] = h[2 + 1] /\ bytes[at + 3] = h[3 + 1]
    BY <2>2
  <2>4. bytes[at + 2] = h[3] /\ bytes[(at + 2) + 1] = h[4]
    BY <2>2, <2>3
  <2> QED BY <1>1, <1>3, <2>4, SMT DEF Header, HeaderAt
<1>4. CASE length >= 65536
  <2>1. Skip(length) = 8
    BY <1>4, SMT DEF Skip
  <2> DEFINE Byte_(i) == bytes[at + i] = h[i + 1]
  <2>2. Byte_(2) /\ Byte_(3) /\ Byte_(4) /\ Byte_(5) /\ Byte_(6) /\ Byte_(7) /\ Byte_(8) /\ Byte_(9)
    <3>1. \A i \in 0..(1 + Skip(length)) : Byte_(i)
      OBVIOUS
    <3> HIDE DEF Byte_
    <3> QED BY <2>1, <3>1
  <2>3. /\ bytes[at + 2] = h[3] /\ bytes[(at + 2) + 1] = h[4]
        /\ bytes[(at + 2) + 2] = h[5] /\ bytes[(at + 2) + 3] = h[6]
        /\ bytes[(at + 2) + 4] = h[7] /\ bytes[(at + 2) + 5] = h[8]
        /\ bytes[(at + 2) + 6] = h[9] /\ bytes[(at + 2) + 7] = h[10]
    <3>1. /\ (at + 2) + 1 = at + 3 /\ (at + 2) + 2 = at + 4 /\ (at + 2) + 3 = at + 5
          /\ (at + 2) + 4 = at + 6 /\ (at + 2) + 5 = at + 7 /\ (at + 2) + 6 = at + 8
          /\ (at + 2) + 7 = at + 9
      OBVIOUS
    <3> QED BY <2>2, <3>1
  <2>4. Holds64(bytes, at + 2, length)
    BY <1>4, <2>3 DEF Header, Holds64
  <2> QED BY <1>1, <1>4, <2>4, SMT DEF Header, HeaderAt
<1> QED BY <1>2, <1>3, <1>4, SMT

\* Those that a length makes, behind a first byte.
Pieces(first, mask, length) ==
    CASE length < 126                    -> <<first, mask + length>>
      [] 126 <= length /\ length < 65536 -> <<first, mask + 126>> \o UInt16BE(length)
      [] length >= 65536                 -> <<first, mask + 127>> \o UInt64BE(length)

LEMMA Pair ==
    ASSUME NEW a \in Int, NEW b \in Int
    PROVE  <<a, b>> \in Seq(Int) /\ Len(<<a, b>>) = 2 /\ <<a, b>>[1] = a /\ <<a, b>>[2] = b
OBVIOUS

FirstByte(fin, opcode) == (IF fin THEN 128 ELSE 0) + opcode
MaskBit(masked)        == IF masked THEN 128 ELSE 0

LEMMA PiecesAreHeader ==
    ASSUME NEW fin \in BOOLEAN, NEW opcode \in Opcode, NEW masked \in BOOLEAN, NEW length \in Nat
    PROVE  LET h == Pieces(FirstByte(fin, opcode), MaskBit(masked), length)
           IN
           /\ h \in Seq(Int) /\ Len(h) = 2 + Skip(length)
           /\ Header(h, fin, opcode, masked, length)
<1> DEFINE first == FirstByte(fin, opcode)
           mask  == MaskBit(masked)
           h     == Pieces(first, mask, length)
<1>0. /\ first \in Int /\ first = (IF fin THEN 128 ELSE 0) + opcode
      /\ mask \in Int /\ mask = (IF masked THEN 128 ELSE 0)
  BY DEF FirstByte, MaskBit, Opcode
<1> SUFFICES h \in Seq(Int) /\ Len(h) = 2 + Skip(length) /\ Header(h, fin, opcode, masked, length)
  OBVIOUS
<1> HIDE DEF first, mask, h
<1>1. CASE length < 126
  <2>1. h = <<first, mask + length>> /\ Skip(length) = 0 /\ Code(length) = length
    BY <1>1, Skips, SMT DEF Skip, Pieces, h
  <2>2. h \in Seq(Int) /\ Len(h) = 2 /\ h[1] = first /\ h[2] = mask + length
    <3>1. mask + length \in Int
      BY <1>0
    <3>2. <<first, mask + length>> \in Seq(Int) /\ Len(<<first, mask + length>>) = 2
          /\ <<first, mask + length>>[1] = first /\ <<first, mask + length>>[2] = mask + length
      BY ONLY <1>0, <3>1, Pair
    <3> QED BY ONLY <2>1, <3>2
  <2> QED BY <1>1, <2>1, <2>2, <1>0, SMT DEF Header
<1>2. CASE 126 <= length /\ length < 65536
  <2> DEFINE s == <<first, mask + 126>>
  <2>1. h = s \o UInt16BE(length) /\ Skip(length) = 2 /\ Code(length) = 126
    BY <1>2, Skips, SMT DEF Skip, Pieces, h
  <2>2. s \in Seq(Int) /\ Len(s) = 2 /\ s[1] = first /\ s[2] = mask + 126
    <3>1. mask + 126 \in Int
      BY <1>0
    <3> QED BY ONLY <1>0, <3>1, Pair
  <2> HIDE DEF s
  <2>3. /\ h \in Seq(Int) /\ Len(h) = 2 + 2
        /\ \A i \in 1..2 : h[i] = s[i]
        /\ \A i \in 1..2 : h[2 + i] = UInt16BE(length)[i]
    <3>1. UInt16BE(length) \in Seq(Int) /\ Len(UInt16BE(length)) = 2
      BY UInts
    <3>2. /\ h \in Seq(Int) /\ Len(h) = Len(s) + Len(UInt16BE(length))
          /\ \A i \in 1..Len(s) : h[i] = s[i]
          /\ \A i \in 1..Len(UInt16BE(length)) : h[Len(s) + i] = UInt16BE(length)[i]
      <4>1. s \in Seq(Int) /\ UInt16BE(length) \in Seq(Int)
        BY <2>2, <3>1
      <4>2. h = s \o UInt16BE(length)
        BY <2>1
      <4>3. /\ s \o UInt16BE(length) \in Seq(Int) /\ Len(s \o UInt16BE(length)) = Len(s) + Len(UInt16BE(length))
            /\ \A i \in 1..Len(s) : (s \o UInt16BE(length))[i] = s[i]
            /\ \A i \in 1..Len(UInt16BE(length)) : (s \o UInt16BE(length))[Len(s) + i] = UInt16BE(length)[i]
        BY ONLY <4>1, Joined
      <4> QED BY ONLY <4>2, <4>3
    <3> QED BY ONLY <2>2, <3>1, <3>2, Zenon
  <2>4. h[1] = first /\ h[2] = mask + 126 /\ h[3] = UInt16BE(length)[1] /\ h[4] = UInt16BE(length)[2]
    <3>1. h[2 + 1] = UInt16BE(length)[1] /\ h[2 + 2] = UInt16BE(length)[2]
      BY <2>3
    <3> QED BY <2>2, <2>3, <3>1
  <2> QED BY <1>2, <2>1, <2>3, <2>4, <1>0, SMT DEF Header
<1>3. CASE length >= 65536
  <2> DEFINE s == <<first, mask + 127>>
  <2>1. h = s \o UInt64BE(length) /\ Skip(length) = 8 /\ Code(length) = 127
    BY <1>3, Skips, SMT DEF Skip, Pieces, h
  <2>2. s \in Seq(Int) /\ Len(s) = 2 /\ s[1] = first /\ s[2] = mask + 127
    <3>1. mask + 127 \in Int
      BY <1>0
    <3> QED BY ONLY <1>0, <3>1, Pair
  <2> HIDE DEF s
  <2>3. /\ h \in Seq(Int) /\ Len(h) = 2 + 8
        /\ \A i \in 1..2 : h[i] = s[i]
        /\ \A i \in 1..8 : h[2 + i] = UInt64BE(length)[i]
    <3>1. UInt64BE(length) \in Seq(Int) /\ Len(UInt64BE(length)) = 8
      BY UInts
    <3>2. /\ h \in Seq(Int) /\ Len(h) = Len(s) + Len(UInt64BE(length))
          /\ \A i \in 1..Len(s) : h[i] = s[i]
          /\ \A i \in 1..Len(UInt64BE(length)) : h[Len(s) + i] = UInt64BE(length)[i]
      <4>1. s \in Seq(Int) /\ UInt64BE(length) \in Seq(Int)
        BY <2>2, <3>1
      <4>2. h = s \o UInt64BE(length)
        BY <2>1
      <4>3. /\ s \o UInt64BE(length) \in Seq(Int) /\ Len(s \o UInt64BE(length)) = Len(s) + Len(UInt64BE(length))
            /\ \A i \in 1..Len(s) : (s \o UInt64BE(length))[i] = s[i]
            /\ \A i \in 1..Len(UInt64BE(length)) : (s \o UInt64BE(length))[Len(s) + i] = UInt64BE(length)[i]
        BY ONLY <4>1, Joined
      <4> QED BY ONLY <4>2, <4>3
    <3> QED BY ONLY <2>2, <3>1, <3>2, Zenon
  <2>4. /\ h[1] = first /\ h[2] = mask + 127
        /\ h[3] = UInt64BE(length)[1] /\ h[4] = UInt64BE(length)[2]
        /\ h[5] = UInt64BE(length)[3] /\ h[6] = UInt64BE(length)[4]
        /\ h[7] = UInt64BE(length)[5] /\ h[8] = UInt64BE(length)[6]
        /\ h[9] = UInt64BE(length)[7] /\ h[10] = UInt64BE(length)[8]
    <3>1. /\ h[2 + 1] = UInt64BE(length)[1] /\ h[2 + 2] = UInt64BE(length)[2]
          /\ h[2 + 3] = UInt64BE(length)[3] /\ h[2 + 4] = UInt64BE(length)[4]
          /\ h[2 + 5] = UInt64BE(length)[5] /\ h[2 + 6] = UInt64BE(length)[6]
          /\ h[2 + 7] = UInt64BE(length)[7] /\ h[2 + 8] = UInt64BE(length)[8]
      BY <2>3
    <3>2. /\ 2 + 1 = 3 /\ 2 + 2 = 4 /\ 2 + 3 = 5 /\ 2 + 4 = 6 /\ 2 + 5 = 7 /\ 2 + 6 = 8
          /\ 2 + 7 = 9 /\ 2 + 8 = 10
      OBVIOUS
    <3>3. h[1] = s[1] /\ h[2] = s[2]
      BY <2>3
    <3> QED BY ONLY <2>2, <3>1, <3>2, <3>3, Zenon
  <2> QED BY <1>3, <2>1, <2>3, <2>4, <1>0, SMT DEF Header
<1>4. length < 126 \/ (126 <= length /\ length < 65536) \/ length >= 65536
  BY SMT
<1> QED BY <1>1, <1>2, <1>3, <1>4

LEMMA Couple ==
    ASSUME NEW a \in Int, NEW b \in Int
    PROVE  <<a>> \in Seq(Int) /\ <<b>> \in Seq(Int) /\ <<a>> \o <<b>> = <<a, b>>
<1>1. <<a>> \in Seq(Int) /\ <<b>> \in Seq(Int) /\ Len(<<a>>) = 1 /\ Len(<<b>>) = 1
      /\ <<a>>[1] = a /\ <<b>>[1] = b
  OBVIOUS
<1> DEFINE s == <<a>>
           t == <<b>>
           p == <<a, b>>
<1>2. p \in Seq(Int) /\ Len(p) = 2 /\ p[1] = a /\ p[2] = b
  BY Pair
<1> HIDE DEF s, t, p
<1>3. /\ s \o t \in Seq(Int) /\ Len(s \o t) = Len(s) + Len(t)
      /\ \A i \in 1..Len(s) : (s \o t)[i] = s[i]
      /\ \A i \in 1..Len(t) : (s \o t)[Len(s) + i] = t[i]
  BY <1>1, Joined DEF s, t
<1>4. Len(s \o t) = 2 /\ (s \o t)[1] = a /\ (s \o t)[2] = b
  <2>1. Len(s) = 1 /\ Len(t) = 1 /\ s[1] = a /\ t[1] = b
    BY <1>1 DEF s, t
  <2>2. 1 \in 1..Len(s) /\ 1 \in 1..Len(t) /\ Len(s) + 1 = 2 /\ Len(s) + Len(t) = 2
    BY <2>1
  <2> QED BY ONLY <1>3, <2>1, <2>2
<1>5. s \o t = p
  <2>1. \A i \in 1..Len(p) : (s \o t)[i] = p[i]
    BY <1>2, <1>4
  <2> QED BY <1>2, <1>3, <1>4, <2>1, SeqEqual
<1> QED BY <1>1, <1>5 DEF s, t, p

LEMMA LengthCodeIs ==
    ASSUME NEW first \in Int, NEW length \in Nat
    PROVE  <<first>> \o LengthCode(length) = Pieces(first, 0, length)
<1>1. ASSUME NEW u \in Seq(Int), NEW a \in Int
      PROVE  <<first>> \o (<<a>> \o u) = <<first, a>> \o u
  <2>1. <<first>> \in Seq(Int) /\ <<a>> \in Seq(Int)
    BY Couple
  <2>2. (<<first>> \o <<a>>) \o u = <<first>> \o (<<a>> \o u)
    BY <2>1, ConcatAssociative
  <2>3. <<first>> \o <<a>> = <<first, a>>
    BY Couple
  <2> QED BY <2>2, <2>3
<1>2. UInt16BE(length) \in Seq(Int) /\ UInt64BE(length) \in Seq(Int)
  BY UInts
<1>3. CASE length < 126
  <2>1. LengthCode(length) = <<length>> /\ Pieces(first, 0, length) = <<first, length>>
    BY <1>3, SMT DEF LengthCode, Pieces
  <2>2. length \in Int
    OBVIOUS
  <2> QED BY <2>1, <2>2, Couple
<1>4. CASE 126 <= length /\ length < 65536
  <2>1. PICK a \in Int : a = 126
    OBVIOUS
  <2>2. /\ LengthCode(length) = <<a>> \o UInt16BE(length)
        /\ Pieces(first, 0, length) = <<first, a>> \o UInt16BE(length)
    BY <1>4, <2>1, SMT DEF LengthCode, Pieces
  <2> QED BY ONLY <1>1, <1>2, <2>2, a \in Int
<1>5. CASE length >= 65536
  <2>1. PICK a \in Int : a = 127
    OBVIOUS
  <2>2. /\ LengthCode(length) = <<a>> \o UInt64BE(length)
        /\ Pieces(first, 0, length) = <<first, a>> \o UInt64BE(length)
    BY <1>5, <2>1, SMT DEF LengthCode, Pieces
  <2> QED BY ONLY <1>1, <1>2, <2>2, a \in Int
<1> QED BY <1>3, <1>4, <1>5, SMT

\* What buildFrame writes is read as it was meant, behind a header as long as
\* HeaderLength has it.
LEMMA BuiltIsRead ==
    ASSUME NEW opcode \in Opcode, NEW payload, NEW length \in Length, NEW sample,
           payload = [length |-> length, sample |-> sample],
           sample = [i \in Sampled(length) |-> sample[i]]
    PROVE  LET frame == BuildFrame(opcode, payload)
               read  == ExtractFrame(frame.bytes, 0, frame.size)
           IN  /\ frame.size = HeaderLength(length) + length
               /\ read # NoFrame
               /\ read.fin /\ read.opcode = opcode /\ read.payload = payload
<1> DEFINE frame   == BuildFrame(opcode, payload)
           header  == <<128 + opcode>> \o LengthCode(payload.length)
           from    == HeaderLength(payload.length)
           bytes   == [i \in Nat |->
               CASE i < Len(header) -> header[i + 1]
                 [] i >= Len(header) /\ i - from \in DOMAIN payload.sample -> payload.sample[i - from]
                 [] OTHER -> 0]
<1>0. payload.length = length /\ payload.sample = sample
  OBVIOUS
<1>l. length \in Nat
  BY DEF Length
<1> USE <1>l
<1>1. frame = [size |-> from + payload.length, bytes |-> bytes]
  BY DEF BuildFrame
<1>2. PICK fin \in BOOLEAN, masked \in BOOLEAN : fin /\ ~masked
  OBVIOUS
<1>2a. fin \in BOOLEAN /\ masked \in BOOLEAN
  BY <1>2
<1>3. /\ Len(header) = from /\ from = 2 + Skip(length) /\ from \in Nat
      /\ Header(header, fin, opcode, masked, length)
  <2>1. from = 2 + Skip(length)
    BY <1>0, SMT DEF HeaderLength, Skip
  <2>2. FirstByte(fin, opcode) = 128 + opcode /\ 128 + opcode \in Int /\ MaskBit(masked) = 0
    BY <1>2 DEF FirstByte, MaskBit, Opcode
  <2>3. header = Pieces(FirstByte(fin, opcode), MaskBit(masked), length)
    BY <1>0, <2>2, LengthCodeIs
  <2> HIDE DEF header, from
  <2>6. Len(header) = 2 + Skip(length) /\ Header(header, fin, opcode, masked, length)
    BY <1>2a, <2>3, PiecesAreHeader
  <2> QED BY <2>1, <2>6, Skips
<1> HIDE DEF header, from, frame
<1>4. HeaderAt(bytes, 0, fin, opcode, masked, length)
  <2>1. ASSUME NEW i \in 0..(1 + Skip(length))
        PROVE  bytes[0 + i] = header[i + 1]
    <3>1. 0 + i = i /\ i \in Nat /\ i < Len(header)
      BY <1>3, Skips
    <3> QED BY <3>1
  <2> HIDE DEF bytes
  <2> QED BY <1>3, <2>1, LaidOut
<1>5. Payload(bytes, from, length) = payload
  <2>1. ASSUME NEW i \in Sampled(length)
        PROVE  bytes[from + i] = sample[i]
    <3>1. i \in Int /\ 0 <= i
      BY DEF Sampled
    <3>2. from + i \in Nat /\ from + i >= Len(header) /\ (from + i) - from = i /\ i \in DOMAIN sample
          /\ ~(from + i < Len(header))
      BY <1>3, <3>1
    <3> QED BY <1>0, <1>3, <3>2
  <2> HIDE DEF bytes
  <2>2. [i \in Sampled(length) |-> bytes[from + i]] = sample
    BY <2>1
  <2> QED BY <2>2 DEF Payload
<1> HIDE DEF bytes
<1>6. From(0, masked, length) = from
  BY <1>2, <1>3, Skips DEF From, KeyAt
<1> DEFINE end  == from + length
           read == ExtractFrame(bytes, 0, end)
<1>7. end \in Nat /\ ~(end < from + length)
  BY <1>3
<1> HIDE DEF end
<1>8. read = [fin |-> fin, opcode |-> opcode, payload |-> Payload(bytes, from, length),
              size |-> from + length - 0]
  <2>1. read = FrameAt(bytes, 0, end, fin, opcode, masked, length)
    <3>1. 0 \in Nat
      OBVIOUS
    <3> QED BY ONLY <1>2a, <1>4, <1>7, <3>1, Extracts
  <2> QED BY <1>2, <1>6, <1>7, <2>1 DEF FrameAt
<1> HIDE DEF read
<1>9. read # NoFrame /\ read.fin /\ read.opcode = opcode /\ read.payload = payload
  BY <1>2, <1>5, <1>8 DEF NoFrame
<1>10. frame.size = end /\ frame.bytes = bytes
  BY <1>0, <1>1 DEF end
<1>11. end = HeaderLength(length) + length
  BY <1>0 DEF end, from
<1> QED BY <1>9, <1>10, <1>11 DEF read, frame
==============================================================================
