------------------------- MODULE StationSocket_proofs -------------------------
(***************************************************************************)
(* Proofs of the safety properties of StationSocket, for every dialogue of *)
(* every station and any number of runs.                                   *)
(***************************************************************************)
EXTENDS StationSocketProps, FrameCodec_proofs, NaturalsInduction, FiniteSetTheorems,
        WellFoundedInduction

------------------------------------------------------------------------------
(* Where frames end *)

LEMMA Least ==
    ASSUME NEW set \in SUBSET Nat, set # {}
    PROVE  \E m \in set : \A n \in set : m <= n
<1>1. PICK m \in set : \A n \in set : <<n, m>> \notin OpToRel(<, Nat)
  BY NatLessThanWellFounded, WFMin
<1>2. ASSUME NEW n \in set, n < m
      PROVE  FALSE
  <2>1. <<n, m>> \in Nat \X Nat
    OBVIOUS
  <2>2. <<n, m>> \in OpToRel(<, Nat)
    BY <1>2, <2>1, <<n, m>>[1] < <<n, m>>[2] DEF OpToRel
  <2> QED BY <1>1, <2>2
<1> QED BY <1>2

\* A frame of a station, and its frames.
IsFrame(f)   == /\ f.fin \in BOOLEAN /\ f.masked \in BOOLEAN
                /\ f.opcode \in Opcode /\ f.length \in Length
AreFrames(s) == /\ Len(s) \in Nat /\ DOMAIN s = 1..Len(s)
                /\ \A k \in DOMAIN s : IsFrame(s[k])

\* The bytes of a mask.
LEMMA KeyIs ==
    /\ MaskKey \in Seq(Int) /\ Len(MaskKey) = 4
    /\ \A i \in 1..4 : MaskKey[i] \in Byte
<1>1. \A i \in 1..4 : i = 1 \/ i = 2 \/ i = 3 \/ i = 4
  BY SMT
<1> QED BY <1>1, SMT DEF MaskKey, Byte

\* Only its first bytes make a header.
LEMMA HeaderExtends ==
    ASSUME NEW h, NEW g, NEW fin, NEW opcode, NEW masked, NEW length \in Nat,
           Header(h, fin, opcode, masked, length),
           \A i \in 1..(2 + Skip(length)) : g[i] = h[i]
    PROVE  Header(g, fin, opcode, masked, length)
<1>1. g[1] = h[1] /\ g[2] = h[2]
  BY Skips
<1>2. CASE length < 126
  BY <1>1, <1>2, SMT DEF Header
<1>3. CASE 126 <= length /\ length < 65536
  <2>1. Skip(length) = 2
    BY <1>3, SMT DEF Skip
  <2>2. g[3] = h[3] /\ g[4] = h[4]
    BY <2>1
  <2> QED BY <1>1, <1>3, <2>2, SMT DEF Header
<1>4. CASE length >= 65536
  <2>1. Skip(length) = 8
    BY <1>4, SMT DEF Skip
  <2>2. /\ g[3] = h[3] /\ g[4] = h[4] /\ g[5] = h[5] /\ g[6] = h[6]
        /\ g[7] = h[7] /\ g[8] = h[8] /\ g[9] = h[9] /\ g[10] = h[10]
    BY <2>1
  <2> QED BY <1>1, <1>4, <2>2, SMT DEF Header
<1> QED BY <1>2, <1>3, <1>4, SMT

LEMMA SentHeaderIs ==
    ASSUME NEW f, IsFrame(f)
    PROVE  LET size == 2 + Skip(f.length)
           IN  /\ Header(SentHeader(f), f.fin, f.opcode, f.masked, f.length)
               /\ Len(SentHeader(f)) = size + (IF f.masked THEN 4 ELSE 0)
               /\ f.masked => \A i \in 1..4 : SentHeader(f)[size + i] = MaskKey[i]
<1> DEFINE first  == FirstByte(f.fin, f.opcode)
           mask   == MaskBit(f.masked)
           pieces == Pieces(first, mask, f.length)
           tail   == IF f.masked THEN MaskKey ELSE <<>>
           size   == 2 + Skip(f.length)
<1>1. /\ pieces \in Seq(Int) /\ Len(pieces) = size
      /\ Header(pieces, f.fin, f.opcode, f.masked, f.length)
  BY PiecesAreHeader DEF IsFrame, Length
<1>2. SentHeader(f) = pieces \o tail
  BY DEF SentHeader, FirstByte, MaskBit, Pieces
<1>3. tail \in Seq(Int) /\ Len(tail) = (IF f.masked THEN 4 ELSE 0)
  <2>1. <<>> \in Seq(Int) /\ Len(<<>>) = 0
    OBVIOUS
  <2>2. CASE f.masked
    BY <2>2, KeyIs
  <2>3. CASE ~f.masked
    BY <2>1, <2>3
  <2> QED BY <2>2, <2>3
<1>4. f.length \in Nat /\ size \in Nat
  BY Skips DEF IsFrame, Length
<1> HIDE DEF first, mask, pieces, size
<1>5. /\ Len(SentHeader(f)) = size + Len(tail)
      /\ \A i \in 1..size : SentHeader(f)[i] = pieces[i]
      /\ \A i \in 1..Len(tail) : SentHeader(f)[size + i] = tail[i]
  <2> HIDE DEF tail
  <2>1. /\ Len(pieces \o tail) = Len(pieces) + Len(tail)
        /\ \A i \in 1..Len(pieces) : (pieces \o tail)[i] = pieces[i]
        /\ \A i \in 1..Len(tail) : (pieces \o tail)[Len(pieces) + i] = tail[i]
    BY <1>1, <1>3, Joined
  <2> QED BY <1>1, <1>2, <2>1
<1>6. Header(SentHeader(f), f.fin, f.opcode, f.masked, f.length)
  BY <1>1, <1>4, <1>5, HeaderExtends DEF size
<1>7. ASSUME f.masked, NEW i \in 1..4
      PROVE  SentHeader(f)[size + i] = MaskKey[i]
  BY <1>3, <1>5, <1>7
<1> QED BY <1>3, <1>5, <1>6, <1>7 DEF size

LEMMA Sizes ==
    ASSUME NEW f, IsFrame(f)
    PROVE  /\ Len(SentHeader(f)) \in Nat /\ Len(SentHeader(f)) >= 2
           /\ f.length \in Nat
           /\ SentSize(f) = Len(SentHeader(f)) + f.length
           /\ SentSize(f) \in Nat
<1>1. f.length \in Nat
  BY DEF IsFrame, Length
<1> QED BY <1>1, SentHeaderIs, Skips DEF SentSize

\* EndOf adds the sizes of the frames up.
LEMMA EndOfIs ==
    ASSUME NEW frames, AreFrames(frames)
    PROVE  /\ EndOf(frames, 0) = 0
           /\ \A k \in 0..Len(frames) : EndOf(frames, k) \in Nat
           /\ \A k \in 1..Len(frames) :
                  EndOf(frames, k) = EndOf(frames, k - 1) + SentSize(frames[k])
<1> DEFINE N == Len(frames)
           Good(f) == f = [n \in 0..N |-> IF n = 0 THEN 0 ELSE f[n - 1] + SentSize(frames[n])]
           end == CHOOSE f : Good(f)
           Upto(f, m) == /\ f \in [0..m -> Nat] /\ f[0] = 0
                         /\ \A n \in 1..m : f[n] = f[n - 1] + SentSize(frames[n])
           without == {m \in 0..N : ~ \E f : Upto(f, m)}
<1>1. N \in Nat /\ \A k \in 1..N : SentSize(frames[k]) \in Nat
  BY Sizes DEF AreFrames
<1>2. \A k : EndOf(frames, k) = end[k]
  BY DEF EndOf
<1> HIDE DEF end
<1>3. without = {}
  <2>1. SUFFICES ASSUME without # {}
                 PROVE  FALSE
    OBVIOUS
  <2>2. PICK m \in without : \A n \in without : m <= n
    <3>1. without \in SUBSET Nat
      BY <1>1
    <3> HIDE DEF without
    <3> QED BY <2>1, <3>1, Least
  <2>3. m # 0
    <3>1. Upto([n \in 0..0 |-> 0], 0)
      OBVIOUS
    <3> QED BY <2>2, <3>1
  <2>4. m - 1 \in 0..N /\ m \in 1..N /\ ~(m <= m - 1)
    BY <1>1, <2>2, <2>3
  <2>5. PICK f : Upto(f, m - 1)
    BY <2>2, <2>4
  <2> DEFINE g == [n \in 0..m |-> IF n = m THEN f[m - 1] + SentSize(frames[m]) ELSE f[n]]
  <2>6. Upto(g, m)
    <3>1. f[m - 1] \in Nat /\ SentSize(frames[m]) \in Nat
      BY <1>1, <2>4, <2>5
    <3>2. \A n \in 0..m : n # m => n \in 0..(m - 1) /\ f[n] \in Nat
      BY <2>4, <2>5
    <3>3. g \in [0..m -> Nat] /\ g[0] = 0
      <4>1. 0 \in 0..m /\ 0 # m
        BY <2>4
      <4> QED BY <2>4, <2>5, <3>1, <3>2, <4>1
    <3>4. ASSUME NEW n \in 1..m
          PROVE  g[n] = g[n - 1] + SentSize(frames[n])
      <4>1. n \in 0..m /\ n - 1 \in 0..m /\ n - 1 # m /\ (n # m => n \in 1..(m - 1))
        BY <2>4
      <4>2. g[n - 1] = f[n - 1]
        BY <4>1
      <4>3. CASE n = m
        BY <4>1, <4>2, <4>3
      <4>4. CASE n # m
        BY <2>5, <4>1, <4>2, <4>4
      <4> QED BY <4>3, <4>4
    <3> HIDE DEF g
    <3> QED BY <3>3, <3>4
  <2> HIDE DEF Upto, g
  <2> QED BY <2>2, <2>6
<1>4. PICK f : Upto(f, N)
  <2>1. N \in 0..N
    BY <1>1
  <2> HIDE DEF Upto
  <2> QED BY <1>3, <2>1
<1>5. Good(f)
  <2>1. DOMAIN f = 0..N /\ f = [n \in 0..N |-> f[n]]
    BY <1>4
  <2>2. ASSUME NEW n \in 0..N
        PROVE  f[n] = IF n = 0 THEN 0 ELSE f[n - 1] + SentSize(frames[n])
    <3>1. n # 0 => n \in 1..N
      BY <1>1
    <3> QED BY <1>4, <3>1
  <2> HIDE DEF Upto
  <2>3. [n \in 0..N |-> f[n]] = [n \in 0..N |-> IF n = 0 THEN 0 ELSE f[n - 1] + SentSize(frames[n])]
    BY <2>2
  <2> QED BY <2>1, <2>3
<1>6. Good(end)
  <2> HIDE DEF Good, Upto
  <2> QED BY <1>5 DEF end
<1>7. end[0] = 0 /\ \A n \in 1..N : end[n] = end[n - 1] + SentSize(frames[n])
  <2>1. \A n \in 0..N : end[n] = IF n = 0 THEN 0 ELSE end[n - 1] + SentSize(frames[n])
    BY <1>6
  <2>2. 0 \in 0..N /\ \A n \in 1..N : n \in 0..N /\ n # 0
    BY <1>1
  <2> HIDE DEF Good
  <2> QED BY <2>1, <2>2
<1> DEFINE wrong == {m \in 0..N : end[m] \notin Nat}
<1>8. wrong = {}
  <2>1. SUFFICES ASSUME wrong # {}
                 PROVE  FALSE
    OBVIOUS
  <2>2. PICK m \in wrong : \A n \in wrong : m <= n
    <3>1. wrong \in SUBSET Nat
      BY <1>1
    <3> HIDE DEF wrong
    <3> QED BY <2>1, <3>1, Least
  <2>3. m # 0
    BY <1>7, <2>2
  <2>4. m - 1 \in 0..N /\ m \in 1..N /\ ~(m <= m - 1)
    BY <1>1, <2>2, <2>3
  <2>5. end[m - 1] \in Nat
    BY <2>2, <2>4
  <2> QED BY <1>1, <1>7, <2>2, <2>4, <2>5
<1> QED BY <1>2, <1>7, <1>8

LEMMA EndOfGrows ==
    ASSUME NEW frames, AreFrames(frames),
           NEW a \in 0..Len(frames), NEW b \in 0..Len(frames), a <= b
    PROVE  EndOf(frames, a) <= EndOf(frames, b)
<1> DEFINE wrong == {m \in 0..Len(frames) : a <= m /\ ~(EndOf(frames, a) <= EndOf(frames, m))}
<1>1. SUFFICES ASSUME wrong # {}
               PROVE  FALSE
  OBVIOUS
<1>2. PICK m \in wrong : \A n \in wrong : m <= n
  <2>1. wrong \in SUBSET Nat
    OBVIOUS
  <2> HIDE DEF wrong
  <2> QED BY <1>1, <2>1, Least
<1>3. Len(frames) \in Nat /\ m \in 0..Len(frames) /\ a <= m /\ ~(EndOf(frames, a) <= EndOf(frames, m))
  BY <1>2 DEF AreFrames
<1>4. EndOf(frames, a) \in Nat /\ EndOf(frames, m) \in Nat
  BY <1>3, EndOfIs
<1>5. m # a
  BY <1>3, <1>4
<1>6. m \in 1..Len(frames) /\ m - 1 \in 0..Len(frames) /\ a <= m - 1 /\ ~(m <= m - 1)
  BY <1>3, <1>5
<1>7. EndOf(frames, a) <= EndOf(frames, m - 1)
  BY <1>2, <1>6
<1>8. SentSize(frames[m]) \in Nat /\ EndOf(frames, m - 1) \in Nat
  BY <1>6, EndOfIs, Sizes DEF AreFrames
<1>9. EndOf(frames, m) = EndOf(frames, m - 1) + SentSize(frames[m])
  BY <1>6, EndOfIs
<1> QED BY <1>3, <1>4, <1>7, <1>8, <1>9

\* Of the stream, the bytes of the k-th frame are where it is.
LEMMA StreamIs ==
    ASSUME NEW frames, AreFrames(frames), NEW k \in 1..Len(frames),
           NEW i \in Nat, i < SentSize(frames[k])
    PROVE  Stream(frames)[EndOf(frames, k - 1) + i] = SentByte(frames[k], i)
<1> DEFINE at == EndOf(frames, k - 1) + i
           Holds(j) == EndOf(frames, j - 1) <= at /\ at < EndOf(frames, j)
           found == CHOOSE j \in DOMAIN frames : Holds(j)
<1>1. Len(frames) \in Nat /\ DOMAIN frames = 1..Len(frames)
  BY DEF AreFrames
<1>2. /\ EndOf(frames, k - 1) \in Nat /\ SentSize(frames[k]) \in Nat
      /\ EndOf(frames, k) = EndOf(frames, k - 1) + SentSize(frames[k])
  <2>1. k - 1 \in 0..Len(frames) /\ IsFrame(frames[k])
    BY <1>1 DEF AreFrames
  <2> QED BY <2>1, EndOfIs, Sizes
<1>3. at \in Nat /\ Holds(k)
  BY <1>2
<1>4. ASSUME NEW j \in DOMAIN frames, Holds(j)
      PROVE  j = k
  <2>1. /\ j \in 0..Len(frames) /\ k \in 0..Len(frames) /\ j - 1 \in 0..Len(frames)
        /\ k - 1 \in 0..Len(frames)
    BY <1>1
  <2>2. /\ EndOf(frames, j) \in Nat /\ EndOf(frames, k) \in Nat
        /\ EndOf(frames, j - 1) \in Nat /\ EndOf(frames, k - 1) \in Nat
    BY <2>1, EndOfIs
  <2>3. ~(j < k)
    <3>1. SUFFICES ASSUME j < k PROVE FALSE
      OBVIOUS
    <3>2. j <= k - 1
      BY <2>1, <3>1
    <3>3. EndOf(frames, j) <= EndOf(frames, k - 1)
      BY <2>1, <3>2, EndOfGrows
    <3> QED BY <1>3, <1>4, <2>2, <3>3
  <2>4. ~(k < j)
    <3>1. SUFFICES ASSUME k < j PROVE FALSE
      OBVIOUS
    <3>2. k <= j - 1
      BY <2>1, <3>1
    <3>3. EndOf(frames, k) <= EndOf(frames, j - 1)
      BY <2>1, <3>2, EndOfGrows
    <3> QED BY <1>3, <1>4, <2>2, <3>3
  <2> QED BY <2>1, <2>3, <2>4
<1> HIDE DEF Holds
<1>5. found = k
  BY <1>1, <1>3, <1>4
<1>6. Stream(frames)[at] = SentByte(frames[found], at - EndOf(frames, found - 1))
  BY <1>3 DEF Stream, Holds
<1>7. at - EndOf(frames, k - 1) = i
  BY <1>2
<1> HIDE DEF at, found
<1> QED BY <1>5, <1>6, <1>7 DEF at

LEMMA PlainIs == \A i \in Nat : Plain[i] \in Byte
<1>1. ASSUME NEW i \in Nat
      PROVE  (37 * i + 11) % 128 \in Byte
  BY SMT DEF Byte
<1> QED BY <1>1 DEF Plain

\* What extractFrame makes of a frame of a station.
ReadFrame(f) ==
    [fin |-> f.fin, opcode |-> f.opcode, payload |-> Payload(Plain, 0, f.length), size |-> SentSize(f)]

LEMMA NextFrame ==
    ASSUME NEW frames, AreFrames(frames), NEW k \in 1..Len(frames), NEW end \in Nat
    PROVE  ExtractFrame(Stream(frames), EndOf(frames, k - 1), end)
               = IF end < EndOf(frames, k) THEN NoFrame ELSE ReadFrame(frames[k])
<1> DEFINE f      == frames[k]
           at     == EndOf(frames, k - 1)
           bytes  == Stream(frames)
           header == SentHeader(f)
           length == f.length
           masked == f.masked
           extra  == IF masked THEN 4 ELSE 0
           size   == Len(header)
           skip   == Skip(length)
           key    == KeyAt(at, length)
           from   == From(at, masked, length)
<1>1. IsFrame(f) /\ Len(frames) \in Nat
  BY DEF AreFrames
<1>2. /\ length \in Nat /\ skip \in Nat /\ SentSize(f) \in Nat /\ size \in Nat /\ extra \in Nat
      /\ SentSize(f) = size + length /\ size = 2 + skip + extra
      /\ masked => extra = 4
  <2>1. length \in Nat /\ size \in Nat /\ SentSize(f) = size + length /\ SentSize(f) \in Nat
    <3> HIDE DEF f
    <3> QED BY <1>1, Sizes
  <2>2. size = 2 + skip + extra
    <3> HIDE DEF f
    <3> QED BY <1>1, SentHeaderIs
  <2>3. skip \in Nat
    <3> HIDE DEF length
    <3> QED BY <2>1, Skips
  <2> HIDE DEF f, size, skip, length
  <2> QED BY <2>1, <2>2, <2>3
<1>3. at \in Nat /\ EndOf(frames, k) = at + SentSize(f)
  <2>1. k - 1 \in 0..Len(frames)
    BY <1>1
  <2> QED BY <2>1, EndOfIs
<1>4. \A i \in Nat : i < SentSize(f) => bytes[at + i] = SentByte(f, i)
  BY StreamIs
<1>5. /\ Header(header, f.fin, f.opcode, masked, length)
      /\ masked => \A i \in 1..4 : header[2 + skip + i] = MaskKey[i]
  BY <1>1, SentHeaderIs
<1>6. key = at + (2 + skip) /\ from = at + size /\ from + length = EndOf(frames, k)
      /\ key \in Nat /\ from \in Nat
  <2>1. key = at + 2 + skip /\ from = key + extra
    BY DEF KeyAt, From
  <2> HIDE DEF f, at, size, skip, extra, key, from, length
  <2> QED BY <1>2, <1>3, <2>1
<1>7. f.fin \in BOOLEAN /\ masked \in BOOLEAN /\ f.opcode \in Opcode /\ length \in Length
  BY <1>1 DEF IsFrame
<1> HIDE DEF f, at, bytes, header, length, masked, key, from, extra, size, skip
<1>8. \A i \in Nat : i < size => bytes[at + i] = header[i + 1]
  <2> SUFFICES ASSUME NEW i \in Nat, i < size
               PROVE  bytes[at + i] = header[i + 1]
    OBVIOUS
  <2>1. i < SentSize(f)
    BY <1>2
  <2>2. SentByte(f, i) = header[i + 1]
    BY DEF SentByte, header, size
  <2> QED BY <1>4, <2>1, <2>2
<1>9. \A i \in Nat : i < length =>
          bytes[from + i] = IF masked THEN Xor(Plain[i], MaskKey[(i % 4) + 1]) ELSE Plain[i]
  <2> SUFFICES ASSUME NEW i \in Nat, i < length
               PROVE  bytes[from + i] = IF masked THEN Xor(Plain[i], MaskKey[(i % 4) + 1]) ELSE Plain[i]
    OBVIOUS
  <2> DEFINE n == size + i
  <2>1. n \in Nat /\ n < SentSize(f) /\ n - size = i /\ ~(n < size) /\ n >= size
        /\ from + i = at + n
    BY <1>2, <1>3, <1>6
  <2> HIDE DEF n
  <2>2. SentByte(f, n) = IF masked THEN Xor(Plain[i], MaskKey[(i % 4) + 1]) ELSE Plain[i]
    <3>1. SentByte(f, n) =
            CASE n < size            -> header[n + 1]
              [] n >= size /\ masked  -> Xor(Plain[n - size], MaskKey[((n - size) % 4) + 1])
              [] n >= size /\ ~masked -> Plain[n - size]
      BY DEF SentByte, header, masked, size
    <3> QED BY <2>1, <3>1
  <2> QED BY <1>4, <2>1, <2>2
<1>10. HeaderAt(bytes, at, f.fin, f.opcode, masked, length)
  <2>1. \A i \in 0..(1 + skip) : bytes[at + i] = header[i + 1]
    BY <1>2, <1>8
  <2> QED BY <1>2, <1>3, <1>5, <2>1, LaidOut DEF skip
<1>11. ExtractFrame(bytes, at, end) = FrameAt(bytes, at, end, f.fin, f.opcode, masked, length)
  BY <1>3, <1>7, <1>10, Extracts
<1> DEFINE read == IF masked THEN Unmasked(bytes, key, from) ELSE bytes
<1>12. \A i \in Nat : i < length => read[from + i] = Plain[i]
  <2> SUFFICES ASSUME NEW i \in Nat, i < length
               PROVE  read[from + i] = Plain[i]
    OBVIOUS
  <2>1. CASE ~masked
    BY <1>9, <2>1
  <2>2. CASE masked
    <3>1. i % 4 \in Nat /\ i % 4 < 4 /\ (i % 4) + 1 \in 1..4 /\ from + i \in Nat /\ (from + i) - from = i
      BY <1>6
    <3>2. read[from + i] = Xor(bytes[from + i], bytes[key + (i % 4)])
      BY <2>2, <3>1 DEF Unmasked
    <3>3. bytes[key + (i % 4)] = MaskKey[(i % 4) + 1]
      <4> DEFINE n == 2 + skip + (i % 4)
      <4>1. n \in Nat /\ n < size /\ key + (i % 4) = at + n
            /\ n + 1 = 2 + skip + ((i % 4) + 1)
        BY <1>2, <1>3, <1>6, <2>2, <3>1
      <4> HIDE DEF n
      <4> QED BY <1>5, <1>8, <2>2, <3>1, <4>1
    <3>4. Plain[i] \in Byte /\ MaskKey[(i % 4) + 1] \in Byte
      BY <3>1, PlainIs, KeyIs
    <3>5. Xor(Xor(Plain[i], MaskKey[(i % 4) + 1]), MaskKey[(i % 4) + 1]) = Plain[i]
      BY <3>4, XorTwice
    <3> QED BY <1>9, <2>2, <3>2, <3>3, <3>5
  <2> QED BY <2>1, <2>2
<1>13. Payload(read, from, length) = Payload(Plain, 0, length)
  <2>1. ASSUME NEW i \in Sampled(length)
        PROVE  read[from + i] = Plain[0 + i]
    <3>1. i \in Nat /\ i < length /\ 0 + i = i
      BY <1>2 DEF Sampled
    <3> HIDE DEF read
    <3> QED BY <1>12, <3>1
  <2> HIDE DEF read
  <2> QED BY <2>1 DEF Payload
<1>14. FrameAt(bytes, at, end, f.fin, f.opcode, masked, length)
           = IF end < from + length THEN NoFrame
             ELSE [fin |-> f.fin, opcode |-> f.opcode, payload |-> Payload(read, from, length),
                   size |-> from + length - at]
  BY DEF FrameAt, from, key
<1>15. from + length - at = SentSize(f)
  BY <1>2, <1>3, <1>6
<1> HIDE DEF read
<1> QED BY <1>6, <1>11, <1>13, <1>14, <1>15 DEF ReadFrame, f, at, bytes, length

------------------------------------------------------------------------------
(* Sequences *)

LEMMA Sequenced ==
    ASSUME NEW s, IsSequence(s)
    PROVE  Len(s) \in Nat /\ DOMAIN s = 1..Len(s) /\ s \in Seq({s[i] : i \in 1..Len(s)})
<1> DEFINE n == Len(s)
           set == {s[i] : i \in 1..n}
<1>1. n \in Nat /\ s = [i \in 1..n |-> s[i]]
  BY DEF IsSequence
<1> HIDE DEF n
<1>2. s \in [1..n -> set]
  BY <1>1
<1>3. DOMAIN s = 1..n
  BY <1>2
<1> HIDE DEF set
<1>4. s \in Seq(set)
  BY <1>1, <1>2, SeqDef
<1> QED BY <1>1, <1>3, <1>4 DEF n, set

LEMMA Appended ==
    ASSUME NEW s, IsSequence(s), NEW e
    PROVE  /\ IsSequence(Append(s, e)) /\ Len(Append(s, e)) = Len(s) + 1
           /\ DOMAIN Append(s, e) = 1..(Len(s) + 1)
           /\ \A i \in 1..Len(s) : Append(s, e)[i] = s[i]
           /\ Append(s, e)[Len(s) + 1] = e
<1> DEFINE set == {s[i] : i \in 1..Len(s)} \cup {e}
           t   == Append(s, e)
<1>1. Len(s) \in Nat /\ s \in Seq({s[i] : i \in 1..Len(s)})
  BY Sequenced
<1>2. s \in Seq(set)
  BY <1>1, SeqMonotonic
<1> HIDE DEF set
<1>3. e \in set
  BY DEF set
<1>4. /\ t \in Seq(set) /\ Len(t) = Len(s) + 1
      /\ \A i \in 1..Len(s) : t[i] = s[i]
      /\ t[Len(s) + 1] = e
  BY <1>2, <1>3, AppendProperties
<1>5. Len(t) \in Nat /\ t \in [1..Len(t) -> set]
  BY <1>4, LenProperties
<1> HIDE DEF t
<1>6. IsSequence(t) /\ DOMAIN t = 1..Len(t)
  BY <1>5 DEF IsSequence
<1> QED BY <1>4, <1>6 DEF t

------------------------------------------------------------------------------
(* Turns *)

LEMMA DialogueIs ==
    ASSUME SocketTypeOK
    PROVE  /\ AreFrames(Frames)
           /\ dialogue.cuts \subseteq 0..EndOf(Frames, Len(Frames))
BY DialoguesAssumption DEF SocketTypeOK, IsDialogue, Listed, AreFrames, IsFrame, Opcode, Length, Frames

\* The frame after those that were taken.
Following == Len(extracted) + 1

LEMMA AtHandIs ==
    ASSUME SocketTypeOK, PlaceOK
    PROVE  /\ Following \in Nat
           /\ FrameAtHand = NoFrame =>
                  Following = Len(Frames) + 1 \/ arrived < EndOf(Frames, Following)
           /\ FrameAtHand # NoFrame =>
                  /\ Following \in 1..Len(Frames) /\ EndOf(Frames, Following) <= arrived
                  /\ IsFrame(Frames[Following])
                  /\ FrameAtHand = ReadFrame(Frames[Following])
<1> DEFINE n == Len(extracted)
<1>1. /\ n \in Nat /\ n <= Len(Frames) /\ taken = EndOf(Frames, n)
      /\ arrived \in Nat /\ arrived <= EndOf(Frames, Len(Frames))
  BY Sequenced DEF SocketTypeOK, PlaceOK
<1>2. AreFrames(Frames) /\ Len(Frames) \in Nat
  BY DialogueIs DEF AreFrames
<1>3. FrameAtHand = ExtractFrame(Stream(Frames), EndOf(Frames, n), arrived)
  BY <1>1 DEF FrameAtHand, Frames
<1>4. CASE n = Len(Frames)
  <2>1. EndOf(Frames, n) \in Nat
    BY <1>1, <1>2, EndOfIs
  <2>2. arrived - EndOf(Frames, n) < 2
    BY <1>1, <1>4, <2>1
  <2>3. FrameAtHand = NoFrame
    BY <1>3, <2>2 DEF ExtractFrame
  <2> QED BY <1>1, <1>4, <2>3 DEF Following
<1>5. CASE n # Len(Frames)
  <2>1. Following \in 1..Len(Frames) /\ Following - 1 = n /\ Following \in Nat
    BY <1>1, <1>2, <1>5 DEF Following
  <2>2. FrameAtHand = IF arrived < EndOf(Frames, Following) THEN NoFrame
                      ELSE ReadFrame(Frames[Following])
    BY <1>1, <1>2, <1>3, <2>1, NextFrame
  <2>3. EndOf(Frames, Following) \in Nat /\ IsFrame(Frames[Following])
    BY <1>2, <2>1, EndOfIs DEF AreFrames
  <2>4. ReadFrame(Frames[Following]) # NoFrame
    <3>1. SentSize(Frames[Following]) # 0
      BY <2>3, Sizes
    <3> QED BY <3>1 DEF ReadFrame, NoFrame
  <2>5. CASE arrived < EndOf(Frames, Following)
    BY <2>1, <2>2, <2>5
  <2>6. CASE ~(arrived < EndOf(Frames, Following))
    <3>1. EndOf(Frames, Following) <= arrived
      BY <1>1, <2>3, <2>6
    <3> QED BY <2>1, <2>2, <2>3, <2>4, <2>6, <3>1
  <2> QED BY <2>5, <2>6
<1> QED BY <1>4, <1>5

\* What becomes of the frame that a turn takes.
Took(k) ==
    /\ k = Following /\ k \in 1..Len(Frames) /\ EndOf(Frames, k) <= arrived
    /\ IsFrame(Frames[k])
    /\ taken' = EndOf(Frames, k)
    /\ extracted' = Append(extracted, TakenAsSent(k))
    /\ UNCHANGED <<dialogue, protocol, arrived, chunks>>
Rests(r) ==
    /\ Following = Len(Frames) + 1 \/ arrived < EndOf(Frames, Following)
    /\ RunIs(r, Idle)
    /\ UNCHANGED <<dialogue, socket, protocol, arrived, chunks, taken, extracted, written>>
Unsupported(r, k) ==
    /\ ~Frames[k].fin \/ Frames[k].opcode \notin {1, 8, 9}
    /\ CloseAndDestroy(k, 1003) /\ RunIs(r, Idle)
Closed(r, k) ==
    /\ Frames[k].fin /\ Frames[k].opcode = 8
    /\ socket' = IF socket = "open" THEN "ended" ELSE socket
    /\ RunIs(r, Idle) /\ UNCHANGED written
Ponged(k) ==
    /\ Frames[k].fin /\ Frames[k].opcode = 9
    /\ SendPong(k, Payload(Plain, 0, Frames[k].length)) /\ UNCHANGED runs
Called(r, k) ==
    /\ Frames[k].fin /\ Frames[k].opcode = 1 /\ Route(Frames[k].text) = "none"
    /\ RunIs(r, [at |-> "awaiting", frame |-> k]) /\ UNCHANGED <<socket, written>>
Answered(r, k, text, thrown) ==
    /\ ErrorId(text) # NoString
    /\ SendText(k, ResolveError(thrown), ErrorId(text)) /\ RunIs(r, Taking)
Lost(r, k, text) ==
    /\ ErrorId(text) = NoString
    /\ CloseAndDestroy(k, 1011) /\ RunIs(r, Idle)
Refused(r, k) ==
    /\ Frames[k].fin /\ Frames[k].opcode = 1 /\ Route(Frames[k].text) # "none"
    /\ \/ Answered(r, k, Frames[k].text, Route(Frames[k].text)) \/ Lost(r, k, Frames[k].text)
Taken(r, k) ==
    Unsupported(r, k) \/ Closed(r, k) \/ Ponged(k) \/ Called(r, k) \/ Refused(r, k)

LEMMA CaughtIs ==
    ASSUME NEW r, NEW k, NEW text, NEW thrown, Caught(r, k, text, thrown)
    PROVE  Answered(r, k, text, thrown) \/ Lost(r, k, text)
BY DEF Caught, Answered, Lost

LEMMA TurnIs ==
    ASSUME SocketTypeOK, PlaceOK, NEW r \in Runs, Turn(r)
    PROVE  /\ runs[r].at = "next"
           /\ \/ Rests(r)
              \/ Took(Following) /\ Taken(r, Following)
<1> DEFINE f == FrameAtHand
           k == Following
           text == TextOf(f.payload, k)
           sent == Frames[k]
<1>1. /\ runs[r].at = "next"
      /\ RunEnds(r, f) \/ TakeUnsupported(r, f, k) \/ TakeClose(r, f)
         \/ TakePing(r, f, k) \/ TakeText(r, f, k, text)
  BY DEF Turn, Following
<1>2. CASE RunEnds(r, f)
  <2>1. f = NoFrame
    BY <1>2 DEF RunEnds
  <2>2. k = Len(Frames) + 1 \/ arrived < EndOf(Frames, k)
    BY <2>1, AtHandIs
  <2> QED BY <1>1, <1>2, <2>2 DEF RunEnds, Rests
<1>3. CASE ~RunEnds(r, f)
  <2>1. f # NoFrame
    BY <1>1, <1>3 DEF TakeUnsupported, TakeClose, TakePing, TakeText, NoFrame
  <2>2. /\ k \in 1..Len(Frames) /\ EndOf(Frames, k) <= arrived
        /\ IsFrame(sent) /\ f = ReadFrame(sent)
    BY <2>1, AtHandIs
  <2>3. /\ f.fin = sent.fin /\ f.opcode = sent.opcode /\ f.size = SentSize(sent)
        /\ f.payload = Payload(Plain, 0, sent.length)
    BY <2>2 DEF ReadFrame
  <2>4. text = sent.text
    <3>1. k \in DOMAIN dialogue.frames
      BY <2>2, DialogueIs DEF AreFrames, Frames
    <3> QED BY <2>3, <3>1 DEF TextOf, Frames
  <2>5. taken + f.size = EndOf(Frames, k)
    <3>1. EndOf(Frames, k) = EndOf(Frames, k - 1) + SentSize(sent)
      BY <2>2, DialogueIs, EndOfIs
    <3>2. Len(extracted) \in Nat /\ k - 1 = Len(extracted)
      BY Sequenced DEF SocketTypeOK, Following
    <3> QED BY <2>3, <3>1, <3>2 DEF PlaceOK
  <2> DEFINE record(t) == [fin |-> f.fin, opcode |-> f.opcode, payload |-> f.payload, text |-> t]
  <2>6. /\ ~(sent.fin /\ sent.opcode = 1) => record(Garbled) = TakenAsSent(k)
        /\ sent.fin /\ sent.opcode = 1 => record(text) = TakenAsSent(k)
    BY <2>3, <2>4 DEF TakenAsSent
  <2>7. \A t : Takes(f, t) /\ record(t) = TakenAsSent(k) => Took(k)
    BY <2>2, <2>5 DEF Takes, Took
  <2> HIDE DEF f, k, text
  <2>8. CASE TakeUnsupported(r, f, k)
    <3>1. Unsupported(r, k) /\ Takes(f, Garbled) /\ ~(sent.fin /\ sent.opcode = 1)
      BY <2>3, <2>8 DEF TakeUnsupported, Unsupported
    <3> QED BY <1>1, <2>6, <2>7, <3>1 DEF Taken, k
  <2>9. CASE TakeClose(r, f)
    <3>1. Closed(r, k) /\ Takes(f, Garbled) /\ ~(sent.fin /\ sent.opcode = 1)
      BY <2>3, <2>9 DEF TakeClose, Closed
    <3> QED BY <1>1, <2>6, <2>7, <3>1 DEF Taken, k
  <2>10. CASE TakePing(r, f, k)
    <3>1. Ponged(k) /\ Takes(f, Garbled) /\ ~(sent.fin /\ sent.opcode = 1)
      BY <2>3, <2>10 DEF TakePing, Ponged
    <3> QED BY <1>1, <2>6, <2>7, <3>1 DEF Taken, k
  <2>11. CASE TakeText(r, f, k, text)
    <3>1. Takes(f, text) /\ sent.fin /\ sent.opcode = 1
      BY <2>3, <2>11 DEF TakeText
    <3>2. CASE Route(text) = "none"
      <4>1. Called(r, k)
        BY <2>4, <2>11, <3>1, <3>2 DEF TakeText, Called
      <4> QED BY <1>1, <2>6, <2>7, <3>1, <4>1 DEF Taken, k
    <3>3. CASE Route(text) # "none"
      <4>1. Caught(r, k, sent.text, Route(sent.text))
        BY <2>4, <2>11, <3>3 DEF TakeText
      <4>2. Refused(r, k)
        BY <2>4, <3>1, <3>3, <4>1, CaughtIs DEF Refused
      <4> QED BY <1>1, <2>6, <2>7, <3>1, <4>2 DEF Taken, k
    <3> QED BY <3>2, <3>3
  <2> QED BY <1>1, <1>3, <2>8, <2>9, <2>10, <2>11
<1> QED BY <1>2, <1>3

\* What a handler throws, and a flush.
Throws(r, at, thrown) ==
    LET k == Awaited(r)
    IN  /\ runs[r].at = at
        /\ \/ Answered(r, k, extracted[k].text, thrown)
           \/ Lost(r, k, extracted[k].text)
        /\ UNCHANGED <<dialogue, protocol, arrived, chunks, taken, extracted>>

HandlerFails(r) ==
    \E thrown \in ThrownBy(extracted[Awaited(r)].text.action) \cup {"error"} :
        Throws(r, "awaiting", thrown)
Fails(r) == HandlerFails(r) \/ Throws(r, "flushing", "error")

\* A turn, as TurnIs has it.
Turned(r) ==
    /\ runs[r].at = "next"
    /\ \/ Rests(r)
       \/ Took(Following) /\ Taken(r, Following)

LEMMA StepIs ==
    ASSUME SocketTypeOK, PlaceOK, Next
    PROVE  \/ HandleUpgrade \/ SocketError
           \/ \E r \in Runs :
                  \/ \E n \in dialogue.cuts : Chunk(r, n)
                  \/ Turned(r) \/ HandlerAnswers(r) \/ FlushOver(r) \/ Fails(r)
<1>1. SUFFICES ASSUME NEW r \in Runs, Turn(r) \/ HandlerThrows(r) \/ FlushRejected(r)
               PROVE  Turned(r) \/ Fails(r)
  BY Zenon DEF Next
<1>2. CASE Turn(r)
  BY <1>2, TurnIs DEF Turned
<1>3. CASE HandlerThrows(r)
  <2>1. PICK thrown \in ThrownBy(extracted[Awaited(r)].text.action) \cup {"error"} :
            Caught(r, Awaited(r), extracted[Awaited(r)].text, thrown)
    BY <1>3 DEF HandlerThrows
  <2>2. Throws(r, "awaiting", thrown)
    BY <1>3, <2>1, CaughtIs DEF HandlerThrows, Throws
  <2> QED BY <2>1, <2>2 DEF Fails, HandlerFails
<1>4. CASE FlushRejected(r)
  <2>1. Throws(r, "flushing", "error")
    BY <1>4, CaughtIs DEF FlushRejected, Throws
  <2> QED BY <2>1 DEF Fails
<1> QED BY <1>1, <1>2, <1>3, <1>4

------------------------------------------------------------------------------
(* What steps do to the history *)

LEMMA TookIs ==
    ASSUME SocketTypeOK, NEW k, Took(k)
    PROVE  /\ k \in Nat /\ k = Len(extracted) + 1 /\ k >= 1
           /\ IsSequence(extracted)' /\ Len(extracted)' = k
           /\ DOMAIN extracted = 1..(k - 1) /\ DOMAIN extracted' = 1..k
           /\ \A i \in DOMAIN extracted : extracted'[i] = extracted[i]
           /\ extracted'[k] = TakenAsSent(k)
           /\ dialogue' = dialogue
<1>1. IsSequence(extracted) /\ extracted' = Append(extracted, TakenAsSent(k)) /\ k = Len(extracted) + 1
  BY DEF SocketTypeOK, Took, Following
<1>2. Len(extracted) \in Nat /\ DOMAIN extracted = 1..Len(extracted)
  BY <1>1, Sequenced
<1>3. PICK e : e = TakenAsSent(k)
  OBVIOUS
<1>4. /\ IsSequence(Append(extracted, e)) /\ Len(Append(extracted, e)) = Len(extracted) + 1
      /\ DOMAIN Append(extracted, e) = 1..(Len(extracted) + 1)
      /\ \A i \in 1..Len(extracted) : Append(extracted, e)[i] = extracted[i]
      /\ Append(extracted, e)[Len(extracted) + 1] = e
  BY <1>1, Appended
<1>5. extracted' = Append(extracted, e)
  BY <1>1, <1>3
<1>6. IsSequence(extracted)' /\ Len(extracted)' = Len(extracted) + 1
  BY <1>4, <1>5 DEF IsSequence
<1> QED BY <1>1, <1>2, <1>3, <1>4, <1>5, <1>6 DEF Took

LEMMA EmittedIs ==
    ASSUME IsSequence(written), NEW w, Emitted(w)
    PROVE  /\ IsSequence(written)' /\ Len(written) \in Nat /\ DOMAIN written = 1..Len(written)
           /\ socket # "open" => written' = written
           /\ socket = "open" =>
                  /\ Len(written)' = Len(written) + 1 /\ DOMAIN written' = 1..(Len(written) + 1)
                  /\ \A i \in DOMAIN written : written'[i] = written[i]
                  /\ written'[Len(written) + 1] = w
<1>1. Len(written) \in Nat /\ DOMAIN written = 1..Len(written)
  BY Sequenced
<1>2. CASE socket # "open"
  BY <1>1, <1>2 DEF Emitted, IsSequence
<1>3. CASE socket = "open"
  <2>1. written' = Append(written, w)
    BY <1>3 DEF Emitted
  <2>2. /\ IsSequence(Append(written, w)) /\ Len(Append(written, w)) = Len(written) + 1
        /\ DOMAIN Append(written, w) = 1..(Len(written) + 1)
        /\ \A i \in 1..Len(written) : Append(written, w)[i] = written[i]
        /\ Append(written, w)[Len(written) + 1] = w
    BY Appended
  <2>3. IsSequence(written)' /\ Len(written)' = Len(written) + 1
    BY <2>1, <2>2 DEF IsSequence
  <2> QED BY <1>1, <1>3, <2>1, <2>2, <2>3
<1> QED BY <1>2, <1>3

\* Whatever a turn writes is about the frame it took, or about the text whose
\* handler it awaited, and can be read back.
LEMMA PayloadIs ==
    /\ \A length \in Length : IsPayload(Payload(Plain, 0, length))
    /\ \A code : IsPayload(ClosePayload(code))
<1>1. ASSUME NEW length \in Length
      PROVE  IsPayload(Payload(Plain, 0, length))
  BY DEF Length, IsPayload, Payload
<1>2. ASSUME NEW code
      PROVE  IsPayload(ClosePayload(code))
  BY SMT DEF IsPayload, ClosePayload, Endless
<1> QED BY <1>1, <1>2

Writes(k) ==
    \/ written' = written
    \/ \E w : /\ Emitted(w)
              /\ w.about = k /\ w.opcode \in 0..15 /\ IsPayload(w.payload)
RunTo(r, k) ==
    \/ runs' = runs \/ RunIs(r, Idle) \/ RunIs(r, Taking)
    \/ \E at \in {"awaiting", "flushing"} : RunIs(r, [at |-> at, frame |-> k])

\* What a write does to the socket.
Spoke == socket' = IF socket = "ended" THEN "failed" ELSE socket

LEMMA SendsText ==
    ASSUME NEW k, IsFrame(Frames[k]), NEW kind, NEW id, SendText(k, kind, id)
    PROVE  Writes(k) /\ Spoke
<1>1. Frames[k].length \in Length
  BY DEF IsFrame
<1>2. IsPayload(Payload(Plain, 0, Frames[k].length))
  BY <1>1, PayloadIs
<1> DEFINE w == WrittenFrame(k, 1, Payload(Plain, 0, Frames[k].length), kind, id)
<1>3. Emitted(w) /\ Spoke
  BY DEF SendText, Wrote, Spoke, Frames
<1>4. w.about = k /\ w.opcode \in 0..15 /\ w.payload = Payload(Plain, 0, Frames[k].length)
  BY DEF WrittenFrame
<1> HIDE DEF w
<1> QED BY <1>2, <1>3, <1>4 DEF Writes

LEMMA SendsPong ==
    ASSUME NEW k, NEW payload, IsPayload(payload), SendPong(k, payload)
    PROVE  Writes(k) /\ Spoke
<1> DEFINE w == WrittenFrame(k, 10, payload, "pong", "")
<1>1. Emitted(w) /\ Spoke
  BY DEF SendPong, Wrote, Spoke
<1>2. w.about = k /\ w.opcode \in 0..15 /\ w.payload = payload
  BY DEF WrittenFrame
<1> HIDE DEF w
<1> QED BY <1>1, <1>2 DEF Writes

LEMMA Closes ==
    ASSUME NEW k, NEW code, CloseAndDestroy(k, code)
    PROVE  Writes(k) /\ socket' = "destroyed"
<1> DEFINE w == WrittenFrame(k, 8, ClosePayload(code), "close", "")
<1>1. Emitted(w) /\ socket' = "destroyed"
  BY DEF CloseAndDestroy
<1>2. w.about = k /\ w.opcode \in 0..15 /\ w.payload = ClosePayload(code)
  BY DEF WrittenFrame
<1> HIDE DEF w
<1> QED BY <1>1, <1>2, PayloadIs DEF Writes

LEMMA CatchEffects ==
    ASSUME NEW r, NEW k, IsFrame(Frames[k]), NEW text, NEW thrown,
           Answered(r, k, text, thrown) \/ Lost(r, k, text)
    PROVE  Writes(k) /\ RunTo(r, k) /\ socket' \in {socket, "failed", "destroyed"}
<1>1. CASE Answered(r, k, text, thrown)
  BY <1>1, SendsText DEF Answered, RunTo, Spoke
<1>2. CASE Lost(r, k, text)
  BY <1>2, Closes DEF Lost, RunTo
<1> QED BY <1>1, <1>2

LEMMA TakenEffects ==
    ASSUME NEW r, NEW k, IsFrame(Frames[k]), Taken(r, k)
    PROVE  Writes(k) /\ RunTo(r, k) /\ socket' \in {socket, "ended", "failed", "destroyed"}
<1>1. CASE Unsupported(r, k)
  BY <1>1, Closes DEF Unsupported, RunTo
<1>2. CASE Closed(r, k)
  BY <1>2 DEF Closed, Writes, RunTo
<1>3. CASE Ponged(k)
  <2>1. IsPayload(Payload(Plain, 0, Frames[k].length))
    BY PayloadIs DEF IsFrame
  <2> QED BY <1>3, <2>1, SendsPong DEF Ponged, RunTo, Spoke
<1>4. CASE Called(r, k)
  BY <1>4 DEF Called, Writes, RunTo
<1>5. CASE Refused(r, k)
  BY <1>5, CatchEffects DEF Refused
<1> QED BY <1>1, <1>2, <1>3, <1>4, <1>5 DEF Taken

\* The frame whose handler, or whose flush, is awaited.
LEMMA AwaitedIs ==
    ASSUME SocketTypeOK, PlaceOK, NEW r \in Runs, Awaiting(r)
    PROVE  /\ Awaited(r) \in DOMAIN extracted /\ Awaited(r) \in DOMAIN Frames
           /\ runs[r] = [at |-> runs[r].at, frame |-> Awaited(r)]
           /\ IsFrame(Frames[Awaited(r)])
<1>1. Awaited(r) \in DOMAIN extracted /\ runs[r] = [at |-> runs[r].at, frame |-> Awaited(r)]
  BY DEF SocketTypeOK, Awaiting, Idle, Taking, Awaited
<1>2. DOMAIN extracted = 1..Len(extracted) /\ Len(extracted) \in Nat
  BY Sequenced DEF SocketTypeOK
<1>3. Len(Frames) \in Nat /\ DOMAIN Frames = 1..Len(Frames) /\ Len(extracted) <= Len(Frames)
      /\ \A k \in DOMAIN Frames : IsFrame(Frames[k])
  BY DialogueIs DEF AreFrames, PlaceOK
<1> QED BY <1>1, <1>2, <1>3

\* An answer of the handler is one of the ways in which a run goes on: to the
\* next frame, or to the flush.
GoesOn(r) ==
    \/ RunIs(r, Taking)
    \/ /\ RunIs(r, [at |-> "flushing", frame |-> Awaited(r)])
       /\ extracted[Awaited(r)].text.action = "BootNotification"

LEMMA AnswersEffects ==
    ASSUME SocketTypeOK, PlaceOK, NEW r \in Runs, HandlerAnswers(r)
    PROVE  /\ Awaiting(r) /\ runs[r].at = "awaiting" /\ Writes(Awaited(r)) /\ Spoke /\ GoesOn(r)
           /\ UNCHANGED <<dialogue, protocol, arrived, chunks, taken, extracted>>
<1>1. /\ Awaiting(r) /\ runs[r].at = "awaiting" /\ GoesOn(r)
      /\ SendText(Awaited(r), "result", extracted[Awaited(r)].text.uniqueId)
      /\ UNCHANGED <<dialogue, protocol, arrived, chunks, taken, extracted>>
  BY DEF HandlerAnswers, Awaiting, GoesOn
<1>2. IsFrame(Frames[Awaited(r)])
  BY <1>1, AwaitedIs
<1> QED BY <1>1, <1>2, SendsText

LEMMA ThrowsEffects ==
    ASSUME SocketTypeOK, PlaceOK, NEW r \in Runs,
           NEW at \in {"awaiting", "flushing"}, NEW thrown, Throws(r, at, thrown)
    PROVE  /\ Awaiting(r) /\ Writes(Awaited(r))
           /\ \/ Spoke /\ RunIs(r, Taking)
              \/ socket' = "destroyed" /\ RunIs(r, Idle)
           /\ UNCHANGED <<dialogue, protocol, arrived, chunks, taken, extracted>>
<1>1. /\ Awaiting(r)
      /\ UNCHANGED <<dialogue, protocol, arrived, chunks, taken, extracted>>
      /\ \/ Answered(r, Awaited(r), extracted[Awaited(r)].text, thrown)
         \/ Lost(r, Awaited(r), extracted[Awaited(r)].text)
  BY DEF Throws, Awaiting
<1>2. IsFrame(Frames[Awaited(r)])
  BY <1>1, AwaitedIs
<1>3. CASE Answered(r, Awaited(r), extracted[Awaited(r)].text, thrown)
  BY <1>1, <1>2, <1>3, SendsText DEF Answered
<1>4. CASE Lost(r, Awaited(r), extracted[Awaited(r)].text)
  BY <1>1, <1>4, Closes DEF Lost
<1> QED BY <1>1, <1>3, <1>4

LEMMA FailsEffects ==
    ASSUME SocketTypeOK, PlaceOK, NEW r \in Runs, Fails(r)
    PROVE  /\ Awaiting(r) /\ Writes(Awaited(r))
           /\ \/ Spoke /\ RunIs(r, Taking)
              \/ socket' = "destroyed" /\ RunIs(r, Idle)
           /\ UNCHANGED <<dialogue, protocol, arrived, chunks, taken, extracted>>
<1>1. CASE HandlerFails(r)
  BY <1>1, ThrowsEffects DEF HandlerFails
<1>2. CASE Throws(r, "flushing", "error")
  BY <1>2, ThrowsEffects
<1> QED BY <1>1, <1>2 DEF Fails

\* All that the types, the place and what is written need to know of a step.
Goes(r) ==
    \/ RunIs(r, Idle) \/ RunIs(r, Taking)
    \/ \E k \in DOMAIN extracted', at \in {"awaiting", "flushing"} :
           RunIs(r, [at |-> at, frame |-> k])
Sockets == {"connecting", "open", "ended", "failed", "destroyed"}
Effects ==
    /\ dialogue' = dialogue
    /\ socket' \in Sockets
    /\ arrived' \in Nat /\ chunks' \in Nat
    /\ \/ /\ UNCHANGED <<taken, extracted>>
          /\ arrived' = arrived \/ (arrived' \in dialogue.cuts /\ arrived' > arrived)
       \/ Took(Following)
    /\ runs' = runs \/ \E r \in Runs : Goes(r)
    /\ written' = written \/ \E k \in DOMAIN extracted' : Writes(k)

LEMMA EffectsOf ==
    ASSUME SocketTypeOK, PlaceOK, Next
    PROVE  Effects
<1>1. /\ socket \in Sockets /\ (Spoke => socket' \in Sockets)
      /\ arrived \in Nat /\ chunks \in Nat
  BY DEF SocketTypeOK, Sockets, Spoke
<1>2. CASE HandleUpgrade
  <2>1. socket' \in {"open", "destroyed"} /\ UNCHANGED <<dialogue, arrived, chunks, taken, extracted, runs, written>>
    BY <1>2 DEF HandleUpgrade
  <2> QED BY <1>1, <2>1 DEF Effects, Sockets
<1>3. ASSUME NEW r \in Runs, NEW n \in dialogue.cuts, Chunk(r, n)
      PROVE  Effects
  <2>1. /\ arrived' = n /\ n > arrived /\ chunks' = chunks + 1 /\ RunIs(r, Taking)
        /\ UNCHANGED <<dialogue, socket, protocol, taken, extracted, written>>
    BY <1>3 DEF Chunk
  <2>2. n \in Nat
    <3>1. EndOf(Frames, Len(Frames)) \in Nat
      <4>1. Len(Frames) \in 0..Len(Frames)
        BY DialogueIs DEF AreFrames
      <4> QED BY <4>1, DialogueIs, EndOfIs
    <3> QED BY <3>1, DialogueIs
  <2> QED BY <1>1, <2>1, <2>2 DEF Effects, Goes
<1>4. ASSUME NEW r \in Runs, Rests(r)
      PROVE  Effects
  BY <1>1, <1>4 DEF Rests, Effects, Goes
<1>5. ASSUME NEW r \in Runs, Took(Following), Taken(r, Following)
      PROVE  Effects
  <2>1. PICK k : k = Following
    OBVIOUS
  <2>2. k \in DOMAIN extracted' /\ dialogue' = dialogue /\ UNCHANGED <<arrived, chunks>>
    BY <1>5, <2>1, TookIs DEF Took
  <2>3. IsFrame(Frames[k])
    BY <1>5, <2>1 DEF Took
  <2>4. Writes(k) /\ RunTo(r, k) /\ socket' \in Sockets
    BY <1>1, <1>5, <2>1, <2>3, TakenEffects DEF Sockets
  <2>5. runs' = runs \/ Goes(r)
    BY <2>2, <2>4 DEF RunTo, Goes
  <2> QED BY <1>1, <1>5, <2>2, <2>4, <2>5 DEF Effects
<1>6. ASSUME NEW r \in Runs, HandlerAnswers(r)
      PROVE  Effects
  <2>1. /\ Awaiting(r) /\ Writes(Awaited(r)) /\ Spoke /\ GoesOn(r)
        /\ UNCHANGED <<dialogue, protocol, arrived, chunks, taken, extracted>>
    BY <1>6, AnswersEffects
  <2>2. Awaited(r) \in DOMAIN extracted'
    BY <2>1, AwaitedIs
  <2>3. Goes(r)
    BY <2>1, <2>2 DEF Goes, GoesOn
  <2> QED BY <1>1, <2>1, <2>2, <2>3 DEF Effects
<1>7. ASSUME NEW r \in Runs, Fails(r)
      PROVE  Effects
  <2>1. /\ Awaiting(r) /\ Writes(Awaited(r))
        /\ (Spoke /\ RunIs(r, Taking)) \/ (socket' = "destroyed" /\ RunIs(r, Idle))
        /\ UNCHANGED <<dialogue, protocol, arrived, chunks, taken, extracted>>
    BY <1>7, FailsEffects
  <2>2. Awaited(r) \in DOMAIN extracted'
    BY <2>1, AwaitedIs
  <2>3. Goes(r) /\ socket' \in Sockets
    BY <1>1, <2>1 DEF Goes, Sockets
  <2> QED BY <1>1, <2>1, <2>2, <2>3 DEF Effects
<1>8. ASSUME NEW r \in Runs, FlushOver(r)
      PROVE  Effects
  BY <1>1, <1>8 DEF FlushOver, Effects, Goes
<1>9. CASE SocketError
  BY <1>1, <1>9 DEF SocketError, Effects, Sockets
<1> QED BY <1>2, <1>3, <1>4, <1>5, <1>6, <1>7, <1>8, <1>9, StepIs DEF Turned

LEMMA RunsType ==
    ASSUME SocketTypeOK, NEW r \in Runs, Goes(r), DOMAIN extracted \subseteq DOMAIN extracted'
    PROVE  /\ DOMAIN runs' = Runs
           /\ \A q \in Runs :
                  \/ runs'[q] = Idle \/ runs'[q] = Taking
                  \/ \E i \in DOMAIN extracted', at \in {"awaiting", "flushing"} :
                         runs'[q] = [at |-> at, frame |-> i]
<1>1. DOMAIN runs = Runs
  BY DEF SocketTypeOK
<1>2. DOMAIN runs' = Runs /\ \A q \in Runs : q # r => runs'[q] = runs[q]
  BY <1>1 DEF Goes, RunIs
<1> DEFINE Well(run) == \/ run = Idle \/ run = Taking
                        \/ \E i \in DOMAIN extracted', at \in {"awaiting", "flushing"} :
                               run = [at |-> at, frame |-> i]
<1>3. Well(runs'[r])
  BY <1>1 DEF Goes, RunIs
<1>4. \A q \in Runs : Well(runs[q])
  BY DEF SocketTypeOK
<1>5. \A q \in Runs : Well(runs'[q])
  <2> HIDE DEF Well
  <2> QED BY <1>2, <1>3, <1>4
<1> QED BY <1>2, <1>5

LEMMA WritesType ==
    ASSUME SocketTypeOK, NEW k, Writes(k)
    PROVE  IsSequence(written)'
<1>1. IsSequence(written)
  BY DEF SocketTypeOK
<1>2. CASE written' = written
  BY <1>1, <1>2 DEF IsSequence
<1>3. CASE \E w : Emitted(w)
  BY <1>1, <1>3, EmittedIs
<1> QED BY <1>2, <1>3 DEF Writes

\* A frame that is taken leaves the stream at the next.
LEMMA PlaceTook ==
    ASSUME SocketTypeOK, PlaceOK, NEW k, Took(k)
    PROVE  PlaceOK'
<1>1. /\ k \in Nat /\ Len(extracted)' = k
      /\ DOMAIN extracted = 1..(k - 1) /\ DOMAIN extracted' = 1..k
      /\ \A i \in DOMAIN extracted : extracted'[i] = extracted[i]
      /\ extracted'[k] = TakenAsSent(k)
      /\ dialogue' = dialogue
  BY TookIs
<1>2. Frames' = Frames /\ \A i : TakenAsSent(i)' = TakenAsSent(i)
  BY <1>1 DEF Frames, TakenAsSent
<1>3. /\ k \in 1..Len(Frames) /\ EndOf(Frames, k) <= arrived
      /\ taken' = EndOf(Frames, k) /\ arrived' = arrived
  BY DEF Took
<1>4. k <= Len(Frames)
  BY <1>3, DialogueIs DEF AreFrames
<1>5. \A i \in DOMAIN extracted' : extracted'[i] = TakenAsSent(i)
  BY <1>1 DEF PlaceOK
<1>6. arrived <= EndOf(Frames, Len(Frames))
  BY DEF PlaceOK
<1> QED BY <1>1, <1>2, <1>3, <1>4, <1>5, <1>6 DEF PlaceOK

LEMMA TypeKept ==
    ASSUME SocketTypeOK, PlaceOK, Next
    PROVE  SocketTypeOK'
<1>1. Effects
  BY EffectsOf
<1>2. IsSequence(extracted)' /\ DOMAIN extracted \subseteq DOMAIN extracted'
  <2>1. CASE extracted' = extracted
    BY <2>1 DEF SocketTypeOK, IsSequence
  <2>2. CASE Took(Following)
    BY <2>2, TookIs
  <2> QED BY <1>1, <2>1, <2>2 DEF Effects
<1>3. IsSequence(written)'
  <2>1. CASE written' = written
    BY <2>1 DEF SocketTypeOK, IsSequence
  <2> QED BY <1>1, <2>1, WritesType DEF Effects
<1>4. /\ DOMAIN runs' = Runs
      /\ \A q \in Runs :
             \/ runs'[q] = Idle \/ runs'[q] = Taking
             \/ \E i \in DOMAIN extracted', at \in {"awaiting", "flushing"} :
                         runs'[q] = [at |-> at, frame |-> i]
  <2>1. CASE runs' = runs
    BY <1>2, <2>1 DEF SocketTypeOK
  <2> QED BY <1>1, <1>2, <2>1, RunsType DEF Effects
<1>5. dialogue' \in Dialogues
  BY <1>1 DEF Effects, SocketTypeOK
<1> QED BY <1>1, <1>2, <1>3, <1>4, <1>5 DEF Effects, SocketTypeOK, Sockets

LEMMA PlaceKept ==
    ASSUME SocketTypeOK, PlaceOK, Next
    PROVE  PlaceOK'
<1>1. Effects
  BY EffectsOf
<1>2. CASE Took(Following)
  BY <1>2, PlaceTook
<1>3. CASE /\ UNCHANGED <<dialogue, taken, extracted>>
           /\ arrived' = arrived \/ (arrived' \in dialogue.cuts /\ arrived' > arrived)
  <2>1. Frames' = Frames /\ \A i : TakenAsSent(i)' = TakenAsSent(i)
    BY <1>3 DEF Frames, TakenAsSent
  <2>2. arrived \in Nat /\ Len(extracted) \in Nat /\ Len(extracted) \in 0..Len(Frames)
        /\ AreFrames(Frames) /\ dialogue.cuts \subseteq 0..EndOf(Frames, Len(Frames))
    <3>1. Len(extracted) \in Nat /\ arrived \in Nat
      BY Sequenced DEF SocketTypeOK
    <3>2. AreFrames(Frames) /\ Len(Frames) \in Nat
      BY DialogueIs DEF AreFrames
    <3> QED BY <3>1, <3>2, DialogueIs DEF PlaceOK
  <2>3. EndOf(Frames, Len(extracted)) \in Nat
    BY <2>2, EndOfIs
  <2>4. taken <= arrived' /\ arrived' <= EndOf(Frames, Len(Frames))
    <3>1. CASE arrived' = arrived
      BY <3>1 DEF PlaceOK
    <3>2. CASE arrived' \in dialogue.cuts /\ arrived' > arrived
      <4>1. taken \in Nat /\ taken <= arrived
        BY <2>3 DEF PlaceOK
      <4>2. Len(Frames) \in 0..Len(Frames)
        BY <2>2 DEF AreFrames
      <4>3. EndOf(Frames, Len(Frames)) \in Nat
        BY <2>2, <4>2, EndOfIs
      <4>4. arrived' \in 0..EndOf(Frames, Len(Frames))
        BY <2>2, <3>2
      <4> HIDE <1>3
      <4> QED BY <2>2, <3>2, <4>1, <4>3, <4>4
    <3> QED BY <1>3, <3>1, <3>2
  <2> QED BY <1>3, <2>1, <2>4 DEF PlaceOK
<1> QED BY <1>1, <1>2, <1>3 DEF Effects

LEMMA WrittenKept ==
    ASSUME SocketTypeOK, PlaceOK, WrittenOK, Next
    PROVE  WrittenOK'
<1>1. Effects
  BY EffectsOf
<1>2. DOMAIN extracted \subseteq DOMAIN extracted'
  <2>1. CASE Took(Following)
    BY <2>1, TookIs
  <2> QED BY <1>1, <2>1 DEF Effects
<1> DEFINE Fine(w) == w.opcode \in 0..15 /\ IsPayload(w.payload) /\ w.about \in DOMAIN extracted'
<1>3. \A n \in DOMAIN written : Fine(written[n])
  BY <1>2 DEF WrittenOK
<1>4. SUFFICES \A n \in DOMAIN written' : Fine(written'[n])
  BY DEF WrittenOK, IsPayload
<1>5. CASE written' = written
  BY <1>3, <1>5
<1>6. ASSUME NEW w, Emitted(w), Fine(w)
      PROVE  \A n \in DOMAIN written' : Fine(written'[n])
  <2> HIDE DEF Fine
  <2>1. IsSequence(written)
    BY DEF SocketTypeOK
  <2>2. CASE socket = "open"
    <3>1. /\ Len(written) \in Nat /\ DOMAIN written = 1..Len(written)
          /\ DOMAIN written' = 1..(Len(written) + 1)
          /\ \A i \in DOMAIN written : written'[i] = written[i]
          /\ written'[Len(written) + 1] = w
      BY <1>6, <2>1, <2>2, EmittedIs
    <3>2. \A n \in DOMAIN written' : n \in DOMAIN written \/ n = Len(written) + 1
      BY <3>1
    <3> QED BY <1>3, <1>6, <3>1, <3>2
  <2>3. CASE socket # "open"
    BY <1>3, <1>6, <2>1, <2>3, EmittedIs
  <2> QED BY <2>2, <2>3
<1> QED BY <1>1, <1>5, <1>6 DEF Effects, Writes

------------------------------------------------------------------------------
(* Steps of a run *)

RunStep(r) == Turned(r) \/ HandlerAnswers(r) \/ FlushOver(r) \/ Fails(r)

\* What follows of a step of a run for the runs and the socket.
BeginsCall(r) == /\ Took(Following) /\ Called(r, Following)
                 /\ runs'[r] = [at |-> "awaiting", frame |-> Following]
BeginsFlush(r) == /\ UNCHANGED extracted /\ runs[r].at = "awaiting"
                  /\ runs'[r] = [at |-> "flushing", frame |-> runs[r].frame]
                  /\ extracted[runs[r].frame].text.action = "BootNotification"
LEMMA RunStepIs ==
    ASSUME SocketTypeOK, PlaceOK, NEW r \in Runs, RunStep(r)
    PROVE  /\ runs[r] # Idle
           /\ UNCHANGED <<dialogue, protocol, chunks, arrived>>
           /\ socket' # socket => socket' \in {"ended", "failed", "destroyed"}
           /\ socket' = "open" => socket = "open"
           /\ socket' = "ended" => socket \in {"open", "ended"}
           /\ DOMAIN runs' = Runs /\ \A q \in Runs : q # r => runs'[q] = runs[q]
           /\ runs'[r] = Idle \/ runs'[r] = Taking \/ BeginsCall(r) \/ BeginsFlush(r)
           /\ \/ UNCHANGED <<taken, extracted>>
              \/ /\ Took(Following)
                 /\ EndsItsRun(TakenAsSent(Following)) => runs'[r] = Idle
<1>1. DOMAIN runs = Runs /\ (runs[r].at = "next" => runs[r] = Taking)
  BY DEF SocketTypeOK, Idle, Taking
<1>2. \A what : RunIs(r, what) => /\ DOMAIN runs' = Runs /\ runs'[r] = what
                                  /\ \A q \in Runs : q # r => runs'[q] = runs[q]
  BY <1>1 DEF RunIs
<1>3. Awaiting(r) \/ runs[r].at = "next" => runs[r] # Idle
  BY DEF Awaiting, Idle
<1>4. Spoke => /\ socket' # socket => socket' \in {"ended", "failed", "destroyed"}
               /\ socket' = "open" => socket = "open"
               /\ socket' # "ended"
  BY DEF Spoke
<1>5. CASE runs[r].at = "next" /\ Rests(r)
  BY <1>2, <1>3, <1>5 DEF Rests
<1>6. CASE runs[r].at = "next" /\ Took(Following) /\ Taken(r, Following)
  <2>1. UNCHANGED <<dialogue, protocol, chunks, arrived>> /\ IsFrame(Frames[Following])
    BY <1>6 DEF Took
  <2>2. CASE Unsupported(r, Following)
    BY <1>2, <1>3, <1>6, <2>1, <2>2, Closes DEF Unsupported
  <2>3. CASE Closed(r, Following)
    BY <1>2, <1>3, <1>6, <2>1, <2>3 DEF Closed
  <2>4. CASE Ponged(Following)
    <3>1. Spoke
      BY <2>1, <2>4, SendsPong, PayloadIs DEF Ponged, IsFrame
    <3>2. ~EndsItsRun(TakenAsSent(Following))
      BY <2>4 DEF Ponged, EndsItsRun, TakenAsSent
    <3> QED BY <1>1, <1>3, <1>4, <1>6, <2>1, <2>4, <3>1, <3>2 DEF Ponged
  <2>5. CASE Called(r, Following)
    <3>1. ~EndsItsRun(TakenAsSent(Following))
      BY <2>5 DEF Called, EndsItsRun, TakenAsSent
    <3> QED BY <1>2, <1>3, <1>6, <2>1, <2>5, <3>1 DEF Called, BeginsCall
  <2>6. CASE /\ Frames[Following].fin /\ Frames[Following].opcode = 1
             /\ Answered(r, Following, Frames[Following].text, Route(Frames[Following].text))
    <3>1. Spoke
      BY <2>1, <2>6, SendsText DEF Answered
    <3>2. ~EndsItsRun(TakenAsSent(Following))
      BY <2>6 DEF Answered, EndsItsRun, TakenAsSent, Identified, ErrorId
    <3> QED BY <1>2, <1>3, <1>4, <1>6, <2>1, <2>6, <3>1, <3>2 DEF Answered
  <2>7. CASE Lost(r, Following, Frames[Following].text)
    BY <1>2, <1>3, <1>6, <2>1, <2>7, Closes DEF Lost
  <2> QED BY <1>6, <2>2, <2>3, <2>4, <2>5, <2>6, <2>7 DEF Taken, Refused
<1>7. CASE HandlerAnswers(r)
  <2>1. Awaiting(r) /\ runs[r].at = "awaiting" /\ Spoke /\ GoesOn(r)
        /\ UNCHANGED <<dialogue, protocol, arrived, chunks, taken, extracted>>
    BY <1>7, AnswersEffects
  <2> QED BY <1>2, <1>3, <1>4, <2>1 DEF GoesOn, BeginsFlush, Awaited
<1>8. CASE Fails(r)
  <2>1. /\ Awaiting(r)
        /\ (Spoke /\ RunIs(r, Taking)) \/ (socket' = "destroyed" /\ RunIs(r, Idle))
        /\ UNCHANGED <<dialogue, protocol, arrived, chunks, taken, extracted>>
    BY <1>8, FailsEffects
  <2> QED BY <1>2, <1>3, <1>4, <2>1
<1>9. CASE FlushOver(r)
  BY <1>2, <1>3, <1>9 DEF FlushOver, Awaiting
<1> QED BY <1>5, <1>6, <1>7, <1>8, <1>9 DEF RunStep, Turned

LEMMA StepOf ==
    ASSUME SocketTypeOK, PlaceOK, Next
    PROVE  \/ HandleUpgrade \/ SocketError
           \/ \E r \in Runs : \E n \in dialogue.cuts : Chunk(r, n)
           \/ \E r \in Runs : RunStep(r)
BY StepIs DEF RunStep

LEMMA ChunksKept ==
    ASSUME SocketTypeOK, PlaceOK, ChunksOK, Next
    PROVE  ChunksOK'
<1>1. chunks \in Nat
  BY DEF SocketTypeOK
<1>2. CASE HandleUpgrade \/ SocketError
  <2>1. /\ socket' # "connecting" /\ (chunks' = 0 => chunks = 0)
        /\ UNCHANGED <<arrived, chunks, extracted, runs, written>>
    BY <1>2 DEF HandleUpgrade, SocketError
  <2> QED BY <2>1 DEF ChunksOK, AllIdle, Awaiting
<1>3. ASSUME NEW r \in Runs, NEW n \in dialogue.cuts, Chunk(r, n)
      PROVE  ChunksOK'
  <2>1. /\ chunks' = chunks + 1 /\ RunIs(r, Taking) /\ socket \in {"open", "ended"}
        /\ socket' = socket /\ extracted' = extracted
    BY <1>3 DEF Chunk
  <2>2. /\ DOMAIN runs' = Runs /\ runs'[r] = Taking
        /\ \A q \in Runs : q # r => runs'[q] = runs[q]
    BY <2>1 DEF RunIs, SocketTypeOK
  <2>3. chunks' # 0 /\ (chunks' = 1 => AllIdle /\ DOMAIN extracted' = {})
    <3>1. chunks' = 1 => chunks = 0
      BY <1>1, <2>1
    <3>2. chunks = 0 => AllIdle /\ Len(extracted) = 0
      BY DEF ChunksOK
    <3>3. DOMAIN extracted = 1..Len(extracted)
      BY Sequenced DEF SocketTypeOK
    <3> QED BY <1>1, <2>1, <3>1, <3>2, <3>3
  <2>4. chunks' = 1 => \A q \in Runs : q # r => runs'[q] = Idle
    BY <2>2, <2>3 DEF AllIdle
  <2>5. chunks' = 1 => \A q \in Runs : runs'[q] # Idle => q = r
    BY <2>4
  <2>6. chunks' = 1 => \A q \in Runs : ~Awaiting(q)'
    BY <2>2, <2>4 DEF Awaiting, Idle, Taking
  <2> QED BY <2>1, <2>3, <2>5, <2>6 DEF ChunksOK
<1>4. ASSUME NEW r \in Runs, RunStep(r)
      PROVE  ChunksOK'
  <2>1. /\ runs[r] # Idle
        /\ UNCHANGED <<dialogue, protocol, chunks, arrived>>
        /\ socket' # socket => socket' \in {"ended", "failed", "destroyed"}
        /\ DOMAIN runs' = Runs /\ \A q \in Runs : q # r => runs'[q] = runs[q]
        /\ runs'[r] = Idle \/ runs'[r] = Taking \/ BeginsCall(r) \/ BeginsFlush(r)
        /\ \/ UNCHANGED extracted
           \/ Took(Following) /\ (EndsItsRun(TakenAsSent(Following)) => runs'[r] = Idle)
    BY <1>4, RunStepIs
  <2>2. chunks # 0 /\ socket' # "connecting"
    BY <2>1 DEF ChunksOK, AllIdle
  <2>3. ASSUME chunks = 1
        PROVE  \A q \in Runs : q # r => runs[q] = Idle
    BY <2>1, <2>3 DEF ChunksOK
  <2>4. ASSUME chunks = 1
        PROVE  /\ \A q \in Runs : q # r => runs'[q] = Idle
               /\ \A q \in Runs : Awaiting(q)' => q = r
    BY <2>1, <2>3, <2>4 DEF Awaiting, Idle
  <2>5. ASSUME chunks = 1, NEW q \in Runs, Awaiting(q)'
        PROVE  runs'[q].frame = Len(extracted)'
    <3>1. q = r /\ (BeginsCall(r) \/ BeginsFlush(r))
      BY <2>1, <2>4, <2>5 DEF Awaiting, Idle, Taking
    <3>2. CASE BeginsCall(r)
      <4>1. Len(extracted)' = Following
        BY <3>2, TookIs DEF BeginsCall
      <4> QED BY <3>1, <3>2, <4>1 DEF BeginsCall
    <3>3. CASE BeginsFlush(r)
      <4>1. runs[r].frame = Len(extracted)
        BY <2>5, <3>3 DEF BeginsFlush, ChunksOK, Awaiting
      <4> QED BY <3>1, <3>3, <4>1 DEF BeginsFlush
    <3> QED BY <3>1, <3>2, <3>3
  <2>6. ASSUME chunks = 1, NEW k \in DOMAIN extracted', EndsItsRun(extracted'[k])
        PROVE  k = Len(extracted)' /\ AllIdle'
    <3>1. \A i \in DOMAIN extracted : ~EndsItsRun(extracted[i])
      BY <2>1, <2>6 DEF ChunksOK, AllIdle
    <3>2. /\ Took(Following)
          /\ EndsItsRun(TakenAsSent(Following)) => runs'[r] = Idle
      BY <2>1, <2>6, <3>1
    <3>3. PICK f : f = Following
      OBVIOUS
    <3>4. /\ f \in Nat /\ Len(extracted)' = f
          /\ DOMAIN extracted = 1..(f - 1) /\ DOMAIN extracted' = 1..f
          /\ \A i \in DOMAIN extracted : extracted'[i] = extracted[i]
          /\ extracted'[f] = TakenAsSent(f)
      BY <3>2, <3>3, TookIs
    <3>5. k \in DOMAIN extracted \/ k = f
      BY <2>6, <3>4
    <3>6. k = f
      BY <2>6, <3>1, <3>4, <3>5
    <3>7. runs'[r] = Idle
      BY <2>6, <3>2, <3>3, <3>4, <3>6
    <3> QED BY <2>4, <2>6, <3>4, <3>6, <3>7 DEF AllIdle
  <2>7. ASSUME chunks = 1, NEW p \in Runs, NEW q \in Runs, runs'[p] # Idle, runs'[q] # Idle
        PROVE  p = q
    BY <2>4, <2>7
  <2> QED BY <2>1, <2>2, <2>5, <2>6, <2>7 DEF ChunksOK
<1> QED BY <1>2, <1>3, <1>4, StepOf

LEMMA AwaitingKept ==
    ASSUME SocketTypeOK, PlaceOK, AwaitingOK, Next
    PROVE  AwaitingOK'
<1> DEFINE Fine(e)  == e.opcode = 1 /\ e.fin /\ Route(e.text) = "none"
           Boots(e) == e.text.action = "BootNotification"
           Sound(r) == /\ Fine(extracted'[runs'[r].frame])
                       /\ runs'[r].at = "flushing" => Boots(extracted'[runs'[r].frame])
                       /\ \A q \in Runs : Awaiting(q)' /\ runs'[q].frame = runs'[r].frame => q = r
<1>1. \A r \in Runs : Awaiting(r) => runs[r].frame \in DOMAIN extracted
  BY DEF SocketTypeOK, Awaiting, Idle, Taking
<1>2. SUFFICES \A r \in Runs : Awaiting(r)' => Sound(r)
  BY DEF AwaitingOK
<1>3. \A r \in Runs : Awaiting(r) =>
          /\ Fine(extracted[runs[r].frame])
          /\ runs[r].at = "flushing" => Boots(extracted[runs[r].frame])
  BY DEF AwaitingOK
<1> HIDE DEF Fine, Boots
<1>4. ASSUME extracted' = extracted,
             \A r \in Runs : Awaiting(r)' =>
                 /\ Awaiting(r) /\ runs'[r].frame = runs[r].frame
                 /\ \/ runs'[r].at = runs[r].at
                    \/ Boots(extracted[runs[r].frame])
      PROVE  \A r \in Runs : Awaiting(r)' => Sound(r)
  <2> SUFFICES ASSUME NEW r \in Runs, Awaiting(r)'
               PROVE  Sound(r)
    OBVIOUS
  <2>1. Awaiting(r) /\ runs'[r].frame = runs[r].frame
        /\ (runs'[r].at = runs[r].at \/ Boots(extracted[runs[r].frame]))
    BY <1>4
  <2>2. ASSUME NEW q \in Runs, Awaiting(q)', runs'[q].frame = runs'[r].frame
        PROVE  q = r
    <3>1. Awaiting(q) /\ runs[q].frame = runs[r].frame
      BY <1>4, <2>1, <2>2
    <3> QED BY <2>1, <3>1 DEF AwaitingOK
  <2> QED BY <1>3, <1>4, <2>1, <2>2
<1>5. CASE HandleUpgrade \/ SocketError
  <2>1. UNCHANGED <<extracted, runs>>
    BY <1>5 DEF HandleUpgrade, SocketError
  <2> QED BY <1>4, <2>1 DEF Awaiting
<1>6. ASSUME NEW r \in Runs, NEW n \in dialogue.cuts, Chunk(r, n)
      PROVE  \A q \in Runs : Awaiting(q)' => Sound(q)
  <2>1. extracted' = extracted /\ \A q \in Runs : Awaiting(q)' => runs'[q] = runs[q]
    BY <1>6 DEF Chunk, RunIs, SocketTypeOK, Awaiting, Taking
  <2>2. \A q \in Runs : Awaiting(q)' => Awaiting(q)
    BY <2>1 DEF Awaiting
  <2> HIDE DEF Sound
  <2> QED BY <1>4, <2>1, <2>2
<1>7. ASSUME NEW r \in Runs, RunStep(r), extracted' = extracted
      PROVE  \A p \in Runs : Awaiting(p)' => Sound(p)
  <2>1. ~Took(Following)
    BY <1>7, TookIs
  <2>2. /\ \A q \in Runs : q # r => runs'[q] = runs[q]
        /\ runs'[r] = Idle \/ runs'[r] = Taking \/ BeginsFlush(r)
    BY <1>7, <2>1, RunStepIs DEF BeginsCall
  <2>3. ASSUME NEW q \in Runs, Awaiting(q)', q # r
        PROVE  Awaiting(q) /\ runs'[q] = runs[q]
    BY <2>2, <2>3 DEF Awaiting
  <2>4. Awaiting(r)' => /\ Awaiting(r) /\ runs'[r].frame = runs[r].frame
                        /\ Boots(extracted[runs[r].frame])
    BY <2>2 DEF Awaiting, Idle, Taking, BeginsFlush, Boots
  <2> HIDE DEF Sound
  <2> QED BY <1>4, <1>7, <2>3, <2>4
<1>8. ASSUME NEW r \in Runs, RunStep(r), Took(Following), NEW p \in Runs, Awaiting(p)'
      PROVE  Sound(p)
  <2>1. PICK k : k = Following
    OBVIOUS
  <2>2. /\ k \in Nat /\ DOMAIN extracted = 1..(k - 1) /\ Len(extracted)' = k
        /\ \A i \in DOMAIN extracted : extracted'[i] = extracted[i]
        /\ extracted'[k] = TakenAsSent(k)
    BY <1>8, <2>1, TookIs
  <2>3. k \notin DOMAIN extracted
    BY <2>2
  <2>4. ~BeginsFlush(r)
    BY <1>8, TookIs DEF BeginsFlush
  <2>5. ASSUME NEW q \in Runs, Awaiting(q)'
        PROVE  \/ /\ runs'[q] = runs[q] /\ Awaiting(q) /\ runs'[q].frame \in DOMAIN extracted
                  /\ extracted'[runs'[q].frame] = extracted[runs[q].frame]
               \/ q = r /\ runs'[q].frame = k /\ runs'[q].at = "awaiting" /\ Called(r, k)
    <3>1. CASE q # r
      <4>1. runs'[q] = runs[q]
        BY <1>8, <3>1, RunStepIs
      <4>2. Awaiting(q)
        BY <2>5, <4>1 DEF Awaiting
      <4> QED BY <1>1, <2>2, <4>1, <4>2
    <3>2. CASE q = r
      <4>1. BeginsCall(r)
        BY <1>8, <2>4, <2>5, <3>2, RunStepIs DEF Awaiting, Idle, Taking
      <4> QED BY <2>1, <3>2, <4>1 DEF BeginsCall
    <3> QED BY <3>1, <3>2
  <2>6. Called(r, k) => Fine(extracted'[k])
    BY <2>2 DEF Called, TakenAsSent, Fine
  <2>7. Fine(extracted'[runs'[p].frame])
    BY <1>3, <1>8, <2>5, <2>6
  <2>8. runs'[p].at = "flushing" => Boots(extracted'[runs'[p].frame])
    BY <1>3, <1>8, <2>5
  <2>9. ASSUME NEW q \in Runs, Awaiting(q)', runs'[q].frame = runs'[p].frame
        PROVE  q = p
    BY <1>8, <2>3, <2>5, <2>9 DEF AwaitingOK
  <2> QED BY <2>7, <2>8, <2>9
<1>9. ASSUME NEW r \in Runs, RunStep(r)
      PROVE  \A p \in Runs : Awaiting(p)' => Sound(p)
  <2>1. UNCHANGED extracted \/ Took(Following)
    BY <1>9, RunStepIs
  <2> HIDE DEF Sound
  <2> QED BY <1>7, <1>8, <1>9, <2>1
<1> HIDE DEF Sound
<1> QED BY <1>5, <1>6, <1>9, StepOf

\* What a run writes is about the frame it takes or about the text it awaited.
LEMMA RunWrites ==
    ASSUME SocketTypeOK, PlaceOK, NEW r \in Runs, RunStep(r)
    PROVE  \/ written' = written
           \/ Took(Following) /\ Writes(Following)
           \/ Awaiting(r) /\ UNCHANGED extracted /\ Writes(Awaited(r))
<1>1. CASE Rests(r)
  BY <1>1 DEF Rests
<1>2. CASE Took(Following) /\ Taken(r, Following)
  <2>1. PICK k : k = Following
    OBVIOUS
  <2>2. IsFrame(Frames[k])
    BY <1>2, <2>1 DEF Took
  <2>3. Writes(k)
    BY <1>2, <2>1, <2>2, TakenEffects
  <2> QED BY <1>2, <2>1, <2>3
<1>3. CASE HandlerAnswers(r)
  BY <1>3, AnswersEffects
<1>4. CASE Fails(r)
  BY <1>4, FailsEffects
<1>5. CASE FlushOver(r)
  BY <1>5 DEF FlushOver
<1> QED BY <1>1, <1>2, <1>3, <1>4, <1>5 DEF RunStep, Turned

LEMMA InOrderKept ==
    ASSUME SocketTypeOK, PlaceOK, ChunksOK, WrittenOK, InOrderWithinChunk, Next
    PROVE  InOrderWithinChunk'
<1>1. SUFFICES ASSUME chunks' = 1
               PROVE  \A m, n \in DOMAIN written' : m < n => written'[m].about <= written'[n].about
  BY DEF InOrderWithinChunk
<1>2. chunks \in Nat /\ Len(written) \in Nat /\ DOMAIN written = 1..Len(written)
      /\ Len(extracted) \in Nat /\ DOMAIN extracted = 1..Len(extracted)
  BY Sequenced DEF SocketTypeOK
<1>3. CASE HandleUpgrade \/ SocketError
  BY <1>1, <1>3 DEF HandleUpgrade, SocketError, InOrderWithinChunk
<1>4. ASSUME NEW r \in Runs, NEW n \in dialogue.cuts, Chunk(r, n)
      PROVE  written' = written /\ DOMAIN written = {}
  <2>1. chunks = 0 /\ written' = written
    BY <1>1, <1>2, <1>4 DEF Chunk
  <2> QED BY <1>2, <2>1 DEF ChunksOK
<1>5. ASSUME NEW r \in Runs, RunStep(r)
      PROVE  \A m, n \in DOMAIN written' : m < n => written'[m].about <= written'[n].about
  <2>1. chunks = 1 /\ runs[r] # Idle
    BY <1>1, <1>5, RunStepIs
  <2>2. \A m, n \in DOMAIN written : m < n => written[m].about <= written[n].about
    BY <2>1 DEF InOrderWithinChunk
  <2>3. ASSUME NEW k \in Nat, k >= Len(extracted), Writes(k)
        PROVE  \A m, n \in DOMAIN written' : m < n => written'[m].about <= written'[n].about
    <3>1. CASE written' = written
      BY <2>2, <3>1
    <3>2. ASSUME NEW w, Emitted(w), w.about = k
          PROVE  \A m, n \in DOMAIN written' : m < n => written'[m].about <= written'[n].about
      <4>1. IsSequence(written)
        BY DEF SocketTypeOK
      <4>2. CASE socket # "open"
        BY <2>2, <3>2, <4>1, <4>2, EmittedIs
      <4>3. CASE socket = "open"
        <5>1. /\ DOMAIN written' = 1..(Len(written) + 1)
              /\ \A i \in DOMAIN written : written'[i] = written[i]
              /\ written'[Len(written) + 1] = w
          BY <3>2, <4>1, <4>3, EmittedIs
        <5>2. \A i \in DOMAIN written : written[i].about \in Nat /\ written[i].about <= k
          BY <1>2, <2>3 DEF WrittenOK
        <5>3. SUFFICES ASSUME NEW m \in DOMAIN written', NEW n \in DOMAIN written', m < n
                       PROVE  written'[m].about <= written'[n].about
          OBVIOUS
        <5>4. m \in DOMAIN written /\ (n \in DOMAIN written \/ n = Len(written) + 1)
          BY <1>2, <5>1, <5>3
        <5>5. CASE n \in DOMAIN written
          BY <2>2, <5>1, <5>3, <5>4, <5>5
        <5>6. CASE n = Len(written) + 1
          BY <3>2, <5>1, <5>2, <5>4, <5>6
        <5> QED BY <5>4, <5>5, <5>6
      <4> QED BY <4>2, <4>3
    <3> QED BY <2>3, <3>1, <3>2 DEF Writes
  <2>4. Awaiting(r) => Awaited(r) = Len(extracted)
    BY <2>1 DEF ChunksOK, Awaited
  <2>5. Following \in Nat /\ Following >= Len(extracted)
    BY <1>2 DEF Following
  <2>6. CASE written' = written
    BY <2>2, <2>6
  <2>7. CASE Writes(Following)
    BY <2>3, <2>5, <2>7
  <2>8. CASE Awaiting(r) /\ Writes(Awaited(r))
    BY <1>2, <2>3, <2>4, <2>8
  <2> QED BY <1>5, <2>6, <2>7, <2>8, RunWrites
<1> QED BY <1>3, <1>4, <1>5, StepOf

\* Texts with an id are those that can be answered.
LEMMA IdentifiedIs ==
    ASSUME NEW text
    PROVE  /\ ErrorId(text) = NoString => ~Identified(text)
           /\ ErrorId(text) # NoString => Identified(text) /\ ErrorId(text) = text.uniqueId
BY DEF ErrorId, Identified

LEMMA DestroyedKept ==
    ASSUME SocketTypeOK, PlaceOK, ChunksOK, AwaitingOK, DestroyedOK, Next
    PROVE  DestroyedOK'
<1>1. SUFFICES ASSUME socket' = "destroyed"
               PROVE  chunks' = 0 \/ \E k \in DOMAIN extracted' : Faulted(k)'
  BY DEF DestroyedOK
<1>2. CASE HandleUpgrade
  BY <1>2 DEF HandleUpgrade, ChunksOK
<1>3. CASE SocketError
  BY <1>1, <1>3 DEF SocketError
<1>4. ASSUME NEW r \in Runs, NEW n \in dialogue.cuts, Chunk(r, n)
      PROVE  FALSE
  BY <1>1, <1>4 DEF Chunk
<1>5. ASSUME NEW r \in Runs, RunStep(r)
      PROVE  \E k \in DOMAIN extracted' : Faulted(k)'
  <2>1. PICK k : k = Following
    OBVIOUS
  <2>2. ASSUME Took(k)
        PROVE  /\ k \in DOMAIN extracted' /\ extracted'[k] = TakenAsSent(k)
               /\ DOMAIN extracted \subseteq DOMAIN extracted'
               /\ \A i \in DOMAIN extracted : extracted'[i] = extracted[i]
    BY <2>1, <2>2, TookIs
  <2>3. CASE socket = "destroyed"
    <3>1. chunks # 0
      BY <1>5, RunStepIs DEF ChunksOK, AllIdle
    <3>2. PICK i \in DOMAIN extracted : Faulted(i)
      BY <2>3, <3>1 DEF DestroyedOK
    <3>3. i \in DOMAIN extracted' /\ extracted'[i] = extracted[i]
      BY <1>5, <2>1, <2>2, RunStepIs
    <3> QED BY <3>2, <3>3 DEF Faulted
  <2>4. CASE socket # "destroyed" /\ Turned(r)
    <3>1. Took(k) /\ (Unsupported(r, k) \/ (Lost(r, k, Frames[k].text) /\ Refused(r, k)))
      <4>1. socket' # socket /\ socket' = "destroyed"
        BY <1>1, <2>4
      <4>2. Took(k) /\ Taken(r, k)
        BY <2>1, <2>4, <4>1 DEF Turned, Rests
      <4>3. ~Closed(r, k) /\ ~Called(r, k)
        BY <4>1 DEF Closed, Called
      <4>4. IsFrame(Frames[k])
        BY <4>2 DEF Took
      <4>5. ~Ponged(k)
        <5>1. Ponged(k) => Spoke
          BY <4>4, SendsPong, PayloadIs DEF Ponged, IsFrame
        <5> QED BY <4>1, <5>1 DEF Spoke
      <4>6. Refused(r, k) => Lost(r, k, Frames[k].text)
        <5>1. ASSUME NEW thrown, Answered(r, k, Frames[k].text, thrown)
              PROVE  Spoke
          BY <4>4, <5>1, SendsText DEF Answered
        <5> QED BY <4>1, <5>1 DEF Refused, Spoke
      <4> QED BY <4>2, <4>3, <4>5, <4>6 DEF Taken
    <3>2. CASE Unsupported(r, k)
      <4>1. ~TakenAsSent(k).fin \/ TakenAsSent(k).opcode \notin {1, 8, 9}
        BY <3>2 DEF Unsupported, TakenAsSent
      <4> QED BY <2>2, <3>1, <4>1 DEF Faulted
    <3>3. CASE Lost(r, k, Frames[k].text) /\ Refused(r, k)
      <4>1. TakenAsSent(k).opcode = 1 /\ ~Identified(TakenAsSent(k).text)
        BY <3>3, IdentifiedIs DEF Lost, Refused, TakenAsSent
      <4> QED BY <2>2, <3>1, <4>1 DEF Faulted
    <3> QED BY <3>1, <3>2, <3>3
  <2>5. ASSUME socket # "destroyed", NEW at \in {"awaiting", "flushing"}, NEW thrown,
               Throws(r, at, thrown)
        PROVE  \E i \in DOMAIN extracted' : Faulted(i)'
    <3>1. Awaiting(r) /\ extracted' = extracted
      BY <2>5, ThrowsEffects
    <3>2. Awaited(r) \in DOMAIN extracted /\ IsFrame(Frames[Awaited(r)])
      BY <3>1, AwaitedIs
    <3>3. ~Answered(r, Awaited(r), extracted[Awaited(r)].text, thrown)
      <4>1. Answered(r, Awaited(r), extracted[Awaited(r)].text, thrown) => Spoke
        BY <3>2, SendsText DEF Answered
      <4> QED BY <1>1, <2>5, <4>1 DEF Spoke
    <3>4. Lost(r, Awaited(r), extracted[Awaited(r)].text)
      BY <2>5, <3>3 DEF Throws
    <3>5. extracted[Awaited(r)].opcode = 1 /\ ~Identified(extracted[Awaited(r)].text)
      BY <3>1, <3>4, IdentifiedIs DEF AwaitingOK, Awaited, Lost
    <3> QED BY <3>1, <3>2, <3>5 DEF Faulted
  <2>6. CASE HandlerAnswers(r) /\ socket # "destroyed"
    <3>1. Spoke
      BY <2>6, AnswersEffects
    <3> QED BY <1>1, <2>6, <3>1 DEF Spoke
  <2>7. CASE FlushOver(r) /\ socket # "destroyed"
    BY <1>1, <2>7 DEF FlushOver
  <2>8. CASE Fails(r) /\ socket # "destroyed"
    BY <2>5, <2>8 DEF Fails, HandlerFails
  <2> QED BY <1>5, <2>3, <2>4, <2>6, <2>7, <2>8 DEF RunStep
<1> QED BY <1>2, <1>3, <1>4, <1>5, StepOf

LEMMA OpenKept ==
    ASSUME SocketTypeOK, PlaceOK, ChunksOK, OpenOK, Next
    PROVE  OpenOK'
<1> DEFINE Fine(e) == e.fin /\ e.opcode \in {1, 9}
           NothingWhole == \/ Len(extracted) = Len(Frames)
                           \/ arrived < EndOf(Frames, Len(extracted) + 1)
<1>1. Len(extracted) \in Nat /\ DOMAIN extracted = 1..Len(extracted)
  BY Sequenced DEF SocketTypeOK
<1>2. SUFFICES ASSUME socket' = "open"
               PROVE  /\ \A k \in DOMAIN extracted' : Fine(extracted'[k])
                      /\ AllIdle' => NothingWhole'
  BY DEF OpenOK
<1> HIDE DEF NothingWhole
<1>3. CASE HandleUpgrade
  <2>1. chunks = 0 /\ UNCHANGED <<dialogue, arrived, extracted>>
    BY <1>3 DEF HandleUpgrade, ChunksOK
  <2>2. arrived = 0 /\ Len(extracted) = 0
    BY <2>1 DEF ChunksOK
  <2>3. NothingWhole
    <3>1. CASE Len(Frames) = 0
      BY <2>2, <3>1 DEF NothingWhole
    <3>2. CASE Len(Frames) # 0
      <4>1. AreFrames(Frames) /\ Len(Frames) \in Nat /\ 1 \in 1..Len(Frames) /\ IsFrame(Frames[1])
        <5>1. AreFrames(Frames)
          BY DialogueIs
        <5>2. Len(Frames) \in Nat /\ 1 \in 1..Len(Frames)
          BY <3>2, <5>1 DEF AreFrames
        <5> QED BY <5>1, <5>2 DEF AreFrames
      <4>2. /\ EndOf(Frames, 1) = EndOf(Frames, 1 - 1) + SentSize(Frames[1])
            /\ EndOf(Frames, 0) = 0
        BY <4>1, EndOfIs
      <4>3. SentSize(Frames[1]) \in Nat /\ SentSize(Frames[1]) >= 2
        BY <4>1, Sizes
      <4>4. EndOf(Frames, 1) >= 2 /\ EndOf(Frames, 1) \in Nat
        <5>1. 1 - 1 = 0
          OBVIOUS
        <5> QED BY <4>2, <4>3, <5>1
      <4>5. Len(extracted) + 1 = 1
        BY <2>2
      <4>6. arrived < EndOf(Frames, Len(extracted) + 1)
        BY <2>2, <4>4, <4>5
      <4> QED BY <4>6 DEF NothingWhole
    <3> QED BY <3>1, <3>2
  <2>4. NothingWhole'
    BY <2>1, <2>3 DEF NothingWhole, Frames
  <2>5. DOMAIN extracted' = {}
    BY <1>1, <2>1, <2>2
  <2> QED BY <2>4, <2>5
<1>4. ASSUME NEW r \in Runs, NEW n \in dialogue.cuts, Chunk(r, n)
      PROVE  /\ \A k \in DOMAIN extracted' : Fine(extracted'[k])
             /\ ~AllIdle'
  <2>1. socket = "open" /\ extracted' = extracted /\ RunIs(r, Taking)
    BY <1>2, <1>4 DEF Chunk
  <2>2. runs'[r] = Taking
    BY <2>1 DEF RunIs, SocketTypeOK
  <2>3. ~AllIdle'
    BY <2>2 DEF AllIdle, Taking, Idle
  <2> QED BY <2>1, <2>3 DEF OpenOK
<1>5. ASSUME NEW r \in Runs, RunStep(r)
      PROVE  /\ \A k \in DOMAIN extracted' : Fine(extracted'[k])
             /\ AllIdle' => NothingWhole'
  <2>1. socket = "open" /\ \A k \in DOMAIN extracted : Fine(extracted[k])
    BY <1>2, <1>5, RunStepIs DEF OpenOK
  <2>2. DOMAIN runs = Runs /\ (runs[r].at = "next" => runs[r] # Idle)
    BY DEF SocketTypeOK, Idle
  <2>3. \A what : RunIs(r, what) => runs'[r] = what
    BY <2>2 DEF RunIs
  <2>4. Taking # Idle
        /\ \A k : \A at \in {"awaiting", "flushing"} : [at |-> at, frame |-> k] # Idle
    BY DEF Taking, Idle
  <2>5. CASE Rests(r)
    <3>1. /\ NothingWhole
          /\ UNCHANGED <<dialogue, arrived, extracted>>
      <4>1. /\ Len(extracted) + 1 = Len(Frames) + 1 \/ arrived < EndOf(Frames, Len(extracted) + 1)
            /\ UNCHANGED <<dialogue, arrived, extracted>>
        BY <2>5 DEF Rests, Following
      <4>2. Len(Frames) \in Nat
        BY DialogueIs DEF AreFrames
      <4>3. Len(extracted) + 1 = Len(Frames) + 1 => Len(extracted) = Len(Frames)
        BY <1>1, <4>2
      <4> QED BY <4>1, <4>3 DEF NothingWhole
    <3>2. NothingWhole'
      BY <3>1 DEF NothingWhole, Frames
    <3> QED BY <2>1, <3>1, <3>2
  <2>6. CASE runs[r].at = "next" /\ Took(Following) /\ Taken(r, Following)
    <3>1. PICK k : k = Following
      OBVIOUS
    <3>2. /\ DOMAIN extracted = 1..(k - 1) /\ DOMAIN extracted' = 1..k /\ k \in Nat
          /\ \A i \in DOMAIN extracted : extracted'[i] = extracted[i]
          /\ extracted'[k] = TakenAsSent(k)
      BY <2>6, <3>1, TookIs
    <3>3. \A i \in DOMAIN extracted' : i \in DOMAIN extracted \/ i = k
      BY <3>2
    <3>4. \/ Ponged(k) \/ Called(r, k)
          \/ Refused(r, k) /\ Answered(r, k, Frames[k].text, Route(Frames[k].text))
      <4>1. ~Unsupported(r, k) /\ ~Lost(r, k, Frames[k].text)
        BY <1>2, Closes DEF Unsupported, Lost
      <4>2. ~Closed(r, k)
        BY <1>2, <2>1 DEF Closed
      <4> QED BY <2>6, <3>1, <4>1, <4>2 DEF Taken, Refused
    <3>5. Fine(TakenAsSent(k))
      BY <3>4 DEF Ponged, Called, Refused, TakenAsSent
    <3>6. ~AllIdle'
      <4>1. CASE Ponged(k)
        BY <2>2, <2>6, <4>1 DEF Ponged, AllIdle
      <4>2. CASE Called(r, k)
        BY <2>3, <2>4, <4>2 DEF Called, AllIdle
      <4>3. CASE Answered(r, k, Frames[k].text, Route(Frames[k].text))
        BY <2>3, <2>4, <4>3 DEF Answered, AllIdle
      <4> QED BY <3>4, <4>1, <4>2, <4>3
    <3> HIDE DEF Fine
    <3> QED BY <2>1, <3>2, <3>3, <3>5, <3>6
  <2>7. CASE HandlerAnswers(r) \/ FlushOver(r) \/ Fails(r)
    <3>1. extracted' = extracted /\ (RunIs(r, Taking) \/ GoesOn(r))
      <4>1. CASE HandlerAnswers(r)
        BY <4>1, AnswersEffects
      <4>2. CASE FlushOver(r)
        BY <4>2 DEF FlushOver
      <4>3. CASE Fails(r)
        BY <1>2, <4>3, FailsEffects
      <4> QED BY <2>7, <4>1, <4>2, <4>3
    <3> QED BY <2>1, <2>3, <2>4, <3>1 DEF AllIdle, GoesOn
  <2> QED BY <1>5, <2>5, <2>6, <2>7 DEF RunStep, Turned
<1>6. ~SocketError
  BY <1>2 DEF SocketError
<1> HIDE DEF Fine
<1> QED BY <1>3, <1>4, <1>5, <1>6, StepOf

------------------------------------------------------------------------------
(* The handshake *)

\* The first element of a sequence that is in a set.
FirstIn(s, set) ==
    LET found == {i \in 1..Len(s) : s[i] \in set}
    IN  IF found # {} THEN Min(found) ELSE 0

LEMMA FirstInIs ==
    ASSUME NEW s, NEW set
    PROVE  \/ FirstIn(s, set) = 0 /\ \A i \in 1..Len(s) : s[i] \notin set
           \/ FirstIn(s, set) \in 1..Len(s) /\ s[FirstIn(s, set)] \in set
              /\ \A i \in 1..Len(s) : s[i] \in set => FirstIn(s, set) <= i
<1> DEFINE found == {i \in 1..Len(s) : s[i] \in set}
<1>1. CASE found = {}
  BY <1>1 DEF FirstIn
<1>2. CASE found # {}
  <2>1. found \in SUBSET Nat
    BY SMT
  <2>2. \E m \in found : \A n \in found : m <= n
    <3> HIDE DEF found
    <3> QED BY <1>2, <2>1, Least
  <2>3. Min(found) \in found /\ \A n \in found : Min(found) <= n
    <3> HIDE DEF found
    <3> QED BY <2>2 DEF Min
  <2>4. FirstIn(s, set) = Min(found)
    BY <1>2 DEF FirstIn
  <2> QED BY <2>3, <2>4
<1> QED BY <1>1, <1>2

LEMMA NegotiatedIs ==
    ASSUME NEW request, request.offered \in Seq(STRING)
    PROVE  LET selected == NegotiateSubProtocol(request)
               offered  == {request.offered[i] : i \in DOMAIN request.offered}
           IN  /\ selected \notin {"none", "rejected"} => selected \in offered \cap SupportedSubprotocols
               /\ selected = "rejected" => request.offers /\ offered \cap SupportedSubprotocols = {}
               /\ request.offers => selected # "none"
<1> DEFINE s == request.offered
           first == FirstIn(s, SupportedSubprotocols)
<1>1. DOMAIN s = 1..Len(s)
  OBVIOUS
<1>2. NegotiateSubProtocol(request) =
          CASE ~request.offers             -> "none"
            [] request.offers /\ first # 0 -> s[first]
            [] request.offers /\ first = 0 -> "rejected"
  BY DEF NegotiateSubProtocol, SelectInSeq, FirstIn
<1>3. \/ first = 0 /\ \A i \in 1..Len(s) : s[i] \notin SupportedSubprotocols
      \/ first \in 1..Len(s) /\ first # 0 /\ s[first] \in SupportedSubprotocols
  BY FirstInIs
<1>4. "none" \notin SupportedSubprotocols /\ "rejected" \notin SupportedSubprotocols
  BY DEF SupportedSubprotocols
<1> HIDE DEF s, first
<1>5. CASE ~request.offers
  BY <1>2, <1>5
<1>6. CASE request.offers /\ first # 0
  BY <1>1, <1>2, <1>3, <1>4, <1>6 DEF s
<1>7. CASE request.offers /\ first = 0
  BY <1>1, <1>2, <1>3, <1>7 DEF s
<1> QED BY <1>5, <1>6, <1>7

LEMMA NamesStationIs ==
    ASSUME NEW path \in Seq(STRING)
    PROVE  /\ NamesStation(path) => Len(path) >= 2 /\ path[Len(path) - 1] = "ocpp"
           /\ StationUnderOcpp(path) => NamesStation(path)
<1> DEFINE ocpp == FirstIn(path, {"ocpp"})
<1>1. NamesStation(path) <=> ocpp # 0 /\ ocpp = Len(path) - 1
  BY DEF NamesStation, SelectInSeq, FirstIn
<1>2. \/ ocpp = 0 /\ \A i \in 1..Len(path) : path[i] \notin {"ocpp"}
      \/ ocpp \in 1..Len(path) /\ path[ocpp] \in {"ocpp"}
         /\ \A i \in 1..Len(path) : path[i] \in {"ocpp"} => ocpp <= i
  BY FirstInIs
<1>3. Len(path) \in Nat
  OBVIOUS
<1> HIDE DEF ocpp
<1>4. ASSUME NamesStation(path)
      PROVE  Len(path) >= 2 /\ path[Len(path) - 1] = "ocpp"
  BY <1>1, <1>2, <1>3, <1>4
<1>5. ASSUME StationUnderOcpp(path)
      PROVE  NamesStation(path)
  <2>1. /\ Len(path) - 1 \in 1..Len(path) /\ path[Len(path) - 1] = "ocpp"
        /\ \A i \in 1..(Len(path) - 2) : path[i] # "ocpp"
    BY <1>3, <1>5 DEF StationUnderOcpp
  <2>2. ocpp \in 1..Len(path) /\ path[ocpp] = "ocpp" /\ ocpp <= Len(path) - 1
    BY <1>2, <2>1
  <2>3. ocpp \notin 1..(Len(path) - 2)
    BY <2>1, <2>2
  <2> QED BY <1>1, <1>3, <2>2, <2>3
<1> QED BY <1>4, <1>5

LEMMA HandshakeKept ==
    ASSUME SocketTypeOK, PlaceOK, ChunksOK, HandshakeOK, Next
    PROVE  HandshakeOK'
<1> DEFINE request == dialogue.request
           path    == request.path
           offered == {request.offered[i] : i \in DOMAIN request.offered}
           Named   == /\ request.key /\ Len(path) >= 2 /\ path[Len(path) - 1] = "ocpp"
           Held(chosen, state, before) ==
               /\ chosen # "none" => chosen \in offered \cap SupportedSubprotocols
               /\ state \in {"open", "ended"} => Named /\ (request.offers => chosen # "none")
               /\ state = "destroyed" /\ before /\ request.key /\ StationUnderOcpp(path)
                  => request.offers /\ offered \cap SupportedSubprotocols = {}
<1>1. Held(protocol, socket, chunks = 0)
  BY DEF HandshakeOK
<1>2. dialogue' = dialogue /\ Held(protocol', socket', chunks' = 0) => HandshakeOK'
  BY DEF HandshakeOK
<1>3. CASE HandleUpgrade
  <2> DEFINE selected == NegotiateSubProtocol(request)
  <2>1. /\ dialogue' = dialogue /\ protocol = "none"
        /\ IF NamesStation(path) /\ request.key /\ selected # "rejected"
           THEN socket' = "open" /\ protocol' = selected
           ELSE socket' = "destroyed" /\ protocol' = protocol
    BY <1>3 DEF HandleUpgrade, ChunksOK
  <2>2. request.offered \in Seq(STRING) /\ path \in Seq(STRING)
    BY DialoguesAssumption DEF SocketTypeOK, IsDialogue
  <2>3. /\ NamesStation(path) => Len(path) >= 2 /\ path[Len(path) - 1] = "ocpp"
        /\ StationUnderOcpp(path) => NamesStation(path)
    <3> HIDE DEF path
    <3> QED BY <2>2, NamesStationIs
  <2>4. /\ selected \notin {"none", "rejected"} => selected \in offered \cap SupportedSubprotocols
        /\ selected = "rejected" => request.offers /\ offered \cap SupportedSubprotocols = {}
        /\ request.offers => selected # "none"
    <3> HIDE DEF request
    <3> QED BY <2>2, NegotiatedIs
  <2> HIDE DEF request, path, offered, selected
  <2>5. Held(protocol', socket', chunks' = 0)
    BY <2>1, <2>3, <2>4
  <2> HIDE DEF Held
  <2> QED BY <1>2, <2>1, <2>5
<1>4. ASSUME NEW r \in Runs, NEW n \in dialogue.cuts, Chunk(r, n)
      PROVE  HandshakeOK'
  <2>1. dialogue' = dialogue /\ protocol' = protocol /\ socket' = socket /\ socket \in {"open", "ended"}
    BY <1>4 DEF Chunk
  <2> HIDE DEF request, path, offered, Named
  <2>2. Held(protocol', socket', chunks' = 0)
    BY <1>1, <2>1
  <2> HIDE DEF Held
  <2> QED BY <1>2, <2>1, <2>2
<1>6. CASE SocketError
  <2>1. dialogue' = dialogue /\ protocol' = protocol /\ socket' = "failed"
    BY <1>6 DEF SocketError
  <2> HIDE DEF request, path, offered, Named
  <2>2. Held(protocol', socket', chunks' = 0)
    BY <1>1, <2>1
  <2> HIDE DEF Held
  <2> QED BY <1>2, <2>1, <2>2
<1>5. ASSUME NEW r \in Runs, RunStep(r)
      PROVE  HandshakeOK'
  <2>1. /\ runs[r] # Idle /\ UNCHANGED <<dialogue, protocol, chunks>>
        /\ socket' = "open" => socket = "open"
        /\ socket' = "ended" => socket \in {"open", "ended"}
    BY <1>5, RunStepIs
  <2>2. chunks' # 0
    BY <2>1 DEF ChunksOK, AllIdle
  <2> HIDE DEF request, path, offered, Named
  <2>3. Held(protocol', socket', chunks' = 0)
    BY <1>1, <2>1, <2>2
  <2> HIDE DEF Held
  <2> QED BY <1>2, <2>1, <2>3
<1> QED BY <1>3, <1>4, <1>5, <1>6, StepOf

------------------------------------------------------------------------------
(* Answers *)

\* What is thrown first is thrown.
LEMMA FirstThrownIs ==
    ASSUME NEW outcomes, NEW otherwise
    PROVE  FirstThrown(outcomes, otherwise) \in Thrown \cup {otherwise}
<1> DEFINE first == FirstIn(outcomes, Thrown)
<1>1. FirstThrown(outcomes, otherwise) = IF first = 0 THEN otherwise ELSE outcomes[first]
  BY DEF FirstThrown, SelectInSeq, FirstIn
<1>2. first = 0 \/ outcomes[first] \in Thrown
  BY FirstInIs
<1> HIDE DEF first
<1> QED BY <1>1, <1>2

LEMMA RouteIs ==
    ASSUME NEW text
    PROVE  /\ Route(text) \in Thrown \cup {"none"}
           /\ Route(text) # "none" => ResolveError(Route(text)) = Route(text)
<1>1. Refusal(text.action, text.payload) \in Thrown \cup {"none"}
  BY FirstThrownIs DEF Refusal, EnsureObject, Thrown, GuardErrors
<1>2. Route(text) \in Thrown \cup {"none"}
  BY <1>1 DEF Route, Thrown, RouterErrors
<1> QED BY <1>2 DEF ResolveError

AllDue == \A k \in DOMAIN extracted : Due(k)

\* What one more written frame is an answer to.
LEMMA AnswersGrow ==
    ASSUME IsSequence(written), socket = "open", NEW w, Emitted(w)
    PROVE  /\ \A i : i # w.about => AnswersTo(i)' = AnswersTo(i)
           /\ AnswersTo(w.about)' = AnswersTo(w.about) \cup {Len(written) + 1}
           /\ DOMAIN written' = DOMAIN written \cup {Len(written) + 1}
           /\ \A n \in DOMAIN written : n < Len(written) + 1 /\ written'[n] = written[n]
           /\ written'[Len(written) + 1] = w
<1>1. /\ Len(written) \in Nat /\ DOMAIN written = 1..Len(written)
      /\ DOMAIN written' = 1..(Len(written) + 1)
      /\ \A i \in DOMAIN written : written'[i] = written[i]
      /\ written'[Len(written) + 1] = w
  BY EmittedIs
<1>2. /\ DOMAIN written' = DOMAIN written \cup {Len(written) + 1}
      /\ Len(written) + 1 \notin DOMAIN written
      /\ \A n \in DOMAIN written : n < Len(written) + 1
  BY <1>1
<1>3. \A i : AnswersTo(i)' = {n \in DOMAIN written' : written'[n].about = i}
  BY DEF AnswersTo
<1>4. \A i : AnswersTo(i) = {n \in DOMAIN written : written[n].about = i}
  BY DEF AnswersTo
<1> QED BY <1>1, <1>2, <1>3, <1>4

\* What is due to a frame stays so, unless it is answered or handled now; that
\* its flush is over takes nothing away.
Same(k) ==
    /\ extracted'[k] = extracted[k]
    /\ Handled(k)' <=> Handled(k)
    /\ Flushing(k)' => Flushing(k)
    /\ AnswersTo(k)' = AnswersTo(k)
    /\ DOMAIN written \subseteq DOMAIN written'
    /\ \A n \in DOMAIN written : written'[n] = written[n]
LEMMA DueStays ==
    ASSUME NEW k, Due(k), Same(k)
    PROVE  Due(k)'
<1>1. ASSUME PingAnswered(k)
      PROVE  PingAnswered(k)'
  BY <1>1 DEF PingAnswered, Same
<1>2. ASSUME AnsweredOnce(k)
      PROVE  AnsweredOnce(k)'
  BY <1>2 DEF AnsweredOnce, Same, IsAnswerTo
<1>3. ASSUME AnsweredTwice(k)
      PROVE  AnsweredTwice(k)'
  <2>1. PICK m \in DOMAIN written, n \in DOMAIN written :
            /\ m < n /\ AnswersTo(k) = {m, n}
            /\ IsAnswerTo(written[m], extracted[k].text) /\ written[m].kind = "result"
            /\ IsAnswerTo(written[n], extracted[k].text) /\ written[n].kind = "InternalError"
    BY <1>3 DEF AnsweredTwice
  <2>2. /\ m \in DOMAIN written' /\ n \in DOMAIN written' /\ AnswersTo(k)' = {m, n}
        /\ written'[m] = written[m] /\ written'[n] = written[n]
        /\ extracted'[k] = extracted[k]
        /\ ~Handled(k)' /\ ~Flushing(k)' /\ extracted[k].text.action = "BootNotification"
    BY <1>3, <2>1 DEF AnsweredTwice, Same
  <2>3. IsAnswerTo(written'[m], extracted'[k].text) /\ IsAnswerTo(written'[n], extracted'[k].text)
    BY <2>1, <2>2
  <2>4. AnsweredTwice(k)' <=>
            /\ ~Handled(k)' /\ ~Flushing(k)' /\ extracted'[k].text.action = "BootNotification"
            /\ \E i, l \in DOMAIN written' :
                   /\ i < l /\ AnswersTo(k)' = {i, l}
                   /\ IsAnswerTo(written'[i], extracted'[k].text) /\ written'[i].kind = "result"
                   /\ IsAnswerTo(written'[l], extracted'[k].text) /\ written'[l].kind = "InternalError"
    BY DEF AnsweredTwice, IsAnswerTo
  <2> QED BY <2>1, <2>2, <2>3, <2>4
<1>4. Due(k)' <=>
        \/ extracted'[k].opcode = 9 /\ PingAnswered(k)'
        \/ /\ extracted'[k].opcode = 1
           /\ \/ Handled(k)' /\ AnswersTo(k)' = {}
              \/ AnsweredOnce(k)' \/ AnsweredTwice(k)'
  BY DEF Due
<1> QED BY <1>1, <1>2, <1>3, <1>4 DEF Due, Same

\* A frame that a turn takes gets what is due: nothing was written about it
\* before, and no run awaited it.
LEMMA DueTaken ==
    ASSUME SocketTypeOK, PlaceOK, AwaitingOK, OpenOK, WrittenOK, AllDue,
           NEW r \in Runs, runs[r].at = "next", Took(Following), Taken(r, Following),
           socket' = "open", socket = "open"
    PROVE  AllDue'
<1>1. PICK k : k = Following
  OBVIOUS
<1>2. /\ k \in Nat /\ DOMAIN extracted = 1..(k - 1) /\ DOMAIN extracted' = 1..k
      /\ \A i \in DOMAIN extracted : extracted'[i] = extracted[i]
      /\ extracted'[k] = TakenAsSent(k)
  BY <1>1, TookIs
<1>3. k \notin DOMAIN extracted /\ \A i \in DOMAIN extracted' : i \in DOMAIN extracted \/ i = k
  BY <1>2
<1>4. IsSequence(written) /\ DOMAIN runs = Runs
  BY DEF SocketTypeOK
<1>5. AnswersTo(k) = {}
  BY <1>3 DEF AnswersTo, WrittenOK
<1>6. \A q \in Runs : Awaiting(q) => runs[q].frame \in DOMAIN extracted
  BY DEF SocketTypeOK, Awaiting, Idle, Taking
<1>7. ~Handled(k) /\ ~Flushing(k)
  BY <1>3, <1>6 DEF Handled, Flushing, Awaiting
<1>8. SUFFICES Due(k)' /\ \A i \in DOMAIN extracted : Same(i)
  BY <1>3, DueStays DEF AllDue
<1>9. ASSUME UNCHANGED runs \/ RunIs(r, Taking)
      PROVE  \A i : (Handled(i)' <=> Handled(i)) /\ (Flushing(i)' <=> Flushing(i))
  <2>1. /\ \A q \in Runs : q # r => runs'[q] = runs[q]
        /\ runs[r].at = "next" /\ runs'[r].at = "next"
    BY <1>4, <1>9 DEF RunIs, Taking
  <2> QED BY <2>1 DEF Handled, Flushing
<1>10. ASSUME NEW w, Emitted(w), w.about = k, UNCHANGED runs \/ RunIs(r, Taking)
       PROVE  /\ \A i \in DOMAIN extracted : Same(i)
              /\ ~Handled(k)' /\ ~Flushing(k)'
              /\ \E n \in DOMAIN written' : AnswersTo(k)' = {n} /\ written'[n] = w
  <2>1. /\ \A i : i # k => AnswersTo(i)' = AnswersTo(i)
        /\ AnswersTo(k)' = AnswersTo(k) \cup {Len(written) + 1}
        /\ DOMAIN written' = DOMAIN written \cup {Len(written) + 1}
        /\ \A n \in DOMAIN written : written'[n] = written[n]
        /\ written'[Len(written) + 1] = w
    BY <1>4, <1>10, AnswersGrow
  <2>2. \A i \in DOMAIN extracted : Same(i)
    BY <1>2, <1>3, <1>9, <1>10, <2>1 DEF Same
  <2>3. ~Handled(k)' /\ ~Flushing(k)'
    BY <1>7, <1>9, <1>10
  <2>4. AnswersTo(k)' = {Len(written) + 1}
    BY <1>5, <2>1
  <2> QED BY <2>1, <2>2, <2>3, <2>4
<1>11. CASE Ponged(k)
  <2> DEFINE payload == Payload(Plain, 0, Frames[k].length)
             w == WrittenFrame(k, 10, payload, "pong", "")
  <2>1. Emitted(w) /\ UNCHANGED runs /\ w.about = k /\ w.kind = "pong" /\ w.payload = payload
    BY <1>11 DEF Ponged, SendPong, Wrote, WrittenFrame
  <2>2. extracted'[k].opcode = 9 /\ extracted'[k].payload = payload
    BY <1>2, <1>11 DEF TakenAsSent, Ponged
  <2> HIDE DEF w, payload
  <2>3. /\ \A i \in DOMAIN extracted : Same(i)
        /\ \E n \in DOMAIN written' : AnswersTo(k)' = {n} /\ written'[n] = w
    BY <1>10, <2>1
  <2>4. PingAnswered(k)'
    BY <2>1, <2>2, <2>3 DEF PingAnswered
  <2> QED BY <2>2, <2>3, <2>4 DEF Due
<1>12. CASE Called(r, k)
  <2>1. written' = written /\ extracted'[k].opcode = 1
    BY <1>2, <1>12 DEF Called, TakenAsSent
  <2>2. /\ runs'[r] = [at |-> "awaiting", frame |-> k]
        /\ \A q \in Runs : q # r => runs'[q] = runs[q]
    BY <1>4, <1>12 DEF Called, RunIs
  <2>3. \A i : AnswersTo(i)' = AnswersTo(i)
    BY <2>1 DEF AnswersTo
  <2>4. Due(k)'
    <3>1. Handled(k)'
      BY <2>2 DEF Handled
    <3>2. AnswersTo(k)' = {}
      BY <1>5, <2>3
    <3> QED BY <2>1, <3>1, <3>2 DEF Due
  <2>5. ASSUME NEW i \in DOMAIN extracted
        PROVE  Same(i)
    <3>1. Handled(i)' <=> Handled(i)
      BY <1>3, <2>2 DEF Handled
    <3>2. Flushing(i)' => Flushing(i)
      BY <2>2 DEF Flushing
    <3> QED BY <1>2, <2>1, <2>3, <3>1, <3>2 DEF Same
  <2> QED BY <2>4, <2>5
<1>13. CASE Refused(r, k) /\ Answered(r, k, Frames[k].text, Route(Frames[k].text))
  <2> PICK text : text = Frames[k].text
    OBVIOUS
  <2> PICK w : w = WrittenFrame(k, 1, Payload(Plain, 0, Frames[k].length),
                                ResolveError(Route(text)), ErrorId(text))
    OBVIOUS
  <2>1. /\ Emitted(w) /\ RunIs(r, Taking) /\ w.about = k
        /\ w.kind = ResolveError(Route(text)) /\ w.id = ErrorId(text)
        /\ ErrorId(text) # NoString /\ Route(text) # "none"
    BY <1>13 DEF Answered, Refused, SendText, Wrote, WrittenFrame, Frames
  <2>2. extracted'[k].opcode = 1 /\ extracted'[k].text = text
    BY <1>2, <1>13 DEF TakenAsSent, Refused
  <2>3. /\ \A i \in DOMAIN extracted : Same(i)
        /\ ~Handled(k)' /\ ~Flushing(k)'
        /\ \E n \in DOMAIN written' : AnswersTo(k)' = {n} /\ written'[n] = w
    BY <1>10, <2>1
  <2>4. w.kind = Route(text) /\ w.id = text.uniqueId
    BY <2>1, RouteIs, IdentifiedIs
  <2>5. IsAnswerTo(w, extracted'[k].text)
    BY <2>1, <2>2, <2>4 DEF IsAnswerTo
  <2>6. AnsweredOnce(k)'
    BY <2>3, <2>5 DEF AnsweredOnce, IsAnswerTo
  <2> QED BY <2>2, <2>3, <2>6 DEF Due
<1>14. \/ Ponged(k) \/ Called(r, k)
       \/ Refused(r, k) /\ Answered(r, k, Frames[k].text, Route(Frames[k].text))
  <2>1. ~Unsupported(r, k) /\ ~Lost(r, k, Frames[k].text)
    BY Closes DEF Unsupported, Lost
  <2>2. ~Closed(r, k)
    BY DEF Closed
  <2>3. Taken(r, k)
    BY <1>1
  <2> QED BY <2>1, <2>2, <2>3 DEF Taken, Refused
<1> QED BY <1>11, <1>12, <1>13, <1>14

\* What is written about the text that a run awaits is about no other, and no
\* other run awaits it.
LEMMA AwaitedAlone ==
    ASSUME SocketTypeOK, PlaceOK, AwaitingOK, NEW r \in Runs, Awaiting(r)
    PROVE  /\ Awaited(r) \in DOMAIN extracted /\ runs[r].frame = Awaited(r)
           /\ extracted[Awaited(r)].opcode = 1 /\ Route(extracted[Awaited(r)].text) = "none"
           /\ \A q \in Runs : Awaiting(q) /\ runs[q].frame = Awaited(r) => q = r
BY AwaitedIs DEF AwaitingOK, Awaited

\* The next answer to the text a run awaits: all else keeps what was due to it.
AnsweredBy(r, kind) ==
    SendText(Awaited(r), kind, extracted[Awaited(r)].text.uniqueId)
LEMMA NextAnswer ==
    ASSUME SocketTypeOK, PlaceOK, AwaitingOK, AllDue, socket = "open",
           NEW r \in Runs, Awaiting(r), NEW kind, AnsweredBy(r, kind),
           RunIs(r, Taking) \/ GoesOn(r), UNCHANGED <<dialogue, extracted>>, NEW k, k = Awaited(r)
    PROVE  /\ AllDue' <=> Due(k)'
           /\ ~Handled(k)' /\ (Flushing(k)' => GoesOn(r))
           /\ AnswersTo(k)' = AnswersTo(k) \cup {Len(written) + 1}
           /\ Len(written) + 1 \in DOMAIN written' /\ DOMAIN written \subseteq DOMAIN written'
           /\ \A n \in DOMAIN written : n < Len(written) + 1 /\ written'[n] = written[n]
           /\ written'[Len(written) + 1].kind = kind
           /\ written'[Len(written) + 1].id = extracted[k].text.uniqueId
<1>1. /\ k \in DOMAIN extracted /\ runs[r].frame = k
      /\ \A q \in Runs : Awaiting(q) /\ runs[q].frame = k => q = r
  BY AwaitedAlone
<1>2. IsSequence(written) /\ DOMAIN runs = Runs
  BY DEF SocketTypeOK
<1> PICK w : w = WrittenFrame(k, 1, Payload(Plain, 0, Frames[k].length), kind,
                              extracted[k].text.uniqueId)
  OBVIOUS
<1>3. Emitted(w) /\ w.about = k /\ w.kind = kind /\ w.id = extracted[k].text.uniqueId
  BY DEF AnsweredBy, SendText, Wrote, WrittenFrame, Frames
<1>4. /\ \A i : i # k => AnswersTo(i)' = AnswersTo(i)
      /\ AnswersTo(k)' = AnswersTo(k) \cup {Len(written) + 1}
      /\ DOMAIN written' = DOMAIN written \cup {Len(written) + 1}
      /\ \A n \in DOMAIN written : n < Len(written) + 1 /\ written'[n] = written[n]
      /\ written'[Len(written) + 1] = w
  BY <1>2, <1>3, AnswersGrow
<1>5. /\ \A q \in Runs : q # r => runs'[q] = runs[q]
      /\ runs'[r] = Taking \/ runs'[r] = [at |-> "flushing", frame |-> k]
      /\ runs'[r] # Taking => GoesOn(r)
  BY <1>2 DEF RunIs, GoesOn
<1>6. ~Handled(k)'
  <2>1. \A q \in Runs : runs'[q].at = "awaiting" /\ runs'[q].frame = k => q = r
    BY <1>1, <1>5 DEF Awaiting
  <2> QED BY <1>5, <2>1 DEF Handled, Taking
<1>7. Flushing(k)' => GoesOn(r)
  <2>1. \A q \in Runs : runs'[q].at = "flushing" /\ runs'[q].frame = k => q = r
    BY <1>1, <1>5 DEF Awaiting
  <2> QED BY <1>5, <2>1 DEF Flushing, Taking
<1>8. ASSUME NEW i \in DOMAIN extracted, i # k
      PROVE  Same(i)
  <2>1. Handled(i)' <=> Handled(i)
    BY <1>1, <1>5, <1>8 DEF Handled, Awaiting, Taking
  <2>2. Flushing(i)' => Flushing(i)
    BY <1>1, <1>5, <1>8 DEF Flushing, Awaiting, Taking
  <2> QED BY <1>4, <1>8, <2>1, <2>2 DEF Same
<1>9. AllDue' <=> Due(k)'
  <2>1. \A i \in DOMAIN extracted : i # k => Due(i)'
    BY <1>8, DueStays DEF AllDue
  <2> QED BY <1>1, <2>1 DEF AllDue
<1> QED BY <1>3, <1>4, <1>6, <1>7, <1>9

\* The answer of a handler is the first to its text.
LEMMA DueAnswered ==
    ASSUME SocketTypeOK, PlaceOK, AwaitingOK, AllDue, socket = "open",
           NEW r \in Runs, runs[r].at = "awaiting", NEW kind, AnsweredBy(r, kind),
           kind \in {"result", "InternalError"} \cup ThrownBy(extracted[Awaited(r)].text.action),
           RunIs(r, Taking) \/ (GoesOn(r) /\ kind = "result"), UNCHANGED <<dialogue, extracted>>
    PROVE  AllDue'
<1>1. PICK k : k = Awaited(r)
  OBVIOUS
<1>2. PICK new : new = Len(written) + 1
  OBVIOUS
<1>3. Awaiting(r)
  BY DEF Awaiting
<1>4. /\ k \in DOMAIN extracted /\ runs[r].frame = k
      /\ extracted[k].opcode = 1 /\ Route(extracted[k].text) = "none"
  BY <1>1, <1>3, AwaitedAlone
<1>5. /\ AllDue' <=> Due(k)'
      /\ ~Handled(k)' /\ (Flushing(k)' => GoesOn(r))
      /\ AnswersTo(k)' = AnswersTo(k) \cup {new} /\ new \in DOMAIN written'
      /\ written'[new].kind = kind /\ written'[new].id = extracted[k].text.uniqueId
  BY <1>1, <1>2, <1>3, NextAnswer
<1>6. AnswersTo(k) = {}
  <2>1. Handled(k) /\ Due(k)
    BY <1>4 DEF Handled, AllDue
  <2> QED BY <1>4, <2>1 DEF Due, AnsweredOnce, AnsweredTwice
<1>7. IsAnswerTo(written'[new], extracted'[k].text)
  BY <1>1, <1>4, <1>5 DEF IsAnswerTo
<1>8. Flushing(k)' => written'[new].kind = "result"
  <2>1. RunIs(r, Taking) => ~Flushing(k)'
    <3>1. ASSUME RunIs(r, Taking), NEW q \in Runs, runs'[q].at = "flushing", runs'[q].frame = k
          PROVE  FALSE
      <4>1. q # r /\ runs'[q] = runs[q]
        BY <3>1 DEF RunIs, SocketTypeOK, Taking
      <4> QED BY <1>1, <1>3, <3>1, <4>1, AwaitedAlone DEF Awaiting
    <3> QED BY <3>1 DEF Flushing
  <2> QED BY <1>5, <2>1
<1>9. AnsweredOnce(k)'
  <2>1. AnswersTo(k)' = {new}
    BY <1>5, <1>6
  <2> QED BY <1>5, <1>7, <1>8, <2>1 DEF AnsweredOnce, IsAnswerTo
<1>10. extracted'[k].opcode = 1
  BY <1>4
<1> QED BY <1>5, <1>9, <1>10 DEF Due

\* The answer about a rejected flush is the second to a boot.
LEMMA DueRejected ==
    ASSUME SocketTypeOK, PlaceOK, AwaitingOK, AllDue, socket = "open",
           NEW r \in Runs, runs[r].at = "flushing", AnsweredBy(r, "InternalError"),
           RunIs(r, Taking), UNCHANGED <<dialogue, extracted>>
    PROVE  AllDue'
<1>1. PICK k : k = Awaited(r)
  OBVIOUS
<1>2. PICK new : new = Len(written) + 1
  OBVIOUS
<1>3. Awaiting(r)
  BY DEF Awaiting
<1>4. /\ k \in DOMAIN extracted /\ runs[r].frame = k
      /\ extracted[k].opcode = 1 /\ Route(extracted[k].text) = "none"
      /\ extracted[k].text.action = "BootNotification"
      /\ \A q \in Runs : Awaiting(q) /\ runs[q].frame = k => q = r
  BY <1>1, <1>3, AwaitedAlone DEF AwaitingOK
<1>5. /\ AllDue' <=> Due(k)'
      /\ ~Handled(k)'
      /\ AnswersTo(k)' = AnswersTo(k) \cup {new} /\ new \in DOMAIN written'
      /\ DOMAIN written \subseteq DOMAIN written'
      /\ \A n \in DOMAIN written : n < new /\ written'[n] = written[n]
      /\ written'[new].kind = "InternalError" /\ written'[new].id = extracted[k].text.uniqueId
  BY <1>1, <1>2, <1>3, NextAnswer
<1>6. PICK old \in DOMAIN written :
          /\ AnswersTo(k) = {old} /\ IsAnswerTo(written[old], extracted[k].text)
          /\ written[old].kind = "result"
  <2>1. Flushing(k) /\ Due(k)
    BY <1>4 DEF Flushing, AllDue
  <2>2. ~Handled(k)
    <3>1. ASSUME NEW q \in Runs, runs[q].at = "awaiting", runs[q].frame = k
          PROVE  FALSE
      BY <1>4, <3>1 DEF Awaiting
    <3> QED BY <3>1 DEF Handled
  <2>3. AnsweredOnce(k)
    BY <1>4, <2>1, <2>2 DEF Due, AnsweredTwice
  <2> QED BY <2>1, <2>3 DEF AnsweredOnce
<1>7. ~Flushing(k)'
  <2>1. ASSUME NEW q \in Runs, runs'[q].at = "flushing", runs'[q].frame = k
        PROVE  FALSE
    <3>1. q # r /\ runs'[q] = runs[q]
      BY <2>1 DEF RunIs, SocketTypeOK, Taking
    <3> QED BY <1>4, <2>1, <3>1 DEF Awaiting
  <2> QED BY <2>1 DEF Flushing
<1>8. AnsweredTwice(k)'
  <2>1. /\ old < new /\ old \in DOMAIN written' /\ new \in DOMAIN written'
        /\ AnswersTo(k)' = {old, new}
        /\ written'[old] = written[old]
    BY <1>5, <1>6
  <2>2. IsAnswerTo(written'[old], extracted'[k].text) /\ IsAnswerTo(written'[new], extracted'[k].text)
    BY <1>4, <1>5, <1>6, <2>1 DEF IsAnswerTo
  <2>3. AnsweredTwice(k)' <=>
            /\ ~Handled(k)' /\ ~Flushing(k)' /\ extracted'[k].text.action = "BootNotification"
            /\ \E i, l \in DOMAIN written' :
                   /\ i < l /\ AnswersTo(k)' = {i, l}
                   /\ IsAnswerTo(written'[i], extracted'[k].text) /\ written'[i].kind = "result"
                   /\ IsAnswerTo(written'[l], extracted'[k].text) /\ written'[l].kind = "InternalError"
    BY DEF AnsweredTwice, IsAnswerTo
  <2> QED BY <1>4, <1>5, <1>6, <1>7, <2>1, <2>2, <2>3
<1>9. extracted'[k].opcode = 1
  BY <1>4
<1> QED BY <1>5, <1>8, <1>9 DEF Due

LEMMA DueKept ==
    ASSUME SocketTypeOK, PlaceOK, ChunksOK, AwaitingOK, OpenOK, WrittenOK, AnswersDue, Next
    PROVE  AnswersDue'
<1>1. SUFFICES ASSUME socket' = "open"
               PROVE  AllDue'
  BY DEF AnswersDue, AllDue
<1>2. CASE HandleUpgrade
  <2>1. Len(extracted) = 0 /\ extracted' = extracted
    BY <1>2 DEF HandleUpgrade, ChunksOK
  <2>2. DOMAIN extracted' = {}
    BY <2>1, Sequenced DEF SocketTypeOK
  <2> QED BY <2>2 DEF AllDue
<1>3. ~SocketError
  BY <1>1 DEF SocketError
<1>4. DOMAIN runs = Runs /\ (socket = "open" => AllDue)
  BY DEF SocketTypeOK, AnswersDue, AllDue
<1>5. ASSUME UNCHANGED <<extracted, written>>, socket = "open", NEW r \in Runs,
             \A q \in Runs : q # r => runs'[q] = runs[q],
             runs[r].at # "awaiting", runs'[r].at \notin {"awaiting", "flushing"}
      PROVE  AllDue'
  <2> SUFFICES ASSUME NEW i \in DOMAIN extracted
               PROVE  Due(i)'
    BY <1>5 DEF AllDue
  <2>1. Handled(i)' <=> Handled(i)
    BY <1>5 DEF Handled
  <2>2. Flushing(i)' => Flushing(i)
    BY <1>5 DEF Flushing
  <2>3. AnswersTo(i)' = AnswersTo(i)
    BY <1>5 DEF AnswersTo
  <2>4. Due(i) /\ Same(i)
    BY <1>4, <1>5, <2>1, <2>2, <2>3 DEF AllDue, Same
  <2> QED BY <2>4, DueStays
<1>6. ASSUME NEW r \in Runs, NEW n \in dialogue.cuts, Chunk(r, n)
      PROVE  AllDue'
  <2>1. UNCHANGED <<extracted, written>> /\ socket = "open"
    BY <1>1, <1>6 DEF Chunk
  <2>2. /\ \A q \in Runs : q # r => runs'[q] = runs[q]
        /\ runs[r].at # "awaiting" /\ runs'[r].at \notin {"awaiting", "flushing"}
    BY <1>4, <1>6 DEF Chunk, RunIs, Idle, Taking
  <2> QED BY <1>5, <2>1, <2>2
<1>7. ASSUME NEW r \in Runs, RunStep(r)
      PROVE  AllDue'
  <2>1. socket = "open" /\ AllDue
    BY <1>1, <1>4, <1>7, RunStepIs
  <2>2. CASE runs[r].at = "next" /\ Rests(r)
    <3>1. UNCHANGED <<extracted, written>> /\ RunIs(r, Idle)
      BY <2>2 DEF Rests
    <3>2. /\ \A q \in Runs : q # r => runs'[q] = runs[q]
          /\ runs[r].at # "awaiting" /\ runs'[r].at \notin {"awaiting", "flushing"}
      BY <1>4, <2>2, <3>1 DEF RunIs, Idle
    <3> QED BY <1>5, <2>1, <3>1, <3>2
  <2>3. CASE runs[r].at = "next" /\ Took(Following) /\ Taken(r, Following)
    BY <1>1, <2>1, <2>3, DueTaken
  <2>4. CASE HandlerAnswers(r)
    <3>1. /\ runs[r].at = "awaiting" /\ GoesOn(r) /\ UNCHANGED <<dialogue, extracted>>
          /\ AnsweredBy(r, "result")
      BY <2>4, AnswersEffects DEF HandlerAnswers, AnsweredBy
    <3> QED BY <2>1, <3>1, DueAnswered
  <2>5. CASE FlushOver(r)
    <3>1. UNCHANGED <<extracted, written>> /\ RunIs(r, Taking) /\ runs[r].at = "flushing"
      BY <2>5 DEF FlushOver
    <3>2. /\ \A q \in Runs : q # r => runs'[q] = runs[q]
          /\ runs[r].at # "awaiting" /\ runs'[r].at \notin {"awaiting", "flushing"}
      BY <1>4, <3>1 DEF RunIs, Taking
    <3> QED BY <1>5, <2>1, <3>1, <3>2
  <2>6. ASSUME NEW at \in {"awaiting", "flushing"}, NEW thrown, Throws(r, at, thrown)
        PROVE  /\ runs[r].at = at /\ AnsweredBy(r, ResolveError(thrown)) /\ RunIs(r, Taking)
               /\ UNCHANGED <<dialogue, extracted>>
    <3> DEFINE text == extracted[Awaited(r)].text
    <3>1. /\ runs[r].at = at /\ UNCHANGED <<dialogue, extracted>>
          /\ Answered(r, Awaited(r), text, thrown) \/ Lost(r, Awaited(r), text)
      BY <2>6 DEF Throws
    <3>2. ~Lost(r, Awaited(r), text)
      BY <1>1, Closes DEF Lost
    <3> HIDE DEF text
    <3>3. ErrorId(text) # NoString /\ SendText(Awaited(r), ResolveError(thrown), ErrorId(text))
          /\ RunIs(r, Taking)
      BY <3>1, <3>2 DEF Answered
    <3>4. ErrorId(text) = text.uniqueId
      BY <3>3, IdentifiedIs
    <3> QED BY <3>1, <3>3, <3>4 DEF text, AnsweredBy
  <2>7. CASE HandlerFails(r)
    <3>1. PICK thrown \in ThrownBy(extracted[Awaited(r)].text.action) \cup {"error"} :
              Throws(r, "awaiting", thrown)
      BY <2>7 DEF HandlerFails
    <3>2. /\ runs[r].at = "awaiting" /\ AnsweredBy(r, ResolveError(thrown)) /\ RunIs(r, Taking)
          /\ UNCHANGED <<dialogue, extracted>>
      BY <2>6, <3>1
    <3>3. ResolveError(thrown) \in {"InternalError"} \cup ThrownBy(extracted[Awaited(r)].text.action)
      BY DEF ResolveError, HandlerErrors, ThrownBy, Thrown, GuardErrors, RouterErrors
    <3> QED BY <2>1, <3>2, <3>3, DueAnswered
  <2>8. CASE Throws(r, "flushing", "error")
    <3>1. ResolveError("error") = "InternalError"
      BY DEF ResolveError, HandlerErrors, Thrown, GuardErrors, RouterErrors
    <3> QED BY <2>1, <2>6, <2>8, <3>1, DueRejected
  <2> QED BY <1>7, <2>2, <2>3, <2>4, <2>5, <2>7, <2>8 DEF RunStep, Turned, Fails
<1> QED BY <1>2, <1>3, <1>6, <1>7, StepOf

------------------------------------------------------------------------------
(* The inductive invariant *)

LEMMA SocketInit == Init => SocketInv
<1> SUFFICES ASSUME Init
             PROVE  SocketInv
  OBVIOUS
<1>1. /\ extracted = <<>> /\ written = <<>> /\ Len(extracted) = 0 /\ Len(written) = 0
      /\ DOMAIN extracted = {} /\ DOMAIN written = {}
      /\ runs = [r \in Runs |-> Idle] /\ AllIdle
      /\ arrived = 0 /\ chunks = 0 /\ taken = 0
      /\ socket = "connecting" /\ protocol = "none"
  BY DEF Init, AllIdle
<1>2. IsSequence(extracted) /\ IsSequence(written)
  <2>1. IsSequence(<<>>)
    BY DEF IsSequence
  <2> QED BY <1>1, <2>1
<1>3. SocketTypeOK
  BY <1>1, <1>2 DEF Init, SocketTypeOK
<1>4. PlaceOK
  <2>1. AreFrames(Frames) /\ Len(Frames) \in Nat /\ Len(Frames) \in 0..Len(Frames)
    BY <1>3, DialogueIs DEF AreFrames
  <2>2. EndOf(Frames, 0) = 0 /\ EndOf(Frames, Len(Frames)) \in Nat
    BY <2>1, EndOfIs
  <2>3. 0 <= Len(Frames) /\ 0 <= EndOf(Frames, Len(Frames))
    BY <2>1, <2>2
  <2> QED BY <1>1, <2>2, <2>3 DEF PlaceOK
<1>5. ChunksOK /\ DestroyedOK /\ OpenOK /\ HandshakeOK
  BY <1>1 DEF ChunksOK, DestroyedOK, OpenOK, HandshakeOK
<1>6. \A r \in Runs : ~Awaiting(r)
  BY <1>1 DEF Awaiting, Idle
<1>7. AwaitingOK /\ WrittenOK /\ AnswersDue /\ InOrderWithinChunk
  BY <1>1, <1>6 DEF AwaitingOK, WrittenOK, AnswersDue, InOrderWithinChunk
<1> QED BY <1>3, <1>4, <1>5, <1>7 DEF SocketInv

LEMMA SocketStep == SocketInv /\ [Next]_vars => SocketInv'
<1> SUFFICES ASSUME SocketInv, [Next]_vars
             PROVE  SocketInv'
  OBVIOUS
<1>0. /\ SocketTypeOK /\ PlaceOK /\ ChunksOK /\ AwaitingOK /\ DestroyedOK /\ OpenOK /\ WrittenOK
      /\ HandshakeOK /\ AnswersDue /\ InOrderWithinChunk
  BY DEF SocketInv
<1>1. CASE Next
  <2>1. SocketTypeOK' /\ PlaceOK' /\ WrittenOK'
    BY <1>0, <1>1, TypeKept, PlaceKept, WrittenKept
  <2>2. ChunksOK' /\ AwaitingOK' /\ DestroyedOK'
    BY <1>0, <1>1, ChunksKept, AwaitingKept, DestroyedKept
  <2>3. OpenOK' /\ HandshakeOK' /\ InOrderWithinChunk'
    BY <1>0, <1>1, OpenKept, HandshakeKept, InOrderKept
  <2>4. AnswersDue'
    BY <1>0, <1>1, DueKept
  <2> QED BY <2>1, <2>2, <2>3, <2>4 DEF SocketInv
<1>2. CASE UNCHANGED vars
  <2>1. UNCHANGED <<dialogue, socket, protocol, arrived, chunks, taken, extracted, runs, written>>
    BY <1>2 DEF vars
  <2>2. SocketTypeOK' /\ PlaceOK'
    <3>1. IsSequence(extracted)' /\ IsSequence(written)'
      BY <1>0, <2>1 DEF SocketTypeOK, IsSequence
    <3> QED BY <1>0, <2>1, <3>1 DEF SocketTypeOK, PlaceOK, Frames, TakenAsSent
  <2>3. ChunksOK' /\ AwaitingOK' /\ DestroyedOK'
    BY <1>0, <2>1 DEF ChunksOK, AwaitingOK, DestroyedOK, Awaiting, AllIdle, Faulted
  <2>4. OpenOK' /\ WrittenOK' /\ HandshakeOK' /\ InOrderWithinChunk'
    BY <1>0, <2>1 DEF OpenOK, WrittenOK, HandshakeOK, InOrderWithinChunk, AllIdle, Frames
  <2>5. AnswersDue'
    <3>1. ASSUME NEW k \in DOMAIN extracted
          PROVE  Same(k)
      BY <2>1 DEF Same, Handled, Flushing, AnswersTo
    <3>2. ASSUME socket = "open"
          PROVE  \A k \in DOMAIN extracted : Due(k)'
      BY <1>0, <3>1, <3>2, DueStays DEF AnswersDue
    <3> QED BY <2>1, <3>2 DEF AnswersDue
  <2> QED BY <2>2, <2>3, <2>4, <2>5 DEF SocketInv
<1> QED BY <1>1, <1>2

\* The conjuncts of SocketInv hold together in every reachable state.
THEOREM SocketInvariant == Spec => []SocketInv
BY SocketInit, SocketStep, PTL DEF Spec

\* However the bytes of a station are cut into chunks and however many runs take
\* turns at its buffer, extractFrame takes off exactly the frames it sent, in
\* their order, each with its own payload.
THEOREM FramesStay == Spec => []FramesAsSent
<1>1. SocketInv => FramesAsSent
  <2> SUFFICES ASSUME SocketInv
               PROVE  FramesAsSent
    OBVIOUS
  <2>1. SocketTypeOK /\ PlaceOK
    BY DEF SocketInv
  <2>2. /\ Len(extracted) \in Nat /\ DOMAIN extracted = 1..Len(extracted)
        /\ Len(extracted) <= Len(Frames) /\ Len(Frames) \in Nat /\ DOMAIN Frames = 1..Len(Frames)
    BY <2>1, Sequenced, DialogueIs DEF SocketTypeOK, PlaceOK, AreFrames
  <2>3. DOMAIN extracted \subseteq DOMAIN Frames
    BY <2>2
  <2>4. \A k \in DOMAIN extracted : extracted[k] = TakenAsSent(k)
    BY <2>1 DEF PlaceOK
  <2> QED BY <2>3, <2>4 DEF FramesAsSent, TakenAsSent
<1> QED BY <1>1, SocketInvariant, PTL

\* No frame that is complete is left in the buffer of an open socket whose runs
\* have come to rest: the runs take all that arrived, whichever run saw it.
THEOREM NothingWaits == Spec => []WholeFramesTaken
<1>1. SocketInv => WholeFramesTaken
  <2> SUFFICES ASSUME SocketInv, socket = "open", AllIdle
               PROVE  Len(extracted) = Cardinality({k \in DOMAIN Frames : EndOf(Frames, k) <= arrived})
    BY DEF WholeFramesTaken
  <2> DEFINE n == Len(extracted)
  <2>1. /\ AreFrames(Frames) /\ n \in Nat /\ arrived \in Nat
        /\ n <= Len(Frames) /\ EndOf(Frames, n) <= arrived
    BY Sequenced, DialogueIs DEF SocketInv, SocketTypeOK, PlaceOK
  <2>2. n = Len(Frames) \/ arrived < EndOf(Frames, n + 1)
    BY DEF SocketInv, OpenOK
  <2>3. Len(Frames) \in Nat /\ DOMAIN Frames = 1..Len(Frames)
    BY <2>1 DEF AreFrames
  <2> HIDE DEF n
  <2>4. ASSUME NEW k \in 1..Len(Frames)
        PROVE  EndOf(Frames, k) <= arrived <=> k <= n
    <3>1. k \in 0..Len(Frames) /\ n \in 0..Len(Frames)
      BY <2>1, <2>3
    <3>2. EndOf(Frames, k) \in Nat /\ EndOf(Frames, n) \in Nat
      BY <2>1, <3>1, EndOfIs
    <3>3. CASE k <= n
      <4>1. EndOf(Frames, k) <= EndOf(Frames, n)
        BY <2>1, <3>1, <3>3, EndOfGrows
      <4> QED BY <2>1, <3>2, <3>3, <4>1
    <3>4. CASE ~(k <= n)
      <4>1. n + 1 \in 0..Len(Frames) /\ n + 1 <= k /\ n # Len(Frames)
        <5>1. n \in Nat /\ Len(Frames) \in Nat /\ k \in Nat /\ k <= Len(Frames) /\ n < k
          BY <2>1, <2>3, <3>4
        <5> HIDE <2>1
        <5> QED BY ONLY <5>1
      <4>2. EndOf(Frames, n + 1) <= EndOf(Frames, k) /\ EndOf(Frames, n + 1) \in Nat
        BY <2>1, <3>1, <4>1, EndOfGrows, EndOfIs
      <4>3. arrived < EndOf(Frames, k)
        BY <2>1, <2>2, <3>2, <4>1, <4>2
      <4> QED BY <2>1, <3>2, <3>4, <4>3
    <3> QED BY <3>3, <3>4
  <2>5. {k \in DOMAIN Frames : EndOf(Frames, k) <= arrived} = 1..n
    <3>1. \A k \in 1..n : k \in 1..Len(Frames)
      BY <2>1, <2>3
    <3> QED BY <2>1, <2>3, <2>4, <3>1
  <2>6. Cardinality(1..n) = n
    BY <2>1, FS_Interval
  <2> QED BY <2>5, <2>6 DEF n
<1> QED BY <1>1, SocketInvariant, PTL

\* Whatever buildFrame writes is read back as it was meant, in the shortest
\* form of header.
THEOREM WrittenFramesAreRead == Spec => []WrittenIsReadable
<1>1. SocketInv => WrittenIsReadable
  <2> SUFFICES ASSUME SocketInv, NEW k \in DOMAIN written
               PROVE  LET w     == written[k]
                          frame == BuildFrame(w.opcode, w.payload)
                          read  == ExtractFrame(frame.bytes, 0, frame.size)
                      IN  /\ read.fin /\ read.opcode = w.opcode /\ read.payload = w.payload
                          /\ frame.size - w.payload.length =
                                 (IF w.payload.length < 126 THEN 2
                                  ELSE IF w.payload.length < 65536 THEN 4 ELSE 10)
    BY DEF WrittenIsReadable
  <2> DEFINE opcode  == written[k].opcode
             payload == written[k].payload
             length  == payload.length
             frame   == BuildFrame(opcode, payload)
             read    == ExtractFrame(frame.bytes, 0, frame.size)
  <2>1. /\ opcode \in Opcode /\ length \in Length
        /\ payload = [length |-> length, sample |-> payload.sample]
        /\ payload.sample = [i \in Sampled(length) |-> payload.sample[i]]
    BY DEF SocketInv, WrittenOK, IsPayload, Opcode, Length
  <2> HIDE DEF opcode, payload, length
  <2>2. /\ frame.size = HeaderLength(length) + length
        /\ read.fin /\ read.opcode = opcode /\ read.payload = payload
    BY ONLY <2>1, BuiltIsRead
  <2>3. HeaderLength(length) = IF length < 126 THEN 2 ELSE IF length < 65536 THEN 4 ELSE 10
    BY <2>1, SMT DEF HeaderLength, Length
  <2>4. HeaderLength(length) \in Nat /\ length \in Nat
    BY <2>1, <2>3 DEF Length
  <2> HIDE DEF frame, read
  <2>5. frame.size - length = HeaderLength(length)
    BY <2>2, <2>4
  <2> QED BY <2>2, <2>3, <2>5 DEF opcode, payload, length, frame, read
<1> QED BY <1>1, SocketInvariant, PTL

\* A connection that the server gave up after it took a frame was given up for a
\* frame it does not support or a text nobody could be answered about.
THEOREM ConnectionsStay == Spec => []SocketKept
<1>1. SocketInv => SocketKept
  <2> SUFFICES ASSUME SocketInv, socket = "destroyed", taken > 0
               PROVE  \E k \in DOMAIN extracted : Faulted(k)
    BY DEF SocketKept, Faulted
  <2>1. chunks # 0
    <3>1. SUFFICES ASSUME chunks = 0
                   PROVE  FALSE
      OBVIOUS
    <3>2. Len(extracted) = 0 /\ taken = EndOf(Frames, Len(extracted)) /\ AreFrames(Frames)
      BY <3>1, DialogueIs DEF SocketInv, ChunksOK, PlaceOK
    <3>3. taken = 0
      BY <3>2, EndOfIs
    <3> QED BY <3>3
  <2> QED BY <2>1 DEF SocketInv, DestroyedOK
<1> QED BY <1>1, SocketInvariant, PTL

\* Every text and every ping on an open socket gets what is due to it, with its
\* own id and of what was wrong: nothing while its handler is awaited, and one
\* answer afterwards, or two when the flush behind a boot was rejected.
THEOREM AnswersMatch == Spec => []AnswersDue
<1>1. SocketInv => AnswersDue
  BY DEF SocketInv
<1> QED BY <1>1, SocketInvariant, PTL

\* The texts of one chunk are answered in their order.
THEOREM AnswersInOrder == Spec => []InOrderWithinChunk
<1>1. SocketInv => InOrderWithinChunk
  BY DEF SocketInv
<1> QED BY <1>1, SocketInvariant, PTL

\* A socket is opened exactly for the requests that ask for it as handleUpgrade
\* wants it, and is told a subprotocol it offered.
THEOREM HandshakesAreDue == Spec => []OpenedAsAsked
<1>1. SocketInv => OpenedAsAsked
  <2> SUFFICES ASSUME SocketInv
               PROVE  OpenedAsAsked
    OBVIOUS
  <2>1. socket = "destroyed" /\ taken = 0 => chunks = 0
    <3>1. SUFFICES ASSUME socket = "destroyed", taken = 0, chunks # 0
                   PROVE  FALSE
      OBVIOUS
    <3> DEFINE n == Len(extracted)
    <3>2. /\ AreFrames(Frames) /\ taken = EndOf(Frames, n) /\ n <= Len(Frames)
          /\ n \in Nat /\ DOMAIN extracted = 1..n
      BY Sequenced, DialogueIs DEF SocketInv, SocketTypeOK, PlaceOK
    <3>3. DOMAIN extracted # {}
      BY <3>1 DEF SocketInv, DestroyedOK
    <3>4. Len(Frames) \in Nat /\ \A k \in 1..Len(Frames) : IsFrame(Frames[k])
      BY <3>2 DEF AreFrames
    <3> HIDE DEF n
    <3>5. n \in 1..Len(Frames) /\ n \in 0..Len(Frames) /\ n - 1 \in 0..Len(Frames)
      BY <3>2, <3>3, <3>4
    <3>6. /\ EndOf(Frames, n) = EndOf(Frames, n - 1) + SentSize(Frames[n])
          /\ EndOf(Frames, n - 1) \in Nat
      BY <3>2, <3>5, EndOfIs
    <3>7. SentSize(Frames[n]) \in Nat /\ SentSize(Frames[n]) >= 2
      BY <3>4, <3>5, Sizes
    <3> QED BY <3>1, <3>2, <3>6, <3>7
  <2>2. HandshakeOK
    BY DEF SocketInv
  <2> QED BY <2>1, <2>2 DEF HandshakeOK, OpenedAsAsked
<1> QED BY <1>1, SocketInvariant, PTL

\* Behind a frame of a single chunk that ends its run nothing is taken any more,
\* whatever becomes of the socket meanwhile.
THEOREM NothingIsBehind == Spec => []NothingBehind
<1>1. SocketInv => NothingBehind
  BY DEF SocketInv, ChunksOK, NothingBehind
<1> QED BY <1>1, SocketInvariant, PTL
==============================================================================
