----------------------------- MODULE CodecProofs -----------------------------
(***************************************************************************)
(* Proofs about Codec, for all addresses, keys, numbers and readings: a    *)
(* frame is parsed as it was packed, both ways of enciphering are undone   *)
(* by their counterparts, and so a receiver with the right key opens every *)
(* frame; the library reads back each text of an address the code prints,  *)
(* so the gateway finds the line of a sender and an answer reaches it.     *)
(* That a receiver opens no other frame rests on a CRC of 16 bits and is   *)
(* left to TLC.                                                            *)
(***************************************************************************)
EXTENDS Codec, AesProofs

-----------------------------------------------------------------------------
(* Words *)

\* What a word of 16 bits is.
LEMMA WordRange == \A w : w \in Word16Bits <=> w \in Int /\ 0 <= w /\ w <= 65535
<1>1. Word \in Int
  BY DEF Word
<1>2. \A w : w \in Word16Bits <=> w \in Int /\ 0 <= w /\ w <= Word - 1
  BY <1>1 DEF Word16Bits
<1>3. Word - 1 = 65535
  BY DEF Word
<1>4. QED
  BY <1>2, <1>3

\* What a byte is.
LEMMA ByteRange == \A b : b \in Byte <=> b \in Int /\ 0 <= b /\ b <= 255
  BY DEF Byte

\* The two bytes of a word.
LEMMA BytesOfWord ==
  ASSUME NEW w \in Word16Bits
  PROVE  /\ w \div 256 \in Byte /\ w % 256 \in Byte
         /\ 256 * (w \div 256) + (w % 256) = w
<1>1. w \in Int /\ 0 <= w /\ w <= 65535
  BY WordRange
<1>2. /\ w \div 256 \in Int /\ 0 <= w \div 256 /\ w \div 256 <= 255
      /\ w % 256 \in Int /\ 0 <= w % 256 /\ w % 256 <= 255
      /\ 256 * (w \div 256) + (w % 256) = w
  BY <1>1
<1>3. QED
  BY <1>2, ByteRange

\* The word of two bytes.
LEMMA WordOfBytes ==
  ASSUME NEW x \in Byte, NEW y \in Byte
  PROVE  256 * x + y \in Word16Bits
<1>1. x \in Int /\ 0 <= x /\ x <= 255 /\ y \in Int /\ 0 <= y /\ y <= 255
  BY ByteRange
<1>2. 256 * x + y \in Int /\ 0 <= 256 * x + y /\ 256 * x + y <= 65535
  BY <1>1
<1>3. QED
  BY <1>2, WordRange

\* A word shifted to the right is a word.
LEMMA Shifted ==
  ASSUME NEW w \in Word16Bits, NEW n \in {2, 8}
  PROVE  w \div n \in Word16Bits
<1>1. w \in Int /\ 0 <= w /\ w <= 65535
  BY WordRange
<1>2. /\ w \div 2 \in Int /\ 0 <= w \div 2 /\ w \div 2 <= 65535
      /\ w \div 8 \in Int /\ 0 <= w \div 8 /\ w \div 8 <= 65535
  BY <1>1
<1>3. QED
  BY <1>2, WordRange

\* The exclusive or of two words is a word.
LEMMA Xor16Type ==
  ASSUME NEW a \in Word16Bits, NEW b \in Word16Bits
  PROVE  Xor16(a, b) \in Word16Bits
<1>1. /\ a \div 256 \in Byte /\ b \div 256 \in Byte /\ a % 256 \in Byte /\ b % 256 \in Byte
  BY BytesOfWord
<1>2. Xor8(a \div 256, b \div 256) \in Byte /\ Xor8(a % 256, b % 256) \in Byte
  BY <1>1, XorBits
<1>3. QED
  BY <1>2, WordOfBytes DEF Xor16

Word32 == Word16Bits \X Word16Bits

\* The operations on 32 bits yield 32 bits.
LEMMA WordsType ==
  ASSUME NEW x \in Word32, NEW y \in Word32, NEW p \in Nat
  PROVE  Xor32(x, y) \in Word32 /\ Add32(x, y) \in Word32 /\ Shl32(x, p) \in Word32
<1>1. /\ x[1] \in Word16Bits /\ x[2] \in Word16Bits /\ y[1] \in Word16Bits
      /\ y[2] \in Word16Bits
  BY DEF Word32
<1>2. Xor32(x, y) \in Word32
  BY <1>1, Xor16Type DEF Xor32, Word32
<1>3. \A n \in Int : n % Word \in Word16Bits
  BY DEF Word, Word16Bits
<1>4. \A n \in Int : n \div Word \in Int
  BY DEF Word
<1>5. \A n \in Word16Bits : n \in Int
  BY DEF Word16Bits
<1>6. Add32(x, y) \in Word32
  <2>1. /\ x[1] \in Int /\ x[2] \in Int /\ y[1] \in Int /\ y[2] \in Int
    BY <1>1, <1>5
  <2>2. (x[2] + y[2]) \div Word \in Int /\ x[2] + y[2] \in Int
    BY <1>4, <2>1
  <2>3. x[1] + y[1] + (x[2] + y[2]) \div Word \in Int
    BY <2>1, <2>2
  <2>4. QED
    BY <1>3, <2>2, <2>3 DEF Add32, Word32
<1>7. Shl32(x, p) \in Word32
  <2>1. x[1] * p \in Int /\ x[2] * p \in Int
    BY <1>1, <1>5
  <2>2. (x[2] * p) \div Word \in Int
    BY <1>4, <2>1
  <2>3. x[1] * p + (x[2] * p) \div Word \in Int
    BY <2>1, <2>2
  <2>4. QED
    BY <1>3, <2>1, <2>3 DEF Shl32, Word32
<1>8. QED
  BY <1>2, <1>6, <1>7

\* The hash of a word is a word.
LEMMA HashType ==
  ASSUME NEW a \in Word16Bits
  PROVE  hash(a) \in Word16Bits
<1> DEFINE w == <<0, a>>
           c1 == <<32469, 23830>>
           c2 == <<51041, 49724>>
           c3 == <<5718, 26545>>
           c4 == <<54178, 25708>>
           c5 == <<64880, 18117>>
           c6 == <<46426, 20233>>
           t1 == Add32(Add32(w, c1), Shl32(w, 4096))
           d1 == <<0, t1[1] \div 8>>
           t2 == Xor32(Xor32(w, c2), d1)
           t3 == Add32(Add32(w, c3), Shl32(t2, 32))
           t4 == Xor32(Add32(w, c4), Shl32(t3, 512))
           t5 == Add32(Add32(w, c5), Shl32(t4, 8))
           d5 == <<0, t5[1]>>
           t6 == Xor32(Xor32(w, c6), d5)
<1>1. /\ w \in Word32 /\ c1 \in Word32 /\ c2 \in Word32 /\ c3 \in Word32
      /\ c4 \in Word32 /\ c5 \in Word32 /\ c6 \in Word32
  BY WordRange DEF Word32
<1>2. hash(a) = t6[2]
  BY DEF hash
<1> HIDE DEF w, c1, c2, c3, c4, c5, c6
<1>3. t1 \in Word32
  BY <1>1, WordsType, 4096 \in Nat
<1> HIDE DEF t1
<1>4. d1 \in Word32
  <2>1. t1[1] \in Word16Bits
    BY <1>3 DEF Word32
  <2>2. t1[1] \div 8 \in Word16Bits /\ 0 \in Word16Bits
    BY <2>1, Shifted, WordRange
  <2>3. QED
    BY <2>2 DEF Word32
<1> HIDE DEF d1
<1>5. t2 \in Word32
  BY <1>1, <1>4, WordsType
<1> HIDE DEF t2
<1>6. t3 \in Word32
  BY <1>1, <1>5, WordsType, 32 \in Nat
<1> HIDE DEF t3
<1>7. t4 \in Word32
  BY <1>1, <1>6, WordsType, 512 \in Nat
<1> HIDE DEF t4
<1>8. t5 \in Word32
  BY <1>1, <1>7, WordsType, 8 \in Nat
<1> HIDE DEF t5
<1>9. d5 \in Word32
  <2>1. t5[1] \in Word16Bits
    BY <1>8 DEF Word32
  <2>2. 0 \in Word16Bits
    BY WordRange
  <2>3. QED
    BY <2>1, <2>2 DEF Word32
<1> HIDE DEF d5
<1>10. t6 \in Word32
  BY <1>1, <1>9, WordsType
<1> HIDE DEF t6
<1>11. QED
  BY <1>2, <1>10 DEF Word32

\* A challenge is a word.
LEMMA RandomType ==
  ASSUME NEW r \in Nat \X Nat
  PROVE  gen_random_num(r) \in Word16Bits
<1>1. \A n \in Nat : n % 255 \in 0..254
  OBVIOUS
<1>2. PICK x \in 0..254, y \in 0..254 : x = r[1] % 255 /\ y = r[2] % 255
  BY <1>1
<1>3. 256 * x + y \in Word16Bits
  <2>1. x \in Byte /\ y \in Byte
    BY ByteRange
  <2>2. QED
    BY <2>1, WordOfBytes
<1>4. QED
  BY <1>2, <1>3 DEF gen_random_num

\* Two bytes of a payload are read as they were written.
LEMMA PairType ==
  ASSUME NEW w \in Word16Bits
  PROVE  /\ Pair(w) \in [1..2 -> Byte]
         /\ Pair(w)[1] + 256 * Pair(w)[2] = w
<1>1. w % 256 \in Byte /\ w \div 256 \in Byte /\ 256 * (w \div 256) + (w % 256) = w
  BY BytesOfWord
<1>2. Pair(w) = <<w % 256, w \div 256>>
  BY DEF Pair, Low, High
<1>3. PICK x \in Byte, y \in Byte : x = w % 256 /\ y = w \div 256
  BY <1>1
<1>4. x + 256 * y = w
  <2>1. x \in Int /\ y \in Int
    BY ByteRange
  <2>2. QED
    BY <1>1, <1>3, <2>1
<1>5. QED
  BY <1>2, <1>3, <1>4

-----------------------------------------------------------------------------
(* CRC *)

\* One bit of the CRC leaves a word.
LEMMA CrcBitType ==
  ASSUME NEW crc \in Word16Bits, NEW bit
  PROVE  CrcBit(crc, bit) \in Word16Bits
<1>1. crc \div 2 \in Word16Bits /\ POLY \in Word16Bits
  BY Shifted, WordRange DEF POLY
<1>2. QED
  BY <1>1, Xor16Type DEF CrcBit

\* One step of CrcByte: the CRC and the rest of the byte.
CrcStep(s) == <<CrcBit(s[1], s[2] % 2), s[2] \div 2>>

\* One byte of the CRC leaves a word.
LEMMA CrcByteType ==
  ASSUME NEW crc \in Word16Bits, NEW byte \in Byte
  PROVE  CrcByte(crc, byte) \in Word16Bits
<1> DEFINE A == Word16Bits \X Byte
           x == <<crc, byte>>
           G == [p \in (1..8) \X A |-> CrcStep(p[2])]
           f == CHOOSE after : after = [i \in 0..8 |->
                  IF i = 0 THEN <<crc, byte>>
                  ELSE With(after[i - 1], LAMBDA s : <<CrcBit(s[1], s[2] % 2), s[2] \div 2>>)]
           S == [i \in 0..8 |-> A]
<1>1. ASSUME NEW s \in A PROVE CrcStep(s) \in A
  <2>1. s[1] \in Word16Bits /\ s[2] \in Byte
    OBVIOUS
  <2>2. s[2] \div 2 \in Byte
    <3>1. s[2] \in Int /\ 0 <= s[2] /\ s[2] <= 255
      BY <2>1, ByteRange
    <3>2. s[2] \div 2 \in Int /\ 0 <= s[2] \div 2 /\ s[2] \div 2 <= 255
      BY <3>1
    <3>3. QED
      BY <3>2, ByteRange
  <2>3. CrcBit(s[1], s[2] % 2) \in Word16Bits
    BY <2>1, CrcBitType
  <2>4. QED
    BY <2>2, <2>3 DEF CrcStep
<1>2. x \in A /\ 8 \in Nat
  OBVIOUS
<1>3. CrcByte(crc, byte) = f[8][1]
  BY DEF CrcByte
<1> HIDE DEF A
<1>4. G \in [(1..8) \X A -> A]
  <2>1. \A p \in (1..8) \X A : CrcStep(p[2]) \in A
    BY <1>1
  <2>2. QED
    BY <2>1
<1>5. PICK g \in [0..8 -> A] : Iterates(g, x, G, 8)
  <2> HIDE DEF G, x
  <2> QED BY <1>2, <1>4, IterationExists
<1>6. ASSUME NEW s
      PROVE  With(s, LAMBDA t : <<CrcBit(t[1], t[2] % 2), t[2] \div 2>>) = CrcStep(s)
  BY DEF With, CrcStep
<1>7. g = [i \in 0..8 |->
            IF i = 0 THEN <<crc, byte>>
            ELSE With(g[i - 1], LAMBDA s : <<CrcBit(s[1], s[2] % 2), s[2] \div 2>>)]
  <2>1. ASSUME NEW i \in 0..8
        PROVE  g[i] = IF i = 0 THEN <<crc, byte>>
                      ELSE With(g[i - 1], LAMBDA s : <<CrcBit(s[1], s[2] % 2), s[2] \div 2>>)
    <3>1. CASE i = 0
      BY <1>5, <3>1 DEF Iterates
    <3>2. CASE i # 0
      <4>1. i \in 1..8 /\ i - 1 \in 0..8
        BY <3>2
      <4>2. g[i] = G[<<i, g[i - 1]>>] /\ g[i - 1] \in A
        <5> HIDE DEF G
        <5> QED BY <1>5, <3>2, <4>1 DEF Iterates
      <4>3. <<i, g[i - 1]>> \in (1..8) \X A
        BY <4>1, <4>2
      <4>4. g[i] = CrcStep(g[i - 1])
        BY <4>2, <4>3
      <4>5. QED
        BY <1>6, <3>2, <4>4
    <3>3. QED
      BY <3>1, <3>2
  <2>2. QED
    BY <2>1
<1>8. f = [i \in 0..8 |->
            IF i = 0 THEN <<crc, byte>>
            ELSE With(f[i - 1], LAMBDA s : <<CrcBit(s[1], s[2] % 2), s[2] \div 2>>)]
  BY <1>7
<1> HIDE DEF f, G
<1>9. f[0] \in S[0]
  <2>1. 0 \in 0..8
    OBVIOUS
  <2>2. f[0] = x
    BY <1>8, <2>1, Zenon
  <2>3. QED
    BY <1>2, <2>2
<1>10. ASSUME NEW i \in 1..8, f[i - 1] \in S[i - 1] PROVE f[i] \in S[i]
  <2>1. i \in 0..8 /\ i # 0 /\ i - 1 \in 0..8
    OBVIOUS
  <2>2. f[i] = With(f[i - 1], LAMBDA s : <<CrcBit(s[1], s[2] % 2), s[2] \div 2>>)
    BY <1>8, <2>1
  <2>3. f[i] = CrcStep(f[i - 1])
    BY <1>6, <2>2
  <2>4. f[i - 1] \in A
    BY <1>10, <2>1
  <2>5. QED
    BY <1>1, <2>1, <2>3, <2>4
<1>11. f[8] \in A
  <2>1. \A i \in 0..8 : f[i] \in S[i]
    <3> HIDE DEF S
    <3> QED BY <1>2, <1>9, <1>10, IterationStays
  <2>2. QED
    BY <2>1
<1>12. QED
  BY <1>3, <1>11 DEF A

\* The CRC of a sequence of bytes is two bytes.
LEMMA CrcType ==
  ASSUME NEW n \in Nat, NEW data \in [1..n -> Byte]
  PROVE  gen_crc16(data) \in [1..2 -> Byte]
<1> DEFINE x == Word - 1
           G == [p \in (1..n) \X Word16Bits |-> CrcByte(p[2], data[p[1]])]
           f == CHOOSE after : after = [i \in 0..Len(data) |->
                  IF i = 0 THEN Word - 1
                  ELSE With(after[i - 1], LAMBDA c : CrcByte(c, data[i]))]
           S == [i \in 0..n |-> Word16Bits]
<1>1. Len(data) = n
  <2>1. data \in Seq(Byte)
    <3> HIDE DEF Byte
    <3> QED BY SeqDef
  <2>2. QED
    BY <2>1, LenProperties DEF Byte
<1>2. \A i \in 1..n : \A c \in Word16Bits : CrcByte(c, data[i]) \in Word16Bits
  BY CrcByteType
<1>3. x \in Word16Bits
  <2>1. Word \in Int /\ 1 <= Word
    BY DEF Word
  <2>2. QED
    BY <2>1 DEF Word16Bits
<1>4. gen_crc16(data) = With(Word - 1 - f[n], LAMBDA c : <<High(c), Low(c)>>)
  BY <1>1 DEF gen_crc16
<1>5. G \in [(1..n) \X Word16Bits -> Word16Bits]
  BY <1>2
<1>6. PICK g \in [0..n -> Word16Bits] : Iterates(g, x, G, n)
  <2> HIDE DEF G, x
  <2> QED BY <1>3, <1>5, IterationExists
<1>7. ASSUME NEW c, NEW d PROVE With(c, LAMBDA e : CrcByte(e, d)) = CrcByte(c, d)
  BY DEF With
<1>8. g = [i \in 0..n |-> IF i = 0 THEN Word - 1
                          ELSE With(g[i - 1], LAMBDA c : CrcByte(c, data[i]))]
  <2>1. ASSUME NEW i \in 0..n
        PROVE  g[i] = IF i = 0 THEN Word - 1
                      ELSE With(g[i - 1], LAMBDA c : CrcByte(c, data[i]))
    <3>1. CASE i = 0
      BY <1>6, <3>1 DEF Iterates
    <3>2. CASE i # 0
      <4>1. i \in 1..n /\ i - 1 \in 0..n
        BY <3>2
      <4>2. g[i] = G[<<i, g[i - 1]>>] /\ g[i - 1] \in Word16Bits
        <5> HIDE DEF G
        <5> QED BY <1>6, <3>2, <4>1 DEF Iterates
      <4>3. <<i, g[i - 1]>> \in (1..n) \X Word16Bits
        BY <4>1, <4>2
      <4>4. g[i] = CrcByte(g[i - 1], data[i])
        BY <4>2, <4>3
      <4>5. QED
        BY <1>7, <3>2, <4>4
    <3>3. QED
      BY <3>1, <3>2
  <2>2. QED
    BY <2>1
<1>9. f = [i \in 0..n |-> IF i = 0 THEN Word - 1
                          ELSE With(f[i - 1], LAMBDA c : CrcByte(c, data[i]))]
  BY <1>1, <1>8
<1> HIDE DEF f, G
<1>10. f[0] \in S[0]
  <2>1. 0 \in 0..n
    OBVIOUS
  <2>2. f[0] = x
    BY <1>9, <2>1, Zenon
  <2>3. QED
    BY <1>3, <2>1, <2>2
<1>11. ASSUME NEW i \in 1..n, f[i - 1] \in S[i - 1] PROVE f[i] \in S[i]
  <2>1. i \in 0..n /\ i # 0 /\ i - 1 \in 0..n
    OBVIOUS
  <2>2. f[i] = With(f[i - 1], LAMBDA c : CrcByte(c, data[i]))
    BY <1>9, <2>1
  <2>3. f[i] = CrcByte(f[i - 1], data[i])
    BY <1>7, <2>2
  <2>4. f[i - 1] \in Word16Bits
    BY <1>11, <2>1
  <2>5. QED
    BY <1>2, <2>1, <2>3, <2>4
<1>12. f[n] \in Word16Bits
  <2>1. \A i \in 0..n : f[i] \in S[i]
    <3> HIDE DEF S
    <3> QED BY <1>10, <1>11, IterationStays
  <2>2. QED
    BY <2>1
<1>13. PICK c \in Word16Bits : c = Word - 1 - f[n]
  <2>1. Word \in Int
    BY DEF Word
  <2>2. Word - 1 - f[n] \in Word16Bits
    BY <1>12, <2>1 DEF Word16Bits
  <2>3. QED
    BY <2>2
<1>14. gen_crc16(data) = <<High(c), Low(c)>>
  BY <1>4, <1>13 DEF With
<1>15. High(c) \in Byte /\ Low(c) \in Byte
  BY BytesOfWord DEF High, Low
<1>16. QED
  BY <1>14, <1>15

-----------------------------------------------------------------------------
(* Sequences of bytes of a known length *)

Bytes(n) == [1..n -> Byte]

\* The sequences of n bytes.
LEMMA BytesSeq ==
  ASSUME NEW n \in Nat, NEW b
  PROVE  b \in Bytes(n) <=> b \in Seq(Byte) /\ Len(b) = n
<1> HIDE DEF Byte
<1>1. ASSUME b \in Bytes(n) PROVE b \in Seq(Byte) /\ Len(b) = n
  <2>1. b \in [1..n -> Byte]
    BY <1>1 DEF Bytes
  <2>2. b \in Seq(Byte)
    BY <2>1, SeqDef
  <2>3. QED
    BY <2>1, <2>2, LenProperties
<1>2. ASSUME b \in Seq(Byte), Len(b) = n PROVE b \in Bytes(n)
  BY <1>2, LenProperties DEF Bytes
<1>3. QED
  BY <1>1, <1>2

\* The piece of a sequence from i to j.
LEMMA Piece ==
  ASSUME NEW m \in Nat, NEW b \in Bytes(m), NEW i \in 1..m, NEW j \in i..m
  PROVE  /\ SubSeq(b, i, j) \in Bytes(j - i + 1)
         /\ \A k \in 1..(j - i + 1) : SubSeq(b, i, j)[k] = b[i + k - 1]
<1>1. j \in Nat /\ i <= j /\ j <= m
  OBVIOUS
<1>2. QED
  BY <1>1, PieceType DEF Bytes

\* Two sequences one behind the other.
LEMMA Join ==
  ASSUME NEW m \in Nat, NEW n \in Nat, NEW b \in Bytes(m), NEW c \in Bytes(n)
  PROVE  /\ b \o c \in Bytes(m + n)
         /\ \A k \in 1..m : (b \o c)[k] = b[k]
         /\ \A k \in 1..n : (b \o c)[m + k] = c[k]
<1>1. /\ b \o c \in [1..(m + n) -> Byte]
      /\ \A k \in 1..(m + n) : (b \o c)[k] = IF k <= m THEN b[k] ELSE c[k - m]
  BY JoinType DEF Bytes
<1>2. ASSUME NEW k \in 1..m PROVE (b \o c)[k] = b[k]
  <2>1. k \in 1..(m + n) /\ k <= m
    OBVIOUS
  <2>2. QED
    BY <1>1, <2>1
<1>3. ASSUME NEW k \in 1..n PROVE (b \o c)[m + k] = c[k]
  <2>1. m + k \in 1..(m + n) /\ ~(m + k <= m) /\ (m + k) - m = k
    OBVIOUS
  <2>2. QED
    BY <1>1, <2>1
<1>4. QED
  BY <1>1, <1>2, <1>3 DEF Bytes

\* The two are found again, and so is every piece of the first.
LEMMA JoinPieces ==
  ASSUME NEW m \in Nat, NEW n \in Nat \ {0}, NEW b \in Bytes(m), NEW c \in Bytes(n)
  PROVE  /\ \A i \in 1..m : \A j \in i..m : SubSeq(b \o c, i, j) = SubSeq(b, i, j)
         /\ SubSeq(b \o c, m + 1, m + n) = c
         /\ m > 0 => SubSeq(b \o c, 1, m) = b
<1>1. PICK s \in Bytes(m + n) :
        /\ s = b \o c
        /\ \A k \in 1..m : s[k] = b[k]
        /\ \A k \in 1..n : s[m + k] = c[k]
  BY Join
<1>2. ASSUME NEW i \in 1..m, NEW j \in i..m PROVE SubSeq(s, i, j) = SubSeq(b, i, j)
  <2>1. i \in 1..(m + n) /\ j \in i..(m + n) /\ m + n \in Nat
    OBVIOUS
  <2>2. /\ SubSeq(s, i, j) \in Bytes(j - i + 1)
        /\ \A k \in 1..(j - i + 1) : SubSeq(s, i, j)[k] = s[i + k - 1]
    BY <2>1, Piece
  <2>3. /\ SubSeq(b, i, j) \in Bytes(j - i + 1)
        /\ \A k \in 1..(j - i + 1) : SubSeq(b, i, j)[k] = b[i + k - 1]
    BY Piece
  <2>4. \A k \in 1..(j - i + 1) : i + k - 1 \in 1..m
    OBVIOUS
  <2>5. \A k \in 1..(j - i + 1) : SubSeq(s, i, j)[k] = SubSeq(b, i, j)[k]
    BY <1>1, <2>2, <2>3, <2>4
  <2>6. QED
    BY <2>2, <2>3, <2>5 DEF Bytes
<1>3. SubSeq(s, m + 1, m + n) = c
  <2>1. m + 1 \in 1..(m + n) /\ m + n \in (m + 1)..(m + n) /\ (m + n) - (m + 1) + 1 = n
        /\ m + n \in Nat
    OBVIOUS
  <2>2. /\ SubSeq(s, m + 1, m + n) \in Bytes((m + n) - (m + 1) + 1)
        /\ \A k \in 1..((m + n) - (m + 1) + 1) : SubSeq(s, m + 1, m + n)[k] = s[m + 1 + k - 1]
    BY <2>1, Piece
  <2>3. \A k \in 1..n : m + 1 + k - 1 = m + k
    OBVIOUS
  <2>4. \A k \in 1..n : SubSeq(s, m + 1, m + n)[k] = c[k]
    BY <1>1, <2>1, <2>2, <2>3
  <2>5. SubSeq(s, m + 1, m + n) \in Bytes(n)
    BY <2>1, <2>2, Zenon
  <2>6. QED
    BY <2>4, <2>5 DEF Bytes
<1>4. ASSUME m > 0 PROVE SubSeq(s, 1, m) = b
  <2>1. 1 \in 1..m /\ m \in 1..m /\ m - 1 + 1 = m
    BY <1>4
  <2>2. /\ SubSeq(b, 1, m) \in Bytes(m - 1 + 1)
        /\ \A k \in 1..(m - 1 + 1) : SubSeq(b, 1, m)[k] = b[1 + k - 1]
    BY <2>1, Piece
  <2>3. \A k \in 1..m : SubSeq(b, 1, m)[k] = b[k]
    BY <2>1, <2>2
  <2>4. SubSeq(b, 1, m) = b
    BY <2>1, <2>2, <2>3 DEF Bytes
  <2>5. QED
    BY <1>2, <2>1, <2>4
<1>5. QED
  BY <1>1, <1>2, <1>3, <1>4

\* A sequence is its first part and the rest.
LEMMA Parted ==
  ASSUME NEW m \in Nat, NEW b \in Bytes(m), NEW i \in 1..m, NEW j \in i..(m - 1),
         NEW k \in (j + 1)..m
  PROVE  SubSeq(b, i, j) \o SubSeq(b, j + 1, k) = SubSeq(b, i, k)
<1>1. b \in Seq(Byte) /\ Len(b) = m
  BY BytesSeq
<1>2. QED
  <2> HIDE DEF Byte
  <2>1. i \in 1..(Len(b) + 1) /\ j \in (i - 1)..Len(b) /\ k \in j..Len(b)
    BY <1>1
  <2>2. QED
    BY <1>1, <2>1, ConcatAdjacentSubSeq

-----------------------------------------------------------------------------
(* Layout *)

FrameType == [sfd : Byte, len : Byte, seq : Bytes(4), state : Byte, cmd : Byte,
              payload_data : Bytes(16), ipv6_source_addr : Bytes(16),
              ipv6_dest_addr : Bytes(16), for_future : Bytes(6), crc : Bytes(2)]

\* The first 62 bytes of a frame: all but the CRC.
Covered(f) ==
  <<f.sfd, f.len>> \o f.seq \o <<f.state, f.cmd>> \o f.payload_data
    \o f.ipv6_source_addr \o f.ipv6_dest_addr \o f.for_future

\* w is the m bytes b and behind them the n bytes c, t in all.
Behind(m, t, b, c, w) ==
  /\ w \in Bytes(t)
  /\ SubSeq(w, m + 1, t) = c
  /\ SubSeq(w, 1, m) = b
  /\ \A k \in 1..m : w[k] = b[k]
  /\ \A i \in 1..m : \A j \in i..m : SubSeq(w, i, j) = SubSeq(b, i, j)

\* A concatenation has the one behind the other.
LEMMA JoinBehind ==
  ASSUME NEW m \in Nat \ {0}, NEW n \in Nat \ {0},
         NEW b \in Bytes(m), NEW c \in Bytes(n)
  PROVE  Behind(m, m + n, b, c, b \o c)
<1>1. m \in Nat /\ m > 0 /\ n \in Nat
  OBVIOUS
<1>2. /\ b \o c \in Bytes(m + n)
      /\ \A k \in 1..m : (b \o c)[k] = b[k]
      /\ \A k \in 1..n : (b \o c)[m + k] = c[k]
  BY <1>1, Join
<1>3. /\ \A i \in 1..m : \A j \in i..m : SubSeq(b \o c, i, j) = SubSeq(b, i, j)
      /\ SubSeq(b \o c, m + 1, m + n) = c
      /\ SubSeq(b \o c, 1, m) = b
  BY <1>1, JoinPieces
<1>4. QED
  BY <1>2, <1>3 DEF Behind

\* Where the fields of a frame lie.
LEMMA Layout ==
  ASSUME NEW f \in FrameType
  PROVE  LET b == Packed(f)
         IN  /\ b \in Bytes(64)
             /\ b[1] = f.sfd /\ b[2] = f.len /\ SubSeq(b, 3, 6) = f.seq
             /\ b[7] = f.state /\ b[8] = f.cmd /\ SubSeq(b, 9, 24) = f.payload_data
             /\ SubSeq(b, 25, 40) = f.ipv6_source_addr /\ SubSeq(b, 41, 56) = f.ipv6_dest_addr
             /\ SubSeq(b, 57, 62) = f.for_future /\ SubSeq(b, 63, 64) = f.crc
             /\ SubSeq(b, 1, 62) = Covered(f) /\ Covered(f) \in Bytes(62)
<1> DEFINE a2 == <<f.sfd, f.len>>
           a6 == a2 \o f.seq
           h == <<f.state, f.cmd>>
           a8 == a6 \o h
           a24 == a8 \o f.payload_data
           a40 == a24 \o f.ipv6_source_addr
           a56 == a40 \o f.ipv6_dest_addr
           a62 == a56 \o f.for_future
           a64 == a62 \o f.crc
<1>1. /\ f.sfd \in Byte /\ f.len \in Byte /\ f.seq \in Bytes(4) /\ f.state \in Byte
      /\ f.cmd \in Byte /\ f.payload_data \in Bytes(16) /\ f.ipv6_source_addr \in Bytes(16)
      /\ f.ipv6_dest_addr \in Bytes(16) /\ f.for_future \in Bytes(6) /\ f.crc \in Bytes(2)
  <2> HIDE DEF Byte
  <2> QED BY DEF FrameType
<1>2. a2 \in Bytes(2) /\ a2[1] = f.sfd /\ a2[2] = f.len
  <2> HIDE DEF Byte
  <2> QED BY <1>1 DEF Bytes
<1>3. h \in Bytes(2) /\ h[1] = f.state /\ h[2] = f.cmd
  <2> HIDE DEF Byte
  <2> QED BY <1>1 DEF Bytes
<1>4. Packed(f) = a64 /\ Covered(f) = a62
  BY DEF Packed, Covered
<1> HIDE DEF a2, h
<1>5. Behind(2, 6, a2, f.seq, a6)
  <2>1. 2 \in Nat \ {0} /\ 4 \in Nat \ {0} /\ 6 \in Nat /\ 6 = 2 + 4
    OBVIOUS
  <2>2. a2 \in Bytes(2) /\ f.seq \in Bytes(4)
    BY <1>1, <1>2
  <2>3. Behind(2, 6, a2, f.seq, a2 \o f.seq)
    BY <2>1, <2>2, JoinBehind, Zenon
  <2>4. QED
    BY <2>3
<1> HIDE DEF a6
<1>6. Behind(6, 8, a6, h, a8)
  <2>1. 6 \in Nat \ {0} /\ 2 \in Nat \ {0} /\ 8 \in Nat /\ 8 = 6 + 2
    OBVIOUS
  <2>2. a6 \in Bytes(6) /\ h \in Bytes(2)
    BY <1>3, <1>5 DEF Behind
  <2>3. Behind(6, 8, a6, h, a6 \o h)
    BY <2>1, <2>2, JoinBehind, Zenon
  <2>4. QED
    BY <2>3
<1> HIDE DEF a8
<1>7. Behind(8, 24, a8, f.payload_data, a24)
  <2>1. 8 \in Nat \ {0} /\ 16 \in Nat \ {0} /\ 24 \in Nat /\ 24 = 8 + 16
    OBVIOUS
  <2>2. a8 \in Bytes(8) /\ f.payload_data \in Bytes(16)
    BY <1>1, <1>6 DEF Behind
  <2>3. Behind(8, 24, a8, f.payload_data, a8 \o f.payload_data)
    BY <2>1, <2>2, JoinBehind, Zenon
  <2>4. QED
    BY <2>3
<1> HIDE DEF a24
<1>8. Behind(24, 40, a24, f.ipv6_source_addr, a40)
  <2>1. 24 \in Nat \ {0} /\ 16 \in Nat \ {0} /\ 40 \in Nat /\ 40 = 24 + 16
    OBVIOUS
  <2>2. a24 \in Bytes(24) /\ f.ipv6_source_addr \in Bytes(16)
    BY <1>1, <1>7 DEF Behind
  <2>3. Behind(24, 40, a24, f.ipv6_source_addr, a24 \o f.ipv6_source_addr)
    BY <2>1, <2>2, JoinBehind, Zenon
  <2>4. QED
    BY <2>3
<1> HIDE DEF a40
<1>9. Behind(40, 56, a40, f.ipv6_dest_addr, a56)
  <2>1. 40 \in Nat \ {0} /\ 16 \in Nat \ {0} /\ 56 \in Nat /\ 56 = 40 + 16
    OBVIOUS
  <2>2. a40 \in Bytes(40) /\ f.ipv6_dest_addr \in Bytes(16)
    BY <1>1, <1>8 DEF Behind
  <2>3. Behind(40, 56, a40, f.ipv6_dest_addr, a40 \o f.ipv6_dest_addr)
    BY <2>1, <2>2, JoinBehind, Zenon
  <2>4. QED
    BY <2>3
<1> HIDE DEF a56
<1>10. Behind(56, 62, a56, f.for_future, a62)
  <2>1. 56 \in Nat \ {0} /\ 6 \in Nat \ {0} /\ 62 \in Nat /\ 62 = 56 + 6
    OBVIOUS
  <2>2. a56 \in Bytes(56) /\ f.for_future \in Bytes(6)
    BY <1>1, <1>9 DEF Behind
  <2>3. Behind(56, 62, a56, f.for_future, a56 \o f.for_future)
    BY <2>1, <2>2, JoinBehind, Zenon
  <2>4. QED
    BY <2>3
<1> HIDE DEF a62
<1>11. Behind(62, 64, a62, f.crc, a64)
  <2>1. 62 \in Nat \ {0} /\ 2 \in Nat \ {0} /\ 64 \in Nat /\ 64 = 62 + 2
    OBVIOUS
  <2>2. a62 \in Bytes(62) /\ f.crc \in Bytes(2)
    BY <1>1, <1>10 DEF Behind
  <2>3. Behind(62, 64, a62, f.crc, a62 \o f.crc)
    BY <2>1, <2>2, JoinBehind, Zenon
  <2>4. QED
    BY <2>3
<1> HIDE DEF a64
<1>12. /\ a64 \in Bytes(64) /\ SubSeq(a64, 63, 64) = f.crc /\ SubSeq(a64, 1, 62) = a62
       /\ \A k \in 1..62 : a64[k] = a62[k]
       /\ \A i \in 1..62 : \A j \in i..62 : SubSeq(a64, i, j) = SubSeq(a62, i, j)
  <2>1. 62 + 1 = 63
    OBVIOUS
  <2>2. QED
    BY <1>11, <2>1, Zenon DEF Behind
<1>13. \A k \in 1..8 : a64[k] = a8[k]
  <2>1. \A k \in 1..8 : k \in 1..24 /\ k \in 1..40 /\ k \in 1..56 /\ k \in 1..62
    OBVIOUS
  <2>2. /\ \A k \in 1..8 : a24[k] = a8[k]
        /\ \A k \in 1..24 : a40[k] = a24[k]
        /\ \A k \in 1..40 : a56[k] = a40[k]
        /\ \A k \in 1..56 : a62[k] = a56[k]
    BY <1>7, <1>8, <1>9, <1>10, Zenon DEF Behind
  <2>3. QED
    BY <1>12, <2>1, <2>2
<1>14. /\ a64[1] = f.sfd /\ a64[2] = f.len /\ a64[7] = f.state /\ a64[8] = f.cmd
  <2>1. 1 \in 1..6 /\ 2 \in 1..6 /\ 1 \in 1..8 /\ 2 \in 1..8 /\ 7 \in 1..8 /\ 8 \in 1..8
        /\ 1 \in 1..2 /\ 2 \in 1..2
    OBVIOUS
  <2>2. a64[1] = f.sfd /\ a64[2] = f.len
    BY <1>2, <1>5, <1>6, <1>13, <2>1, Zenon DEF Behind
  <2>3. a8[7] = h[1] /\ a8[8] = h[2]
    <3>1. a6 \in Bytes(6) /\ h \in Bytes(2) /\ 6 \in Nat /\ 2 \in Nat
      BY <1>3, <1>5 DEF Behind
    <3>2. \A k \in 1..2 : (a6 \o h)[6 + k] = h[k]
      BY <3>1, Join, Zenon
    <3>3. 6 + 1 = 7 /\ 6 + 2 = 8
      OBVIOUS
    <3>4. QED
      BY <2>1, <3>2, <3>3, Zenon DEF a8
  <2>4. QED
    BY <1>3, <1>13, <2>1, <2>2, <2>3, Zenon
<1>15. ASSUME NEW i \in 1..62, NEW j \in i..62 PROVE SubSeq(a64, i, j) = SubSeq(a62, i, j)
  BY <1>12
<1>16. ASSUME NEW i \in 1..56, NEW j \in i..56 PROVE SubSeq(a64, i, j) = SubSeq(a56, i, j)
  <2>1. i \in 1..62 /\ j \in i..62
    OBVIOUS
  <2>2. QED
    BY <1>10, <1>15, <2>1, Zenon DEF Behind
<1>17. ASSUME NEW i \in 1..40, NEW j \in i..40 PROVE SubSeq(a64, i, j) = SubSeq(a40, i, j)
  <2>1. i \in 1..56 /\ j \in i..56
    OBVIOUS
  <2>2. QED
    BY <1>9, <1>16, <2>1, Zenon DEF Behind
<1>18. ASSUME NEW i \in 1..24, NEW j \in i..24 PROVE SubSeq(a64, i, j) = SubSeq(a24, i, j)
  <2>1. i \in 1..40 /\ j \in i..40
    OBVIOUS
  <2>2. QED
    BY <1>8, <1>17, <2>1, Zenon DEF Behind
<1>19. ASSUME NEW i \in 1..8, NEW j \in i..8 PROVE SubSeq(a64, i, j) = SubSeq(a8, i, j)
  <2>1. i \in 1..24 /\ j \in i..24
    OBVIOUS
  <2>2. QED
    BY <1>7, <1>18, <2>1, Zenon DEF Behind
<1>20. /\ SubSeq(a64, 3, 6) = f.seq /\ SubSeq(a64, 9, 24) = f.payload_data
       /\ SubSeq(a64, 25, 40) = f.ipv6_source_addr /\ SubSeq(a64, 41, 56) = f.ipv6_dest_addr
       /\ SubSeq(a64, 57, 62) = f.for_future
  <2>1. /\ 3 \in 1..8 /\ 6 \in 3..8 /\ 3 \in 1..6 /\ 6 \in 3..6
        /\ 9 \in 1..24 /\ 24 \in 9..24 /\ 25 \in 1..40 /\ 40 \in 25..40
        /\ 41 \in 1..56 /\ 56 \in 41..56 /\ 57 \in 1..62 /\ 62 \in 57..62
        /\ 2 + 1 = 3 /\ 8 + 1 = 9 /\ 24 + 1 = 25 /\ 40 + 1 = 41 /\ 56 + 1 = 57
    OBVIOUS
  <2>2. SubSeq(a64, 3, 6) = f.seq
    <3>1. SubSeq(a6, 2 + 1, 6) = f.seq
      BY <1>5, Zenon DEF Behind
    <3>2. \A i \in 1..6 : \A k \in i..6 : SubSeq(a8, i, k) = SubSeq(a6, i, k)
      BY <1>6, Zenon DEF Behind
    <3>3. SubSeq(a64, 3, 6) = SubSeq(a8, 3, 6) /\ SubSeq(a8, 3, 6) = SubSeq(a6, 3, 6)
      BY <1>19, <2>1, <3>2, Zenon
    <3>4. QED
      BY <2>1, <3>1, <3>3, Zenon
  <2>3. SubSeq(a64, 9, 24) = f.payload_data
    <3>1. SubSeq(a24, 8 + 1, 24) = f.payload_data
      BY <1>7, Zenon DEF Behind
    <3>2. SubSeq(a64, 9, 24) = SubSeq(a24, 9, 24)
      BY <1>18, <2>1, Zenon
    <3>3. QED
      BY <2>1, <3>1, <3>2, Zenon
  <2>4. SubSeq(a64, 25, 40) = f.ipv6_source_addr
    <3>1. SubSeq(a40, 24 + 1, 40) = f.ipv6_source_addr
      BY <1>8, Zenon DEF Behind
    <3>2. SubSeq(a64, 25, 40) = SubSeq(a40, 25, 40)
      BY <1>17, <2>1, Zenon
    <3>3. QED
      BY <2>1, <3>1, <3>2, Zenon
  <2>5. SubSeq(a64, 41, 56) = f.ipv6_dest_addr
    <3>1. SubSeq(a56, 40 + 1, 56) = f.ipv6_dest_addr
      BY <1>9, Zenon DEF Behind
    <3>2. SubSeq(a64, 41, 56) = SubSeq(a56, 41, 56)
      BY <1>16, <2>1, Zenon
    <3>3. QED
      BY <2>1, <3>1, <3>2, Zenon
  <2>6. SubSeq(a64, 57, 62) = f.for_future
    <3>1. SubSeq(a62, 56 + 1, 62) = f.for_future
      BY <1>10, Zenon DEF Behind
    <3>2. SubSeq(a64, 57, 62) = SubSeq(a62, 57, 62)
      BY <1>15, <2>1, Zenon
    <3>3. QED
      BY <2>1, <3>1, <3>2, Zenon
  <2>7. QED
    BY <2>2, <2>3, <2>4, <2>5, <2>6
<1>21. a62 \in Bytes(62)
  BY <1>10 DEF Behind
<1>22. QED
  BY <1>4, <1>12, <1>14, <1>20, <1>21, Zenon

\* What is parsed is what was packed; the top byte of the number is lost.
LEMMA ParseIsPacked ==
  ASSUME NEW f \in FrameType
  PROVE  parse_64(Packed(f)) = [f EXCEPT !.seq[4] = 0]
<1>1. PICK b : b = Packed(f)
  OBVIOUS
<1>2. /\ b \in Bytes(64) /\ b[1] = f.sfd /\ b[2] = f.len /\ SubSeq(b, 3, 6) = f.seq
      /\ b[7] = f.state /\ b[8] = f.cmd /\ SubSeq(b, 9, 24) = f.payload_data
      /\ SubSeq(b, 25, 40) = f.ipv6_source_addr /\ SubSeq(b, 41, 56) = f.ipv6_dest_addr
      /\ SubSeq(b, 57, 62) = f.for_future /\ SubSeq(b, 63, 64) = f.crc
  BY <1>1, Layout
<1>3. b[3] = f.seq[1] /\ b[4] = f.seq[2] /\ b[5] = f.seq[3]
  <2>1. 64 \in Nat /\ 3 \in 1..64 /\ 6 \in 3..64
    OBVIOUS
  <2>2. \A k \in 1..(6 - 3 + 1) : SubSeq(b, 3, 6)[k] = b[3 + k - 1]
    BY <1>2, <2>1, Piece
  <2>3. /\ 1 \in 1..(6 - 3 + 1) /\ 2 \in 1..(6 - 3 + 1) /\ 3 \in 1..(6 - 3 + 1)
        /\ 3 + 1 - 1 = 3 /\ 3 + 2 - 1 = 4 /\ 3 + 3 - 1 = 5
    OBVIOUS
  <2>4. QED
    BY <1>2, <2>2, <2>3, Zenon
<1>4. parse_64(b) =
        [sfd |-> f.sfd, len |-> f.len, seq |-> <<f.seq[1], f.seq[2], f.seq[3], 0>>,
         state |-> f.state, cmd |-> f.cmd, payload_data |-> f.payload_data,
         ipv6_source_addr |-> f.ipv6_source_addr, ipv6_dest_addr |-> f.ipv6_dest_addr,
         for_future |-> f.for_future, crc |-> f.crc]
  BY <1>2, <1>3, Zenon DEF parse_64
<1>5. <<f.seq[1], f.seq[2], f.seq[3], 0>> = [f.seq EXCEPT ![4] = 0]
  <2>1. f.seq \in [1..4 -> Byte]
    <3> HIDE DEF Byte
    <3> QED BY DEF FrameType, Bytes
  <2>2. QED
    <3> HIDE DEF Byte
    <3> QED BY <2>1
<1>6. [f EXCEPT !.seq[4] = 0] =
        [sfd |-> f.sfd, len |-> f.len, seq |-> [f.seq EXCEPT ![4] = 0],
         state |-> f.state, cmd |-> f.cmd, payload_data |-> f.payload_data,
         ipv6_source_addr |-> f.ipv6_source_addr, ipv6_dest_addr |-> f.ipv6_dest_addr,
         for_future |-> f.for_future, crc |-> f.crc]
  BY DEF FrameType
<1>7. QED
  BY <1>1, <1>4, <1>5, <1>6

\* What prepare2send makes is a frame with its CRC, whatever it is given.
LEMMA Prepared ==
  ASSUME NEW src \in Bytes(16), NEW dst \in Bytes(16), NEW seq \in Bytes(4), NEW state \in Byte,
         NEW cmd \in Byte, NEW data \in Bytes(16), NEW future \in Bytes(6)
  PROVE  LET f == prepare2send(src, dst, seq, state, cmd, data, future)
         IN  /\ f \in FrameType
             /\ check_crc16(Packed(f))
             /\ f.cmd = cmd /\ f.payload_data = data /\ f.for_future = future
<1> DEFINE g == [sfd |-> SFD, len |-> MAX_LEN, seq |-> seq, state |-> state,
                 cmd |-> cmd, payload_data |-> data, ipv6_source_addr |-> src,
                 ipv6_dest_addr |-> dst, for_future |-> future, crc |-> Zeros(2)]
           c == gen_crc16(SubSeq(Packed(g), 1, 62))
           f == [g EXCEPT !.crc = c]
<1>1. g \in FrameType
  <2>1. SFD \in Byte /\ MAX_LEN \in Byte
    BY DEF SFD, MAX_LEN, Byte
  <2>2. Zeros(2) \in Bytes(2)
    BY DEF Zeros, Bytes, Byte
  <2>3. QED
    <3> HIDE DEF Byte
    <3> QED BY <2>1, <2>2 DEF FrameType
<1>2. prepare2send(src, dst, seq, state, cmd, data, future) = f
  BY DEF prepare2send
<1>3. /\ f.sfd = g.sfd /\ f.len = g.len /\ f.seq = g.seq /\ f.state = g.state /\ f.cmd = g.cmd
      /\ f.payload_data = g.payload_data /\ f.ipv6_source_addr = g.ipv6_source_addr
      /\ f.ipv6_dest_addr = g.ipv6_dest_addr /\ f.for_future = g.for_future /\ f.crc = c
      /\ g.cmd = cmd /\ g.payload_data = data /\ g.for_future = future
  <2> HIDE DEF c
  <2> QED OBVIOUS
<1>4. SubSeq(Packed(g), 1, 62) = Covered(g) /\ Covered(g) \in Bytes(62)
  <2> HIDE DEF g
  <2> QED BY <1>1, Layout
<1>5. c \in Bytes(2)
  <2> HIDE DEF g
  <2>1. Covered(g) \in [1..62 -> Byte] /\ 62 \in Nat
    BY <1>4 DEF Bytes
  <2>2. gen_crc16(Covered(g)) \in [1..2 -> Byte]
    BY <2>1, CrcType
  <2>3. QED
    BY <1>4, <2>2 DEF Bytes
<1> HIDE DEF c
<1>6. f \in FrameType
  <2> HIDE DEF g, Byte
  <2> QED BY <1>1, <1>5 DEF FrameType
<1>7. Covered(f) = Covered(g)
  <2> HIDE DEF f, g
  <2> QED BY <1>3 DEF Covered
<1> HIDE DEF f, g
<1>8. SubSeq(Packed(f), 1, 62) = Covered(f) /\ SubSeq(Packed(f), 63, 64) = f.crc
  BY <1>6, Layout
<1>9. check_crc16(Packed(f))
  BY <1>3, <1>4, <1>7, <1>8 DEF check_crc16, c
<1>10. QED
  BY <1>2, <1>3, <1>6, <1>9

-----------------------------------------------------------------------------
(* Enciphering *)

\* A block of AES is sixteen bytes.
LEMMA BlockIsBytes == BlockBytes = Bytes(16)
  BY DEF BlockBytes, Bytes

\* The ECB programs decipher what they enciphered.
LEMMA EcbInverse ==
  ASSUME NEW b \in Bytes(64), NEW key \in Bytes(16)
  PROVE  AES128_ECB_decrypt(AES128_ECB_encrypt(b, key), key) = b
<1> DEFINE x == SubSeq(b, 1, 8)
           y == SubSeq(b, 9, 24)
           z == SubSeq(b, 25, 64)
           ks == KeyExpansion(key)
           c == Cipher(ks, y)
           xc == x \o c
           e == xc \o z
<1>1. /\ 64 \in Nat /\ 1 \in 1..64 /\ 8 \in 1..64 /\ 9 \in 1..64 /\ 24 \in 9..64 /\ 25 \in 1..64
      /\ 64 \in 25..64 /\ 8 - 1 + 1 = 8 /\ 24 - 9 + 1 = 16 /\ 64 - 25 + 1 = 40
  OBVIOUS
<1>2. x \in Bytes(8) /\ y \in Bytes(16) /\ z \in Bytes(40)
  <2>1. x \in Bytes(8 - 1 + 1)
    BY <1>1, Piece
  <2>2. y \in Bytes(24 - 9 + 1)
    BY <1>1, Piece
  <2>3. z \in Bytes(64 - 25 + 1)
    BY <1>1, Piece
  <2>4. QED
    BY <1>1, <2>1, <2>2, <2>3, Zenon
<1>3. ks \in RoundKeys
  BY KeyExpansionType, BlockIsBytes
<1>4. x \o y \o z = b
  <2>1. x \o y = SubSeq(b, 1, 24)
    <3>1. 64 \in Nat /\ 1 \in 1..64 /\ 8 \in 1..(64 - 1) /\ 24 \in (8 + 1)..64 /\ 8 + 1 = 9
      OBVIOUS
    <3>2. SubSeq(b, 1, 8) \o SubSeq(b, 8 + 1, 24) = SubSeq(b, 1, 24)
      BY <3>1, Parted, Zenon
    <3>3. QED
      BY <3>1, <3>2, Zenon
  <2>2. SubSeq(b, 1, 24) \o z = SubSeq(b, 1, 64)
    <3>1. 64 \in Nat /\ 1 \in 1..64 /\ 24 \in 1..(64 - 1) /\ 64 \in (24 + 1)..64 /\ 24 + 1 = 25
      OBVIOUS
    <3>2. SubSeq(b, 1, 24) \o SubSeq(b, 24 + 1, 64) = SubSeq(b, 1, 64)
      BY <3>1, Parted, Zenon
    <3>3. QED
      BY <3>1, <3>2, Zenon
  <2>3. SubSeq(b, 1, 64) = b
    <3>1. b \in Seq(Byte) /\ Len(b) = 64
      BY BytesSeq, 64 \in Nat
    <3>2. QED
      <4> HIDE DEF Byte
      <4> QED BY <3>1, SubSeqFull
  <2>4. QED
    BY <2>1, <2>2, <2>3
<1> HIDE DEF x, y, z, ks
<1>5. c \in Bytes(16) /\ InvCipher(ks, c) = y
  BY <1>2, <1>3, CipherInverse, BlockIsBytes
<1> HIDE DEF c
<1>6. Behind(8, 24, x, c, xc)
  <2>1. 8 \in Nat \ {0} /\ 16 \in Nat \ {0} /\ 8 + 16 = 24
    OBVIOUS
  <2>2. Behind(8, 8 + 16, x, c, x \o c)
    BY <1>2, <1>5, <2>1, JoinBehind, Zenon
  <2>3. QED
    BY <2>1, <2>2, Zenon
<1> HIDE DEF xc
<1>7. Behind(24, 64, xc, z, e)
  <2>1. 24 \in Nat \ {0} /\ 40 \in Nat \ {0} /\ 24 + 40 = 64 /\ xc \in Bytes(24)
    BY <1>6 DEF Behind
  <2>2. Behind(24, 24 + 40, xc, z, xc \o z)
    BY <1>2, <2>1, JoinBehind, Zenon
  <2>3. QED
    BY <2>1, <2>2, Zenon
<1> HIDE DEF e
<1>8. SubSeq(e, 1, 8) = x /\ SubSeq(e, 9, 24) = c /\ SubSeq(e, 25, 64) = z
  <2>1. 1 \in 1..24 /\ 8 \in 1..24 /\ 9 \in 1..24 /\ 24 \in 9..24 /\ 8 + 1 = 9 /\ 24 + 1 = 25
    OBVIOUS
  <2>2. SubSeq(e, 24 + 1, 64) = z /\ SubSeq(xc, 8 + 1, 24) = c /\ SubSeq(xc, 1, 8) = x
    BY <1>6, <1>7, Zenon DEF Behind
  <2>3. \A i \in 1..24 : \A j \in i..24 : SubSeq(e, i, j) = SubSeq(xc, i, j)
    BY <1>7, Zenon DEF Behind
  <2>4. SubSeq(e, 1, 8) = SubSeq(xc, 1, 8) /\ SubSeq(e, 9, 24) = SubSeq(xc, 9, 24)
    BY <2>1, <2>3, Zenon
  <2>5. QED
    BY <2>1, <2>2, <2>4, Zenon
<1>9. AES128_ECB_encrypt(b, key) = e
  BY DEF AES128_ECB_encrypt, e, xc, x, c, ks, y, z
<1>10. AES128_ECB_decrypt(e, key) = x \o y \o z
  BY <1>5, <1>8 DEF AES128_ECB_decrypt, ks
<1>11. QED
  BY <1>4, <1>9, <1>10

\* Four blocks one behind the other, and where they lie.
LEMMA FourBlocks ==
  ASSUME NEW c1 \in Bytes(16), NEW c2 \in Bytes(16), NEW c3 \in Bytes(16), NEW c4 \in Bytes(16)
  PROVE  LET d == c1 \o c2 \o c3 \o c4
         IN  /\ d \in Bytes(64)
             /\ Block(d, 1) = c1 /\ Block(d, 2) = c2 /\ Block(d, 3) = c3 /\ Block(d, 4) = c4
<1> DEFINE d2 == c1 \o c2
           d3 == d2 \o c3
           d4 == d3 \o c4
<1>1. Behind(16, 32, c1, c2, d2)
  <2>1. 16 \in Nat \ {0} /\ 16 \in Nat \ {0} /\ 16 + 16 = 32
    OBVIOUS
  <2>2. c1 \in Bytes(16)
    OBVIOUS
  <2>3. Behind(16, 16 + 16, c1, c2, c1 \o c2)
    BY <2>1, <2>2, JoinBehind, Zenon
  <2>4. QED
    BY <2>1, <2>3, Zenon
<1> HIDE DEF d2
<1>2. Behind(32, 48, d2, c3, d3)
  <2>1. 32 \in Nat \ {0} /\ 16 \in Nat \ {0} /\ 32 + 16 = 48
    OBVIOUS
  <2>2. d2 \in Bytes(32)
    BY <1>1 DEF Behind
  <2>3. Behind(32, 32 + 16, d2, c3, d2 \o c3)
    BY <2>1, <2>2, JoinBehind, Zenon
  <2>4. QED
    BY <2>1, <2>3, Zenon
<1> HIDE DEF d3
<1>3. Behind(48, 64, d3, c4, d4)
  <2>1. 48 \in Nat \ {0} /\ 16 \in Nat \ {0} /\ 48 + 16 = 64
    OBVIOUS
  <2>2. d3 \in Bytes(48)
    BY <1>2 DEF Behind
  <2>3. Behind(48, 48 + 16, d3, c4, d3 \o c4)
    BY <2>1, <2>2, JoinBehind, Zenon
  <2>4. QED
    BY <2>1, <2>3, Zenon
<1> HIDE DEF d4
<1>4. /\ SubSeq(d2, 1, 16) = c1 /\ SubSeq(d2, 16 + 1, 32) = c2
      /\ SubSeq(d3, 32 + 1, 48) = c3 /\ SubSeq(d4, 48 + 1, 64) = c4
      /\ \A i \in 1..32 : \A j \in i..32 : SubSeq(d3, i, j) = SubSeq(d2, i, j)
      /\ \A i \in 1..48 : \A j \in i..48 : SubSeq(d4, i, j) = SubSeq(d3, i, j)
      /\ d4 \in Bytes(64)
  BY <1>1, <1>2, <1>3, Zenon DEF Behind
<1>5. /\ 1 \in 1..32 /\ 16 \in 1..32 /\ 17 \in 1..32 /\ 32 \in 17..32
      /\ 1 \in 1..48 /\ 16 \in 1..48 /\ 17 \in 1..48 /\ 32 \in 17..48 /\ 33 \in 1..48
      /\ 48 \in 33..48
      /\ 16 + 1 = 17 /\ 32 + 1 = 33 /\ 48 + 1 = 49
      /\ 16 * 1 - 15 = 1 /\ 16 * 1 = 16 /\ 16 * 2 - 15 = 17 /\ 16 * 2 = 32
      /\ 16 * 3 - 15 = 33 /\ 16 * 3 = 48 /\ 16 * 4 - 15 = 49 /\ 16 * 4 = 64
  OBVIOUS
<1>6. SubSeq(d4, 1, 16) = c1
  <2>1. SubSeq(d4, 1, 16) = SubSeq(d3, 1, 16) /\ SubSeq(d3, 1, 16) = SubSeq(d2, 1, 16)
    BY <1>4, <1>5, Zenon
  <2>2. QED
    BY <1>4, <2>1, Zenon
<1>7. SubSeq(d4, 17, 32) = c2
  <2>1. SubSeq(d4, 17, 32) = SubSeq(d3, 17, 32) /\ SubSeq(d3, 17, 32) = SubSeq(d2, 17, 32)
    BY <1>4, <1>5, Zenon
  <2>2. QED
    BY <1>4, <1>5, <2>1, Zenon
<1>8. SubSeq(d4, 33, 48) = c3
  <2>1. SubSeq(d4, 33, 48) = SubSeq(d3, 33, 48)
    BY <1>4, <1>5, Zenon
  <2>2. QED
    BY <1>4, <1>5, <2>1, Zenon
<1>9. SubSeq(d4, 49, 64) = c4
  BY <1>4, <1>5, Zenon
<1>10. Block(d4, 1) = c1 /\ Block(d4, 2) = c2 /\ Block(d4, 3) = c3 /\ Block(d4, 4) = c4
  BY <1>5, <1>6, <1>7, <1>8, <1>9, Zenon DEF Block
<1>11. QED
  BY <1>4, <1>10 DEF d2, d3, d4

\* A frame is its four blocks.
LEMMA OfItsBlocks ==
  ASSUME NEW b \in Bytes(64)
  PROVE  /\ Block(b, 1) \in Bytes(16) /\ Block(b, 2) \in Bytes(16)
         /\ Block(b, 3) \in Bytes(16) /\ Block(b, 4) \in Bytes(16)
         /\ Block(b, 1) \o Block(b, 2) \o Block(b, 3) \o Block(b, 4) = b
<1>1. /\ 16 * 1 - 15 = 1 /\ 16 * 1 = 16 /\ 16 * 2 - 15 = 17 /\ 16 * 2 = 32
      /\ 16 * 3 - 15 = 33 /\ 16 * 3 = 48 /\ 16 * 4 - 15 = 49 /\ 16 * 4 = 64
  OBVIOUS
<1>2. /\ Block(b, 1) = SubSeq(b, 1, 16) /\ Block(b, 2) = SubSeq(b, 17, 32)
      /\ Block(b, 3) = SubSeq(b, 33, 48) /\ Block(b, 4) = SubSeq(b, 49, 64)
  BY <1>1, Zenon DEF Block
<1>3. /\ 64 \in Nat /\ 1 \in 1..64 /\ 16 \in 1..64 /\ 17 \in 1..64 /\ 32 \in 17..64
      /\ 33 \in 1..64 /\ 48 \in 33..64 /\ 49 \in 1..64 /\ 64 \in 49..64
      /\ 16 - 1 + 1 = 16 /\ 32 - 17 + 1 = 16 /\ 48 - 33 + 1 = 16 /\ 64 - 49 + 1 = 16
  OBVIOUS
<1>4. /\ SubSeq(b, 1, 16) \in Bytes(16 - 1 + 1) /\ SubSeq(b, 17, 32) \in Bytes(32 - 17 + 1)
      /\ SubSeq(b, 33, 48) \in Bytes(48 - 33 + 1) /\ SubSeq(b, 49, 64) \in Bytes(64 - 49 + 1)
  BY <1>3, Piece
<1>5. /\ SubSeq(b, 1, 16) \in Bytes(16) /\ SubSeq(b, 17, 32) \in Bytes(16)
      /\ SubSeq(b, 33, 48) \in Bytes(16) /\ SubSeq(b, 49, 64) \in Bytes(16)
  BY <1>3, <1>4, Zenon
<1>6. /\ 1 \in 1..64 /\ 16 \in 1..(64 - 1) /\ 32 \in (16 + 1)..64 /\ 16 + 1 = 17
      /\ 32 \in 1..(64 - 1) /\ 48 \in (32 + 1)..64 /\ 32 + 1 = 33
      /\ 48 \in 1..(64 - 1) /\ 64 \in (48 + 1)..64 /\ 48 + 1 = 49
  OBVIOUS
<1>7. /\ SubSeq(b, 1, 16) \o SubSeq(b, 16 + 1, 32) = SubSeq(b, 1, 32)
      /\ SubSeq(b, 1, 32) \o SubSeq(b, 32 + 1, 48) = SubSeq(b, 1, 48)
      /\ SubSeq(b, 1, 48) \o SubSeq(b, 48 + 1, 64) = SubSeq(b, 1, 64)
  BY <1>3, <1>6, Parted, Zenon
<1>8. SubSeq(b, 1, 64) = b
  <2>1. b \in Seq(Byte) /\ Len(b) = 64
    BY BytesSeq, 64 \in Nat
  <2>2. QED
    <3> HIDE DEF Byte
    <3> QED BY <2>1, SubSeqFull
<1>9. SubSeq(b, 1, 16) \o SubSeq(b, 17, 32) \o SubSeq(b, 33, 48) \o SubSeq(b, 49, 64) = b
  BY <1>6, <1>7, <1>8, Zenon
<1>10. QED
  BY <1>2, <1>5, <1>9, Zenon

\* What encrypt_cbc writes: the initial vector and a block behind the others.
Chunk(b, ks, w, n) == w \o Cipher(ks, XorBytes(Block(b, n), Block(w, n)))

CbcWritten(b, ks) ==
  CHOOSE f : f = [n \in 0..4 |->
    IF n = 0 THEN iv
    ELSE With(f[n - 1], LAMBDA w : w \o Cipher(ks, XorBytes(Block(b, n), Block(w, n))))]

\* encrypt_cbc is what CbcWritten wrote behind the initial vector.
LEMMA EncryptIs ==
  ASSUME NEW b, NEW key
  PROVE  encrypt_cbc(b, key) = SubSeq(CbcWritten(b, KeyExpansion(key))[4], 17, 80)
<1>1. encrypt_cbc(b, key) =
           With(KeyExpansion(key), LAMBDA ks : SubSeq(CbcWritten(b, ks)[4], 17, 80))
  BY DEF encrypt_cbc, CbcWritten
<1>2. With(KeyExpansion(key), LAMBDA ks : SubSeq(CbcWritten(b, ks)[4], 17, 80))
        = SubSeq(CbcWritten(b, KeyExpansion(key))[4], 17, 80)
  BY DEF With
<1>3. QED
  BY <1>1, <1>2

\* decrypt_cbc is four calls for a block each.
LEMMA DecryptIs ==
  ASSUME NEW b, NEW key
  PROVE  LET ks == KeyExpansion(key)
         IN  decrypt_cbc(b, key) =
               CbcDecrypt(ks, iv, Block(b, 1)) \o CbcDecrypt(ks, Block(b, 1), Block(b, 2))
                 \o CbcDecrypt(ks, Block(b, 2), Block(b, 3))
                 \o CbcDecrypt(ks, Block(b, 3), Block(b, 4))
  BY DEF decrypt_cbc, With

\* CbcWritten starts with the initial vector and adds four blocks.
LEMMA CbcWrittenStep ==
  ASSUME NEW b, NEW ks
  PROVE  LET f == CbcWritten(b, ks)
         IN  /\ f[0] = iv /\ f[1] = Chunk(b, ks, f[0], 1) /\ f[2] = Chunk(b, ks, f[1], 2)
             /\ f[3] = Chunk(b, ks, f[2], 3) /\ f[4] = Chunk(b, ks, f[3], 4)
<1> DEFINE f == CbcWritten(b, ks)
           w0 == iv
           w1 == Chunk(b, ks, w0, 1)
           w2 == Chunk(b, ks, w1, 2)
           w3 == Chunk(b, ks, w2, 3)
           w4 == Chunk(b, ks, w3, 4)
           g == [n \in 0..4 |-> IF n = 0 THEN w0 ELSE IF n = 1 THEN w1 ELSE IF n = 2 THEN w2
                                ELSE IF n = 3 THEN w3 ELSE w4]
<1>1. ASSUME NEW w, NEW n
      PROVE  With(w, LAMBDA x : x \o Cipher(ks, XorBytes(Block(b, n), Block(x, n)))) =
           Chunk(b, ks, w, n)
  BY DEF With, Chunk
<1>2. g[0] = w0 /\ g[1] = w1 /\ g[2] = w2 /\ g[3] = w3 /\ g[4] = w4
  <2> HIDE DEF w0, w1, w2, w3, w4
  <2> QED OBVIOUS
<1>3. ASSUME NEW n \in 0..4
      PROVE  g[n] = IF n = 0 THEN w0 ELSE Chunk(b, ks, g[n - 1], n)
  <2> HIDE DEF g
  <2>1. n = 0 \/ n = 1 \/ n = 2 \/ n = 3 \/ n = 4
    OBVIOUS
  <2>2. 1 - 1 = 0 /\ 2 - 1 = 1 /\ 3 - 1 = 2 /\ 4 - 1 = 3 /\ 1 # 0 /\ 2 # 0 /\ 3 # 0 /\ 4 # 0
    OBVIOUS
  <2> HIDE DEF w0
  <2>3. w1 = Chunk(b, ks, w0, 1)
    OBVIOUS
  <2> HIDE DEF w1
  <2>4. w2 = Chunk(b, ks, w1, 2)
    OBVIOUS
  <2> HIDE DEF w2
  <2>5. w3 = Chunk(b, ks, w2, 3)
    OBVIOUS
  <2> HIDE DEF w3
  <2>6. w4 = Chunk(b, ks, w3, 4)
    OBVIOUS
  <2> HIDE DEF w4
  <2>7. QED
    BY <1>2, <2>1, <2>2, <2>3, <2>4, <2>5, <2>6
<1>4. g = [n \in 0..4 |-> IF n = 0 THEN iv
            ELSE With(g[n - 1], LAMBDA w : w \o Cipher(ks, XorBytes(Block(b, n), Block(w, n))))]
  <2>1. ASSUME NEW n \in 0..4
        PROVE  g[n] = IF n = 0 THEN iv
            ELSE With(g[n - 1], LAMBDA w : w \o Cipher(ks, XorBytes(Block(b, n), Block(w, n))))
    <3> HIDE DEF g
    <3> QED BY <1>1, <1>3
  <2>2. g = [n \in 0..4 |-> g[n]]
    OBVIOUS
  <2> HIDE DEF g
  <2>3. QED
    BY <2>1, <2>2
<1>5. f = [n \in 0..4 |-> IF n = 0 THEN iv
            ELSE With(f[n - 1], LAMBDA w : w \o Cipher(ks, XorBytes(Block(b, n), Block(w, n))))]
  <2> HIDE DEF g
  <2> QED BY <1>4 DEF CbcWritten
<1> HIDE DEF f
<1>6. ASSUME NEW n \in 0..4
      PROVE  f[n] = IF n = 0 THEN iv ELSE Chunk(b, ks, f[n - 1], n)
  BY <1>1, <1>5
<1>7. QED
  <2>1. /\ 0 \in 0..4 /\ 1 \in 0..4 /\ 2 \in 0..4 /\ 3 \in 0..4 /\ 4 \in 0..4
        /\ 1 - 1 = 0 /\ 2 - 1 = 1 /\ 3 - 1 = 2 /\ 4 - 1 = 3 /\ 1 # 0 /\ 2 # 0 /\ 3 # 0 /\ 4 # 0
    OBVIOUS
  <2>2. f[0] = iv
    BY <1>6, <2>1
  <2>3. f[1] = Chunk(b, ks, f[1 - 1], 1) /\ f[2] = Chunk(b, ks, f[2 - 1], 2)
        /\ f[3] = Chunk(b, ks, f[3 - 1], 3) /\ f[4] = Chunk(b, ks, f[4 - 1], 4)
    BY <1>6, <2>1
  <2>4. QED
    BY <2>1, <2>2, <2>3, Zenon DEF f

\* One block of CBC, there and back.
LEMMA CbcBlock ==
  ASSUME NEW ks \in RoundKeys, NEW p \in Bytes(16), NEW v \in Bytes(16)
  PROVE  LET c == Cipher(ks, XorBytes(p, v))
         IN  c \in Bytes(16) /\ CbcDecrypt(ks, v, c) = p
<1>1. p \in BlockBytes /\ v \in BlockBytes
  BY BlockIsBytes
<1>2. PICK x \in BlockBytes : x = XorBytes(p, v) /\ XorBytes(x, v) = p
  BY <1>1, XorBytesIs, XorBytesTwice
<1>3. PICK c \in BlockBytes : c = Cipher(ks, x) /\ InvCipher(ks, c) = x
  BY CipherInverse
<1>4. CbcDecrypt(ks, v, c) = p
  BY <1>2, <1>3 DEF CbcDecrypt
<1>5. QED
  BY <1>2, <1>3, <1>4, BlockIsBytes

\* A block written behind n blocks is the next one.
LEMMA BlockBehind ==
  ASSUME NEW n \in Nat \ {0}, NEW w \in Bytes(16 * n), NEW c \in Bytes(16)
  PROVE  w \o c \in Bytes(16 * (n + 1)) /\ Block(w \o c, n + 1) = c
<1>1. PICK m \in Nat \ {0} : m = 16 * n
  OBVIOUS
<1>2. 16 \in Nat \ {0} /\ m + 16 = 16 * (n + 1) /\ m + 1 = 16 * (n + 1) - 15
  BY <1>1
<1>3. w \in Bytes(m)
  BY <1>1
<1>4. Behind(m, m + 16, w, c, w \o c)
  BY <1>2, <1>3, JoinBehind, Zenon
<1>5. w \o c \in Bytes(m + 16) /\ SubSeq(w \o c, m + 1, m + 16) = c
  BY <1>4, Zenon DEF Behind
<1>6. QED
  BY <1>2, <1>5, Zenon DEF Block

\* The blocks that encrypt_cbc writes.
LEMMA CbcBlocks ==
  ASSUME NEW b \in Bytes(64), NEW key \in Bytes(16), NEW ks \in RoundKeys, ks = KeyExpansion(key)
  PROVE  \E c1, c2, c3, c4 \in Bytes(16) :
           /\ c1 = Cipher(ks, XorBytes(Block(b, 1), iv))
           /\ c2 = Cipher(ks, XorBytes(Block(b, 2), c1))
           /\ c3 = Cipher(ks, XorBytes(Block(b, 3), c2))
           /\ c4 = Cipher(ks, XorBytes(Block(b, 4), c3))
           /\ encrypt_cbc(b, key) = c1 \o c2 \o c3 \o c4
<1>2. iv \in Bytes(16)
  BY DEF iv, Bytes, Byte
<1>3. /\ Block(b, 1) \in Bytes(16) /\ Block(b, 2) \in Bytes(16)
      /\ Block(b, 3) \in Bytes(16) /\ Block(b, 4) \in Bytes(16)
  BY OfItsBlocks
<1>4. PICK c1 \in Bytes(16) : c1 = Cipher(ks, XorBytes(Block(b, 1), iv))
  BY <1>2, <1>3, CbcBlock
<1>5. PICK c2 \in Bytes(16) : c2 = Cipher(ks, XorBytes(Block(b, 2), c1))
  BY <1>3, CbcBlock
<1>6. PICK c3 \in Bytes(16) : c3 = Cipher(ks, XorBytes(Block(b, 3), c2))
  BY <1>3, CbcBlock
<1>7. PICK c4 \in Bytes(16) : c4 = Cipher(ks, XorBytes(Block(b, 4), c3))
  BY <1>3, CbcBlock
<1>8. PICK f : /\ f = CbcWritten(b, ks)
               /\ f[0] = iv /\ f[1] = Chunk(b, ks, f[0], 1) /\ f[2] = Chunk(b, ks, f[1], 2)
               /\ f[3] = Chunk(b, ks, f[2], 3) /\ f[4] = Chunk(b, ks, f[3], 4)
  BY CbcWrittenStep
<1>9. PICK w1 : w1 = iv \o c1
  OBVIOUS
<1>10. PICK w2 : w2 = w1 \o c2
  OBVIOUS
<1>11. PICK w3 : w3 = w2 \o c3
  OBVIOUS
<1>12. Block(iv, 1) = iv
  <2>1. iv \in Seq(Byte) /\ Len(iv) = 16
    BY <1>2, BytesSeq, 16 \in Nat
  <2>2. SubSeq(iv, 1, 16) = iv
    <3> HIDE DEF Byte
    <3> QED BY <2>1, SubSeqFull
  <2>3. 16 * 1 - 15 = 1 /\ 16 * 1 = 16
    OBVIOUS
  <2>4. QED
    BY <2>2, <2>3, Zenon DEF Block
<1>13. /\ 1 \in Nat \ {0} /\ 2 \in Nat \ {0} /\ 3 \in Nat \ {0}
       /\ 1 + 1 = 2 /\ 2 + 1 = 3 /\ 3 + 1 = 4 /\ 16 = 16 * 1
  OBVIOUS
<1>14. w1 \in Bytes(16 * 2) /\ Block(w1, 2) = c1
  <2>1. iv \in Bytes(16 * 1)
    BY <1>2, <1>13, Zenon
  <2>2. iv \o c1 \in Bytes(16 * (1 + 1)) /\ Block(iv \o c1, 1 + 1) = c1
    BY <1>13, <2>1, BlockBehind, Zenon
  <2>3. QED
    BY <1>9, <1>13, <2>2, Zenon
<1>15. w2 \in Bytes(16 * 3) /\ Block(w2, 3) = c2
  <2>1. w1 \o c2 \in Bytes(16 * (2 + 1)) /\ Block(w1 \o c2, 2 + 1) = c2
    BY <1>13, <1>14, BlockBehind, Zenon
  <2>2. QED
    BY <1>10, <1>13, <2>1, Zenon
<1>16. w3 \in Bytes(16 * 4) /\ Block(w3, 4) = c3
  <2>1. w2 \o c3 \in Bytes(16 * (3 + 1)) /\ Block(w2 \o c3, 3 + 1) = c3
    BY <1>13, <1>15, BlockBehind, Zenon
  <2>2. QED
    BY <1>11, <1>13, <2>1, Zenon
<1>17. f[4] = w3 \o c4
  <2>1. f[1] = w1
    BY <1>4, <1>8, <1>9, <1>12, Zenon DEF Chunk
  <2>2. f[2] = w2
    BY <1>5, <1>8, <1>10, <1>14, <2>1, Zenon DEF Chunk
  <2>3. f[3] = w3
    BY <1>6, <1>8, <1>11, <1>15, <2>2, Zenon DEF Chunk
  <2>4. QED
    BY <1>7, <1>8, <1>16, <2>3, Zenon DEF Chunk
<1>18. PICK d \in Bytes(64) : d = c1 \o c2 \o c3 \o c4
  BY FourBlocks
<1>19. w3 \o c4 = iv \o d
  <2> DEFINE S == Seq(Byte)
  <2>1. c1 \in S /\ c2 \in S /\ c3 \in S /\ c4 \in S /\ iv \in S
    BY <1>2, BytesSeq, 16 \in Nat
  <2>2. \A x, y \in S : x \o y \in S
    <3> HIDE DEF Byte
    <3> QED BY ConcatProperties
  <2>3. \A x, y, z \in S : (x \o y) \o z = x \o (y \o z)
    <3> HIDE DEF Byte
    <3> QED BY ConcatAssociative
  <2> HIDE DEF S
  <2>4. w2 = iv \o (c1 \o c2)
    BY <1>9, <1>10, <2>1, <2>3, Zenon
  <2>5. w3 = iv \o (c1 \o c2 \o c3)
    <3>1. c1 \o c2 \in S
      BY <2>1, <2>2, Zenon
    <3>2. (iv \o (c1 \o c2)) \o c3 = iv \o ((c1 \o c2) \o c3)
      BY <2>1, <2>3, <3>1, Zenon
    <3>3. QED
      BY <1>11, <2>4, <3>2, Zenon
  <2>6. c1 \o c2 \o c3 \in S
    BY <2>1, <2>2, Zenon
  <2>7. QED
    BY <1>18, <2>1, <2>3, <2>5, <2>6, Zenon
<1>20. SubSeq(iv \o d, 17, 80) = d
  <2>1. 16 \in Nat \ {0} /\ 64 \in Nat \ {0} /\ 16 + 64 = 80 /\ 16 + 1 = 17
    OBVIOUS
  <2>2. Behind(16, 16 + 64, iv, d, iv \o d)
    BY <1>2, <2>1, JoinBehind, Zenon
  <2>3. SubSeq(iv \o d, 16 + 1, 16 + 64) = d
    BY <2>2, Zenon DEF Behind
  <2>4. QED
    BY <2>1, <2>3, Zenon
<1>21. encrypt_cbc(b, key) = d
  BY <1>8, <1>17, <1>19, <1>20, EncryptIs, Zenon
<1>22. QED
  <2>1. encrypt_cbc(b, key) = c1 \o c2 \o c3 \o c4
    BY <1>18, <1>21
  <2>2. WITNESS c1 \in Bytes(16), c2 \in Bytes(16), c3 \in Bytes(16), c4 \in Bytes(16)
  <2>3. QED
    BY <1>4, <1>5, <1>6, <1>7, <2>1

\* The CBC programs decipher what they enciphered, the four calls of the one
\* against the one call of the other.
LEMMA CbcInverse ==
  ASSUME NEW b \in Bytes(64), NEW key \in Bytes(16)
  PROVE  decrypt_cbc(encrypt_cbc(b, key), key) = b
<1>1. PICK ks \in RoundKeys : ks = KeyExpansion(key)
  BY KeyExpansionType, BlockIsBytes
<1>2. PICK c1, c2, c3, c4 \in Bytes(16) :
        /\ c1 = Cipher(ks, XorBytes(Block(b, 1), iv))
        /\ c2 = Cipher(ks, XorBytes(Block(b, 2), c1))
        /\ c3 = Cipher(ks, XorBytes(Block(b, 3), c2))
        /\ c4 = Cipher(ks, XorBytes(Block(b, 4), c3))
        /\ encrypt_cbc(b, key) = c1 \o c2 \o c3 \o c4
  BY <1>1, CbcBlocks, Zenon
<1>3. PICK e : e = encrypt_cbc(b, key)
  OBVIOUS
<1>4. Block(e, 1) = c1 /\ Block(e, 2) = c2 /\ Block(e, 3) = c3 /\ Block(e, 4) = c4
  BY <1>2, <1>3, FourBlocks
<1>5. iv \in Bytes(16)
  BY DEF iv, Bytes, Byte
<1>6. /\ Block(b, 1) \in Bytes(16) /\ Block(b, 2) \in Bytes(16)
      /\ Block(b, 3) \in Bytes(16) /\ Block(b, 4) \in Bytes(16)
      /\ Block(b, 1) \o Block(b, 2) \o Block(b, 3) \o Block(b, 4) = b
  BY OfItsBlocks
<1>7. /\ CbcDecrypt(ks, iv, c1) = Block(b, 1) /\ CbcDecrypt(ks, c1, c2) = Block(b, 2)
      /\ CbcDecrypt(ks, c2, c3) = Block(b, 3) /\ CbcDecrypt(ks, c3, c4) = Block(b, 4)
  BY <1>2, <1>5, <1>6, CbcBlock
<1>8. decrypt_cbc(e, key) =
        CbcDecrypt(ks, iv, c1) \o CbcDecrypt(ks, c1, c2) \o CbcDecrypt(ks, c2, c3)
          \o CbcDecrypt(ks, c3, c4)
  BY <1>1, <1>4, DecryptIs
<1>9. QED
  BY <1>3, <1>6, <1>7, <1>8

-----------------------------------------------------------------------------
(* What the programs put into a frame *)

\* Addresses, keys and fillings are as long as their fields.
LEMMA AddressTypes ==
  ASSUME NEW m \in [1..8 -> Byte]
  PROVE  /\ get_my_addrress(m) \in Bytes(16) /\ SourceAddress(m) \in Bytes(16)
         /\ set_border_router_address \in Bytes(16) /\ ipv6_bor \in Bytes(16)
<1>1. m \in Bytes(8) /\ 8 \in Nat /\ 2 \in 1..8 /\ 3 \in 1..8 /\ 8 \in 3..8 /\ 8 \in 2..8
      /\ 8 - 3 + 1 = 6 /\ 8 - 2 + 1 = 7
  BY DEF Bytes
<1>2. SubSeq(m, 3, 8) \in Bytes(6) /\ SubSeq(m, 2, 8) \in Bytes(7)
  <2>1. SubSeq(m, 3, 8) \in Bytes(8 - 3 + 1) /\ SubSeq(m, 2, 8) \in Bytes(8 - 2 + 1)
    BY <1>1, Piece
  <2>2. QED
    BY <1>1, <2>1, Zenon
<1>3. \A n \in Nat : [k \in 1..n |-> 0] \in Bytes(n)
  BY DEF Bytes, Byte
<1>4. <<170, 170>> \in Bytes(2) /\ <<2, 18>> \in Bytes(2) /\ <<1>> \in Bytes(1)
  BY DEF Bytes, Byte
<1>5. /\ 2 \in Nat /\ 6 \in Nat /\ 8 \in Nat /\ 10 \in Nat /\ 1 \in Nat /\ 9 \in Nat /\ 7 \in Nat
      /\ 13 \in Nat /\ 15 \in Nat
      /\ 2 + 6 = 8 /\ 8 + 2 = 10 /\ 10 + 6 = 16 /\ 8 + 1 = 9 /\ 9 + 7 = 16 /\ 2 + 13 = 15
      /\ 15 + 1 = 16
  OBVIOUS
<1>6. \A i, j \in Nat : \A x \in Bytes(i) : \A y \in Bytes(j) : x \o y \in Bytes(i + j)
  BY Join
<1> DEFINE prefix == <<170, 170>> \o [k \in 1..6 |-> 0]
<1>7. prefix \in Bytes(8)
  <2>1. prefix \in Bytes(2 + 6)
    BY <1>3, <1>4, <1>5, <1>6, Zenon
  <2>2. QED
    BY <1>5, <2>1, Zenon
<1>8. get_my_addrress(m) \in Bytes(16)
  <2> HIDE DEF prefix
  <2>1. prefix \o <<2, 18>> \in Bytes(8 + 2)
    BY <1>4, <1>5, <1>6, <1>7, Zenon
  <2>2. (prefix \o <<2, 18>>) \o SubSeq(m, 3, 8) \in Bytes(10 + 6)
    BY <1>2, <1>5, <1>6, <2>1, Zenon
  <2>3. QED
    BY <1>5, <2>2, Zenon DEF get_my_addrress, prefix
<1>9. SourceAddress(m) \in Bytes(16)
  <2> DEFINE e == IF (m[1] \div 2) % 2 = 0 THEN m[1] + 2 ELSE m[1] - 2
  <2>1. m[1] \in Int /\ 0 <= m[1] /\ m[1] <= 255
    BY ByteRange, 1 \in 1..8
  <2>2. e \in Int /\ 0 <= e /\ e <= 255
    BY <2>1
  <2>3. e \in Byte
    <3> HIDE DEF e
    <3> QED BY <2>2, ByteRange
  <2> HIDE DEF e, prefix
  <2>4. <<e>> \in Bytes(1)
    <3> HIDE DEF Byte
    <3> QED BY <2>3 DEF Bytes
  <2>5. prefix \o <<e>> \in Bytes(8 + 1)
    BY <1>5, <1>6, <1>7, <2>4, Zenon
  <2>6. (prefix \o <<e>>) \o SubSeq(m, 2, 8) \in Bytes(9 + 7)
    BY <1>2, <1>5, <1>6, <2>5, Zenon
  <2>7. QED
    BY <1>5, <2>6, Zenon DEF SourceAddress, prefix, e
<1>10. <<170, 170>> \o [k \in 1..13 |-> 0] \o <<1>> \in Bytes(16)
  <2>1. <<170, 170>> \o [k \in 1..13 |-> 0] \in Bytes(2 + 13)
    BY <1>3, <1>4, <1>5, <1>6, Zenon
  <2>2. (<<170, 170>> \o [k \in 1..13 |-> 0]) \o <<1>> \in Bytes(15 + 1)
    BY <1>4, <1>5, <1>6, <2>1, Zenon
  <2>3. QED
    BY <1>5, <2>2, Zenon
<1>11. QED
  BY <1>8, <1>9, <1>10 DEF set_border_router_address, ipv6_bor, Zeros

\* The constants that fill a field are as long as it.
LEMMA FillingTypes ==
  /\ \A n \in Nat : Zeros(n) \in Bytes(n) /\ Ones(n) \in Bytes(n)
  /\ key_begin \in Bytes(16)
  /\ <<1, 0, 0, 0>> \in Bytes(4)
  /\ STATE_BEGIN \in Byte /\ STATE_NORMAL \in Byte /\ \A c \in 1..9 : c \in Byte
<1>1. \A n \in Nat : Zeros(n) \in Bytes(n) /\ Ones(n) \in Bytes(n)
  BY DEF Zeros, Ones, Bytes, Byte
<1>2. key_begin \in Bytes(16)
  BY DEF key_begin, Bytes, Byte
<1>3. <<1, 0, 0, 0>> \in Bytes(4)
  BY DEF Bytes, Byte
<1>4. STATE_BEGIN \in Byte /\ STATE_NORMAL \in Byte /\ \A c \in 1..9 : c \in Byte
  BY DEF STATE_BEGIN, STATE_NORMAL, Byte
<1>5. QED
  BY <1>1, <1>2, <1>3, <1>4

\* A session key is sixteen bytes, wherever strcpy stopped.
LEMMA KeyType ==
  ASSUME NEW raw \in [1..16 -> Byte]
  PROVE  gen_random_key_128(raw) \in Bytes(16)
BY DEF gen_random_key_128, Bytes, Byte

\* A word in the first two bytes of a payload.
LEMMA WordCarried ==
  ASSUME NEW w \in Word16Bits
  PROVE  /\ Pair(w) \o Zeros(14) \in Bytes(16)
         /\ Unpair(Pair(w) \o Zeros(14), 1) = w
<1>1. Pair(w) \in Bytes(2) /\ Pair(w)[1] + 256 * Pair(w)[2] = w
  BY PairType DEF Bytes
<1>2. Zeros(14) \in Bytes(14)
  BY FillingTypes, 14 \in Nat
<1>3. 2 \in Nat /\ 14 \in Nat /\ 2 + 14 = 16 /\ 1 \in 1..2 /\ 2 \in 1..2 /\ 1 + 1 = 2
  OBVIOUS
<1>4. /\ Pair(w) \o Zeros(14) \in Bytes(2 + 14)
      /\ \A k \in 1..2 : (Pair(w) \o Zeros(14))[k] = Pair(w)[k]
  BY <1>1, <1>2, <1>3, Join
<1>5. Unpair(Pair(w) \o Zeros(14), 1) = Pair(w)[1] + 256 * Pair(w)[2]
  BY <1>3, <1>4, Zenon DEF Unpair
<1>6. QED
  BY <1>1, <1>3, <1>4, <1>5, Zenon

\* A pair of bytes behind m others, with what was there and what is new.
LEMMA PairBehind ==
  ASSUME NEW m \in Nat \ {0}, NEW b \in Bytes(m), NEW w \in Word16Bits
  PROVE  /\ b \o Pair(w) \in Bytes(m + 2)
         /\ \A k \in 1..m : (b \o Pair(w))[k] = b[k]
         /\ (b \o Pair(w))[m + 1] + 256 * (b \o Pair(w))[m + 2] = w
<1>1. Pair(w) \in Bytes(2) /\ Pair(w)[1] + 256 * Pair(w)[2] = w
  BY PairType DEF Bytes
<1>2. m \in Nat /\ 2 \in Nat /\ 1 \in 1..2 /\ 2 \in 1..2
  OBVIOUS
<1>3. /\ b \o Pair(w) \in Bytes(m + 2)
      /\ \A k \in 1..m : (b \o Pair(w))[k] = b[k]
      /\ \A k \in 1..2 : (b \o Pair(w))[m + k] = Pair(w)[k]
  BY <1>1, <1>2, Join, Zenon
<1>4. (b \o Pair(w))[m + 1] = Pair(w)[1] /\ (b \o Pair(w))[m + 2] = Pair(w)[2]
  BY <1>2, <1>3, Zenon
<1>5. QED
  BY <1>1, <1>3, <1>4, Zenon

\* What the gateway prints of a report is what the node packed.
LEMMA ReadingCarried ==
  ASSUME NEW r \in ReadingType
  PROVE  /\ pack_data_PZEM(r) \in Bytes(16)
         /\ PRINTF_PZEM(pack_data_PZEM(r)) = r
<1>1. /\ r.addr \in Bytes(4) /\ r.power_alarm \in Byte
      /\ r.voltage_x10 \in Word16Bits /\ r.current_x100 \in Word16Bits /\ r.power \in Word16Bits
      /\ r.energy[1] \in Word16Bits /\ r.energy[2] \in Word16Bits
      /\ r.energy = <<r.energy[1], r.energy[2]>>
  <2> HIDE DEF Byte, Word16Bits
  <2> QED BY DEF ReadingType, Bytes
<1>2. r = [addr |-> r.addr, power_alarm |-> r.power_alarm, voltage_x10 |-> r.voltage_x10,
           current_x100 |-> r.current_x100, power |-> r.power, energy |-> r.energy]
  <2> HIDE DEF Byte, Word16Bits
  <2> QED BY DEF ReadingType
<1>3. PICK b1 \in Bytes(1) : b1 = <<255>>
  <2>1. <<255>> \in Bytes(1)
    BY DEF Bytes, Byte
  <2>2. QED
    BY <2>1
<1>4. PICK b5 \in Bytes(5) : b5 = b1 \o r.addr /\ SubSeq(b5, 2, 5) = r.addr
  <2>1. 1 \in Nat \ {0} /\ 4 \in Nat \ {0} /\ 1 + 4 = 5 /\ 1 + 1 = 2
    OBVIOUS
  <2>2. Behind(1, 1 + 4, b1, r.addr, b1 \o r.addr)
    BY <1>1, <2>1, JoinBehind, Zenon
  <2>3. b1 \o r.addr \in Bytes(1 + 4) /\ SubSeq(b1 \o r.addr, 1 + 1, 1 + 4) = r.addr
    BY <2>2, Zenon DEF Behind
  <2>4. QED
    BY <2>1, <2>3, Zenon
<1>5. PICK b6 \in Bytes(6) : /\ b6 = b5 \o <<r.power_alarm>>
                             /\ SubSeq(b6, 2, 5) = r.addr /\ b6[6] = r.power_alarm
  <2> DEFINE a == <<r.power_alarm>>
  <2>1. /\ 5 \in Nat \ {0} /\ 1 \in Nat \ {0} /\ 5 + 1 = 6 /\ 5 \in Nat /\ 1 \in Nat
        /\ 1 \in 1..1 /\ 2 \in 1..5 /\ 5 \in 2..5
    OBVIOUS
  <2>2. a \in Bytes(1) /\ a[1] = r.power_alarm
    <3> HIDE DEF Byte
    <3> QED BY <1>1 DEF Bytes
  <2> HIDE DEF a
  <2>3. Behind(5, 5 + 1, b5, a, b5 \o a)
    BY <2>1, <2>2, JoinBehind, Zenon
  <2>4. \A k \in 1..1 : (b5 \o a)[5 + k] = a[k]
    BY <2>1, <2>2, Join, Zenon
  <2>5. /\ b5 \o a \in Bytes(5 + 1) /\ SubSeq(b5 \o a, 2, 5) = SubSeq(b5, 2, 5)
        /\ (b5 \o a)[5 + 1] = a[1]
    BY <2>1, <2>3, <2>4, Zenon DEF Behind
  <2>6. QED
    BY <1>4, <2>1, <2>2, <2>5, Zenon DEF a
<1>6. PICK b8 \in Bytes(8) :
        /\ b8 = b6 \o Pair(r.voltage_x10)
        /\ \A k \in 1..6 : b8[k] = b6[k]
        /\ b8[7] + 256 * b8[8] = r.voltage_x10
  <2>1. 6 \in Nat \ {0} /\ 6 + 1 = 7 /\ 6 + 2 = 8
    OBVIOUS
  <2>2. /\ b6 \o Pair(r.voltage_x10) \in Bytes(6 + 2)
        /\ \A k \in 1..6 : (b6 \o Pair(r.voltage_x10))[k] = b6[k]
        /\ (b6 \o Pair(r.voltage_x10))[6 + 1] + 256 * (b6 \o Pair(r.voltage_x10))[6 + 2] =
             r.voltage_x10
    BY <1>1, <2>1, PairBehind
  <2>3. QED
    BY <2>1, <2>2, Zenon
<1>7. PICK b10 \in Bytes(10) :
        /\ b10 = b8 \o Pair(r.current_x100)
        /\ \A k \in 1..8 : b10[k] = b8[k]
        /\ b10[9] + 256 * b10[10] = r.current_x100
  <2>1. 8 \in Nat \ {0} /\ 8 + 1 = 9 /\ 8 + 2 = 10
    OBVIOUS
  <2>2. /\ b8 \o Pair(r.current_x100) \in Bytes(8 + 2)
        /\ \A k \in 1..8 : (b8 \o Pair(r.current_x100))[k] = b8[k]
        /\ (b8 \o Pair(r.current_x100))[8 + 1] + 256 * (b8 \o Pair(r.current_x100))[8 + 2] =
             r.current_x100
    BY <1>1, <2>1, PairBehind
  <2>3. QED
    BY <2>1, <2>2, Zenon
<1>8. PICK b12 \in Bytes(12) :
        /\ b12 = b10 \o Pair(r.power)
        /\ \A k \in 1..10 : b12[k] = b10[k]
        /\ b12[11] + 256 * b12[12] = r.power
  <2>1. 10 \in Nat \ {0} /\ 10 + 1 = 11 /\ 10 + 2 = 12
    OBVIOUS
  <2>2. /\ b10 \o Pair(r.power) \in Bytes(10 + 2)
        /\ \A k \in 1..10 : (b10 \o Pair(r.power))[k] = b10[k]
        /\ (b10 \o Pair(r.power))[10 + 1] + 256 * (b10 \o Pair(r.power))[10 + 2] = r.power
    BY <1>1, <2>1, PairBehind
  <2>3. QED
    BY <2>1, <2>2, Zenon
<1>9. PICK b14 \in Bytes(14) :
        /\ b14 = b12 \o Pair(r.energy[2])
        /\ \A k \in 1..12 : b14[k] = b12[k]
        /\ b14[13] + 256 * b14[14] = r.energy[2]
  <2>1. 12 \in Nat \ {0} /\ 12 + 1 = 13 /\ 12 + 2 = 14
    OBVIOUS
  <2>2. /\ b12 \o Pair(r.energy[2]) \in Bytes(12 + 2)
        /\ \A k \in 1..12 : (b12 \o Pair(r.energy[2]))[k] = b12[k]
        /\ (b12 \o Pair(r.energy[2]))[12 + 1] + 256 * (b12 \o Pair(r.energy[2]))[12 + 2] =
             r.energy[2]
    BY <1>1, <2>1, PairBehind
  <2>3. QED
    BY <2>1, <2>2, Zenon
<1>10. PICK b16 \in Bytes(16) :
        /\ b16 = b14 \o Pair(r.energy[1])
        /\ \A k \in 1..14 : b16[k] = b14[k]
        /\ b16[15] + 256 * b16[16] = r.energy[1]
  <2>1. 14 \in Nat \ {0} /\ 14 + 1 = 15 /\ 14 + 2 = 16
    OBVIOUS
  <2>2. /\ b14 \o Pair(r.energy[1]) \in Bytes(14 + 2)
        /\ \A k \in 1..14 : (b14 \o Pair(r.energy[1]))[k] = b14[k]
        /\ (b14 \o Pair(r.energy[1]))[14 + 1] + 256 * (b14 \o Pair(r.energy[1]))[14 + 2] =
             r.energy[1]
    BY <1>1, <2>1, PairBehind
  <2>3. QED
    BY <2>1, <2>2, Zenon
<1>11. pack_data_PZEM(r) = b16
  BY <1>3, <1>4, <1>5, <1>6, <1>7, <1>8, <1>9, <1>10, Zenon DEF pack_data_PZEM
<1>12. /\ SubSeq(b16, 2, 5) = r.addr
       /\ b16[6] = r.power_alarm
  <2>1. /\ b16 \in Seq(Byte) /\ Len(b16) = 16 /\ b6 \in Seq(Byte) /\ Len(b6) = 6
    BY BytesSeq, 16 \in Nat, 6 \in Nat
  <2>2. \A k \in 1..6 : b16[k] = b6[k]
    <3> TAKE k \in 1..6
    <3>1. k \in 1..8 /\ k \in 1..10 /\ k \in 1..12 /\ k \in 1..14
      OBVIOUS
    <3>2. b16[k] = b14[k]
      BY <1>10, <3>1, Zenon
    <3>3. b14[k] = b12[k]
      BY <1>9, <3>1, Zenon
    <3>4. b12[k] = b10[k]
      BY <1>8, <3>1, Zenon
    <3>5. b10[k] = b8[k]
      BY <1>7, <3>1, Zenon
    <3>6. b8[k] = b6[k]
      BY <1>6, Zenon
    <3>7. QED
      BY <3>2, <3>3, <3>4, <3>5, <3>6, Zenon
  <2>3. b16[6] = r.power_alarm
    BY <1>5, <2>2, 6 \in 1..6, Zenon
  <2>4. SubSeq(b16, 2, 5) = SubSeq(b6, 2, 5)
    <3>1. /\ 16 \in Nat /\ 6 \in Nat /\ 2 \in 1..16 /\ 5 \in 2..16 /\ 2 \in 1..6 /\ 5 \in 2..6
      OBVIOUS
    <3>2. /\ SubSeq(b16, 2, 5) \in Bytes(5 - 2 + 1) /\ SubSeq(b6, 2, 5) \in Bytes(5 - 2 + 1)
          /\ \A k \in 1..(5 - 2 + 1) : SubSeq(b16, 2, 5)[k] = b16[2 + k - 1]
          /\ \A k \in 1..(5 - 2 + 1) : SubSeq(b6, 2, 5)[k] = b6[2 + k - 1]
      BY <3>1, Piece
    <3>3. \A k \in 1..(5 - 2 + 1) : 2 + k - 1 \in 1..6
      OBVIOUS
    <3>4. \A k \in 1..(5 - 2 + 1) : SubSeq(b16, 2, 5)[k] = SubSeq(b6, 2, 5)[k]
      <4> TAKE k \in 1..(5 - 2 + 1)
      <4>1. b16[2 + k - 1] = b6[2 + k - 1]
        BY <2>2, <3>3, Zenon
      <4>2. QED
        BY <3>2, <4>1, Zenon
    <3>5. QED
      <4> HIDE DEF Byte
      <4> QED BY <3>2, <3>4 DEF Bytes
  <2>5. QED
    BY <1>5, <2>3, <2>4
<1>13. /\ b16[7] + 256 * b16[8] = r.voltage_x10
       /\ b16[9] + 256 * b16[10] = r.current_x100
       /\ b16[11] + 256 * b16[12] = r.power
       /\ b16[13] + 256 * b16[14] = r.energy[2]
       /\ b16[15] + 256 * b16[16] = r.energy[1]
  <2>1. /\ 7 \in 1..10 /\ 8 \in 1..10 /\ 7 \in 1..12 /\ 8 \in 1..12 /\ 7 \in 1..14 /\ 8 \in 1..14
        /\ 9 \in 1..12 /\ 10 \in 1..12 /\ 9 \in 1..14 /\ 10 \in 1..14
        /\ 11 \in 1..14 /\ 12 \in 1..14 /\ 7 \in 1..8 /\ 8 \in 1..8
        /\ 9 \in 1..10 /\ 10 \in 1..10 /\ 11 \in 1..12 /\ 12 \in 1..12 /\ 13 \in 1..14
        /\ 14 \in 1..14
    OBVIOUS
  <2>2. /\ b16[7] = b14[7] /\ b16[8] = b14[8] /\ b16[9] = b14[9] /\ b16[10] = b14[10]
        /\ b16[11] = b14[11] /\ b16[12] = b14[12] /\ b16[13] = b14[13] /\ b16[14] = b14[14]
    BY <1>10, <2>1, Zenon
  <2>3. /\ b14[7] = b12[7] /\ b14[8] = b12[8] /\ b14[9] = b12[9] /\ b14[10] = b12[10]
        /\ b14[11] = b12[11] /\ b14[12] = b12[12]
    BY <1>9, <2>1, Zenon
  <2>4. /\ b12[7] = b10[7] /\ b12[8] = b10[8] /\ b12[9] = b10[9] /\ b12[10] = b10[10]
    BY <1>8, <2>1, Zenon
  <2>5. b10[7] = b8[7] /\ b10[8] = b8[8]
    BY <1>7, <2>1, Zenon
  <2>6. /\ b16[7] = b8[7] /\ b16[8] = b8[8] /\ b16[9] = b10[9] /\ b16[10] = b10[10]
        /\ b16[11] = b12[11] /\ b16[12] = b12[12]
    BY <2>2, <2>3, <2>4, <2>5, Zenon
  <2>7. /\ b8[7] + 256 * b8[8] = r.voltage_x10
        /\ b10[9] + 256 * b10[10] = r.current_x100
        /\ b12[11] + 256 * b12[12] = r.power
        /\ b14[13] + 256 * b14[14] = r.energy[2]
        /\ b16[15] + 256 * b16[16] = r.energy[1]
    BY <1>6, <1>7, <1>8, <1>9, <1>10, Zenon
  <2>8. QED
    BY <2>2, <2>6, <2>7, Zenon
<1>14. PRINTF_PZEM(b16) =
         [addr |-> r.addr, power_alarm |-> r.power_alarm, voltage_x10 |-> r.voltage_x10,
          current_x100 |-> r.current_x100, power |-> r.power, energy |-> r.energy]
  <2>1. 7 + 1 = 8 /\ 9 + 1 = 10 /\ 11 + 1 = 12 /\ 13 + 1 = 14 /\ 15 + 1 = 16
    OBVIOUS
  <2>2. /\ Unpair(b16, 7) = r.voltage_x10 /\ Unpair(b16, 9) = r.current_x100
        /\ Unpair(b16, 11) = r.power /\ Unpair(b16, 13) = r.energy[2]
        /\ Unpair(b16, 15) = r.energy[1]
    BY <1>13, <2>1, Zenon DEF Unpair
  <2>3. QED
    BY <1>1, <1>12, <2>2, Zenon DEF PRINTF_PZEM
<1>15. QED
  BY <1>2, <1>11, <1>14, Zenon

\* Whatever a block is deciphered with, a block comes out.
LEMMA InvCipherType ==
  ASSUME NEW ks \in RoundKeys, NEW b \in BlockBytes
  PROVE  InvCipher(ks, b) \in BlockBytes
<1> DEFINE S == [r \in 0..9 |-> BlockBytes]
<1>1. PICK g : /\ g = InvCipherLoop(ks, b)
               /\ g[0] = XorBytes(b, ks[11])
               /\ \A r \in 1..9 : g[r] = InvRound(g[r - 1], ks[11 - r])
  BY InvCipherLoopStep
<1>2. \A r \in 1..11 : ks[r] \in BlockBytes
  BY DEF RoundKeys
<1>3. g[0] \in S[0]
  BY <1>1, <1>2, XorBytesIs
<1>4. \A r \in 1..9 : g[r - 1] \in S[r - 1] => g[r] \in S[r]
  <2>1. \A r \in 1..9 : 11 - r \in 1..11
    OBVIOUS
  <2>2. QED
    BY <1>1, <1>2, <2>1, InvRoundType
<1>5. \A r \in 0..9 : g[r] \in S[r]
  <2> HIDE DEF S
  <2> QED BY <1>3, <1>4, IterationStays, 9 \in Nat
<1>6. PICK s \in BlockBytes : s = g[9]
  BY <1>5
<1>7. PICK t \in BlockBytes : t = InvShiftRows(s)
  BY InvShiftRowsIs
<1>8. InvSubBytes(t) \in BlockBytes
  <2>1. \A i \in 1..16 : t[i] \in Byte
    BY DEF BlockBytes
  <2>2. \A i \in 1..16 : rsbox[t[i] + 1] \in Byte
    BY <2>1, RsboxType
  <2>3. InvSubBytes(t) = [i \in 1..16 |-> rsbox[t[i] + 1]]
    BY DEF InvSubBytes
  <2>4. QED
    BY <2>2, <2>3 DEF BlockBytes
<1>9. XorBytes(InvSubBytes(t), ks[1]) \in BlockBytes
  BY <1>2, <1>8, XorBytesIs
<1>10. QED
  BY <1>1, <1>6, <1>7, <1>9, InvCipherIs

\* A frame stays 64 bytes long, and ECB leaves all but the payload as it was.
LEMMA EcbType ==
  ASSUME NEW b \in Bytes(64), NEW key \in Bytes(16)
  PROVE  /\ AES128_ECB_encrypt(b, key) \in Bytes(64)
         /\ AES128_ECB_decrypt(b, key) \in Bytes(64)
         /\ SubSeq(AES128_ECB_encrypt(b, key), 25, 64) = SubSeq(b, 25, 64)
<1>1. /\ 64 \in Nat /\ 1 \in 1..64 /\ 8 \in 1..64 /\ 9 \in 1..64 /\ 24 \in 9..64 /\ 25 \in 1..64
      /\ 64 \in 25..64 /\ 8 - 1 + 1 = 8 /\ 24 - 9 + 1 = 16 /\ 64 - 25 + 1 = 40
  OBVIOUS
<1>2. PICK x \in Bytes(8), y \in Bytes(16), z \in Bytes(40) :
        x = SubSeq(b, 1, 8) /\ y = SubSeq(b, 9, 24) /\ z = SubSeq(b, 25, 64)
  <2>1. SubSeq(b, 1, 8) \in Bytes(8 - 1 + 1)
    BY <1>1, Piece
  <2>2. SubSeq(b, 9, 24) \in Bytes(24 - 9 + 1)
    BY <1>1, Piece
  <2>3. SubSeq(b, 25, 64) \in Bytes(64 - 25 + 1)
    BY <1>1, Piece
  <2>4. QED
    BY <1>1, <2>1, <2>2, <2>3, Zenon
<1>3. PICK ks \in RoundKeys : ks = KeyExpansion(key)
  BY KeyExpansionType, BlockIsBytes
<1>4. /\ 8 \in Nat \ {0} /\ 16 \in Nat \ {0} /\ 8 + 16 = 24 /\ 24 \in Nat \ {0}
      /\ 40 \in Nat \ {0} /\ 24 + 40 = 64 /\ 24 + 1 = 25
  OBVIOUS
<1>5. ASSUME NEW c \in Bytes(16)
      PROVE  x \o c \o z \in Bytes(64) /\ SubSeq(x \o c \o z, 25, 64) = z
  <2>1. Behind(8, 8 + 16, x, c, x \o c)
    BY <1>4, JoinBehind, Zenon
  <2>2. x \o c \in Bytes(24)
    BY <1>4, <2>1, Zenon DEF Behind
  <2>3. Behind(24, 24 + 40, x \o c, z, (x \o c) \o z)
    BY <1>4, <2>2, JoinBehind, Zenon
  <2>4. (x \o c) \o z \in Bytes(24 + 40) /\ SubSeq((x \o c) \o z, 24 + 1, 24 + 40) = z
    BY <2>3, Zenon DEF Behind
  <2>5. QED
    BY <1>4, <2>4, Zenon
<1>6. Cipher(ks, y) \in Bytes(16) /\ InvCipher(ks, y) \in Bytes(16)
  BY CipherInverse, InvCipherType, BlockIsBytes
<1>7. /\ AES128_ECB_encrypt(b, key) = x \o Cipher(ks, y) \o z
      /\ AES128_ECB_decrypt(b, key) = x \o InvCipher(ks, y) \o z
  BY <1>2, <1>3, Zenon DEF AES128_ECB_encrypt, AES128_ECB_decrypt
<1>8. /\ x \o Cipher(ks, y) \o z \in Bytes(64) /\ SubSeq(x \o Cipher(ks, y) \o z, 25, 64) = z
      /\ x \o InvCipher(ks, y) \o z \in Bytes(64)
  BY <1>5, <1>6, Zenon
<1>9. QED
  BY <1>2, <1>7, <1>8

\* The same of CBC.
LEMMA CbcType ==
  ASSUME NEW b \in Bytes(64), NEW key \in Bytes(16)
  PROVE  encrypt_cbc(b, key) \in Bytes(64) /\ decrypt_cbc(b, key) \in Bytes(64)
<1>1. PICK ks \in RoundKeys : ks = KeyExpansion(key)
  BY KeyExpansionType, BlockIsBytes
<1>2. encrypt_cbc(b, key) \in Bytes(64)
  <2>1. PICK d1, d2, d3, d4 \in Bytes(16) :
          /\ d1 = Cipher(ks, XorBytes(Block(b, 1), iv))
          /\ d2 = Cipher(ks, XorBytes(Block(b, 2), d1))
          /\ d3 = Cipher(ks, XorBytes(Block(b, 3), d2))
          /\ d4 = Cipher(ks, XorBytes(Block(b, 4), d3))
          /\ encrypt_cbc(b, key) = d1 \o d2 \o d3 \o d4
    BY <1>1, CbcBlocks, Zenon
  <2>2. d1 \o d2 \o d3 \o d4 \in Bytes(64)
    BY FourBlocks
  <2>3. QED
    BY <2>1, <2>2, Zenon
<1>3. iv \in Bytes(16)
  BY DEF iv, Bytes, Byte
<1>4. \A v, c \in Bytes(16) : CbcDecrypt(ks, v, c) \in Bytes(16)
  BY InvCipherType, XorBytesIs, BlockIsBytes DEF CbcDecrypt
<1>5. /\ Block(b, 1) \in Bytes(16) /\ Block(b, 2) \in Bytes(16)
      /\ Block(b, 3) \in Bytes(16) /\ Block(b, 4) \in Bytes(16)
  BY OfItsBlocks
<1>6. PICK p1, p2, p3, p4 \in Bytes(16) :
        /\ p1 = CbcDecrypt(ks, iv, Block(b, 1)) /\ p2 = CbcDecrypt(ks, Block(b, 1), Block(b, 2))
        /\ p3 = CbcDecrypt(ks, Block(b, 2), Block(b, 3))
        /\ p4 = CbcDecrypt(ks, Block(b, 3), Block(b, 4))
  BY <1>3, <1>4, <1>5
<1>7. decrypt_cbc(b, key) = p1 \o p2 \o p3 \o p4
  BY <1>1, <1>6, DecryptIs
<1>8. QED
  BY <1>2, <1>6, <1>7, FourBlocks

\* What is parsed of 64 bytes is a frame.
LEMMA ParsedType ==
  ASSUME NEW b \in Bytes(64)
  PROVE  parse_64(b) \in FrameType
<1>1. /\ 64 \in Nat /\ 9 \in 1..64 /\ 24 \in 9..64 /\ 25 \in 1..64 /\ 40 \in 25..64
      /\ 41 \in 1..64 /\ 56 \in 41..64 /\ 57 \in 1..64 /\ 62 \in 57..64 /\ 63 \in 1..64
      /\ 64 \in 63..64
      /\ 24 - 9 + 1 = 16 /\ 40 - 25 + 1 = 16 /\ 56 - 41 + 1 = 16 /\ 62 - 57 + 1 = 6
      /\ 64 - 63 + 1 = 2
  OBVIOUS
<1>2. SubSeq(b, 9, 24) \in Bytes(16)
  <2>1. SubSeq(b, 9, 24) \in Bytes(24 - 9 + 1)
    BY <1>1, Piece
  <2>2. QED
    BY <1>1, <2>1, Zenon
<1>3. SubSeq(b, 25, 40) \in Bytes(16)
  <2>1. SubSeq(b, 25, 40) \in Bytes(40 - 25 + 1)
    BY <1>1, Piece
  <2>2. QED
    BY <1>1, <2>1, Zenon
<1>4. SubSeq(b, 41, 56) \in Bytes(16)
  <2>1. SubSeq(b, 41, 56) \in Bytes(56 - 41 + 1)
    BY <1>1, Piece
  <2>2. QED
    BY <1>1, <2>1, Zenon
<1>5. SubSeq(b, 57, 62) \in Bytes(6)
  <2>1. SubSeq(b, 57, 62) \in Bytes(62 - 57 + 1)
    BY <1>1, Piece
  <2>2. QED
    BY <1>1, <2>1, Zenon
<1>6. SubSeq(b, 63, 64) \in Bytes(2)
  <2>1. SubSeq(b, 63, 64) \in Bytes(64 - 63 + 1)
    BY <1>1, Piece
  <2>2. QED
    BY <1>1, <2>1, Zenon
<1>7. \A k \in 1..64 : b[k] \in Byte
  BY DEF Bytes
<1>8. /\ b[1] \in Byte /\ b[2] \in Byte /\ b[3] \in Byte /\ b[4] \in Byte /\ b[5] \in Byte
      /\ b[7] \in Byte /\ b[8] \in Byte /\ 0 \in Byte
  BY <1>7, ByteRange
<1>9. <<b[3], b[4], b[5], 0>> \in Bytes(4)
  <2> HIDE DEF Byte
  <2> QED BY <1>8 DEF Bytes
<1>10. QED
  <2> HIDE DEF Byte
  <2> QED BY <1>2, <1>3, <1>4, <1>5, <1>6, <1>8, <1>9 DEF FrameType, parse_64

\* The marker of a frame goes through ECB.
LEMMA MarkerSeen ==
  ASSUME NEW f \in FrameType, f.for_future = Ones(6), NEW key \in Bytes(16)
  PROVE  check_statedata_rev(AES128_ECB_encrypt(Packed(f), key))
<1>1. PICK b \in Bytes(64) : b = Packed(f) /\ SubSeq(b, 57, 62) = f.for_future
  BY Layout
<1>2. PICK e \in Bytes(64) : e = AES128_ECB_encrypt(b, key) /\ SubSeq(e, 25, 64) = SubSeq(b, 25, 64)
  BY EcbType
<1>3. /\ 64 \in Nat /\ 25 \in 1..64 /\ 64 \in 25..64 /\ 57 \in 1..64 /\ 62 \in 57..64
  OBVIOUS
<1>4. /\ \A k \in 1..(64 - 25 + 1) : SubSeq(b, 25, 64)[k] = b[25 + k - 1]
      /\ \A k \in 1..(64 - 25 + 1) : SubSeq(e, 25, 64)[k] = e[25 + k - 1]
      /\ \A k \in 1..(62 - 57 + 1) : SubSeq(b, 57, 62)[k] = b[57 + k - 1]
  BY <1>3, Piece
<1>5. ASSUME NEW i \in 57..62 PROVE e[i] = 255
  <2>1. /\ i - 24 \in 1..(64 - 25 + 1) /\ 25 + (i - 24) - 1 = i
        /\ i - 56 \in 1..(62 - 57 + 1) /\ 57 + (i - 56) - 1 = i /\ i - 56 \in 1..6
    OBVIOUS
  <2>2. e[i] = b[i]
    BY <1>2, <1>4, <2>1, Zenon
  <2>3. b[i] = Ones(6)[i - 56]
    BY <1>1, <1>4, <2>1, Zenon
  <2>4. QED
    BY <2>1, <2>2, <2>3 DEF Ones
<1>6. QED
  BY <1>1, <1>2, <1>5 DEF check_statedata_rev

\* A prepared frame by a name.
LEMMA PreparedFrame ==
  ASSUME NEW src \in Bytes(16), NEW dst \in Bytes(16), NEW seq \in Bytes(4), NEW state \in Byte,
         NEW cmd \in Byte, NEW data \in Bytes(16), NEW future \in Bytes(6)
  PROVE  \E f \in FrameType :
           /\ f = prepare2send(src, dst, seq, state, cmd, data, future)
           /\ check_crc16(Packed(f))
           /\ f.cmd = cmd /\ f.payload_data = data /\ f.for_future = future
  BY Prepared

-----------------------------------------------------------------------------
(* Texts of addresses *)

Digits(n) == [1..n -> 0..15]

\* Digits are bytes, and none is a colon.
LEMMA DigitsAre ==
  ASSUME NEW n \in Nat, NEW d \in Digits(n)
  PROVE  /\ d \in Bytes(n) /\ Len(d) = n
         /\ \A k \in 1..n : d[k] \in 0..15 /\ d[k] # COLON /\ d[k] # NUL
<1>1. \A k \in 1..n : d[k] \in 0..15
  BY DEF Digits
<1>2. \A c \in 0..15 : c \in Byte /\ c # COLON /\ c # NUL
  BY DEF Byte, COLON, NUL
<1>3. d \in Bytes(n)
  <2> HIDE DEF Byte
  <2> QED BY <1>1, <1>2 DEF Digits, Bytes
<1>4. QED
  BY <1>1, <1>2, <1>3, BytesSeq

\* The value of four digits.
LEMMA FourDigits ==
  ASSUME NEW d \in Digits(4)
  PROVE  ValueOf(d) = 4096 * d[1] + 256 * d[2] + 16 * d[3] + d[4]
<1>1. Len(d) = 4 /\ 4 \in Nat
  BY DigitsAre
<1>2. /\ 4 <= Len(d) /\ 3 <= Len(d) /\ 2 <= Len(d) /\ 1 <= Len(d)
      /\ Len(d) + 1 - 4 = 1 /\ Len(d) + 1 - 3 = 2 /\ Len(d) + 1 - 2 = 3 /\ Len(d) + 1 - 1 = 4
  BY <1>1
<1> DEFINE digit(i) == IF i <= Len(d) THEN d[Len(d) + 1 - i] ELSE 0
<1>3. digit(4) = d[1] /\ digit(3) = d[2] /\ digit(2) = d[3] /\ digit(1) = d[4]
  BY <1>2
<1>4. ValueOf(d) = 4096 * digit(4) + 256 * digit(3) + 16 * digit(2) + digit(1)
  BY DEF ValueOf
<1> HIDE DEF digit
<1>5. QED
  BY <1>3, <1>4

\* The two digits of a byte.
LEMMA HexByteIs ==
  ASSUME NEW b \in Byte
  PROVE  HexByte(b) \in Digits(2) /\ 16 * HexByte(b)[1] + HexByte(b)[2] = b
<1>1. b \in Int /\ 0 <= b /\ b <= 255
  BY ByteRange
<1>2. b \div 16 \in 0..15 /\ b % 16 \in 0..15 /\ 16 * (b \div 16) + (b % 16) = b
  BY <1>1
<1>3. QED
  BY <1>2 DEF HexByte, Digits

\* Two digits and two digits.
LEMMA DigitsJoin ==
  ASSUME NEW m \in Nat, NEW n \in Nat, NEW c \in Digits(m), NEW d \in Digits(n)
  PROVE  /\ c \o d \in Digits(m + n)
         /\ \A k \in 1..m : (c \o d)[k] = c[k]
         /\ \A k \in 1..n : (c \o d)[m + k] = d[k]
<1>1. c \in Bytes(m) /\ d \in Bytes(n)
  BY DigitsAre
<1>2. PICK s : s = c \o d
  OBVIOUS
<1>3. /\ s \in Bytes(m + n)
      /\ \A k \in 1..m : s[k] = c[k]
      /\ \A k \in 1..n : s[m + k] = d[k]
  BY <1>1, <1>2, Join
<1>4. ASSUME NEW k \in 1..(m + n) PROVE s[k] \in 0..15
  <2>1. CASE k <= m
    <3>1. k \in 1..m
      BY <2>1
    <3>2. s[k] = c[k] /\ c[k] \in 0..15
      BY <1>3, <3>1 DEF Digits
    <3>3. QED
      BY <3>2
  <2>2. CASE ~(k <= m)
    <3>1. k - m \in 1..n /\ m + (k - m) = k
      BY <2>2
    <3>2. s[m + (k - m)] = d[k - m] /\ d[k - m] \in 0..15
      BY <1>3, <3>1 DEF Digits
    <3>3. QED
      BY <3>1, <3>2
  <2>3. QED
    BY <2>1, <2>2
<1>5. s \in Digits(m + n)
  <2> HIDE DEF Byte
  <2> QED BY <1>3, <1>4 DEF Bytes, Digits
<1>6. QED
  BY <1>2, <1>3, <1>5

\* Two bytes of an address in hexadecimal are read as its word.
LEMMA PairRead ==
  ASSUME NEW b \in Byte, NEW c \in Byte
  PROVE  /\ HexByte(b) \o HexByte(c) \in Digits(4)
         /\ ValueOf(HexByte(b) \o HexByte(c)) = 256 * b + c
<1>1. PICK x \in Digits(2) : x = HexByte(b) /\ 16 * x[1] + x[2] = b
  BY HexByteIs
<1>2. PICK y \in Digits(2) : y = HexByte(c) /\ 16 * y[1] + y[2] = c
  BY HexByteIs
<1>3. PICK d : d = x \o y
  OBVIOUS
<1>4. 2 \in Nat /\ 2 + 2 = 4 /\ 1 \in 1..2 /\ 2 \in 1..2 /\ 2 + 1 = 3
  OBVIOUS
<1>5. /\ d \in Digits(2 + 2)
      /\ \A k \in 1..2 : d[k] = x[k]
      /\ \A k \in 1..2 : d[2 + k] = y[k]
  BY <1>3, <1>4, DigitsJoin
<1>6. d \in Digits(4) /\ d[1] = x[1] /\ d[2] = x[2] /\ d[3] = y[1] /\ d[4] = y[2]
  BY <1>4, <1>5
<1>7. ValueOf(d) = 4096 * d[1] + 256 * d[2] + 16 * d[3] + d[4]
  BY <1>6, FourDigits
<1>8. x[1] \in Int /\ x[2] \in Int /\ y[1] \in Int /\ y[2] \in Int
  BY <1>4 DEF Digits
<1>9. 4096 * d[1] + 256 * d[2] + 16 * d[3] + d[4] = 256 * (16 * x[1] + x[2]) + (16 * y[1] + y[2])
  BY <1>6, <1>8
<1>10. QED
  BY <1>1, <1>2, <1>3, <1>6, <1>7, <1>9

\* A word in as few digits as it takes is read as this word.
LEMMA HexWordRead ==
  ASSUME NEW w \in Word16Bits
  PROVE  \E n \in 1..4 : HexWord(w) \in Digits(n) /\ ValueOf(HexWord(w)) = w
<1> DEFINE d == <<w \div 4096, (w \div 256) % 16, (w \div 16) % 16, w % 16>>
           First(k) == (d[k] # 0 \/ k = 4) /\ \A i \in 1..(k - 1) : d[i] = 0
           k == CHOOSE j \in 1..4 : First(j)
<1>1. w \in Int /\ 0 <= w /\ w <= 65535
  BY WordRange
<1>2. /\ w \div 4096 \in 0..15 /\ (w \div 256) % 16 \in 0..15 /\ (w \div 16) % 16 \in 0..15
      /\ w % 16 \in 0..15
  BY <1>1
<1>3. 4096 * (w \div 4096) + 256 * ((w \div 256) % 16) + 16 * ((w \div 16) % 16) + (w % 16) = w
  BY <1>1
<1>4. d \in Digits(4)
  BY <1>2 DEF Digits
<1>5. 4096 * d[1] + 256 * d[2] + 16 * d[3] + d[4] = w
  BY <1>3
<1>6. HexWord(w) = SubSeq(d, k, 4)
  BY DEF HexWord
<1> HIDE DEF d
<1>7. \E j \in 1..4 : First(j)
  <2>1. CASE d[1] # 0
    BY <2>1
  <2>2. CASE d[1] = 0 /\ d[2] # 0
    BY <2>2
  <2>3. CASE d[1] = 0 /\ d[2] = 0 /\ d[3] # 0
    BY <2>3
  <2>4. CASE d[1] = 0 /\ d[2] = 0 /\ d[3] = 0
    BY <2>4
  <2>5. QED
    BY <2>1, <2>2, <2>3, <2>4
<1>8. k \in 1..4 /\ First(k)
  <2> HIDE DEF First
  <2> QED BY <1>7
<1> HIDE DEF k
<1> DEFINE n == 4 - k + 1
<1>9. PICK s : s = SubSeq(d, k, 4)
  OBVIOUS
<1>10. s \in Digits(n) /\ \A i \in 1..n : s[i] = d[k + i - 1]
  <2>1. d \in Bytes(4) /\ 4 \in Nat /\ k \in 1..4 /\ 4 \in k..4
    BY <1>4, <1>8, DigitsAre
  <2>2. s \in Bytes(n) /\ \A i \in 1..n : s[i] = d[k + i - 1]
    BY <1>9, <2>1, Piece
  <2>3. \A i \in 1..n : k + i - 1 \in 1..4
    BY <1>8
  <2>4. \A i \in 1..n : s[i] \in 0..15
    BY <1>4, <2>2, <2>3 DEF Digits
  <2>5. QED
    <3> HIDE DEF Byte
    <3> QED BY <2>2, <2>4 DEF Digits, Bytes
<1>11. n \in 1..4 /\ Len(s) = n
  <2>1. n \in 1..4 /\ n \in Nat
    BY <1>8
  <2>2. QED
    BY <1>10, <2>1, DigitsAre
<1>12. d[1] \in 0..15 /\ d[2] \in 0..15 /\ d[3] \in 0..15 /\ d[4] \in 0..15
  BY <1>4 DEF Digits
<1>13. ValueOf(s) = 4096 * d[1] + 256 * d[2] + 16 * d[3] + d[4]
  <2>1. CASE k = 1
    BY <1>8, <1>10, <1>11, <1>12, <2>1 DEF ValueOf
  <2>2. CASE k = 2
    BY <1>8, <1>10, <1>11, <1>12, <2>2 DEF ValueOf
  <2>3. CASE k = 3
    BY <1>8, <1>10, <1>11, <1>12, <2>3 DEF ValueOf
  <2>4. CASE k = 4
    BY <1>8, <1>10, <1>11, <1>12, <2>4 DEF ValueOf
  <2>5. QED
    BY <1>8, <2>1, <2>2, <2>3, <2>4
<1>14. QED
  BY <1>5, <1>6, <1>9, <1>10, <1>11, <1>13

\* The colon after a place, where the text has none before it.
LEMMA ColonAfterIs ==
  ASSUME NEW m \in Nat, NEW text \in Bytes(m), NEW i \in 0..(m + 1), NEW j \in 1..(m + 1),
         i < j \/ (i = m + 1 /\ j = m + 1), j <= m => text[j] = COLON,
         \A k \in 1..m : i < k /\ k < j => text[k] # COLON
  PROVE  ColonAfter(text, i) = j
<1> DEFINE colons == {k \in (i + 1)..Len(text) : text[k] = COLON}
<1>1. Len(text) = m
  BY BytesSeq
<1>2. ColonAfter(text, i) = IF colons = {} THEN m + 1
                            ELSE CHOOSE k \in colons : \A l \in colons : k <= l
  BY <1>1 DEF ColonAfter
<1>3. CASE j = m + 1
  <2>1. colons = {}
    BY <1>1, <1>3
  <2>2. QED
    BY <1>2, <1>3, <2>1
<1>4. CASE j # m + 1
  <2>1. j \in 1..m /\ i < j /\ text[j] = COLON
    BY <1>4
  <2>2. j \in colons
    BY <1>1, <2>1
  <2>3. \A l \in colons : l \in Int /\ j <= l
    BY <1>1, <2>1
  <2> HIDE DEF colons
  <2>4. \A k \in colons : (\A l \in colons : k <= l) => k = j
    BY <2>2, <2>3
  <2>5. (CHOOSE k \in colons : \A l \in colons : k <= l) = j
    BY <2>2, <2>3, <2>4
  <2>6. QED
    BY <1>2, <2>2, <2>5
<1>5. QED
  BY <1>3, <1>4

\* The first n words of a text of m characters are ws, and end at the places e.
Spelled(text, m, n, e, ws) ==
  /\ text \in Bytes(m)
  /\ e \in [0..n -> Nat] /\ e[0] = 0
  /\ \A k \in 1..n :
       /\ e[k] - e[k - 1] \in 1..5 /\ e[k] <= m + 1
       /\ e[k] <= m => text[e[k]] = COLON
       /\ ws[k] \in Digits(e[k] - e[k - 1] - 1)
       /\ \A j \in 1..(e[k] - e[k - 1] - 1) : text[e[k - 1] + j] = ws[k][j]

\* A word ends at the colon after the end of the word before.
LEMMA NextEnd ==
  ASSUME NEW m \in Nat, NEW n \in Nat, NEW text, NEW e, NEW ws, Spelled(text, m, n, e, ws),
         NEW k \in 1..n
  PROVE  ColonAfter(text, e[k - 1]) = e[k]
<1>1. /\ text \in Bytes(m) /\ e[k] \in Nat /\ e[k - 1] \in Nat
      /\ e[k] - e[k - 1] \in 1..5 /\ e[k] <= m + 1
      /\ e[k] <= m => text[e[k]] = COLON
      /\ ws[k] \in Digits(e[k] - e[k - 1] - 1)
      /\ \A j \in 1..(e[k] - e[k - 1] - 1) : text[e[k - 1] + j] = ws[k][j]
  <2>1. k \in 0..n /\ k - 1 \in 0..n
    OBVIOUS
  <2>2. QED
    BY <2>1 DEF Spelled
<1>2. e[k - 1] \in 0..(m + 1) /\ e[k] \in 1..(m + 1) /\ e[k - 1] < e[k]
      /\ e[k] - e[k - 1] - 1 \in Nat
  BY <1>1
<1>3. ASSUME NEW l \in 1..m, e[k - 1] < l, l < e[k] PROVE text[l] # COLON
  <2>1. l - e[k - 1] \in 1..(e[k] - e[k - 1] - 1) /\ e[k - 1] + (l - e[k - 1]) = l
    BY <1>1, <1>3
  <2>2. text[e[k - 1] + (l - e[k - 1])] = ws[k][l - e[k - 1]] /\ ws[k][l - e[k - 1]] # COLON
    BY <1>1, <1>2, <2>1, DigitsAre
  <2>3. QED
    BY <2>1, <2>2
<1>4. PICK i \in 0..(m + 1), j \in 1..(m + 1) : i = e[k - 1] /\ j = e[k]
  BY <1>2
<1>5. QED
  BY <1>1, <1>2, <1>3, <1>4, ColonAfterIs

\* WordEnds finds the ends of the words, and then the end of the text.
LEMMA EndsFound ==
  ASSUME NEW m \in Nat, NEW n \in 1..8, NEW text, NEW e, NEW ws, Spelled(text, m, n, e, ws),
         e[n] = m + 1
  PROVE  \A k \in 0..9 : WordEnds(text)[k] = IF k <= n THEN e[k] ELSE m + 1
<1> DEFINE g == [k \in 0..9 |-> IF k <= n THEN e[k] ELSE m + 1]
           f == CHOOSE end : end = [k \in 0..9 |->
                  IF k = 0 THEN 0 ELSE ColonAfter(text, end[k - 1])]
<1>1. WordEnds(text) = f
  BY DEF WordEnds
<1>2. text \in Bytes(m) /\ e[0] = 0
  BY DEF Spelled
<1>3. ASSUME NEW k \in 1..9 PROVE g[k] = ColonAfter(text, g[k - 1])
  <2>1. k \in 0..9 /\ k - 1 \in 0..9
    OBVIOUS
  <2>2. CASE k <= n
    <3>1. k \in 1..n /\ k - 1 <= n /\ n \in Nat
      BY <2>2
    <3>2. ColonAfter(text, e[k - 1]) = e[k]
      BY <3>1, NextEnd
    <3>3. QED
      BY <2>1, <2>2, <3>1, <3>2
  <2>3. CASE ~(k <= n)
    <3>1. g[k] = m + 1 /\ g[k - 1] = m + 1
      BY <2>1, <2>3
    <3>2. m + 1 \in 0..(m + 1) /\ m + 1 \in 1..(m + 1) /\ ~(m + 1 <= m)
          /\ \A l \in 1..m : ~(m + 1 < l /\ l < m + 1)
      OBVIOUS
    <3>3. ColonAfter(text, m + 1) = m + 1
      BY <1>2, <3>2, ColonAfterIs
    <3>4. QED
      BY <3>1, <3>3
  <2>4. QED
    BY <2>2, <2>3
<1>4. g = [k \in 0..9 |-> IF k = 0 THEN 0 ELSE ColonAfter(text, g[k - 1])]
  <2>1. ASSUME NEW k \in 0..9
        PROVE  g[k] = IF k = 0 THEN 0 ELSE ColonAfter(text, g[k - 1])
    <3>1. CASE k = 0
      BY <1>2, <3>1
    <3>2. CASE k # 0
      <4>1. k \in 1..9
        BY <3>2
      <4>2. QED
        BY <1>3, <3>2, <4>1
    <3>3. QED
      BY <3>1, <3>2
  <2>2. QED
    BY <2>1
<1> HIDE DEF g
<1>5. f = [k \in 0..9 |-> IF k = 0 THEN 0 ELSE ColonAfter(text, f[k - 1])]
  BY <1>4
<1> HIDE DEF f
<1>6. f[0] = g[0]
  <2>1. 0 \in 0..9
    OBVIOUS
  <2>2. QED
    BY <1>4, <1>5, <2>1
<1>7. ASSUME NEW k \in 1..9, f[k - 1] = g[k - 1] PROVE f[k] = g[k]
  <2>1. k \in 0..9 /\ k # 0
    OBVIOUS
  <2>2. f[k] = ColonAfter(text, f[k - 1])
    BY <1>5, <2>1
  <2>3. QED
    BY <1>3, <1>7, <2>2
<1>8. \A k \in 0..9 : f[k] = g[k]
  BY <1>6, <1>7, SameIteration, 9 \in Nat
<1>9. QED
  BY <1>1, <1>8 DEF g

\* What a word between two ends is worth.
LEMMA WordValue ==
  ASSUME NEW m \in Nat, NEW n \in Nat, NEW text, NEW e, NEW ws, Spelled(text, m, n, e, ws),
         NEW k \in 1..n, e[k] # e[k - 1] + 1
  PROVE  ValueOf(SubSeq(text, e[k - 1] + 1, e[k] - 1)) = ValueOf(ws[k])
<1>1. /\ text \in Bytes(m) /\ e[k] \in Nat /\ e[k - 1] \in Nat
      /\ e[k] - e[k - 1] \in 1..5 /\ e[k] <= m + 1
      /\ ws[k] \in Digits(e[k] - e[k - 1] - 1)
      /\ \A j \in 1..(e[k] - e[k - 1] - 1) : text[e[k - 1] + j] = ws[k][j]
  <2>1. k \in 0..n /\ k - 1 \in 0..n
    OBVIOUS
  <2>2. QED
    BY <2>1 DEF Spelled
<1>2. PICK i \in 1..m : \E y \in i..m : i = e[k - 1] + 1 /\ y = e[k] - 1
  BY <1>1
<1>3. PICK j \in i..m : j = e[k] - 1
  BY <1>2
<1>4. PICK l \in Nat : l = e[k] - e[k - 1] - 1
  BY <1>1
<1>5. j - i + 1 = l
  BY <1>1, <1>2, <1>4, <1>3
<1>6. /\ SubSeq(text, i, j) \in Bytes(j - i + 1)
      /\ \A x \in 1..(j - i + 1) : SubSeq(text, i, j)[x] = text[i + x - 1]
  BY <1>1, Piece
<1>7. ASSUME NEW x \in 1..l PROVE SubSeq(text, i, j)[x] = ws[k][x]
  <2>1. i + x - 1 = e[k - 1] + x
    BY <1>1, <1>2
  <2>2. QED
    BY <1>1, <1>4, <1>5, <1>6, <2>1
<1>8. SubSeq(text, i, j) \in Bytes(l) /\ ws[k] \in Bytes(l)
  BY <1>1, <1>4, <1>5, <1>6, DigitsAre
<1>9. SubSeq(text, i, j) = ws[k]
  <2> HIDE DEF Byte
  <2> QED BY <1>7, <1>8 DEF Bytes
<1>10. QED
  BY <1>2, <1>9, <1>3

\* A text is read as the address that its words are worth, with zeros for an
\* empty word.
LEMMA ReadAs ==
  ASSUME NEW m \in Nat, NEW n \in 1..8, NEW text, NEW e, NEW ws, Spelled(text, m, n, e, ws),
         e[n] = m + 1,
         NEW gap \in 2..9, (n = 8 /\ gap = 9) \/ gap < n,
         \A k \in 1..n : e[k] = e[k - 1] + 1 <=> k = gap,
         NEW a \in Bytes(16),
         \A i \in 1..8 : Word16(a, i) = IF i < gap THEN ValueOf(ws[i])
                                        ELSE IF i > gap + 8 - n THEN ValueOf(ws[i - 8 + n]) ELSE 0
  PROVE  getaddrinfo(text) = a
<1> DEFINE end == WordEnds(text)
           Last(k) == end[k] > end[k - 1] /\ (k = 9 \/ end[k] = Len(text) + 1)
           n1 == CHOOSE k \in 1..9 : Last(k)
           gaps == {k \in 1..n : end[k] = end[k - 1] + 1}
           gap1 == IF gaps = {} THEN n + 1 ELSE CHOOSE k \in gaps : TRUE
           value(k) == ValueOf(SubSeq(text, end[k - 1] + 1, end[k] - 1))
           word == [i \in 1..8 |-> IF i < gap1 THEN value(i)
                                   ELSE IF i > gap1 + 8 - n THEN value(i - 8 + n) ELSE 0]
           read == [i \in 1..16 |-> LET w == word[(i + 1) \div 2]
                                    IN  IF i % 2 = 1 THEN w \div 256 ELSE w % 256]
           fits == /\ n <= 8 /\ \A k \in 1..n : end[k] - end[k - 1] <= 5
                   /\ (gaps = {} /\ n = 8) \/ \E k \in 2..(n - 1) : gaps = {k}
<1>1. \A k \in 0..9 : end[k] = IF k <= n THEN e[k] ELSE m + 1
  BY EndsFound
<1>2. Len(text) = m /\ e[0] = 0 /\ \A k \in 0..n : e[k] \in Nat
  BY BytesSeq DEF Spelled
<1>3. \A k \in 1..n : e[k] - e[k - 1] \in 1..5 /\ e[k] <= m + 1
  BY DEF Spelled
<1> HIDE DEF end
<1>4. n1 = n
  <2>1. Last(n)
    <3>1. n \in 0..9 /\ n - 1 \in 0..9 /\ n \in 1..n /\ n \in 0..n /\ n - 1 \in 0..n /\ n <= n
          /\ n - 1 <= n
      OBVIOUS
    <3>2. end[n] = e[n] /\ end[n - 1] = e[n - 1] /\ e[n] \in Nat /\ e[n - 1] \in Nat
      BY <1>1, <1>2, <3>1
    <3>3. e[n] - e[n - 1] \in 1..5
      BY <1>3, <3>1
    <3>4. QED
      BY <1>2, <3>2, <3>3
  <2>2. ASSUME NEW k \in 1..9, Last(k) PROVE k = n
    <3>1. CASE k > n
      <4>1. end[k] = m + 1 /\ end[k - 1] = m + 1
        BY <1>1, <3>1
      <4>2. QED
        BY <2>2, <4>1
    <3>2. CASE k < n
      <4>1. k + 1 \in 1..n /\ (k + 1) - 1 = k /\ k \in 0..9 /\ k <= n /\ k # 9 /\ k \in 0..n
            /\ k + 1 \in 0..n
        BY <3>2
      <4>2. e[k + 1] - e[k] \in 1..5 /\ e[k + 1] <= m + 1 /\ e[k] \in Nat /\ e[k + 1] \in Nat
        BY <1>2, <1>3, <4>1
      <4>3. end[k] = e[k] /\ end[k] # m + 1
        BY <1>1, <4>1, <4>2
      <4>4. QED
        BY <1>2, <2>2, <4>1, <4>3
    <3>3. QED
      BY <3>1, <3>2
  <2> HIDE DEF Last
  <2>3. n \in 1..9
    OBVIOUS
  <2>4. QED
    BY <2>1, <2>2, <2>3
<1>5. getaddrinfo(text) = IF fits THEN read ELSE NoAddress
  <2>1. getaddrinfo(text) =
          LET nn == n1
              gs == {k \in 1..nn : end[k] = end[k - 1] + 1}
              g == IF gs = {} THEN nn + 1 ELSE CHOOSE k \in gs : TRUE
              v(k) == ValueOf(SubSeq(text, end[k - 1] + 1, end[k] - 1))
              wd == [i \in 1..8 |-> IF i < g THEN v(i)
                                    ELSE IF i > g + 8 - nn THEN v(i - 8 + nn) ELSE 0]
          IN  IF /\ nn <= 8 /\ \A k \in 1..nn : end[k] - end[k - 1] <= 5
                 /\ (gs = {} /\ nn = 8) \/ \E k \in 2..(nn - 1) : gs = {k}
              THEN [i \in 1..16 |-> LET w == wd[(i + 1) \div 2]
                                    IN  IF i % 2 = 1 THEN w \div 256 ELSE w % 256]
              ELSE NoAddress
    BY DEF getaddrinfo, end
  <2> HIDE DEF n1
  <2>2. QED
    BY <1>4, <2>1
<1> HIDE DEF n1
<1>6. \A k \in 1..n : end[k] = e[k] /\ end[k - 1] = e[k - 1]
  BY <1>1
<1>7. gaps = {k \in 1..n : k = gap}
  BY <1>6
<1>8. gap1 = gap /\ fits
  <2>1. CASE gap < n
    <3>1. gaps = {gap} /\ gap \in 2..(n - 1)
      BY <1>7, <2>1
    <3>2. QED
      BY <1>3, <1>6, <3>1
  <2>2. CASE n = 8 /\ gap = 9
    <3>1. gaps = {}
      BY <1>7, <2>2
    <3>2. QED
      BY <1>3, <1>6, <2>2, <3>1
  <2>3. QED
    BY <2>1, <2>2
<1> HIDE DEF gap1, gaps
<1>9. ASSUME NEW i \in 1..8 PROVE word[i] = Word16(a, i)
  <2>1. CASE i < gap
    <3>1. i \in 1..n /\ n \in Nat /\ i # gap
      BY <2>1
    <3>2. e[i] # e[i - 1] + 1 /\ end[i] = e[i] /\ end[i - 1] = e[i - 1]
      BY <1>6, <3>1
    <3>3. value(i) = ValueOf(ws[i])
      BY <3>1, <3>2, WordValue
    <3>4. QED
      BY <1>8, <2>1, <3>3
  <2>2. CASE i > gap + 8 - n
    <3>1. PICK k \in 1..n : k = i - 8 + n /\ k # gap
      BY <2>2
    <3>2. e[k] # e[k - 1] + 1 /\ end[k] = e[k] /\ end[k - 1] = e[k - 1] /\ n \in Nat
      BY <1>6, <3>1
    <3>3. value(k) = ValueOf(ws[k])
      BY <3>2, WordValue
    <3>4. ~(i < gap)
      BY <2>2
    <3>5. QED
      BY <1>8, <2>2, <3>1, <3>3, <3>4
  <2>3. CASE ~(i < gap) /\ ~(i > gap + 8 - n)
    BY <1>8, <2>3
  <2>4. QED
    BY <2>1, <2>2, <2>3
<1> HIDE DEF word
<1>10. ASSUME NEW i \in 1..16 PROVE read[i] = a[i]
  <2>1. PICK j \in 1..8 : j = (i + 1) \div 2 /\ ((i = 2 * j - 1 /\ i % 2 = 1) \/ (i = 2 * j /\ i % 2 = 0))
    OBVIOUS
  <2>2. 2 * j - 1 \in 1..16 /\ 2 * j \in 1..16
    OBVIOUS
  <2>3. PICK x \in Byte, y \in Byte : x = a[2 * j - 1] /\ y = a[2 * j]
    BY <2>2 DEF Bytes
  <2>4. word[j] = 256 * x + y
    BY <1>9, <2>3 DEF Word16
  <2>5. x \in Int /\ 0 <= x /\ x <= 255 /\ y \in Int /\ 0 <= y /\ y <= 255
    BY ByteRange
  <2>6. (256 * x + y) \div 256 = x /\ (256 * x + y) % 256 = y
    BY <2>5
  <2>7. read[i] = IF i % 2 = 1 THEN word[j] \div 256 ELSE word[j] % 256
    BY <2>1
  <2>8. QED
    BY <2>1, <2>3, <2>4, <2>6, <2>7
<1>11. read = a
  <2> HIDE DEF Byte
  <2>1. read = [i \in 1..16 |-> read[i]] /\ a = [i \in 1..16 |-> a[i]]
    BY DEF Bytes
  <2> HIDE DEF read
  <2>2. QED
    BY <1>10, <2>1
<1>12. QED
  BY <1>5, <1>8, <1>11

\* t is the text and behind it the word w of d digits, and perhaps a colon; e2
\* and ws2 are the ends and the words of t.
Appended(text, m, n, e, ws, d, w, l, t, e2, ws2) ==
  /\ d \in 0..4 /\ w \in Digits(d) /\ l \in d..(d + 1)
  /\ t \in Bytes(m + l) /\ \A k \in 1..m : t[k] = text[k]
  /\ \A j \in 1..d : t[m + j] = w[j]
  /\ l = d + 1 => t[m + l] = COLON
  /\ e2 \in [0..(n + 1) -> Nat] /\ e2[n + 1] = m + d + 1 /\ \A k \in 0..n : e2[k] = e[k]
  /\ ws2[n + 1] = w /\ \A k \in 1..n : ws2[k] = ws[k]

\* One more word behind a text that ends in a colon or is empty.
LEMMA SpellMore ==
  ASSUME NEW m \in Nat, NEW n \in Nat, NEW text, NEW e, NEW ws, Spelled(text, m, n, e, ws),
         e[n] = m, NEW d, NEW w, NEW l, NEW t, NEW e2, NEW ws2,
         Appended(text, m, n, e, ws, d, w, l, t, e2, ws2)
  PROVE  Spelled(t, m + l, n + 1, e2, ws2)
<1>1. text \in Bytes(m) /\ e \in [0..n -> Nat] /\ e[0] = 0
  BY DEF Spelled
<1>2. d \in 0..4 /\ l \in d..(d + 1) /\ m + l \in Nat /\ l \in Nat
  BY DEF Appended
<1>3. e2 \in [0..(n + 1) -> Nat] /\ e2[0] = 0
  <2>1. 0 \in 0..n
    OBVIOUS
  <2>2. QED
    BY <1>1, <2>1 DEF Appended
<1>4. ASSUME NEW k \in 1..(n + 1)
      PROVE  /\ e2[k] - e2[k - 1] \in 1..5 /\ e2[k] <= m + l + 1
             /\ e2[k] <= m + l => t[e2[k]] = COLON
             /\ ws2[k] \in Digits(e2[k] - e2[k - 1] - 1)
             /\ \A j \in 1..(e2[k] - e2[k - 1] - 1) : t[e2[k - 1] + j] = ws2[k][j]
  <2>1. CASE k = n + 1
    <3>1. e2[k] = m + d + 1 /\ e2[k - 1] = m /\ ws2[k] = w
      <4>1. n \in 0..n /\ (n + 1) - 1 = n
        OBVIOUS
      <4>2. QED
        BY <2>1, <4>1 DEF Appended
    <3>2. (m + d + 1) - m \in 1..5 /\ (m + d + 1) - m - 1 = d /\ m + d + 1 <= m + l + 1
      BY <1>2
    <3>3. m + d + 1 <= m + l => l = d + 1 /\ m + d + 1 = m + l
      BY <1>2
    <3>4. w \in Digits(d) /\ (l = d + 1 => t[m + l] = COLON) /\ \A j \in 1..d : t[m + j] = w[j]
      BY DEF Appended
    <3>5. QED
      BY <3>1, <3>2, <3>3, <3>4
  <2>2. CASE k # n + 1
    <3>1. k \in 1..n /\ k \in 0..n /\ k - 1 \in 0..n
      BY <2>2
    <3>2. e2[k] = e[k] /\ e2[k - 1] = e[k - 1] /\ ws2[k] = ws[k]
      BY <3>1 DEF Appended
    <3>3. /\ e[k] - e[k - 1] \in 1..5 /\ e[k] <= m + 1
          /\ e[k] <= m => text[e[k]] = COLON
          /\ ws[k] \in Digits(e[k] - e[k - 1] - 1)
          /\ \A j \in 1..(e[k] - e[k - 1] - 1) : text[e[k - 1] + j] = ws[k][j]
      BY <3>1 DEF Spelled
    <3>4. e[k] \in Nat /\ e[k - 1] \in Nat /\ e[k] <= m
      <4>1. e[k] \in Nat /\ e[k - 1] \in Nat
        BY <1>1, <3>1
      <4>2. CASE k = n
        BY <4>1, <4>2
      <4>3. CASE k # n
        <5>1. k + 1 \in 1..n /\ k + 1 \in 0..n /\ (k + 1) - 1 = k
          BY <3>1, <4>3
        <5>2. e[k + 1] - e[k] \in 1..5 /\ e[k + 1] <= m + 1 /\ e[k + 1] \in Nat
          BY <1>1, <5>1 DEF Spelled
        <5>3. QED
          BY <4>1, <5>2
      <4>4. QED
        BY <4>2, <4>3
    <3>5. e[k] \in 1..m /\ \A j \in 1..(e[k] - e[k - 1] - 1) : e[k - 1] + j \in 1..m
      BY <3>3, <3>4
    <3>6. \A i \in 1..m : t[i] = text[i]
      BY DEF Appended
    <3>7. /\ t[e[k]] = COLON
          /\ \A j \in 1..(e[k] - e[k - 1] - 1) : t[e[k - 1] + j] = ws[k][j]
      BY <3>3, <3>4, <3>5, <3>6
    <3>8. e[k] <= m + l + 1
      BY <1>2, <3>4
    <3>9. QED
      BY <3>2, <3>3, <3>7, <3>8
  <2>3. QED
    BY <2>1, <2>2
<1>5. t \in Bytes(m + l)
  BY DEF Appended
<1>6. QED
  BY <1>3, <1>4, <1>5 DEF Spelled

\* A colon behind the last word of a text.
LEMMA SpellColon ==
  ASSUME NEW m \in Nat, NEW n \in Nat, NEW text, NEW e, NEW ws, Spelled(text, m, n, e, ws),
         e[n] = m + 1
  PROVE  Spelled(text \o <<COLON>>, m + 1, n, e, ws)
<1>1. text \in Bytes(m) /\ e \in [0..n -> Nat] /\ e[0] = 0
  BY DEF Spelled
<1>2. <<COLON>> \in Bytes(1) /\ 1 \in Nat /\ 1 \in 1..1
  BY DEF COLON, Bytes, Byte
<1>3. PICK t : t = text \o <<COLON>>
  OBVIOUS
<1>4. /\ t \in Bytes(m + 1)
      /\ \A k \in 1..m : t[k] = text[k]
      /\ t[m + 1] = COLON
  BY <1>1, <1>2, <1>3, Join
<1>5. ASSUME NEW k \in 1..n
      PROVE  /\ e[k] - e[k - 1] \in 1..5 /\ e[k] <= (m + 1) + 1
             /\ e[k] <= m + 1 => t[e[k]] = COLON
             /\ ws[k] \in Digits(e[k] - e[k - 1] - 1)
             /\ \A j \in 1..(e[k] - e[k - 1] - 1) : t[e[k - 1] + j] = ws[k][j]
  <2>1. /\ e[k] - e[k - 1] \in 1..5 /\ e[k] <= m + 1
        /\ e[k] <= m => text[e[k]] = COLON
        /\ ws[k] \in Digits(e[k] - e[k - 1] - 1)
        /\ \A j \in 1..(e[k] - e[k - 1] - 1) : text[e[k - 1] + j] = ws[k][j]
    BY DEF Spelled
  <2>2. e[k] \in Nat /\ e[k - 1] \in Nat
    BY <1>1
  <2>3. \A j \in 1..(e[k] - e[k - 1] - 1) : e[k - 1] + j \in 1..m
    BY <2>1, <2>2
  <2>4. e[k] = m + 1 \/ e[k] \in 1..m
    BY <2>1, <2>2
  <2>5. t[e[k]] = COLON
    BY <1>4, <2>1, <2>4
  <2>6. \A j \in 1..(e[k] - e[k - 1] - 1) : t[e[k - 1] + j] = ws[k][j]
    BY <1>4, <2>1, <2>3
  <2>7. e[k] <= (m + 1) + 1
    BY <2>1, <2>2
  <2>8. QED
    BY <2>1, <2>5, <2>6, <2>7
<1>6. QED
  BY <1>1, <1>3, <1>4, <1>5 DEF Spelled

\* The first n words of a text are worth v, but for the one that is empty; the
\* text ends in a word (over = 1), or in a colon or nothing (over = 0).
Reads(text, n, gap, v, over) ==
  \E m \in Nat : \E e, ws :
    /\ Spelled(text, m, n, e, ws)
    /\ e[n] = m + over
    /\ \A k \in 1..n : /\ e[k] = e[k - 1] + 1 <=> k = gap
                       /\ k # gap => ValueOf(ws[k]) = v[k]

\* No word yet.
LEMMA ReadsNothing ==
  ASSUME NEW gap, NEW v
  PROVE  Reads(<<>>, 0, gap, v, 0)
<1> DEFINE e == [k \in 0..0 |-> 0]
<1>1. <<>> \in Bytes(0) /\ 0 \in Nat
  <2>1. <<>> \in Seq(Byte) /\ Len(<<>>) = 0 /\ 0 \in Nat
    OBVIOUS
  <2>2. QED
    BY <2>1, BytesSeq, Zenon
<1>2. e \in [0..0 -> Nat] /\ e[0] = 0 /\ 1..0 = {}
  OBVIOUS
<1> HIDE DEF e
<1>3. Spelled(<<>>, 0, 0, e, <<>>)
  BY <1>1, <1>2 DEF Spelled
<1>4. QED
  BY <1>1, <1>2, <1>3 DEF Reads

\* What is read is a sequence of bytes.
LEMMA ReadsBytes ==
  ASSUME NEW n, NEW gap, NEW v, NEW over, NEW text, Reads(text, n, gap, v, over)
  PROVE  \E m \in Nat : text \in Bytes(m)
BY DEF Reads, Spelled

\* What is read of a text that ends in a colon or nothing.
LEMMA ReadsOpen ==
  ASSUME NEW n, NEW gap, NEW v, NEW text, Reads(text, n, gap, v, 0)
  PROVE  \E m \in Nat : \E e, ws :
           /\ Spelled(text, m, n, e, ws)
           /\ e[n] = m
           /\ \A k \in 1..n : /\ e[k] = e[k - 1] + 1 <=> k = gap
                              /\ k # gap => ValueOf(ws[k]) = v[k]
BY DEF Reads

\* A colon behind a word.
LEMMA ReadsColon ==
  ASSUME NEW n \in Nat, NEW gap, NEW v, NEW text, Reads(text, n, gap, v, 1)
  PROVE  Reads(text \o <<COLON>>, n, gap, v, 0)
<1>1. PICK m \in Nat : \E e, ws :
        /\ Spelled(text, m, n, e, ws)
        /\ e[n] = m + 1
        /\ \A k \in 1..n : /\ e[k] = e[k - 1] + 1 <=> k = gap
                           /\ k # gap => ValueOf(ws[k]) = v[k]
  BY DEF Reads
<1>2. PICK e, ws :
        /\ Spelled(text, m, n, e, ws)
        /\ e[n] = m + 1
        /\ \A k \in 1..n : /\ e[k] = e[k - 1] + 1 <=> k = gap
                           /\ k # gap => ValueOf(ws[k]) = v[k]
  BY <1>1
<1>3. Spelled(text \o <<COLON>>, m + 1, n, e, ws)
  BY <1>2, SpellColon
<1>4. m + 1 \in Nat
  OBVIOUS
<1>5. QED
  BY <1>2, <1>3, <1>4 DEF Reads

\* A word behind a colon or nothing.
LEMMA ReadsWord ==
  ASSUME NEW n \in Nat, NEW gap, NEW v, NEW text, Reads(text, n, gap, v, 0),
         NEW d \in 1..4, NEW w \in Digits(d), n + 1 # gap, ValueOf(w) = v[n + 1]
  PROVE  Reads(text \o w, n + 1, gap, v, 1)
<1>1. PICK m \in Nat : \E e, ws :
        /\ Spelled(text, m, n, e, ws)
        /\ e[n] = m
        /\ \A k \in 1..n : /\ e[k] = e[k - 1] + 1 <=> k = gap
                           /\ k # gap => ValueOf(ws[k]) = v[k]
  BY ReadsOpen
<1>2. PICK e, ws :
        /\ Spelled(text, m, n, e, ws)
        /\ e[n] = m
        /\ \A k \in 1..n : /\ e[k] = e[k - 1] + 1 <=> k = gap
                           /\ k # gap => ValueOf(ws[k]) = v[k]
  BY <1>1
<1> DEFINE e2 == [k \in 0..(n + 1) |-> IF k = n + 1 THEN m + d + 1 ELSE e[k]]
           ws2 == [k \in 1..(n + 1) |-> IF k = n + 1 THEN w ELSE ws[k]]
<1>3. text \in Bytes(m) /\ d \in Nat /\ w \in Bytes(d)
  BY <1>2, DigitsAre DEF Spelled
<1>4. PICK t \in Bytes(m + d) :
        /\ t = text \o w
        /\ \A k \in 1..m : t[k] = text[k]
        /\ \A j \in 1..d : t[m + j] = w[j]
  BY <1>3, Join
<1>5. d \in 0..4 /\ d \in d..(d + 1) /\ d # d + 1
  OBVIOUS
<1>6. Spelled(t, m + d, n + 1, e2, ws2)
  <2>1. /\ e2 \in [0..(n + 1) -> Nat] /\ e2[n + 1] = m + d + 1 /\ \A k \in 0..n : e2[k] = e[k]
        /\ ws2[n + 1] = w /\ \A k \in 1..n : ws2[k] = ws[k]
    BY <1>2 DEF Spelled
  <2> HIDE DEF e2, ws2
  <2>2. Appended(text, m, n, e, ws, d, w, d, t, e2, ws2)
    BY <1>4, <1>5, <2>1 DEF Appended
  <2>3. QED
    BY <1>2, <2>2, SpellMore
<1>7. m + d \in Nat /\ e2[n + 1] = m + d + 1
  OBVIOUS
<1>8. ASSUME NEW k \in 1..(n + 1)
      PROVE  /\ e2[k] = e2[k - 1] + 1 <=> k = gap
             /\ k # gap => ValueOf(ws2[k]) = v[k]
  <2>1. CASE k = n + 1
    <3>1. e2[k] = m + d + 1 /\ e2[k - 1] = m /\ ws2[k] = w /\ m + d + 1 # m + 1
      BY <1>2, <2>1
    <3>2. QED
      BY <2>1, <3>1
  <2>2. CASE k # n + 1
    <3>1. k \in 1..n /\ e2[k] = e[k] /\ e2[k - 1] = e[k - 1] /\ ws2[k] = ws[k]
      BY <2>2
    <3>2. QED
      BY <1>2, <3>1
  <2>3. QED
    BY <2>1, <2>2
<1> HIDE DEF e2, ws2
<1>9. Reads(t, n + 1, gap, v, 1)
  BY <1>6, <1>7, <1>8 DEF Reads
<1>10. QED
  BY <1>4, <1>9

\* A second colon makes an empty word.
LEMMA ReadsGap ==
  ASSUME NEW n \in Nat, NEW gap, NEW v, NEW text, Reads(text, n, gap, v, 0), n + 1 = gap
  PROVE  Reads(text \o <<COLON>>, n + 1, gap, v, 0)
<1>1. PICK m \in Nat : \E e, ws :
        /\ Spelled(text, m, n, e, ws)
        /\ e[n] = m
        /\ \A k \in 1..n : /\ e[k] = e[k - 1] + 1 <=> k = gap
                           /\ k # gap => ValueOf(ws[k]) = v[k]
  BY ReadsOpen
<1>2. PICK e, ws :
        /\ Spelled(text, m, n, e, ws)
        /\ e[n] = m
        /\ \A k \in 1..n : /\ e[k] = e[k - 1] + 1 <=> k = gap
                           /\ k # gap => ValueOf(ws[k]) = v[k]
  BY <1>1
<1> DEFINE e2 == [k \in 0..(n + 1) |-> IF k = n + 1 THEN m + 0 + 1 ELSE e[k]]
           ws2 == [k \in 1..(n + 1) |-> IF k = n + 1 THEN <<>> ELSE ws[k]]
<1>3. text \in Bytes(m)
  BY <1>2 DEF Spelled
<1>4. <<COLON>> \in Bytes(1) /\ 1 \in Nat /\ 1 \in 1..1 /\ <<COLON>>[1] = COLON
  BY DEF COLON, Bytes, Byte
<1>5. PICK t \in Bytes(m + 1) :
        /\ t = text \o <<COLON>>
        /\ \A k \in 1..m : t[k] = text[k]
        /\ t[m + 1] = COLON
  BY <1>3, <1>4, Join
<1>6. 0 \in 0..4 /\ 1 \in 0..(0 + 1) /\ <<>> \in Digits(0) /\ \A j \in 1..0 : FALSE
  BY DEF Digits
<1>7. Spelled(t, m + 1, n + 1, e2, ws2)
  <2>1. /\ e2 \in [0..(n + 1) -> Nat] /\ e2[n + 1] = m + 0 + 1 /\ \A k \in 0..n : e2[k] = e[k]
        /\ ws2[n + 1] = <<>> /\ \A k \in 1..n : ws2[k] = ws[k]
    BY <1>2 DEF Spelled
  <2> HIDE DEF e2, ws2
  <2>2. Appended(text, m, n, e, ws, 0, <<>>, 1, t, e2, ws2)
    BY <1>5, <1>6, <2>1 DEF Appended
  <2>3. QED
    BY <1>2, <2>2, SpellMore
<1>8. m + 1 \in Nat /\ e2[n + 1] = m + 1
  OBVIOUS
<1>9. ASSUME NEW k \in 1..(n + 1)
      PROVE  /\ e2[k] = e2[k - 1] + 1 <=> k = gap
             /\ k # gap => ValueOf(ws2[k]) = v[k]
  <2>1. CASE k = n + 1
    <3>1. e2[k] = m + 1 /\ e2[k - 1] = m
      BY <1>2, <2>1
    <3>2. QED
      BY <2>1, <3>1
  <2>2. CASE k # n + 1
    <3>1. k \in 1..n /\ e2[k] = e[k] /\ e2[k - 1] = e[k - 1] /\ ws2[k] = ws[k]
      BY <2>2
    <3>2. QED
      BY <1>2, <3>1
  <2>3. QED
    BY <2>1, <2>2
<1> HIDE DEF e2, ws2
<1>10. Reads(t, n + 1, gap, v, 0)
  BY <1>7, <1>8, <1>9 DEF Reads
<1>11. QED
  BY <1>5, <1>10

\* Two colons are a colon and a colon, and nothing in front of a word is nothing.
LEMMA TwoColons ==
  ASSUME NEW m \in Nat, NEW text \in Bytes(m)
  PROVE  /\ text \o <<COLON, COLON>> = (text \o <<COLON>>) \o <<COLON>>
         /\ <<>> \o text = text /\ text \o <<>> = text
<1>1. <<COLON>> \in Bytes(1) /\ <<COLON, COLON>> \in Bytes(2) /\ <<COLON>>[1] = COLON
      /\ <<COLON, COLON>>[1] = COLON /\ <<COLON, COLON>>[2] = COLON
  BY DEF COLON, Bytes, Byte
<1>2. 1 \in Nat /\ 2 \in Nat /\ 1 \in 1..1 /\ 1 \in 1..2 /\ 2 \in 1..2 /\ m + 1 \in Nat
  OBVIOUS
<1>3. PICK x \in Bytes(m + 2) :
        /\ x = text \o <<COLON, COLON>>
        /\ \A k \in 1..m : x[k] = text[k]
        /\ x[m + 1] = COLON /\ x[m + 2] = COLON
  BY <1>1, <1>2, Join
<1>4. PICK y \in Bytes(m + 1) :
        /\ y = text \o <<COLON>>
        /\ \A k \in 1..m : y[k] = text[k]
        /\ y[m + 1] = COLON
  BY <1>1, <1>2, Join
<1>5. PICK z \in Bytes((m + 1) + 1) :
        /\ z = y \o <<COLON>>
        /\ \A k \in 1..(m + 1) : z[k] = y[k]
        /\ z[(m + 1) + 1] = COLON
  BY <1>1, <1>2, Join
<1>6. x = z
  <2>1. \A k \in 1..(m + 2) : x[k] = z[k]
    <3>1. \A k \in 1..(m + 2) : k \in 1..m \/ k = m + 1 \/ k = m + 2
      OBVIOUS
    <3>2. m + 1 \in 1..(m + 1) /\ (m + 1) + 1 = m + 2 /\ \A k \in 1..m : k \in 1..(m + 1)
      OBVIOUS
    <3>3. QED
      BY <1>3, <1>4, <1>5, <3>1, <3>2
  <2>2. z \in Bytes(m + 2)
    <3>1. (m + 1) + 1 = m + 2
      OBVIOUS
    <3>2. QED
      BY <1>5, <3>1
  <2> HIDE DEF Byte
  <2>3. QED
    BY <2>1, <2>2 DEF Bytes
<1>7. text \in Seq(Byte)
  BY BytesSeq
<1>8. QED
  <2>1. <<>> \o text = text /\ text \o <<>> = text
    BY <1>7, ConcatEmptySeq
  <2>2. QED
    BY <1>3, <1>4, <1>5, <1>6, <2>1

\* A text that is read to the end is the address its words are worth.
LEMMA ReadsAddress ==
  ASSUME NEW n \in 1..8, NEW gap \in 2..9, (n = 8 /\ gap = 9) \/ gap < n,
         NEW v, NEW text, Reads(text, n, gap, v, 1), NEW a \in Bytes(16),
         \A i \in 1..8 : Word16(a, i) = IF i < gap THEN v[i]
                                        ELSE IF i > gap + 8 - n THEN v[i - 8 + n] ELSE 0
  PROVE  getaddrinfo(text) = a
<1>1. PICK m \in Nat : \E e, ws :
        /\ Spelled(text, m, n, e, ws)
        /\ e[n] = m + 1
        /\ \A k \in 1..n : /\ e[k] = e[k - 1] + 1 <=> k = gap
                           /\ k # gap => ValueOf(ws[k]) = v[k]
  BY DEF Reads
<1>2. PICK e, ws :
        /\ Spelled(text, m, n, e, ws)
        /\ e[n] = m + 1
        /\ \A k \in 1..n : /\ e[k] = e[k - 1] + 1 <=> k = gap
                           /\ k # gap => ValueOf(ws[k]) = v[k]
  BY <1>1
<1>3. ASSUME NEW i \in 1..8
      PROVE  Word16(a, i) = IF i < gap THEN ValueOf(ws[i])
                            ELSE IF i > gap + 8 - n THEN ValueOf(ws[i - 8 + n]) ELSE 0
  <2>1. i < gap => i \in 1..n /\ i # gap
    OBVIOUS
  <2>2. i > gap + 8 - n => i - 8 + n \in 1..n /\ i - 8 + n # gap
    OBVIOUS
  <2>3. i < gap => ValueOf(ws[i]) = v[i]
    BY <1>2, <2>1
  <2>4. i > gap + 8 - n => ValueOf(ws[i - 8 + n]) = v[i - 8 + n]
    BY <1>2, <2>2
  <2>5. QED
    BY <2>3, <2>4
<1>4. \A k \in 1..n : e[k] = e[k - 1] + 1 <=> k = gap
  BY <1>2
<1>5. QED
  BY <1>2, <1>3, <1>4, ReadAs

\* The text that the gateway and the tool make of an address is read as this
\* address, if the bytes they leave out are zero.
THEOREM UnexpandedIsRead ==
  ASSUME NEW a \in Bytes(16), \A i \in 3..8 : a[i] = 0
  PROVE  getaddrinfo(ipv6_to_str_unexpanded(a)) = a
<1> DEFINE pair(i) == HexByte(a[i]) \o HexByte(a[i + 1])
           v == [k \in 1..6 |-> IF k = 1 THEN Word16(a, 1) ELSE Word16(a, k + 2)]
           t1 == pair(1)
           t2 == t1 \o <<COLON, COLON>>
           t3 == t2 \o pair(9)
           t4 == (t3 \o <<COLON>>) \o pair(11)
           t5 == (t4 \o <<COLON>>) \o pair(13)
           t6 == (t5 \o <<COLON>>) \o pair(15)
<1>1. \A i \in 1..15 : a[i] \in Byte /\ a[i + 1] \in Byte
  <2> HIDE DEF Byte
  <2> QED BY DEF Bytes
<1>2. \A i \in 1..15 : pair(i) \in Digits(4) /\ ValueOf(pair(i)) = 256 * a[i] + a[i + 1]
  BY <1>1, PairRead
<1>3. ipv6_to_str_unexpanded(a) = t6
  BY DEF ipv6_to_str_unexpanded
<1>4. /\ v[1] = 256 * a[1] + a[1 + 1] /\ v[3] = 256 * a[9] + a[9 + 1]
      /\ v[4] = 256 * a[11] + a[11 + 1] /\ v[5] = 256 * a[13] + a[13 + 1]
      /\ v[6] = 256 * a[15] + a[15 + 1]
  BY DEF Word16
<1> HIDE DEF pair
<1>5. \A j \in {1, 9, 11, 13, 15} : pair(j) \in Digits(4) /\ pair(j) \in Bytes(4)
                                    /\ ValueOf(pair(j)) = 256 * a[j] + a[j + 1]
  BY <1>2, DigitsAre
<1>6. \A n \in Nat : \A text : \A j \in {1, 9, 11, 13, 15} :
        Reads(text, n, 2, v, 0) /\ n + 1 # 2 /\ v[n + 1] = 256 * a[j] + a[j + 1] =>
          Reads(text \o pair(j), n + 1, 2, v, 1)
  <2> HIDE DEF v
  <2>1. 4 \in 1..4
    OBVIOUS
  <2>2. QED
    BY <1>5, <2>1, ReadsWord
<1>7. /\ 0 \in Nat /\ 0 + 1 = 1 /\ 1 \in Nat /\ 1 + 1 = 2 /\ 2 \in Nat /\ 2 + 1 = 3 /\ 3 \in Nat
      /\ 3 + 1 = 4 /\ 4 \in Nat /\ 4 + 1 = 5 /\ 5 \in Nat /\ 5 + 1 = 6 /\ 1 # 2 /\ 3 # 2 /\ 4 # 2
      /\ 5 # 2 /\ 6 # 2
  OBVIOUS
<1> HIDE DEF v
<1>8. Reads(t1, 1, 2, v, 1)
  <2>1. Reads(<<>>, 0, 2, v, 0)
    BY ReadsNothing
  <2>2. Reads(<<>> \o pair(1), 0 + 1, 2, v, 1)
    BY <1>4, <1>6, <1>7, <2>1
  <2>3. <<>> \o pair(1) = pair(1)
    BY <1>5, <1>7, TwoColons
  <2>4. QED
    BY <1>7, <2>2, <2>3
<1>9. Reads(t2, 2, 2, v, 0)
  <2>1. t2 = (t1 \o <<COLON>>) \o <<COLON>>
    BY <1>5, <1>7, TwoColons
  <2>2. Reads(t1 \o <<COLON>>, 1, 2, v, 0)
    BY <1>7, <1>8, ReadsColon
  <2>3. Reads((t1 \o <<COLON>>) \o <<COLON>>, 1 + 1, 2, v, 0)
    BY <1>7, <2>2, ReadsGap
  <2>4. QED
    BY <1>7, <2>1, <2>3
<1> HIDE DEF t1, t2
<1>10. Reads(t3, 3, 2, v, 1)
  BY <1>4, <1>6, <1>7, <1>9
<1> HIDE DEF t3
<1>11. Reads(t4, 4, 2, v, 1)
  <2>1. Reads(t3 \o <<COLON>>, 3, 2, v, 0)
    BY <1>7, <1>10, ReadsColon
  <2>2. QED
    BY <1>4, <1>6, <1>7, <2>1
<1> HIDE DEF t4
<1>12. Reads(t5, 5, 2, v, 1)
  <2>1. Reads(t4 \o <<COLON>>, 4, 2, v, 0)
    BY <1>7, <1>11, ReadsColon
  <2>2. QED
    BY <1>4, <1>6, <1>7, <2>1
<1> HIDE DEF t5
<1>13. Reads(t6, 6, 2, v, 1)
  <2>1. Reads(t5 \o <<COLON>>, 5, 2, v, 0)
    BY <1>7, <1>12, ReadsColon
  <2>2. QED
    BY <1>4, <1>6, <1>7, <2>1
<1> HIDE DEF t6
<1>14. ASSUME NEW i \in 1..8
       PROVE  Word16(a, i) = IF i < 2 THEN v[i] ELSE IF i > 2 + 8 - 6 THEN v[i - 8 + 6] ELSE 0
  <2>1. CASE i = 1
    BY <2>1 DEF v
  <2>2. CASE i \in 2..4
    <3>1. 2 * i - 1 \in 3..8 /\ 2 * i \in 3..8
      BY <2>2
    <3>2. a[2 * i - 1] = 0 /\ a[2 * i] = 0
      BY <3>1
    <3>3. QED
      BY <2>2, <3>2 DEF Word16
  <2>3. CASE i \in 5..8
    <3>1. i - 8 + 6 \in 1..6 /\ i - 8 + 6 # 1 /\ (i - 8 + 6) + 2 = i
      BY <2>3
    <3>2. v[i - 8 + 6] = Word16(a, i)
      BY <3>1 DEF v
    <3>3. QED
      BY <2>3, <3>2
  <2>4. QED
    BY <2>1, <2>2, <2>3
<1>15. 6 \in 1..8 /\ 2 \in 2..9 /\ 2 < 6
  OBVIOUS
<1>16. QED
  BY <1>3, <1>13, <1>14, <1>15, ReadsAddress

-----------------------------------------------------------------------------
(* What ipaddr_add prints *)

\* The first zero word of an address is the g-th, and the next word that is
\* not zero is the h-th; g is 9 if no word is zero.
ZeroRun(a, g, h) ==
  /\ g \in 2..9 /\ h \in 3..10 /\ g < h /\ (g = 9 \/ h <= 8)
  /\ \A k \in 1..8 : /\ k < g => Word16(a, k) # 0
                     /\ g <= k /\ k < h => Word16(a, k) = 0
                     /\ k = h => Word16(a, k) # 0

\* After i words of such an address: the counter f, how many words of text
\* there are, and whether the text ends in a word.
ZerosSeen(g, h, i) == IF i < g THEN 0 ELSE IF i < h THEN i - g + 1 ELSE -1
WordsMade(g, h, i) == IF i < g THEN i ELSE IF i < h THEN g ELSE i - h + g + 1
EndsInWord(g, h, i) == IF i = 0 THEN 0 ELSE IF i < g \/ h <= i THEN 1 ELSE 0
MadeOf(a, g, h) == [k \in 1..8 |-> IF k < g THEN Word16(a, k) ELSE Word16(a, k + h - g - 1)]

\* Where ipaddr_add is after i words.
Printed(s, a, g, h, i) ==
  /\ s.f = ZerosSeen(g, h, i)
  /\ Reads(s.text, WordsMade(g, h, i), g, MadeOf(a, g, h), EndsInWord(g, h, i))

\* A word printed behind a colon, or behind what needs none.
LEMMA WordAdded ==
  ASSUME NEW n \in Nat, NEW gap, NEW v, NEW text, NEW over \in {0, 1},
         Reads(text, n, gap, v, over), n + 1 # gap,
         NEW w \in Word16Bits, w = v[n + 1], NEW colon,
         colon = IF over = 0 THEN <<>> ELSE <<COLON>>
  PROVE  Reads(text \o colon \o HexWord(w), n + 1, gap, v, 1)
<1>1. PICK d \in 1..4 : HexWord(w) \in Digits(d) /\ ValueOf(HexWord(w)) = w
  BY HexWordRead
<1>2. Reads(text \o colon, n, gap, v, 0)
  <2>1. CASE over = 0
    <3>1. text \o <<>> = text
      BY ReadsBytes, TwoColons
    <3>2. QED
      BY <2>1, <3>1
  <2>2. CASE over = 1
    <3>1. Reads(text \o <<COLON>>, n, gap, v, 0)
      BY <2>2, ReadsColon
    <3>2. QED
      BY <2>2, <3>1
  <2>3. QED
    BY <2>1, <2>2
<1>3. QED
  BY <1>1, <1>2, ReadsWord

\* One word more.
LEMMA PrintedOn ==
  ASSUME NEW a \in Bytes(16), NEW g, NEW h, ZeroRun(a, g, h), NEW i \in 1..8,
         NEW s, Printed(s, a, g, h, i - 1)
  PROVE  Printed(AddWord(s, Word16(a, i), i = 1), a, g, h, i)
<1> DEFINE w == Word16(a, i)
           v == MadeOf(a, g, h)
           n == WordsMade(g, h, i - 1)
           over == EndsInWord(g, h, i - 1)
           colon == IF s.f > 0 \/ i = 1 THEN <<>> ELSE <<COLON>>
           r == AddWord(s, Word16(a, i), i = 1)
<1>1. /\ g \in 2..9 /\ h \in 3..10 /\ g < h /\ (g = 9 \/ h <= 8)
      /\ i < g => w # 0
      /\ g <= i /\ i < h => w = 0
      /\ i = h => w # 0
  BY DEF ZeroRun
<1>2. s.f = ZerosSeen(g, h, i - 1) /\ Reads(s.text, n, g, v, over)
  BY DEF Printed
<1>3. w \in Word16Bits
  <2>1. 2 * i - 1 \in 1..16 /\ 2 * i \in 1..16
    OBVIOUS
  <2>2. a[2 * i - 1] \in Byte /\ a[2 * i] \in Byte
    <3> HIDE DEF Byte
    <3> QED BY <2>1 DEF Bytes
  <2>3. QED
    BY <2>2, WordOfBytes DEF Word16
<1>4. n \in Nat /\ over \in {0, 1} /\ s.f \in Int
  BY <1>1, <1>2 DEF WordsMade, EndsInWord, ZerosSeen
<1>5. r = IF w = 0 /\ s.f >= 0
          THEN [f |-> s.f + 1, text |-> IF s.f = 0 THEN s.text \o <<COLON, COLON>> ELSE s.text]
          ELSE [f |-> IF s.f > 0 THEN -1 ELSE s.f, text |-> s.text \o colon \o HexWord(w)]
  BY DEF AddWord
<1>6. v[n + 1] = w \/ ~(i < g \/ h <= i)
  <2>1. CASE i < g
    <3>1. n + 1 = i /\ i \in 1..8
      BY <1>1, <2>1 DEF WordsMade
    <3>2. QED
      BY <2>1, <3>1 DEF MadeOf
  <2>2. CASE h <= i
    <3>1. n + 1 = i - h + g + 1 /\ i - h + g + 1 \in 1..8 /\ ~(i - h + g + 1 < g)
          /\ (i - h + g + 1) + h - g - 1 = i
      BY <1>1, <2>2 DEF WordsMade
    <3>2. QED
      BY <3>1 DEF MadeOf
  <2>3. QED
    BY <2>1, <2>2
<1> HIDE DEF w, v, r
<1>7. CASE i < g \/ h <= i
  <2>1. /\ ~(w = 0 /\ s.f >= 0) /\ n + 1 # g
        /\ colon = IF over = 0 THEN <<>> ELSE <<COLON>>
        /\ (IF s.f > 0 THEN -1 ELSE s.f) = ZerosSeen(g, h, i)
        /\ WordsMade(g, h, i) = n + 1 /\ EndsInWord(g, h, i) = 1
    BY <1>1, <1>2, <1>7 DEF WordsMade, EndsInWord, ZerosSeen
  <2>2. v[n + 1] = w
    BY <1>6, <1>7
  <2> HIDE DEF n, over, colon
  <2>3. Reads(s.text \o colon \o HexWord(w), n + 1, g, v, 1)
    BY <1>2, <1>3, <1>4, <2>1, <2>2, WordAdded
  <2>4. r.f = ZerosSeen(g, h, i) /\ r.text = s.text \o colon \o HexWord(w)
    BY <1>5, <2>1
  <2>5. QED
    BY <2>1, <2>3, <2>4 DEF Printed, r, v, w
<1>8. CASE i = g
  <2>1. /\ w = 0 /\ s.f = 0 /\ n \in Nat /\ n + 1 = g /\ over = 1
        /\ ZerosSeen(g, h, i) = 1 /\ WordsMade(g, h, i) = n + 1 /\ EndsInWord(g, h, i) = 0
    BY <1>1, <1>2, <1>8 DEF WordsMade, EndsInWord, ZerosSeen
  <2> HIDE DEF n, over
  <2>2. s.text \o <<COLON, COLON>> = (s.text \o <<COLON>>) \o <<COLON>>
    BY <1>2, ReadsBytes, TwoColons
  <2>3. Reads(s.text \o <<COLON>>, n, g, v, 0)
    BY <1>2, <2>1, ReadsColon
  <2>4. Reads((s.text \o <<COLON>>) \o <<COLON>>, n + 1, g, v, 0)
    BY <2>1, <2>3, ReadsGap
  <2>5. r.f = 1 /\ r.text = s.text \o <<COLON, COLON>>
    BY <1>5, <2>1
  <2>6. QED
    BY <2>1, <2>2, <2>4, <2>5 DEF Printed, r, v, w
<1>9. CASE g < i /\ i < h
  <2>1. /\ w = 0 /\ s.f > 0 /\ s.f >= 0 /\ s.f # 0 /\ s.f + 1 = ZerosSeen(g, h, i)
        /\ WordsMade(g, h, i) = n /\ EndsInWord(g, h, i) = over
    BY <1>1, <1>2, <1>9 DEF WordsMade, EndsInWord, ZerosSeen
  <2>2. r.f = s.f + 1 /\ r.text = s.text
    BY <1>5, <2>1
  <2>3. QED
    BY <1>2, <2>1, <2>2 DEF Printed, r, v, w
<1>10. QED
  BY <1>1, <1>7, <1>8, <1>9

\* The text of an address neither begins nor ends with its run of zeros.
RunInside(a) ==
  /\ Word16(a, 1) # 0
  /\ Word16(a, 8) = 0 => \E j, k \in 1..8 : j < k /\ Word16(a, j) = 0 /\ Word16(a, k) # 0

\* Such an address has a run, or no word that is zero.
LEMMA RunExists ==
  ASSUME NEW a, RunInside(a)
  PROVE  \E g, h : ZeroRun(a, g, h)
<1> DEFINE zeros == {k \in 1..8 : Word16(a, k) = 0}
<1>1. CASE zeros = {}
  <2>1. \A k \in 1..8 : Word16(a, k) # 0
    BY <1>1
  <2>2. \A k \in 1..8 : ~(9 <= k) /\ k # 10
    OBVIOUS
  <2>3. 9 \in 2..9 /\ 10 \in 3..10 /\ 9 < 10
    OBVIOUS
  <2>4. ZeroRun(a, 9, 10)
    BY <2>1, <2>2, <2>3 DEF ZeroRun
  <2>5. QED
    BY <2>4
<1>2. CASE zeros # {}
  <2>1. PICK g \in zeros : \A k \in zeros : g <= k
    <3>1. zeros \subseteq Nat
      OBVIOUS
    <3> HIDE DEF zeros
    <3>2. QED
      BY <1>2, <3>1, LeastNatural
  <2>2. g \in 2..8 /\ Word16(a, g) = 0 /\ \A k \in 1..8 : k < g => Word16(a, k) # 0
    BY <2>1 DEF RunInside
  <2> DEFINE others == {k \in 1..8 : g < k /\ Word16(a, k) # 0}
  <2>3. others # {}
    <3>1. CASE Word16(a, 8) = 0
      <4>1. PICK j \in 1..8, k \in 1..8 : j < k /\ Word16(a, j) = 0 /\ Word16(a, k) # 0
        BY <3>1 DEF RunInside
      <4>2. g <= j
        BY <2>1, <4>1
      <4>3. k \in others
        BY <2>2, <4>1, <4>2
      <4>4. QED
        BY <4>3
    <3>2. CASE Word16(a, 8) # 0
      <4>1. 8 \in others
        BY <2>2, <3>2
      <4>2. QED
        BY <4>1
    <3>3. QED
      BY <3>1, <3>2
  <2>4. PICK h \in others : \A k \in others : h <= k
    <3>1. others \subseteq Nat
      OBVIOUS
    <3> HIDE DEF others
    <3>2. QED
      BY <2>3, <3>1, LeastNatural
  <2>5. h \in 3..8 /\ g < h /\ Word16(a, h) # 0
    BY <2>2, <2>4
  <2>6. ASSUME NEW k \in 1..8, g <= k, k < h PROVE Word16(a, k) = 0
    BY <2>2, <2>4, <2>5, <2>6
  <2>7. ZeroRun(a, g, h)
    BY <2>2, <2>5, <2>6 DEF ZeroRun
  <2>8. QED
    BY <2>7
<1>3. QED
  BY <1>1, <1>2

\* The states of ipaddr_add.
PrintState == [f : Int, text : Seq(Byte)]

\* Each of its states follows from the one before.
LEMMA PrintSteps ==
  ASSUME NEW a \in Bytes(16)
  PROVE  \E f \in [0..8 -> PrintState] :
           /\ ipaddr_add(a) = f[8].text /\ f[0].f = 0 /\ f[0].text = <<>>
           /\ \A i \in 1..8 : /\ f[i] = AddWord(f[i - 1], Word16(a, i), i = 1)
                              /\ Word16(a, i) \in Word16Bits
<1> DEFINE A == PrintState
           x == [f |-> 0, text |-> <<>>]
           f == CHOOSE after : after = [i \in 0..8 |->
                  IF i = 0 THEN [f |-> 0, text |-> <<>>]
                  ELSE AddWord(after[i - 1], Word16(a, i), i = 1)]
           G == [p \in (1..8) \X A |-> AddWord(p[2], Word16(a, p[1]), p[1] = 1)]
           B == [i \in 0..8 |-> A]
<1>1. ipaddr_add(a) = f[8].text
  BY DEF ipaddr_add
<1>2. \A i \in 1..8 : Word16(a, i) \in Word16Bits
  <2>1. ASSUME NEW i \in 1..8 PROVE Word16(a, i) \in Word16Bits
    <3>1. 2 * i - 1 \in 1..16 /\ 2 * i \in 1..16
      OBVIOUS
    <3>2. a[2 * i - 1] \in Byte /\ a[2 * i] \in Byte
      <4> HIDE DEF Byte
      <4> QED BY <3>1 DEF Bytes
    <3>3. QED
      BY <3>2, WordOfBytes DEF Word16
  <2>2. QED
    BY <2>1
<1>3. ASSUME NEW i \in 1..8, NEW s \in A
      PROVE  AddWord(s, Word16(a, i), i = 1) \in A
  <2>1. PICK w \in Word16Bits : w = Word16(a, i)
    BY <1>2
  <2>2. HexWord(w) \in Seq(Byte)
    <3>1. PICK n \in 1..4 : HexWord(w) \in Digits(n)
      BY HexWordRead
    <3>2. QED
      BY <3>1, DigitsAre, BytesSeq
  <2>3. <<COLON>> \in Seq(Byte) /\ <<COLON, COLON>> \in Seq(Byte) /\ <<>> \in Seq(Byte)
    BY DEF COLON, Byte
  <2>4. s.text \in Seq(Byte) /\ s.f \in Int
    BY DEF PrintState
  <2>5. \A t, u \in Seq(Byte) : t \o u \in Seq(Byte)
    OBVIOUS
  <2> HIDE DEF Byte
  <2>6. QED
    BY <2>1, <2>2, <2>3, <2>4, <2>5 DEF AddWord, PrintState
<1>4. x \in A /\ 8 \in Nat
  BY DEF PrintState
<1> HIDE DEF A
<1>5. G \in [(1..8) \X A -> A]
  BY <1>3
<1>6. PICK y \in [0..8 -> A] : Iterates(y, x, G, 8)
  <2> HIDE DEF G, x
  <2> QED BY <1>4, <1>5, IterationExists
<1>7. y = [i \in 0..8 |-> IF i = 0 THEN [f |-> 0, text |-> <<>>]
                           ELSE AddWord(y[i - 1], Word16(a, i), i = 1)]
  <2>1. ASSUME NEW i \in 0..8
        PROVE  y[i] = IF i = 0 THEN [f |-> 0, text |-> <<>>]
                      ELSE AddWord(y[i - 1], Word16(a, i), i = 1)
    <3>1. CASE i = 0
      BY <1>6, <3>1 DEF Iterates
    <3>2. CASE i # 0
      <4>1. i \in 1..8 /\ i - 1 \in 0..8
        BY <3>2
      <4>2. y[i] = G[<<i, y[i - 1]>>] /\ y[i - 1] \in A
        <5> HIDE DEF G
        <5> QED BY <1>6, <3>2, <4>1 DEF Iterates
      <4>3. <<i, y[i - 1]>> \in (1..8) \X A
        BY <4>1, <4>2
      <4>4. QED
        BY <3>2, <4>2, <4>3
    <3>3. QED
      BY <3>1, <3>2
  <2>2. QED
    BY <2>1
<1> HIDE DEF G
<1>8. f = [i \in 0..8 |-> IF i = 0 THEN [f |-> 0, text |-> <<>>]
                           ELSE AddWord(f[i - 1], Word16(a, i), i = 1)]
  BY <1>7
<1> HIDE DEF f
<1>9. f[0] = x
  <2>1. 0 \in 0..8
    OBVIOUS
  <2>2. QED
    BY <1>8, <2>1
<1>10. \A i \in 1..8 : f[i] = AddWord(f[i - 1], Word16(a, i), i = 1)
  <2>1. \A i \in 1..8 : i \in 0..8 /\ i # 0
    OBVIOUS
  <2>2. QED
    BY <1>8, <2>1
<1>11. \A i \in 0..8 : f[i] \in B[i]
  <2>1. f[0] \in B[0]
    <3>1. 0 \in 0..8
      OBVIOUS
    <3>2. QED
      BY <1>4, <1>9, <3>1
  <2>2. ASSUME NEW i \in 1..8, f[i - 1] \in B[i - 1] PROVE f[i] \in B[i]
    <3>1. i \in 0..8 /\ i - 1 \in 0..8
      OBVIOUS
    <3>2. QED
      BY <1>3, <1>10, <2>2, <3>1
  <2> HIDE DEF B
  <2>3. QED
    BY <1>4, <2>1, <2>2, IterationStays
<1>12. f \in [0..8 -> A]
  <2>1. \A i \in 0..8 : f[i] \in A
    BY <1>11
  <2>2. QED
    BY <1>8, <2>1
<1>13. QED
  BY <1>1, <1>2, <1>9, <1>10, <1>12

\* After its eight steps ipaddr_add has printed the words before the run, two
\* colons, and the words behind it.
LEMMA AllPrinted ==
  ASSUME NEW a \in Bytes(16), NEW g, NEW h, ZeroRun(a, g, h)
  PROVE  Reads(ipaddr_add(a), WordsMade(g, h, 8), g, MadeOf(a, g, h), EndsInWord(g, h, 8))
<1>1. PICK f \in [0..8 -> PrintState] :
        /\ ipaddr_add(a) = f[8].text /\ f[0].f = 0 /\ f[0].text = <<>>
        /\ \A i \in 1..8 : /\ f[i] = AddWord(f[i - 1], Word16(a, i), i = 1)
                           /\ Word16(a, i) \in Word16Bits
  BY PrintSteps
<1> DEFINE B == [i \in 0..8 |-> {s \in PrintState : Printed(s, a, g, h, i)}]
<1>2. f[0] \in B[0]
  <2>1. 0 \in 0..8 /\ 0 < g
    BY DEF ZeroRun
  <2>2. Printed(f[0], a, g, h, 0)
    BY <1>1, <2>1, ReadsNothing DEF Printed, ZerosSeen, WordsMade, EndsInWord
  <2>3. QED
    BY <2>1, <2>2
<1>3. ASSUME NEW i \in 1..8, f[i - 1] \in B[i - 1] PROVE f[i] \in B[i]
  <2>1. i \in 0..8 /\ i - 1 \in 0..8
    OBVIOUS
  <2>2. Printed(f[i - 1], a, g, h, i - 1)
    BY <1>3, <2>1
  <2>3. PICK s : s = f[i - 1]
    OBVIOUS
  <2>4. Printed(AddWord(s, Word16(a, i), i = 1), a, g, h, i)
    BY <2>2, <2>3, PrintedOn
  <2>5. f[i] = AddWord(s, Word16(a, i), i = 1)
    BY <1>1, <2>3
  <2>6. QED
    BY <2>1, <2>4, <2>5
<1>4. f[8] \in B[8]
  <2>1. \A i \in 0..8 : f[i] \in B[i]
    <3> HIDE DEF B
    <3> QED BY <1>2, <1>3, IterationStays, 8 \in Nat
  <2>2. QED
    BY <2>1
<1>5. QED
  BY <1>1, <1>4 DEF Printed

\* No text of the border router is longer than 39 characters.
THEOREM PrintedLength ==
  ASSUME NEW a \in Bytes(16)
  PROVE  Len(ipaddr_add(a)) <= 39
<1>1. PICK f \in [0..8 -> PrintState] :
        /\ ipaddr_add(a) = f[8].text /\ f[0].f = 0 /\ f[0].text = <<>>
        /\ \A i \in 1..8 : /\ f[i] = AddWord(f[i - 1], Word16(a, i), i = 1)
                           /\ Word16(a, i) \in Word16Bits
  BY PrintSteps
<1> DEFINE Bound(i) == IF i = 0 THEN 0 ELSE 5 * i - 1
           B == [i \in 0..8 |-> {s \in PrintState : Len(s.text) <= Bound(i)}]
<1>2. f[0] \in B[0]
  <2>1. 0 \in 0..8 /\ Len(<<>>) <= Bound(0)
    OBVIOUS
  <2>2. QED
    BY <1>1, <2>1
<1>3. ASSUME NEW i \in 1..8, f[i - 1] \in B[i - 1] PROVE f[i] \in B[i]
  <2>1. i \in 0..8 /\ i - 1 \in 0..8
    OBVIOUS
  <2>2. PICK s \in PrintState : s = f[i - 1] /\ Len(s.text) <= Bound(i - 1)
    BY <1>3, <2>1
  <2>3. PICK t \in Seq(Byte) : t = s.text
    BY DEF PrintState
  <2>4. PICK w \in Seq(Byte) : w = HexWord(Word16(a, i)) /\ Len(w) <= 4
    <3>1. PICK n \in 1..4 : HexWord(Word16(a, i)) \in Digits(n)
      BY <1>1, HexWordRead
    <3>2. n \in Nat /\ n <= 4
      OBVIOUS
    <3>3. HexWord(Word16(a, i)) \in Bytes(n) /\ Len(HexWord(Word16(a, i))) = n
      BY <3>1, <3>2, DigitsAre
    <3>4. QED
      BY <3>2, <3>3, BytesSeq
  <2>5. /\ <<COLON>> \in Seq(Byte) /\ Len(<<COLON>>) = 1
        /\ <<COLON, COLON>> \in Seq(Byte) /\ Len(<<COLON, COLON>>) = 2
        /\ <<>> \in Seq(Byte) /\ Len(<<>>) = 0
    BY DEF COLON, Byte
  <2>6. \A u, v \in Seq(Byte) : u \o v \in Seq(Byte) /\ Len(u \o v) = Len(u) + Len(v)
    OBVIOUS
  <2>7. PICK r : r = AddWord(s, Word16(a, i), i = 1)
    OBVIOUS
  <2>8. r.text \in {t, t \o <<COLON, COLON>>, (t \o <<>>) \o w}
          \/ (i # 1 /\ r.text = (t \o <<COLON>>) \o w)
    BY <2>3, <2>4, <2>7 DEF AddWord
  <2>9. Len(t) \in Int /\ Len(w) \in Int /\ Len(t) <= Bound(i - 1)
    BY <2>2, <2>3, <2>4
  <2>10. Len(r.text) <= Bound(i)
    <3>1. /\ Len(t \o <<COLON, COLON>>) = Len(t) + 2
          /\ Len((t \o <<>>) \o w) = Len(t) + Len(w)
          /\ Len((t \o <<COLON>>) \o w) = Len(t) + 1 + Len(w)
      <4> HIDE DEF Byte
      <4> QED BY <2>5, <2>6, <2>9
    <3>2. QED
      BY <2>4, <2>8, <2>9, <3>1
  <2>11. f[i] = r /\ f[i] \in PrintState
    BY <1>1, <2>1, <2>2, <2>7
  <2>12. QED
    BY <2>1, <2>10, <2>11
<1>4. f[8] \in B[8]
  <2>1. \A i \in 0..8 : f[i] \in B[i]
    <3> HIDE DEF B
    <3> QED BY <1>2, <1>3, IterationStays, 8 \in Nat
  <2>2. QED
    BY <2>1
<1>5. QED
  BY <1>1, <1>4

\* Every text of the border router is read as the address it was printed for,
\* whichever words are zero.
THEOREM PrintedIsRead ==
  ASSUME NEW a \in Bytes(16), RunInside(a)
  PROVE  getaddrinfo(ipaddr_add(a)) = a
<1>1. PICK g, h : ZeroRun(a, g, h)
  BY RunExists
<1> DEFINE n == WordsMade(g, h, 8)
           v == MadeOf(a, g, h)
<1>2. /\ g \in 2..9 /\ h \in 3..10 /\ g < h /\ (g = 9 \/ h <= 8)
      /\ \A k \in 1..8 : g <= k /\ k < h => Word16(a, k) = 0
  BY <1>1 DEF ZeroRun
<1>3. n \in 1..8 /\ EndsInWord(g, h, 8) = 1 /\ ((n = 8 /\ g = 9) \/ (g < n /\ n = 9 - h + g))
  BY <1>2 DEF WordsMade, EndsInWord
<1>4. Reads(ipaddr_add(a), n, g, v, 1)
  BY <1>1, <1>3, AllPrinted
<1>5. ASSUME NEW i \in 1..8
      PROVE  Word16(a, i) = IF i < g THEN v[i] ELSE IF i > g + 8 - n THEN v[i - 8 + n] ELSE 0
  <2>1. CASE i < g
    BY <2>1 DEF MadeOf
  <2>2. CASE ~(i < g) /\ i > g + 8 - n
    <3>1. i - 8 + n \in 1..8 /\ ~(i - 8 + n < g) /\ (i - 8 + n) + h - g - 1 = i
      BY <1>2, <1>3, <2>2
    <3> HIDE DEF n
    <3>2. v[i - 8 + n] = Word16(a, i)
      BY <3>1 DEF MadeOf
    <3>3. QED
      BY <2>2, <3>2
  <2>3. CASE ~(i < g) /\ ~(i > g + 8 - n)
    <3>1. g <= i /\ i < h
      BY <1>2, <1>3, <2>3
    <3>2. QED
      BY <1>2, <2>3, <3>1
  <2>4. QED
    BY <2>1, <2>2, <2>3
<1> HIDE DEF n, v
<1>6. QED
  BY <1>2, <1>3, <1>4, <1>5, ReadsAddress

-----------------------------------------------------------------------------
(* The search of device.txt *)

\* Texts of n characters: none ends the string.
Texts(n) == {t \in Bytes(n) : \A k \in 1..n : t[k] # NUL}

\* One text behind another.
LEMMA TextsJoin ==
  ASSUME NEW m \in Nat, NEW n \in Nat, NEW t \in Texts(m), NEW u \in Texts(n)
  PROVE  t \o u \in Texts(m + n)
<1>1. t \in Bytes(m) /\ u \in Bytes(n)
  BY DEF Texts
<1>2. PICK s \in Bytes(m + n) :
        /\ s = t \o u
        /\ \A k \in 1..m : s[k] = t[k]
        /\ \A k \in 1..n : s[m + k] = u[k]
  BY <1>1, Join
<1>3. ASSUME NEW k \in 1..(m + n) PROVE s[k] # NUL
  <2>1. CASE k <= m
    <3>1. k \in 1..m
      BY <2>1
    <3>2. QED
      BY <1>2, <3>1 DEF Texts
  <2>2. CASE ~(k <= m)
    <3>1. k - m \in 1..n /\ m + (k - m) = k
      BY <2>2
    <3>2. s[m + (k - m)] = u[k - m] /\ u[k - m] # NUL
      BY <1>2, <3>1 DEF Texts
    <3>3. QED
      BY <3>1, <3>2
  <2>3. QED
    BY <2>1, <2>2
<1>4. QED
  BY <1>2, <1>3 DEF Texts

\* The text of an address fills a line of the file.
LEMMA UnexpandedText ==
  ASSUME NEW a \in Bytes(16)
  PROVE  ipv6_to_str_unexpanded(a) \in Texts(25)
<1> DEFINE pair(i) == HexByte(a[i]) \o HexByte(a[i + 1])
           t1 == pair(1)
           t2 == t1 \o <<COLON, COLON>>
           t3 == t2 \o pair(9)
           t4 == t3 \o <<COLON>>
           t5 == t4 \o pair(11)
           t6 == t5 \o <<COLON>>
           t7 == t6 \o pair(13)
           t8 == t7 \o <<COLON>>
           t9 == t8 \o pair(15)
<1>1. ASSUME NEW i \in 1..15 PROVE pair(i) \in Texts(4)
  <2>1. a[i] \in Byte /\ a[i + 1] \in Byte
    <3> HIDE DEF Byte
    <3> QED BY DEF Bytes
  <2>2. pair(i) \in Digits(4) /\ 4 \in Nat
    BY <2>1, PairRead
  <2>3. QED
    <3> HIDE DEF pair
    <3> QED BY <2>2, DigitsAre DEF Texts
<1>2. <<COLON>> \in Texts(1) /\ <<COLON, COLON>> \in Texts(2)
  BY DEF COLON, NUL, Texts, Bytes, Byte
<1>3. ipv6_to_str_unexpanded(a) = t9
  BY DEF ipv6_to_str_unexpanded
<1> HIDE DEF pair
<1>4. \A m, n \in Nat : \A t, u : t \in Texts(m) /\ u \in Texts(n) => t \o u \in Texts(m + n)
  BY TextsJoin
<1>5. /\ 4 \in Nat /\ 2 \in Nat /\ 1 \in Nat /\ 4 + 2 = 6 /\ 6 \in Nat /\ 6 + 4 = 10 /\ 10 \in Nat
      /\ 10 + 1 = 11 /\ 11 \in Nat /\ 11 + 4 = 15 /\ 15 \in Nat /\ 15 + 1 = 16 /\ 16 \in Nat
      /\ 16 + 4 = 20 /\ 20 \in Nat /\ 20 + 1 = 21 /\ 21 \in Nat /\ 21 + 4 = 25
      /\ 1 \in 1..15 /\ 9 \in 1..15 /\ 11 \in 1..15 /\ 13 \in 1..15 /\ 15 \in 1..15
  OBVIOUS
<1>6. /\ pair(1) \in Texts(4) /\ pair(9) \in Texts(4) /\ pair(11) \in Texts(4)
      /\ pair(13) \in Texts(4) /\ pair(15) \in Texts(4)
  BY <1>1, <1>5, Zenon
<1>7. t2 \in Texts(6)
  BY <1>2, <1>4, <1>5, <1>6
<1> HIDE DEF t2
<1>8. t3 \in Texts(10)
  BY <1>4, <1>5, <1>6, <1>7
<1> HIDE DEF t3
<1>9. t4 \in Texts(11)
  BY <1>2, <1>4, <1>5, <1>8
<1> HIDE DEF t4
<1>10. t5 \in Texts(15)
  BY <1>4, <1>5, <1>6, <1>9
<1> HIDE DEF t5
<1>11. t6 \in Texts(16)
  BY <1>2, <1>4, <1>5, <1>10
<1> HIDE DEF t6
<1>12. t7 \in Texts(20)
  BY <1>4, <1>5, <1>6, <1>11
<1> HIDE DEF t7
<1>13. t8 \in Texts(21)
  BY <1>2, <1>4, <1>5, <1>12
<1> HIDE DEF t8
<1>14. t9 \in Texts(25)
  BY <1>4, <1>5, <1>6, <1>13
<1>15. QED
  BY <1>3, <1>14

\* my_device_ipaddr while lines of 25 characters go through it.
DeviceArray == {b \in Bytes(LEN_CHAR_IPV6) : b[LEN_CHAR_IPV6] = NUL}

\* A line that fills the array but for its last place is compared as it is.
LEMMA LineRead ==
  ASSUME NEW line \in Texts(25), NEW b \in DeviceArray, NEW text, NEW s,
         s.my_device_ipaddr = b
  PROVE  LET r == ReadLine(text, s, line)
         IN  /\ r.my_device_ipaddr \in DeviceArray /\ r.j = s.j + 1
             /\ r.found = IF s.found = 0 /\ line = text THEN s.j ELSE s.found
<1> DEFINE rest == SubSeq(b, Len(line) + 1, LEN_CHAR_IPV6)
           array == line \o rest
           Ends(k) == array[k] = NUL /\ \A i \in 1..(k - 1) : array[i] # NUL
<1>1. line \in Bytes(25) /\ b \in Bytes(26) /\ b[26] = NUL /\ LEN_CHAR_IPV6 = 26
      /\ \A k \in 1..25 : line[k] # NUL
  BY DEF Texts, DeviceArray, LEN_CHAR_IPV6
<1>2. Len(line) = 25 /\ 25 \in Nat /\ 26 \in Nat
  BY <1>1, BytesSeq
<1>3. rest \in Bytes(1) /\ rest[1] = NUL
  <2>1. 26 \in 1..26 /\ 26 \in 26..26 /\ 26 - 26 + 1 = 1 /\ 1 \in 1..1 /\ 26 + 1 - 1 = 26
        /\ 25 + 1 = 26
    OBVIOUS
  <2>2. /\ SubSeq(b, 26, 26) \in Bytes(26 - 26 + 1)
        /\ \A k \in 1..(26 - 26 + 1) : SubSeq(b, 26, 26)[k] = b[26 + k - 1]
    BY <1>1, <1>2, <2>1, Piece
  <2>3. rest = SubSeq(b, 26, 26)
    BY <1>1, <1>2, <2>1
  <2>4. QED
    BY <1>1, <2>1, <2>2, <2>3
<1> HIDE DEF rest
<1>4. /\ array \in Bytes(26) /\ \A k \in 1..25 : array[k] = line[k]
      /\ array[26] = NUL
  <2>1. 1 \in Nat /\ 25 + 1 = 26 /\ 1 \in 1..1
    OBVIOUS
  <2>2. /\ array \in Bytes(25 + 1) /\ \A k \in 1..25 : array[k] = line[k]
        /\ \A k \in 1..1 : array[25 + k] = rest[k]
    BY <1>1, <1>2, <1>3, <2>1, Join
  <2>3. QED
    BY <1>3, <2>1, <2>2
<1>5. CString(array) = SubSeq(array, 1, (CHOOSE k \in DOMAIN array : Ends(k)) - 1)
  BY DEF CString
<1> HIDE DEF array
<1>6. DOMAIN array = 1..26
  BY <1>4 DEF Bytes
<1>7. (CHOOSE k \in DOMAIN array : Ends(k)) = 26
  <2>1. Ends(26) /\ 26 \in DOMAIN array
    BY <1>1, <1>4, <1>6
  <2>2. ASSUME NEW k \in DOMAIN array, Ends(k) PROVE k = 26
    <3>1. k \in 1..25 => array[k] # NUL
      BY <1>1, <1>4
    <3>2. QED
      BY <1>6, <2>2, <3>1
  <2> HIDE DEF Ends
  <2>3. QED
    BY <2>1, <2>2
<1>8. CString(array) = line
  <2>1. 1 \in 1..26 /\ 25 \in 1..26 /\ 25 - 1 + 1 = 25 /\ 26 - 1 = 25
        /\ \A k \in 1..25 : 1 + k - 1 = k
    OBVIOUS
  <2>2. /\ SubSeq(array, 1, 25) \in Bytes(25 - 1 + 1)
        /\ \A k \in 1..(25 - 1 + 1) : SubSeq(array, 1, 25)[k] = array[1 + k - 1]
    BY <1>2, <1>4, <2>1, Piece
  <2>3. PICK t : t = SubSeq(array, 1, 25)
    OBVIOUS
  <2>4. t \in Bytes(25) /\ \A k \in 1..25 : t[k] = array[k]
    BY <2>1, <2>2, <2>3
  <2>5. \A k \in 1..25 : t[k] = line[k]
    BY <1>4, <2>4
  <2>6. t = line
    <3> HIDE DEF Byte
    <3> QED BY <1>1, <2>4, <2>5 DEF Bytes
  <2>7. QED
    BY <1>5, <1>7, <2>1, <2>3, <2>6
<1>9. ReadLine(text, s, line) =
        [my_device_ipaddr |-> array, j |-> s.j + 1,
         found |-> IF s.found = 0 /\ CString(array) = text THEN s.j ELSE s.found]
  BY DEF ReadLine, array, rest
<1>10. QED
  BY <1>1, <1>4, <1>8, <1>9 DEF DeviceArray

\* p is the first of n lines that is the text, or 0 if none is.
FirstOf(file, n, text, p) ==
  \/ p = 0 /\ \A i \in 1..n : file[i] # text
  \/ p \in 1..n /\ file[p] = text /\ \A i \in 1..(p - 1) : file[i] # text

\* check_my_device_list finds the first line that is the text.
THEOREM FirstLineFound ==
  ASSUME NEW n \in Nat, NEW file, Len(file) = n + 1, \A i \in 1..n : file[i] \in Texts(25),
         NEW text
  PROVE  FirstOf(file, n, text, check_my_device_list(file, text))
<1> DEFINE A == [my_device_ipaddr : DeviceArray, j : Int, found : Int]
           x == [my_device_ipaddr |-> [k \in 1..LEN_CHAR_IPV6 |-> NUL], j |-> 1, found |-> 0]
           B == [i \in 0..n |-> {s \in A : s.j = i + 1 /\ FirstOf(file, i, text, s.found)}]
           f == CHOOSE after : after = [i \in 0..(Len(file) - 1) |->
                  IF i = 0 THEN x ELSE ReadLine(text, after[i - 1], file[i])]
           G == [p \in (1..n) \X A |-> ReadLine(text, p[2], file[p[1]])]
<1>1. Len(file) - 1 = n
  OBVIOUS
<1>2. check_my_device_list(file, text) = f[n].found
  BY <1>1 DEF check_my_device_list
<1>3. ASSUME NEW i \in 1..n, NEW s \in A
      PROVE  LET r == ReadLine(text, s, file[i])
             IN  /\ r \in A /\ r.j = s.j + 1
                 /\ r.found = IF s.found = 0 /\ file[i] = text THEN s.j ELSE s.found
  <2>1. s.my_device_ipaddr \in DeviceArray /\ s.j \in Int /\ s.found \in Int
    OBVIOUS
  <2>2. file[i] \in Texts(25)
    OBVIOUS
  <2>3. PICK r : r = ReadLine(text, s, file[i])
    OBVIOUS
  <2>4. /\ r.my_device_ipaddr \in DeviceArray /\ r.j = s.j + 1
        /\ r.found = IF s.found = 0 /\ file[i] = text THEN s.j ELSE s.found
    BY <2>1, <2>2, <2>3, LineRead
  <2>5. \E b, j, d : r = [my_device_ipaddr |-> b, j |-> j, found |-> d]
    BY <2>3 DEF ReadLine
  <2>6. r \in A
    BY <2>1, <2>4, <2>5
  <2>7. QED
    BY <2>3, <2>4, <2>6
<1>4. x \in A /\ x.j = 0 + 1 /\ x.found = 0
  <2>1. [k \in 1..LEN_CHAR_IPV6 |-> NUL] \in DeviceArray
    BY DEF DeviceArray, Bytes, Byte, NUL, LEN_CHAR_IPV6
  <2>2. QED
    BY <2>1
<1> HIDE DEF A, x
<1>5. G \in [(1..n) \X A -> A]
  BY <1>3
<1>6. PICK y \in [0..n -> A] : Iterates(y, x, G, n)
  <2> HIDE DEF G
  <2> QED BY <1>4, <1>5, IterationExists
<1>7. y = [i \in 0..n |-> IF i = 0 THEN x ELSE ReadLine(text, y[i - 1], file[i])]
  <2>1. ASSUME NEW i \in 0..n
        PROVE  y[i] = IF i = 0 THEN x ELSE ReadLine(text, y[i - 1], file[i])
    <3>1. CASE i = 0
      BY <1>6, <3>1 DEF Iterates
    <3>2. CASE i # 0
      <4>1. i \in 1..n /\ i - 1 \in 0..n
        BY <3>2
      <4>2. y[i] = G[<<i, y[i - 1]>>] /\ y[i - 1] \in A
        <5> HIDE DEF G
        <5> QED BY <1>6, <3>2, <4>1 DEF Iterates
      <4>3. <<i, y[i - 1]>> \in (1..n) \X A
        BY <4>1, <4>2
      <4>4. QED
        BY <3>2, <4>2, <4>3
    <3>3. QED
      BY <3>1, <3>2
  <2>2. QED
    BY <2>1
<1> HIDE DEF G
<1>8. f = [i \in 0..n |-> IF i = 0 THEN x ELSE ReadLine(text, f[i - 1], file[i])]
  BY <1>1, <1>7
<1> HIDE DEF f
<1>9. f[0] \in B[0]
  <2>1. 0 \in 0..n /\ f[0] = x
    BY <1>8
  <2>2. FirstOf(file, 0, text, x.found)
    BY <1>4 DEF FirstOf
  <2>3. QED
    BY <1>4, <2>1, <2>2
<1>10. ASSUME NEW i \in 1..n, f[i - 1] \in B[i - 1] PROVE f[i] \in B[i]
  <2>1. i \in 0..n /\ i - 1 \in 0..n /\ i # 0 /\ (i - 1) + 1 = i
    OBVIOUS
  <2>2. PICK s \in A : s = f[i - 1] /\ s.j = i /\ FirstOf(file, i - 1, text, s.found)
    BY <1>10, <2>1
  <2>3. f[i] = ReadLine(text, s, file[i])
    BY <1>8, <2>1, <2>2
  <2>4. PICK r \in A : /\ r = f[i] /\ r.j = s.j + 1
                       /\ r.found = IF s.found = 0 /\ file[i] = text THEN s.j ELSE s.found
    BY <1>3, <2>3
  <2>5. FirstOf(file, i, text, r.found)
    <3>1. CASE s.found = 0 /\ file[i] = text
      BY <2>2, <2>4, <3>1 DEF FirstOf
    <3>2. CASE s.found = 0 /\ file[i] # text
      BY <2>2, <2>4, <3>2 DEF FirstOf
    <3>3. CASE s.found # 0
      BY <2>2, <2>4, <3>3 DEF FirstOf
    <3>4. QED
      BY <3>1, <3>2, <3>3
  <2>6. QED
    BY <2>1, <2>2, <2>4, <2>5
<1>11. f[n] \in B[n]
  <2>1. \A i \in 0..n : f[i] \in B[i]
    <3> HIDE DEF B
    <3> QED BY <1>9, <1>10, IterationStays
  <2>2. QED
    BY <2>1
<1>12. QED
  BY <1>2, <1>11

\* Four digits are the two bytes that print as them.
LEMMA PairOf ==
  ASSUME NEW q \in Digits(4)
  PROVE  HexByte(16 * q[1] + q[2]) \o HexByte(16 * q[3] + q[4]) = q
<1>1. /\ q[1] \in 0..15 /\ q[2] \in 0..15 /\ q[3] \in 0..15 /\ q[4] \in 0..15
      /\ 1 \in 1..4 /\ 2 \in 1..4 /\ 3 \in 1..4 /\ 4 \in 1..4
  BY DEF Digits
<1>2. \A x, y \in 0..15 : HexByte(16 * x + y) = <<x, y>>
  <2>1. ASSUME NEW x \in 0..15, NEW y \in 0..15
        PROVE  (16 * x + y) \div 16 = x /\ (16 * x + y) % 16 = y
    OBVIOUS
  <2>2. QED
    BY <2>1 DEF HexByte
<1>3. PICK t : t = <<q[1], q[2]>> \o <<q[3], q[4]>>
  OBVIOUS
<1>4. <<q[1], q[2]>> \in Digits(2) /\ <<q[3], q[4]>> \in Digits(2)
  BY <1>1 DEF Digits
<1>5. /\ t \in Digits(2 + 2)
      /\ \A k \in 1..2 : t[k] = <<q[1], q[2]>>[k]
      /\ \A k \in 1..2 : t[2 + k] = <<q[3], q[4]>>[k]
  BY <1>3, <1>4, 2 \in Nat, DigitsJoin
<1>6. t \in Digits(4) /\ t[1] = q[1] /\ t[2] = q[2] /\ t[3] = q[3] /\ t[4] = q[4]
  <2>1. 1 \in 1..2 /\ 2 \in 1..2 /\ 2 + 1 = 3 /\ 2 + 2 = 4
    OBVIOUS
  <2>2. t \in Digits(4) /\ t[1] = q[1] /\ t[2] = q[2]
    BY <1>5, <2>1
  <2>3. t[2 + 1] = q[3] /\ t[2 + 2] = q[4]
    BY <1>5, <2>1
  <2>4. QED
    BY <2>1, <2>2, <2>3
<1>7. t = q
  BY <1>6 DEF Digits
<1>8. QED
  BY <1>1, <1>2, <1>3, <1>7

\* A line of device.txt is the text of an address.
LEMMA DeviceTextIs ==
  ASSUME NEW t \in DeviceText
  PROVE  \E a \in Bytes(16) : /\ \A i \in 3..8 : a[i] = 0
                              /\ ipv6_to_str_unexpanded(a) = t
<1> DEFINE Spot(i) == IF i <= 2 THEN 2 * i - 1 ELSE IF i <= 10 THEN 2 * i - 11
                    ELSE IF i <= 12 THEN 2 * i - 10 ELSE IF i <= 14 THEN 2 * i - 9 ELSE 2 * i - 8
           a == [i \in 1..16 |-> IF i \in 3..8 THEN 0 ELSE 16 * t[Spot(i)] + t[Spot(i) + 1]]
           pair(i) == HexByte(a[i]) \o HexByte(a[i + 1])
           colons == {5, 6, 11, 16, 21}
<1>1. /\ t \in [1..25 -> 0..COLON] /\ COLON = 16
      /\ \A k \in 1..25 : t[k] = COLON <=> k \in colons
  BY DEF DeviceText, COLON
<1>2. /\ t \in Bytes(25) /\ 25 \in Nat
  BY <1>1 DEF Bytes, Byte
<1>3. \A k \in 1..25 : k \notin colons => t[k] \in 0..15
  BY <1>1
<1>4. ASSUME NEW i \in (1..16) \ (3..8)
      PROVE  /\ Spot(i) \in (1..25) \ colons /\ Spot(i) + 1 \in (1..25) \ colons
             /\ a[i] \in Byte
  <2>1. Spot(i) \in (1..25) \ colons /\ Spot(i) + 1 \in (1..25) \ colons
    OBVIOUS
  <2> HIDE DEF Spot
  <2>2. a[i] = 16 * t[Spot(i)] + t[Spot(i) + 1]
    OBVIOUS
  <2>3. t[Spot(i)] \in 0..15 /\ t[Spot(i) + 1] \in 0..15
    BY <1>3, <2>1
  <2> HIDE DEF a
  <2>4. QED
    BY <2>1, <2>2, <2>3 DEF Byte
<1>5. a \in Bytes(16) /\ \A i \in 3..8 : a[i] = 0
  <2>1. ASSUME NEW i \in 3..8 PROVE a[i] = 0 /\ a[i] \in Byte
    <3>1. i \in 1..16
      OBVIOUS
    <3>2. a[i] = 0
      <4> HIDE DEF Spot
      <4> QED BY <3>1
    <3> HIDE DEF a
    <3>3. QED
      BY <3>2 DEF Byte
  <2>2. \A i \in 1..16 : a[i] \in Byte
    <3> HIDE DEF a, Spot, Byte
    <3> QED BY <1>4, <2>1
  <2>3. a = [i \in 1..16 |-> a[i]]
    <3> HIDE DEF Spot
    <3> QED OBVIOUS
  <2>4. QED
    <3> HIDE DEF a, Spot, Byte
    <3> QED BY <2>1, <2>2, <2>3 DEF Bytes
<1>6. ASSUME NEW i \in {1, 9, 11, 13, 15}
      PROVE  pair(i) = SubSeq(t, Spot(i), Spot(i) + 3)
  <2>1. /\ i \in (1..16) \ (3..8) /\ i + 1 \in (1..16) \ (3..8) /\ Spot(i + 1) = Spot(i) + 2
        /\ Spot(i) \in 1..25 /\ Spot(i) + 3 \in Spot(i)..25 /\ (Spot(i) + 3) - Spot(i) + 1 = 4
        /\ \A k \in 1..4 : Spot(i) + k - 1 \in (1..25) \ colons
        /\ Spot(i) + 1 - 1 = Spot(i) /\ Spot(i) + 2 - 1 = Spot(i) + 1 /\ Spot(i) + 3 - 1 = Spot(i) + 2
        /\ Spot(i) + 4 - 1 = Spot(i) + 3 /\ (Spot(i) + 2) + 1 = Spot(i) + 3
        /\ 1 \in 1..4 /\ 2 \in 1..4 /\ 3 \in 1..4 /\ 4 \in 1..4
    OBVIOUS
  <2> HIDE DEF Spot
  <2>2. a[i] = 16 * t[Spot(i)] + t[Spot(i) + 1] /\ a[i + 1] = 16 * t[Spot(i + 1)] + t[Spot(i + 1) + 1]
    BY <2>1
  <2> HIDE DEF a
  <2>3. PICK q : q = SubSeq(t, Spot(i), Spot(i) + 3)
    OBVIOUS
  <2>4. q \in Bytes(4) /\ \A k \in 1..4 : q[k] = t[Spot(i) + k - 1]
    <3>1. PICK lo \in 1..25 : lo = Spot(i)
      BY <2>1
    <3>2. PICK hi \in lo..25 : hi = Spot(i) + 3
      BY <2>1, <3>1
    <3>3. /\ SubSeq(t, lo, hi) \in Bytes(hi - lo + 1)
          /\ \A k \in 1..(hi - lo + 1) : SubSeq(t, lo, hi)[k] = t[lo + k - 1]
      BY <1>2, Piece
    <3>4. hi - lo + 1 = 4
      BY <2>1, <3>1, <3>2
    <3>5. QED
      BY <2>3, <3>1, <3>2, <3>3, <3>4
  <2>5. q \in Digits(4)
    <3>1. \A k \in 1..4 : q[k] \in 0..15
      <4> HIDE DEF colons
      <4> QED BY <1>3, <2>1, <2>4
    <3>2. QED
      <4> HIDE DEF Byte
      <4> QED BY <2>4, <3>1 DEF Bytes, Digits
  <2>6. q[1] = t[Spot(i)] /\ q[2] = t[Spot(i) + 1] /\ q[3] = t[Spot(i) + 2] /\ q[4] = t[Spot(i) + 3]
    <3> HIDE DEF colons
    <3> QED BY <2>1, <2>4
  <2>7. a[i] = 16 * q[1] + q[2] /\ a[i + 1] = 16 * q[3] + q[4]
    <3> HIDE DEF colons
    <3> QED BY <2>1, <2>2, <2>6
  <2>8. QED
    BY <2>3, <2>5, <2>7, PairOf
<1>7. /\ Spot(1) = 1 /\ Spot(1) + 3 = 4 /\ Spot(9) = 7 /\ Spot(9) + 3 = 10 /\ Spot(11) = 12
      /\ Spot(11) + 3 = 15 /\ Spot(13) = 17 /\ Spot(13) + 3 = 20 /\ Spot(15) = 22 /\ Spot(15) + 3 = 25
  OBVIOUS
<1>8. /\ 1 \in {1, 9, 11, 13, 15} /\ 9 \in {1, 9, 11, 13, 15} /\ 11 \in {1, 9, 11, 13, 15}
      /\ 13 \in {1, 9, 11, 13, 15} /\ 15 \in {1, 9, 11, 13, 15}
  OBVIOUS
<1> HIDE DEF Spot, a
<1>9. /\ pair(1) = SubSeq(t, 1, 4) /\ pair(9) = SubSeq(t, 7, 10) /\ pair(11) = SubSeq(t, 12, 15)
      /\ pair(13) = SubSeq(t, 17, 20) /\ pair(15) = SubSeq(t, 22, 25)
  <2> HIDE DEF pair
  <2> QED BY <1>6, <1>7, <1>8
<1>10. ASSUME NEW i \in 1..25, NEW j \in i..25
       PROVE  /\ SubSeq(t, i, j) \in Bytes(j - i + 1)
              /\ \A k \in 1..(j - i + 1) : SubSeq(t, i, j)[k] = t[i + k - 1]
  BY <1>2, Piece
<1>11. ASSUME NEW i \in {11, 16, 21} PROVE <<COLON>> = SubSeq(t, i, i)
  <2>1. i \in 1..25 /\ i \in i..25 /\ i - i + 1 = 1 /\ i + 1 - 1 = i /\ 1 \in 1..1 /\ i \in colons
    OBVIOUS
  <2>2. PICK q \in Bytes(1) : q = SubSeq(t, i, i) /\ q[1] = t[i]
    <3>1. /\ SubSeq(t, i, i) \in Bytes(i - i + 1)
          /\ \A k \in 1..(i - i + 1) : SubSeq(t, i, i)[k] = t[i + k - 1]
      BY <1>10, <2>1
    <3>2. SubSeq(t, i, i) \in Bytes(1) /\ SubSeq(t, i, i)[1] = t[i]
      BY <2>1, <3>1
    <3>3. QED
      BY <3>2
  <2>3. q[1] = COLON
    BY <1>1, <2>1, <2>2
  <2>4. q = <<COLON>>
    BY <2>3 DEF Bytes
  <2>5. QED
    BY <2>2, <2>4
<1>12. <<COLON, COLON>> = SubSeq(t, 5, 6)
  <2>1. /\ 5 \in 1..25 /\ 6 \in 5..25 /\ 6 - 5 + 1 = 2 /\ 5 + 1 - 1 = 5 /\ 5 + 2 - 1 = 6 /\ 1 \in 1..2
        /\ 2 \in 1..2 /\ 5 \in colons /\ 6 \in colons /\ 6 \in 1..25
    OBVIOUS
  <2>2. PICK q \in Bytes(2) : q = SubSeq(t, 5, 6) /\ q[1] = t[5] /\ q[2] = t[6]
    <3>1. \A k \in 1..2 : SubSeq(t, 5, 6)[k] = t[5 + k - 1]
      BY <1>10, <2>1
    <3>2. SubSeq(t, 5, 6) \in Bytes(2)
      BY <1>10, <2>1
    <3>3. QED
      BY <2>1, <3>1, <3>2
  <2>3. q[1] = COLON /\ q[2] = COLON
    BY <1>1, <2>1, <2>2
  <2>4. q = <<COLON, COLON>>
    BY <2>3 DEF Bytes
  <2>5. QED
    BY <2>2, <2>4
<1>13. ASSUME NEW j \in 1..24, NEW k \in (j + 1)..25
       PROVE  SubSeq(t, 1, j) \o SubSeq(t, j + 1, k) = SubSeq(t, 1, k)
  <2>1. 1 \in 1..25 /\ j \in 1..(25 - 1) /\ k \in (j + 1)..25
    OBVIOUS
  <2>2. QED
    BY <1>2, <2>1, Parted
<1>14. ipv6_to_str_unexpanded(a) =
         ((((((((SubSeq(t, 1, 4) \o SubSeq(t, 5, 6)) \o SubSeq(t, 7, 10)) \o SubSeq(t, 11, 11))
           \o SubSeq(t, 12, 15)) \o SubSeq(t, 16, 16)) \o SubSeq(t, 17, 20)) \o SubSeq(t, 21, 21))
           \o SubSeq(t, 22, 25))
  <2>1. ipv6_to_str_unexpanded(a) =
          ((((((((pair(1) \o <<COLON, COLON>>) \o pair(9)) \o <<COLON>>) \o pair(11)) \o <<COLON>>)
            \o pair(13)) \o <<COLON>>) \o pair(15))
    BY DEF ipv6_to_str_unexpanded
  <2>2. /\ <<COLON>> = SubSeq(t, 11, 11) /\ <<COLON>> = SubSeq(t, 16, 16)
        /\ <<COLON>> = SubSeq(t, 21, 21)
    BY <1>11
  <2> HIDE DEF pair
  <2>3. QED
    BY <1>9, <1>12, <2>1, <2>2, Zenon
<1>15. /\ SubSeq(t, 1, 4) \o SubSeq(t, 5, 6) = SubSeq(t, 1, 6)
       /\ SubSeq(t, 1, 6) \o SubSeq(t, 7, 10) = SubSeq(t, 1, 10)
       /\ SubSeq(t, 1, 10) \o SubSeq(t, 11, 11) = SubSeq(t, 1, 11)
       /\ SubSeq(t, 1, 11) \o SubSeq(t, 12, 15) = SubSeq(t, 1, 15)
       /\ SubSeq(t, 1, 15) \o SubSeq(t, 16, 16) = SubSeq(t, 1, 16)
       /\ SubSeq(t, 1, 16) \o SubSeq(t, 17, 20) = SubSeq(t, 1, 20)
       /\ SubSeq(t, 1, 20) \o SubSeq(t, 21, 21) = SubSeq(t, 1, 21)
       /\ SubSeq(t, 1, 21) \o SubSeq(t, 22, 25) = SubSeq(t, 1, 25)
  <2>1. SubSeq(t, 1, 4) \o SubSeq(t, 5, 6) = SubSeq(t, 1, 6)
    <3>1. 4 \in 1..24 /\ 6 \in (4 + 1)..25 /\ 4 + 1 = 5
      OBVIOUS
    <3>2. QED
      BY <1>13, <3>1
  <2>2. SubSeq(t, 1, 6) \o SubSeq(t, 7, 10) = SubSeq(t, 1, 10)
    <3>1. 6 \in 1..24 /\ 10 \in (6 + 1)..25 /\ 6 + 1 = 7
      OBVIOUS
    <3>2. QED
      BY <1>13, <3>1
  <2>3. SubSeq(t, 1, 10) \o SubSeq(t, 11, 11) = SubSeq(t, 1, 11)
    <3>1. 10 \in 1..24 /\ 11 \in (10 + 1)..25 /\ 10 + 1 = 11
      OBVIOUS
    <3>2. QED
      BY <1>13, <3>1
  <2>4. SubSeq(t, 1, 11) \o SubSeq(t, 12, 15) = SubSeq(t, 1, 15)
    <3>1. 11 \in 1..24 /\ 15 \in (11 + 1)..25 /\ 11 + 1 = 12
      OBVIOUS
    <3>2. QED
      BY <1>13, <3>1
  <2>5. SubSeq(t, 1, 15) \o SubSeq(t, 16, 16) = SubSeq(t, 1, 16)
    <3>1. 15 \in 1..24 /\ 16 \in (15 + 1)..25 /\ 15 + 1 = 16
      OBVIOUS
    <3>2. QED
      BY <1>13, <3>1
  <2>6. SubSeq(t, 1, 16) \o SubSeq(t, 17, 20) = SubSeq(t, 1, 20)
    <3>1. 16 \in 1..24 /\ 20 \in (16 + 1)..25 /\ 16 + 1 = 17
      OBVIOUS
    <3>2. QED
      BY <1>13, <3>1
  <2>7. SubSeq(t, 1, 20) \o SubSeq(t, 21, 21) = SubSeq(t, 1, 21)
    <3>1. 20 \in 1..24 /\ 21 \in (20 + 1)..25 /\ 20 + 1 = 21
      OBVIOUS
    <3>2. QED
      BY <1>13, <3>1
  <2>8. SubSeq(t, 1, 21) \o SubSeq(t, 22, 25) = SubSeq(t, 1, 25)
    <3>1. 21 \in 1..24 /\ 25 \in (21 + 1)..25 /\ 21 + 1 = 22
      OBVIOUS
    <3>2. QED
      BY <1>13, <3>1
  <2>9. QED
    BY <2>1, <2>2, <2>3, <2>4, <2>5, <2>6, <2>7, <2>8
<1>16. SubSeq(t, 1, 25) = t
  <2>1. 1 \in 1..25 /\ 25 \in 1..25 /\ 25 - 1 + 1 = 25 /\ \A k \in 1..25 : 1 + k - 1 = k
    OBVIOUS
  <2>2. /\ SubSeq(t, 1, 25) \in Bytes(25)
        /\ \A k \in 1..25 : SubSeq(t, 1, 25)[k] = t[1 + k - 1]
    BY <1>10, <2>1
  <2>3. \A k \in 1..25 : SubSeq(t, 1, 25)[k] = t[k]
    BY <2>1, <2>2
  <2>4. QED
    <3> HIDE DEF Byte
    <3> QED BY <1>2, <2>2, <2>3 DEF Bytes
<1>17. ipv6_to_str_unexpanded(a) = t
  BY <1>14, <1>15, <1>16, Zenon
<1>18. QED
  BY <1>5, <1>17

\* The address that the stack gives a node is the one that the node puts into
\* its frames; its text leaves nothing out, and its run of zeros lies inside.
LEMMA NodeAddress ==
  ASSUME NEW m \in Mac
  PROVE  /\ SourceAddress(m) = get_my_addrress(m)
         /\ \A i \in 3..8 : SourceAddress(m)[i] = 0
         /\ RunInside(SourceAddress(m))
<1> DEFINE prefix == <<170, 170>> \o [k \in 1..6 |-> 0]
           lower == SubSeq(m, 3, 8)
<1>1. m \in Bytes(8) /\ m[1] = 0 /\ m[2] = 18 /\ 8 \in Nat
  BY CodecAssumption, MacAssumption DEF Bytes
<1>2. SourceAddress(m) = (prefix \o <<2>>) \o SubSeq(m, 2, 8)
  <2>1. (m[1] \div 2) % 2 = 0 /\ m[1] + 2 = 2
    BY <1>1
  <2>2. QED
    BY <2>1 DEF SourceAddress
<1>3. get_my_addrress(m) = (prefix \o <<2, 18>>) \o lower
  BY DEF get_my_addrress
<1>4. /\ <<170, 170>> \in Bytes(2) /\ [k \in 1..6 |-> 0] \in Bytes(6) /\ <<2>> \in Bytes(1)
      /\ <<2, 18>> \in Bytes(2)
  BY DEF Bytes, Byte
<1>5. PICK p \in Bytes(8) : /\ p = prefix
                            /\ p[1] = 170 /\ p[2] = 170 /\ \A i \in 3..8 : p[i] = 0
  <2>1. 2 \in Nat /\ 6 \in Nat /\ 2 + 6 = 8 /\ 1 \in 1..2 /\ 2 \in 1..2
    OBVIOUS
  <2>2. /\ prefix \in Bytes(2 + 6) /\ \A k \in 1..2 : prefix[k] = <<170, 170>>[k]
        /\ \A k \in 1..6 : prefix[2 + k] = [i \in 1..6 |-> 0][k]
    BY <1>4, <2>1, Join
  <2>3. \A i \in 3..8 : i - 2 \in 1..6 /\ 2 + (i - 2) = i
    OBVIOUS
  <2>4. \A i \in 3..8 : prefix[i] = 0
    BY <2>2, <2>3
  <2>5. prefix[1] = 170 /\ prefix[2] = 170 /\ prefix \in Bytes(8)
    BY <2>1, <2>2
  <2>6. QED
    BY <2>4, <2>5
<1> HIDE DEF prefix
<1>6. PICK u \in Bytes(7) : u = SubSeq(m, 2, 8) /\ \A k \in 1..7 : u[k] = m[k + 1]
  <2>1. 2 \in 1..8 /\ 8 \in 2..8 /\ 8 - 2 + 1 = 7 /\ \A k \in 1..7 : 2 + k - 1 = k + 1
    OBVIOUS
  <2>2. /\ SubSeq(m, 2, 8) \in Bytes(8 - 2 + 1)
        /\ \A k \in 1..(8 - 2 + 1) : SubSeq(m, 2, 8)[k] = m[2 + k - 1]
    BY <1>1, <2>1, Piece
  <2>3. /\ SubSeq(m, 2, 8) \in Bytes(7) /\ \A k \in 1..7 : SubSeq(m, 2, 8)[k] = m[k + 1]
    BY <2>1, <2>2
  <2>4. QED
    BY <2>3
<1>7. PICK w \in Bytes(6) : w = lower /\ \A k \in 1..6 : w[k] = m[k + 2]
  <2>1. 3 \in 1..8 /\ 8 \in 3..8 /\ 8 - 3 + 1 = 6 /\ \A k \in 1..6 : 3 + k - 1 = k + 2
    OBVIOUS
  <2>2. /\ SubSeq(m, 3, 8) \in Bytes(8 - 3 + 1)
        /\ \A k \in 1..(8 - 3 + 1) : SubSeq(m, 3, 8)[k] = m[3 + k - 1]
    BY <1>1, <2>1, Piece
  <2>3. /\ SubSeq(m, 3, 8) \in Bytes(6) /\ \A k \in 1..6 : SubSeq(m, 3, 8)[k] = m[k + 2]
    BY <2>1, <2>2
  <2>4. QED
    BY <2>3
<1> HIDE DEF lower
<1>8. /\ 8 \in Nat /\ 1 \in Nat /\ 7 \in Nat /\ 9 \in Nat /\ 2 \in Nat /\ 10 \in Nat /\ 6 \in Nat
      /\ 8 + 1 = 9 /\ 9 + 7 = 16 /\ 8 + 2 = 10 /\ 10 + 6 = 16 /\ 1 \in 1..1 /\ 1 \in 1..2 /\ 2 \in 1..2
      /\ 9 \in 1..9 /\ 9 \in 1..10 /\ 10 \in 1..10
  OBVIOUS
<1>9. PICK s \in Bytes(16) : /\ s = SourceAddress(m)
                             /\ \A k \in 1..8 : s[k] = p[k]
                             /\ s[9] = 2 /\ \A k \in 1..7 : s[9 + k] = u[k]
  <2>1. PICK y \in Bytes(1) : y = <<2>> /\ y[1] = 2
    BY <1>4, <1>8
  <2>2. PICK x \in Bytes(9) : x = p \o y /\ (\A k \in 1..8 : x[k] = p[k])
                                 /\ (\A k \in 1..1 : x[8 + k] = y[k])
    <3>1. /\ p \o y \in Bytes(8 + 1)
          /\ \A k \in 1..8 : (p \o y)[k] = p[k]
          /\ \A k \in 1..1 : (p \o y)[8 + k] = y[k]
      BY <1>8, Join, Zenon
    <3>2. p \o y \in Bytes(9)
      BY <1>8, <3>1, Zenon
    <3>3. QED
      BY <3>1, <3>2, Zenon
  <2>3. PICK z \in Bytes(16) : z = x \o u /\ (\A k \in 1..9 : z[k] = x[k])
                                 /\ (\A k \in 1..7 : z[9 + k] = u[k])
    <3>1. /\ x \o u \in Bytes(9 + 7)
          /\ \A k \in 1..9 : (x \o u)[k] = x[k]
          /\ \A k \in 1..7 : (x \o u)[9 + k] = u[k]
      BY <1>8, Join, Zenon
    <3>2. x \o u \in Bytes(16)
      BY <1>8, <3>1, Zenon
    <3>3. QED
      BY <3>1, <3>2, Zenon
  <2>4. z = SourceAddress(m)
    BY <1>2, <1>5, <1>6, <2>1, <2>2, <2>3
  <2>5. (\A k \in 1..8 : k \in 1..9) /\ 1 \in 1..1
    OBVIOUS
  <2>6. x[8 + 1] = y[1]
    BY <2>2, <2>5
  <2>7. z[9] = 2
    BY <1>8, <2>1, <2>3, <2>6
  <2>8. QED
    BY <2>2, <2>3, <2>4, <2>5, <2>7
<1>10. PICK g \in Bytes(16) : /\ g = get_my_addrress(m)
                              /\ \A k \in 1..8 : g[k] = p[k]
                              /\ g[9] = 2 /\ g[10] = 18 /\ \A k \in 1..6 : g[10 + k] = w[k]
  <2>1. PICK y \in Bytes(2) : y = <<2, 18>> /\ y[1] = 2 /\ y[2] = 18
    BY <1>4, <1>8
  <2>2. PICK x \in Bytes(10) : x = p \o y /\ (\A k \in 1..8 : x[k] = p[k])
                                 /\ (\A k \in 1..2 : x[8 + k] = y[k])
    <3>1. /\ p \o y \in Bytes(8 + 2)
          /\ \A k \in 1..8 : (p \o y)[k] = p[k]
          /\ \A k \in 1..2 : (p \o y)[8 + k] = y[k]
      BY <1>8, Join, Zenon
    <3>2. p \o y \in Bytes(10)
      BY <1>8, <3>1, Zenon
    <3>3. QED
      BY <3>1, <3>2, Zenon
  <2>3. PICK z \in Bytes(16) : z = x \o w /\ (\A k \in 1..10 : z[k] = x[k])
                                 /\ (\A k \in 1..6 : z[10 + k] = w[k])
    <3>1. /\ x \o w \in Bytes(10 + 6)
          /\ \A k \in 1..10 : (x \o w)[k] = x[k]
          /\ \A k \in 1..6 : (x \o w)[10 + k] = w[k]
      BY <1>8, Join, Zenon
    <3>2. x \o w \in Bytes(16)
      BY <1>8, <3>1, Zenon
    <3>3. QED
      BY <3>1, <3>2, Zenon
  <2>4. z = get_my_addrress(m)
    BY <1>3, <1>5, <1>7, <2>1, <2>2, <2>3
  <2>5. (\A k \in 1..8 : k \in 1..10) /\ 1 \in 1..2 /\ 2 \in 1..2
    OBVIOUS
  <2>6. x[8 + 1] = y[1] /\ x[8 + 2] = y[2]
    BY <2>2, <2>5
  <2>7. z[9] = 2 /\ z[10] = 18
    BY <1>8, <2>1, <2>3, <2>6
  <2>8. \A k \in 1..8 : z[k] = p[k]
    BY <2>2, <2>3, <2>5
  <2>9. QED
    BY <2>3, <2>4, <2>7, <2>8, Zenon
<1>11. s[10] = 18
  <2>1. 9 + 1 = 10 /\ 1 \in 1..7 /\ 1 + 1 = 2
    OBVIOUS
  <2>2. s[9 + 1] = u[1] /\ u[1] = m[1 + 1]
    BY <1>6, <1>9, <2>1
  <2>3. QED
    BY <1>1, <2>1, <2>2
<1>12. s = g
  <2>1. ASSUME NEW k \in 1..16 PROVE s[k] = g[k]
    <3>1. CASE k \in 1..8
      BY <1>9, <1>10, <3>1
    <3>2. CASE k \in {9, 10}
      BY <1>9, <1>10, <1>11, <3>2
    <3>3. CASE k \in 11..16
      <4>1. /\ k - 9 \in 1..7 /\ 9 + (k - 9) = k /\ k - 10 \in 1..6 /\ 10 + (k - 10) = k
            /\ (k - 9) + 1 = k - 8 /\ (k - 10) + 2 = k - 8
        BY <3>3
      <4>2. s[9 + (k - 9)] = m[(k - 9) + 1]
        BY <1>6, <1>9, <4>1
      <4>3. g[10 + (k - 10)] = m[(k - 10) + 2]
        BY <1>7, <1>10, <4>1
      <4>4. QED
        BY <4>1, <4>2, <4>3
    <3>4. QED
      BY <3>1, <3>2, <3>3
  <2>2. QED
    <3> HIDE DEF Byte
    <3> QED BY <2>1 DEF Bytes
<1>13. \A i \in 3..8 : s[i] = 0
  <2>1. \A i \in 3..8 : i \in 1..8
    OBVIOUS
  <2>2. QED
    BY <1>5, <1>9, <2>1
<1>14. RunInside(s)
  <2>1. /\ 2 * 1 - 1 = 1 /\ 2 * 1 = 2 /\ 2 * 2 - 1 = 3 /\ 2 * 2 = 4 /\ 2 * 5 - 1 = 9 /\ 2 * 5 = 10
        /\ 1 \in 1..8 /\ 2 \in 1..8 /\ 3 \in 3..8 /\ 4 \in 3..8 /\ 5 \in 1..8 /\ 2 < 5
    OBVIOUS
  <2>2. s[1] = 170 /\ s[2] = 170 /\ s[3] = 0 /\ s[4] = 0 /\ s[9] = 2 /\ s[10] = 18
    BY <1>5, <1>9, <1>11, <1>13, <2>1
  <2>3. /\ Word16(s, 1) = 256 * 170 + 170 /\ Word16(s, 2) = 256 * 0 + 0
        /\ Word16(s, 5) = 256 * 2 + 18
    BY <2>1, <2>2, Zenon DEF Word16
  <2>4. Word16(s, 1) # 0 /\ Word16(s, 2) = 0 /\ Word16(s, 5) # 0
    BY <2>3
  <2>5. QED
    BY <2>1, <2>4 DEF RunInside
<1>15. QED
  BY <1>9, <1>10, <1>12, <1>13, <1>14

\* Both texts of a node's address are read as this address.
LEMMA NodeIsRead ==
  ASSUME NEW m \in Mac
  PROVE  /\ SourceAddress(m) \in Bytes(16)
         /\ getaddrinfo(ipv6_to_str_unexpanded(SourceAddress(m))) = SourceAddress(m)
         /\ getaddrinfo(ipaddr_add(SourceAddress(m))) = SourceAddress(m)
<1>1. SourceAddress(m) \in Bytes(16)
  BY CodecAssumption, AddressTypes
<1>2. QED
  BY <1>1, NodeAddress, UnexpandedIsRead, PrintedIsRead

\* A line of device.txt is read as the address of a node exactly when it is
\* the text of that address.
LEMMA DeviceLineIs ==
  ASSUME NEW m \in Mac, NEW line \in DeviceText
  PROVE  getaddrinfo(line) = SourceAddress(m) <=> line = ipv6_to_str_unexpanded(SourceAddress(m))
<1>1. PICK a \in Bytes(16) : /\ \A i \in 3..8 : a[i] = 0
                             /\ ipv6_to_str_unexpanded(a) = line
  BY DeviceTextIs
<1>2. getaddrinfo(line) = a
  BY <1>1, UnexpandedIsRead
<1>3. QED
  BY <1>1, <1>2, NodeIsRead

\* The gateway's search of device.txt finds the line that is read as the
\* address of the node, and there is no other.
LEMMA DeviceFound ==
  ASSUME mac \in Mac
  PROVE  {j \in 1..(Len(DeviceList) - 1) : getaddrinfo(DeviceList[j]) = NodeAddr}
           = IF my_device_pos = 0 THEN {} ELSE {my_device_pos}
<1> DEFINE n == Len(DeviceList) - 1
           text == ipv6_to_str_unexpanded(NodeAddr)
           lines == {j \in 1..n : getaddrinfo(DeviceList[j]) = NodeAddr}
<1>1. /\ n \in Nat /\ Len(DeviceList) = n + 1
      /\ \A i \in 1..n : DeviceList[i] \in DeviceText /\ \A j \in 1..(i - 1) : DeviceList[j] # DeviceList[i]
  <2>1. Len(DeviceList) - 1 \in 0..MAX_DEVICE
    BY DeviceListAssumption
  <2>2. Len(DeviceList) \in Int
    BY <2>1 DEF MAX_DEVICE
  <2>3. QED
    BY <2>1, <2>2, DeviceListAssumption DEF MAX_DEVICE
<1> HIDE DEF n
<1>2. lines = {j \in 1..n : DeviceList[j] = text}
  <2>1. \A j \in 1..n : getaddrinfo(DeviceList[j]) = NodeAddr <=> DeviceList[j] = text
    BY <1>1, DeviceLineIs DEF NodeAddr
  <2>2. QED
    BY <2>1
<1>3. \A i \in 1..n : DeviceList[i] \in Texts(25)
  <2>1. ASSUME NEW i \in 1..n PROVE DeviceList[i] \in Texts(25)
    <3>1. PICK a \in Bytes(16) : ipv6_to_str_unexpanded(a) = DeviceList[i]
      BY <1>1, DeviceTextIs
    <3>2. QED
      BY <3>1, UnexpandedText
  <2>2. QED
    BY <2>1
<1>4. FirstOf(DeviceList, n, text, my_device_pos)
  BY <1>1, <1>3, FirstLineFound DEF my_device_pos
<1> HIDE DEF text
<1>5. CASE my_device_pos = 0
  <2>1. \A j \in 1..n : DeviceList[j] # text
    BY <1>1, <1>4, <1>5 DEF FirstOf
  <2>2. lines = {}
    BY <1>2, <2>1
  <2>3. QED
    BY <1>5, <2>2 DEF n
<1>6. CASE my_device_pos # 0
  <2>1. PICK p \in 1..n : p = my_device_pos /\ DeviceList[p] = text
    BY <1>4, <1>6 DEF FirstOf
  <2>2. ASSUME NEW j \in 1..n, DeviceList[j] = text PROVE j = p
    <3>1. ~(j < p) /\ ~(p < j)
      <4>1. CASE j < p
        <5>1. j \in 1..(p - 1)
          BY <4>1
        <5>2. QED
          BY <1>1, <2>1, <2>2, <5>1
      <4>2. CASE p < j
        <5>1. p \in 1..(j - 1)
          BY <4>2
        <5>2. QED
          BY <1>1, <2>1, <2>2, <5>1
      <4>3. QED
        BY <4>1, <4>2
    <3>2. QED
      BY <3>1
  <2>3. lines = {p}
    BY <1>2, <2>1, <2>2
  <2>4. QED
    BY <1>6, <2>1, <2>3 DEF n
<1>7. QED
  BY <1>5, <1>6 DEF n

-----------------------------------------------------------------------------
(* The invariant *)

Enciphered(f, mode, key) ==
  IF mode = "ecb" THEN AES128_ECB_encrypt(Packed(f), key) ELSE encrypt_cbc(Packed(f), key)

Deciphered(mode, key) ==
  IF mode = "ecb" THEN AES128_ECB_decrypt(datagram, key) ELSE decrypt_cbc(datagram, key)

\* A frame that a program may send: it has its CRC, a frame for the gateway
\* under ECB has the marker, and a report or a challenge is in the payload.
WellMade(f, mode, key, to, challenge, reading) ==
  /\ f \in FrameType /\ check_crc16(Packed(f))
  /\ mode \in {"ecb", "cbc"} /\ key \in Bytes(16)
  /\ to = "gateway" /\ mode = "ecb" => f.for_future = Ones(6) /\ key = key_begin
  /\ f.cmd = SEND_PZEM => reading \in ReadingType /\ f.payload_data = pack_data_PZEM(reading)
  /\ f.cmd = REQUEST_HASH =>
       challenge \in Word16Bits /\ f.payload_data = Pair(challenge) \o Zeros(14)

BuffersHeld ==
  /\ mac \in Mac /\ for_future \in {Zeros(6), Ones(6)}
  /\ receive = Blank \/ receive \in FrameType

SentIsWellMade ==
  sent # Nobody =>
    /\ WellMade(sent.frame, sent.mode, sent.key, sent.to, sent.asked, sent.reading)
    /\ datagram = Enciphered(sent.frame, sent.mode, sent.key)

\* What the receiver holds is what it deciphered, and the gateway deciphers
\* by the marker.
GotIsDeciphered ==
  Handled =>
    \/ got.mode = "none" /\ ~got.opened
    \/ /\ got = Opened(Deciphered(got.mode, got.key), got.mode, got.key)
       /\ sent.to = "gateway" /\ sent.mode = "ecb" => got.mode = "ecb" /\ got.key = key_begin

IInv == BuffersHeld /\ SentIsWellMade /\ GotIsDeciphered

\* A reply is made from the frame last parsed.
ReplyIsMade(f, challenge) ==
  f.cmd = REPLY_HASH =>
    /\ receive \in FrameType /\ receive.cmd = REQUEST_HASH /\ challenge = asked
    /\ f.payload_data = Pair(hash(Unpair(receive.payload_data, 1))) \o Zeros(14)

\* A step of a sender, and one of a receiver.
Sends(f, mode, key, to, dest, challenge, reading) ==
  /\ Send(f, mode, key, to, dest, challenge, reading)
  /\ WellMade(f, mode, key, to, challenge, reading)
  /\ ReplyIsMade(f, challenge)
  /\ for_future' \in {Zeros(6), Ones(6)}

Receives(mode, key) ==
  /\ mode \in {"ecb", "cbc"} /\ key \in Bytes(16)
  /\ sent.to = "gateway" /\ sent.mode = "ecb" => mode = "ecb" /\ key = key_begin
  /\ got' = Opened(Deciphered(mode, key), mode, key)
  /\ \/ UNCHANGED <<receive, asked>>
     \/ got'.opened /\ receive' = got'.frame /\ asked' = sent.asked

SendStep ==
  \E f, mode, key, to, dest, challenge, reading :
    Sends(f, mode, key, to, dest, challenge, reading)

ReceiveStep ==
  /\ sent # Nobody /\ got = NotYet
  /\ UNCHANGED <<mac, for_future, sent, datagram>>
  /\ \/ got' = [opened |-> FALSE, mode |-> "none", key |-> <<>>] /\ UNCHANGED <<receive, asked>>
     \/ \E mode, key : Receives(mode, key)

\* Every sender fills its frame as it should.
LEMMA SendersStep ==
  ASSUME IInv,
         NodeJoins \/ NodeReplies \/ NodeReports \/ NodeAnswersTool
           \/ GatewayChallenges \/ GatewaySendsKey \/ ToolCommands
  PROVE  SendStep
<1>1. /\ get_my_addrress(mac) \in Bytes(16) /\ NodeAddr \in Bytes(16)
      /\ set_border_router_address \in Bytes(16) /\ ipv6_bor \in Bytes(16)
  BY AddressTypes, CodecAssumption DEF IInv, BuffersHeld, NodeAddr
<1>2. /\ Zeros(4) \in Bytes(4) /\ Zeros(6) \in Bytes(6) /\ Ones(6) \in Bytes(6)
      /\ Zeros(16) \in Bytes(16) /\ key_begin \in Bytes(16) /\ <<1, 0, 0, 0>> \in Bytes(4)
      /\ for_future \in Bytes(6)
  <2>1. 4 \in Nat /\ 6 \in Nat /\ 16 \in Nat
    OBVIOUS
  <2>2. /\ Zeros(4) \in Bytes(4) /\ Zeros(6) \in Bytes(6) /\ Ones(6) \in Bytes(6)
        /\ Zeros(16) \in Bytes(16) /\ key_begin \in Bytes(16) /\ <<1, 0, 0, 0>> \in Bytes(4)
    BY <2>1, FillingTypes
  <2>3. QED
    BY <2>2 DEF IInv, BuffersHeld
<1>3. /\ STATE_BEGIN \in Byte /\ STATE_NORMAL \in Byte
      /\ \A c \in 1..9 : c \in Byte
  BY FillingTypes
<1>4. ASSUME NEW seq \in Bytes(4), NEW cmd \in {1, 3}, NEW data \in Bytes(16), NEW challenge,
             NodeBegins(seq, cmd, data, challenge),
             cmd = 3 => /\ receive \in FrameType /\ receive.cmd = REQUEST_HASH /\ challenge = asked
                        /\ data = Pair(hash(Unpair(receive.payload_data, 1))) \o Zeros(14)
      PROVE  SendStep
  <2>1. cmd \in Byte
    BY <1>3
  <2>2. PICK f \in FrameType :
          /\ f = prepare2send(get_my_addrress(mac), set_border_router_address, seq,
                              STATE_BEGIN, cmd, data, Ones(6))
          /\ check_crc16(Packed(f))
          /\ f.cmd = cmd /\ f.payload_data = data /\ f.for_future = Ones(6)
    <3>1. PICK src \in Bytes(16), dst \in Bytes(16), future \in Bytes(6), state \in Byte :
            /\ src = get_my_addrress(mac) /\ dst = set_border_router_address
            /\ future = Ones(6) /\ state = STATE_BEGIN
      BY <1>1, <1>2, <1>3
    <3>2. QED
      BY <2>1, <3>1, PreparedFrame
  <2>3. Send(f, "ecb", key_begin, "gateway", set_border_router_address, challenge, 0)
    BY <1>4, <2>2 DEF NodeBegins
  <2>4. WellMade(f, "ecb", key_begin, "gateway", challenge, 0)
    BY <1>2, <2>2 DEF WellMade, SEND_PZEM, REQUEST_HASH
  <2>5. for_future' \in {Zeros(6), Ones(6)}
    BY <1>4 DEF NodeBegins
  <2>6. ReplyIsMade(f, challenge)
    BY <1>4, <2>2 DEF ReplyIsMade, REPLY_HASH
  <2>7. Sends(f, "ecb", key_begin, "gateway", set_border_router_address, challenge, 0)
    BY <2>3, <2>4, <2>5, <2>6 DEF Sends
  <2>8. QED
    BY <2>7 DEF SendStep
<1>5. ASSUME NodeJoins PROVE SendStep
  <2>1. PICK seq \in Counter : NodeBegins(seq, REQUEST_JOIN, Zeros(16), 0)
    BY <1>5 DEF NodeJoins
  <2>2. seq \in Bytes(4)
    BY CodecAssumption DEF Bytes
  <2>3. QED
    BY <1>2, <1>4, <2>1, <2>2 DEF REQUEST_JOIN
<1>6. ASSUME NodeReplies PROVE SendStep
  <2>1. /\ receive.cmd = REQUEST_HASH
        /\ NodeBegins(<<1, 0, 0, 0>>, REPLY_HASH,
                      Pair(hash(Unpair(receive.payload_data, 1))) \o Zeros(14), asked)
    BY <1>6 DEF NodeReplies
  <2>2. receive \in FrameType
    BY <2>1 DEF IInv, BuffersHeld, Blank, REQUEST_HASH
  <2>3. Unpair(receive.payload_data, 1) \in Word16Bits
    <3>1. PICK d \in Bytes(16) : d = receive.payload_data
      BY <2>2 DEF FrameType
    <3>2. d[1] \in Byte /\ d[2] \in Byte /\ 1 + 1 = 2
      BY DEF Bytes
    <3>3. 256 * d[2] + d[1] \in Word16Bits
      BY <3>2, WordOfBytes
    <3>4. d[1] + 256 * d[2] = 256 * d[2] + d[1]
      BY <3>2, ByteRange
    <3>5. Unpair(d, 1) = d[1] + 256 * d[2]
      BY <3>2, Zenon DEF Unpair
    <3>6. QED
      BY <3>1, <3>3, <3>4, <3>5
  <2>4. PICK h \in Word16Bits : h = hash(Unpair(receive.payload_data, 1))
    BY <2>3, HashType
  <2>5. Pair(h) \o Zeros(14) \in Bytes(16)
    BY WordCarried
  <2>6. QED
    BY <1>2, <1>4, <2>1, <2>2, <2>4, <2>5 DEF REPLY_HASH
<1>7. ASSUME NodeReports PROVE SendStep
  <2>1. PICK r \in Report :
          /\ for_future' = Zeros(6)
          /\ Send(prepare2send(get_my_addrress(mac), set_border_router_address, r.seq,
                         STATE_NORMAL, SEND_PZEM, pack_data_PZEM(r.reading), Zeros(6)),
                  "cbc", gen_random_key_128(r.raw), "gateway", set_border_router_address,
                  0, r.reading)
    BY <1>7 DEF NodeReports
  <2>2. r \in [seq : [1..4 -> Byte], reading : ReadingType, raw : [1..16 -> Byte]]
    BY CodecAssumption
  <2>3. /\ r.seq \in [1..4 -> Byte] /\ r.reading \in ReadingType /\ r.raw \in [1..16 -> Byte]
    <3> HIDE DEF ReadingType, Byte
    <3> QED BY <2>2
  <2>4. r.seq \in Bytes(4) /\ gen_random_key_128(r.raw) \in Bytes(16)
    BY <2>3, KeyType DEF Bytes
  <2>5. pack_data_PZEM(r.reading) \in Bytes(16) /\ SEND_PZEM \in Byte
    BY <1>3, <2>3, ReadingCarried DEF SEND_PZEM
  <2>6. PICK f \in FrameType :
          /\ f = prepare2send(get_my_addrress(mac), set_border_router_address, r.seq,
                              STATE_NORMAL, SEND_PZEM, pack_data_PZEM(r.reading), Zeros(6))
          /\ check_crc16(Packed(f))
          /\ f.cmd = SEND_PZEM /\ f.payload_data = pack_data_PZEM(r.reading)
          /\ f.for_future = Zeros(6)
    <3>1. PICK src \in Bytes(16), dst \in Bytes(16), seq \in Bytes(4), data \in Bytes(16),
               future \in Bytes(6), state \in Byte, cmd \in Byte :
            /\ src = get_my_addrress(mac) /\ dst = set_border_router_address /\ seq = r.seq
            /\ data = pack_data_PZEM(r.reading) /\ future = Zeros(6) /\ state = STATE_NORMAL
            /\ cmd = SEND_PZEM
      BY <1>1, <1>2, <1>3, <2>4, <2>5
    <3>2. QED
      BY <3>1, PreparedFrame
  <2>7. WellMade(f, "cbc", gen_random_key_128(r.raw), "gateway", 0, r.reading)
    BY <2>3, <2>4, <2>6 DEF WellMade, SEND_PZEM, REQUEST_HASH
  <2>8. ReplyIsMade(f, 0)
    BY <2>6 DEF ReplyIsMade, SEND_PZEM, REPLY_HASH
  <2>9. Sends(f, "cbc", gen_random_key_128(r.raw), "gateway", set_border_router_address, 0,
              r.reading)
    BY <2>1, <2>6, <2>7, <2>8 DEF Sends
  <2>10. QED
    BY <2>9 DEF SendStep
<1>8. ASSUME NEW src \in Bytes(16), NEW dst \in Bytes(16), NEW seq \in Bytes(4), NEW state \in Byte,
             NEW cmd \in {2, 4, 6, 7, 8, 9}, NEW data \in Bytes(16), NEW future \in Bytes(6),
             NEW mode \in {"ecb", "cbc"}, NEW to \in {"node", "tool"}, NEW dest, NEW challenge,
             cmd = 2 => challenge \in Word16Bits /\ data = Pair(challenge) \o Zeros(14),
             Send(prepare2send(src, dst, seq, state, cmd, data, future), mode, key_begin, to,
                  dest, challenge, 0),
             UNCHANGED for_future
      PROVE  SendStep
  <2>1. cmd \in Byte
    BY <1>3
  <2>2. PICK f \in FrameType :
          /\ f = prepare2send(src, dst, seq, state, cmd, data, future)
          /\ check_crc16(Packed(f)) /\ f.cmd = cmd /\ f.payload_data = data
    BY <2>1, Prepared
  <2>3. WellMade(f, mode, key_begin, to, challenge, 0)
    BY <1>2, <1>8, <2>2 DEF WellMade, SEND_PZEM, REQUEST_HASH
  <2>4. ReplyIsMade(f, challenge)
    BY <2>2 DEF ReplyIsMade, REPLY_HASH
  <2>5. for_future' \in {Zeros(6), Ones(6)}
    BY <1>8 DEF IInv, BuffersHeld
  <2>6. Sends(f, mode, key_begin, to, dest, challenge, 0)
    BY <1>8, <2>2, <2>3, <2>4, <2>5 DEF Sends
  <2>7. QED
    BY <2>6 DEF SendStep
<1>9. ASSUME NodeAnswersTool PROVE SendStep
  <2>1. PICK cmd \in {7, 9} :
          /\ Send(prepare2send(get_my_addrress(mac), set_border_router_address, Zeros(4),
                               STATE_NORMAL, cmd, Zeros(16), for_future),
                  "cbc", key_begin, "tool", ipv6_bor, 0, 0)
          /\ UNCHANGED for_future
    BY <1>9 DEF NodeAnswersTool
  <2>2. cmd \in {2, 4, 6, 7, 8, 9} /\ cmd # 2
    OBVIOUS
  <2>3. QED
    BY <1>1, <1>2, <1>3, <1>8, <2>1, <2>2
<1>10. ASSUME GatewayChallenges PROVE SendStep
  <2>1. PICK r \in Rand :
          GatewayAnswers(Zeros(4), REQUEST_HASH, Pair(gen_random_num(r)) \o Zeros(14),
                         gen_random_num(r))
    BY <1>10 DEF GatewayChallenges
  <2>2. PICK c \in Word16Bits : c = gen_random_num(r)
    BY RandomType, CodecAssumption
  <2>3. Pair(c) \o Zeros(14) \in Bytes(16)
    BY WordCarried
  <2>4. /\ Send(prepare2send(ipv6_bor, NodeAddr, Zeros(4), STATE_BEGIN, REQUEST_HASH,
                             Pair(c) \o Zeros(14), Zeros(6)),
                "ecb", key_begin, "node", getaddrinfo(ipv6_to_str_unexpanded(NodeAddr)), c, 0)
        /\ UNCHANGED for_future
    BY <2>1, <2>2 DEF GatewayAnswers
  <2>5. REQUEST_HASH \in {2, 4, 6, 7, 8, 9}
    BY DEF REQUEST_HASH
  <2>6. QED
    BY <1>1, <1>2, <1>3, <1>8, <2>3, <2>4, <2>5
<1>11. ASSUME GatewaySendsKey PROVE SendStep
  <2>1. PICK raw \in RawKey :
          GatewayAnswers(<<1, 0, 0, 0>>, JOIN_SUCCESS, gen_random_key_128(raw), 0)
    BY <1>11 DEF GatewaySendsKey
  <2>2. PICK k \in Bytes(16) : k = gen_random_key_128(raw)
    BY KeyType, CodecAssumption
  <2>3. /\ Send(prepare2send(ipv6_bor, NodeAddr, <<1, 0, 0, 0>>, STATE_BEGIN, JOIN_SUCCESS, k,
                             Zeros(6)),
                "ecb", key_begin, "node", getaddrinfo(ipv6_to_str_unexpanded(NodeAddr)), 0, 0)
        /\ UNCHANGED for_future
    BY <2>1, <2>2 DEF GatewayAnswers
  <2>4. JOIN_SUCCESS \in {2, 4, 6, 7, 8, 9} /\ JOIN_SUCCESS # 2
    BY DEF JOIN_SUCCESS
  <2>5. QED
    BY <1>1, <1>2, <1>3, <1>8, <2>3, <2>4
<1>12. ASSUME ToolCommands PROVE SendStep
  <2>1. PICK cmd \in {6, 8} : \E dst_ipv6addr :
          /\ Send(prepare2send(ipv6_bor, Zeros(16), Zeros(4), STATE_NORMAL, cmd,
                               key_begin, Zeros(6)),
                  "cbc", key_begin, "node", getaddrinfo(dst_ipv6addr), 0, 0)
          /\ UNCHANGED for_future
    BY <1>12 DEF ToolCommands
  <2>2. cmd \in {2, 4, 6, 7, 8, 9} /\ cmd # 2
    OBVIOUS
  <2>3. QED
    BY <1>1, <1>2, <1>3, <1>8, <2>1, <2>2
<1>13. QED
  BY <1>5, <1>6, <1>7, <1>9, <1>10, <1>11, <1>12

\* Every receiver deciphers the datagram, and the gateway as the marker says.
LEMMA ReceiversStep ==
  ASSUME IInv, NodeReceives \/ GatewayDenies \/ GatewayReceives \/ ToolReceives
  PROVE  ReceiveStep
<1>1. key_begin \in Bytes(16)
  BY FillingTypes
<1>2. ASSUME NEW mode \in {"ecb", "cbc"}, NEW key, Decipher(mode, key)
      PROVE  got' = Opened(Deciphered(mode, key), mode, key)
  BY <1>2 DEF Decipher, With, Deciphered
<1>3. ASSUME NodeReceives PROVE ReceiveStep
  <2>1. PICK mode \in {"ecb", "cbc"} : Decipher(mode, key_begin)
    BY <1>3 DEF NodeReceives
  <2>2. sent.to = "node" /\ sent # Nobody
    BY <1>3 DEF NodeReceives, Nobody
  <2>3. Receives(mode, key_begin)
    BY <1>1, <1>2, <1>3, <2>1, <2>2 DEF Receives, NodeReceives
  <2>4. QED
    BY <1>3, <2>2, <2>3 DEF ReceiveStep, NodeReceives
<1>4. ASSUME GatewayDenies PROVE ReceiveStep
  BY <1>4 DEF GatewayDenies, ReceiveStep, Nobody
<1>5. ASSUME GatewayReceives PROVE ReceiveStep
  <2>1. sent.to = "gateway" /\ sent # Nobody
    BY <1>5 DEF GatewayReceives, Nobody
  <2>2. sent.mode = "ecb" => check_statedata_rev(datagram)
    BY <2>1, MarkerSeen DEF IInv, SentIsWellMade, WellMade, Enciphered
  <2>3. CASE check_statedata_rev(datagram)
    <3>1. Decipher("ecb", key_begin)
      BY <1>5, <2>3 DEF GatewayReceives
    <3>2. Receives("ecb", key_begin)
      BY <1>1, <1>2, <1>5, <3>1 DEF Receives, GatewayReceives
    <3>3. QED
      BY <1>5, <2>1, <3>2 DEF ReceiveStep, GatewayReceives
  <2>4. CASE ~check_statedata_rev(datagram)
    <3>1. PICK raw \in RawKey : Decipher("cbc", gen_random_key_128(raw))
      BY <1>5, <2>4 DEF GatewayReceives
    <3>2. gen_random_key_128(raw) \in Bytes(16)
      BY KeyType, CodecAssumption
    <3>3. Receives("cbc", gen_random_key_128(raw))
      BY <1>2, <1>5, <2>2, <2>4, <3>1, <3>2 DEF Receives, GatewayReceives
    <3>4. QED
      BY <1>5, <2>1, <3>3 DEF ReceiveStep, GatewayReceives
  <2>5. QED
    BY <2>3, <2>4
<1>6. ASSUME ToolReceives PROVE ReceiveStep
  <2>1. sent.to = "tool" /\ sent # Nobody
    BY <1>6 DEF ToolReceives, Nobody
  <2>2. Receives("cbc", key_begin)
    BY <1>1, <1>2, <1>6, <2>1 DEF Receives, ToolReceives
  <2>3. QED
    BY <1>6, <2>1, <2>2 DEF ReceiveStep, ToolReceives
<1>7. QED
  BY <1>3, <1>4, <1>5, <1>6

\* What a deciphering of 64 bytes gives, and what is opened of it.
LEMMA OpenedIs ==
  ASSUME IInv, sent # Nobody, NEW mode \in {"ecb", "cbc"}, NEW key \in Bytes(16)
  PROVE  LET o == Opened(Deciphered(mode, key), mode, key)
         IN  /\ o.mode = mode /\ o.key = key
             /\ o.opened => o.frame \in FrameType
             /\ mode = sent.mode /\ key = sent.key =>
                  o.opened /\ o.frame = [sent.frame EXCEPT !.seq[4] = 0]
<1>1. /\ sent.frame \in FrameType /\ check_crc16(Packed(sent.frame))
      /\ sent.mode \in {"ecb", "cbc"} /\ sent.key \in Bytes(16)
      /\ datagram = Enciphered(sent.frame, sent.mode, sent.key)
  BY DEF IInv, SentIsWellMade, WellMade
<1>2. PICK f \in FrameType : f = sent.frame
  BY <1>1
<1>3. PICK b \in Bytes(64) : b = Packed(f)
  BY Layout
<1>4. datagram \in Bytes(64)
  BY <1>1, <1>2, <1>3, EcbType, CbcType DEF Enciphered
<1>5. Deciphered(mode, key) \in Bytes(64)
  BY <1>4, EcbType, CbcType DEF Deciphered
<1>6. parse_64(Deciphered(mode, key)) \in FrameType
  BY <1>5, ParsedType
<1>7. ASSUME mode = sent.mode, key = sent.key
      PROVE  Deciphered(mode, key) = b
  BY <1>1, <1>2, <1>3, <1>7, EcbInverse, CbcInverse DEF Deciphered, Enciphered
<1>8. parse_64(b) = [sent.frame EXCEPT !.seq[4] = 0] /\ check_crc16(b)
  BY <1>1, <1>2, <1>3, ParseIsPacked
<1>9. QED
  BY <1>6, <1>7, <1>8 DEF Opened

\* Nothing is in flight at the start.
LEMMA CodecInit ==
  ASSUME Init
  PROVE  IInv
<1>1. BuffersHeld
  BY DEF Init, BuffersHeld
<1>2. SentIsWellMade /\ GotIsDeciphered
  BY DEF Init, SentIsWellMade, GotIsDeciphered, Handled
<1>3. QED
  BY <1>1, <1>2 DEF IInv

\* A new frame replaces the one in flight, and nobody has looked at it.
LEMMA SendKeeps ==
  ASSUME IInv, SendStep
  PROVE  IInv'
<1>1. PICK f, mode, key, to, dest, challenge, reading :
        Sends(f, mode, key, to, dest, challenge, reading)
  BY DEF SendStep
<1>2. /\ sent' = [frame |-> f, mode |-> mode, key |-> key, to |-> to, dest |-> dest,
                  asked |-> challenge, reading |-> reading]
      /\ datagram' = IF mode = "ecb" THEN AES128_ECB_encrypt(Packed(f), key)
                                     ELSE encrypt_cbc(Packed(f), key)
      /\ got' = NotYet /\ UNCHANGED <<mac, receive, asked>>
  BY <1>1 DEF Sends, Send
<1>3. BuffersHeld'
  BY <1>1, <1>2 DEF IInv, BuffersHeld, Sends
<1>4. SentIsWellMade'
  <2>1. datagram' = Enciphered(f, mode, key)
    BY <1>2 DEF Enciphered
  <2>2. WellMade(f, mode, key, to, challenge, reading)
    BY <1>1 DEF Sends
  <2>3. /\ sent'.frame = f /\ sent'.mode = mode /\ sent'.key = key /\ sent'.to = to
        /\ sent'.asked = challenge /\ sent'.reading = reading
    BY <1>2
  <2>4. QED
    BY <2>1, <2>2, <2>3 DEF SentIsWellMade
<1>5. GotIsDeciphered'
  BY <1>2 DEF GotIsDeciphered, Handled
<1>6. QED
  BY <1>3, <1>4, <1>5 DEF IInv

\* A receiver leaves the frame in flight as it is.
LEMMA ReceiveKeeps ==
  ASSUME IInv, ReceiveStep
  PROVE  IInv'
<1>1. sent # Nobody /\ got = NotYet /\ UNCHANGED <<mac, for_future, sent, datagram>>
  BY DEF ReceiveStep
<1>2. SentIsWellMade'
  BY <1>1 DEF IInv, SentIsWellMade, WellMade, Enciphered
<1>3. CASE got' = [opened |-> FALSE, mode |-> "none", key |-> <<>>] /\ UNCHANGED <<receive, asked>>
  <2>1. BuffersHeld'
    BY <1>1, <1>3 DEF IInv, BuffersHeld
  <2>2. GotIsDeciphered'
    BY <1>3 DEF GotIsDeciphered
  <2>3. QED
    BY <1>2, <2>1, <2>2 DEF IInv
<1>4. ASSUME NEW mode, NEW key, Receives(mode, key) PROVE IInv'
  <2>1. /\ mode \in {"ecb", "cbc"} /\ key \in Bytes(16)
        /\ sent.to = "gateway" /\ sent.mode = "ecb" => mode = "ecb" /\ key = key_begin
        /\ got' = Opened(Deciphered(mode, key), mode, key)
        /\ \/ UNCHANGED <<receive, asked>>
           \/ got'.opened /\ receive' = got'.frame /\ asked' = sent.asked
    BY <1>4 DEF Receives
  <2>2. /\ got'.mode = mode /\ got'.key = key
        /\ got'.opened => got'.frame \in FrameType
    BY <1>1, <2>1, OpenedIs
  <2>3. BuffersHeld'
    BY <1>1, <2>1, <2>2 DEF IInv, BuffersHeld
  <2>4. Deciphered(mode, key)' = Deciphered(mode, key)
    BY <1>1 DEF Deciphered
  <2>5. GotIsDeciphered'
    <3>1. got' = Opened(Deciphered(got.mode, got.key), got.mode, got.key)'
      BY <1>1, <2>1, <2>2 DEF Deciphered
    <3>2. sent'.to = "gateway" /\ sent'.mode = "ecb" => got'.mode = "ecb" /\ got'.key = key_begin
      BY <1>1, <2>1, <2>2
    <3>3. QED
      BY <3>1, <3>2 DEF GotIsDeciphered
  <2>6. QED
    BY <1>2, <2>3, <2>5 DEF IInv
<1>5. QED
  BY <1>3, <1>4 DEF ReceiveStep

\* Every step is one of a sender or one of a receiver.
LEMMA StepIs ==
  ASSUME IInv, Next
  PROVE  SendStep \/ ReceiveStep
  BY SendersStep, ReceiversStep DEF Next

\* The frame in flight is well made, its datagram is that frame enciphered,
\* and what the receiver holds is that datagram deciphered.
THEOREM CodecInvariance == Spec => []IInv
<1>1. Init => IInv
  BY CodecInit
<1>2. IInv /\ [Next]_vars => IInv'
  <2> SUFFICES ASSUME IInv, [Next]_vars PROVE IInv'
    OBVIOUS
  <2>1. CASE Next
    BY <2>1, StepIs, SendKeeps, ReceiveKeeps
  <2>2. CASE UNCHANGED vars
    BY <2>2 DEF vars, IInv, BuffersHeld, SentIsWellMade, GotIsDeciphered, WellMade, Enciphered,
                Deciphered, Handled, Opened, check_crc16, NodeAddr
  <2>3. QED
    BY <2>1, <2>2
<1>3. QED
  BY <1>1, <1>2, PTL DEF Spec

-----------------------------------------------------------------------------
(* What arrives *)

\* A receiver that deciphers the way, and with the key, the sender enciphered
\* accepts the frame and parses every field of it but the top byte of the
\* number (test/util.c:99-143, 395-425; server.c:330, 375).
SameKeyOpens ==
  Handled /\ got.mode = sent.mode /\ got.key = sent.key =>
    got.opened /\ got.frame = [sent.frame EXCEPT !.seq[4] = 0]

\* The invariant has the right receiver open every frame.
LEMMA SameKeyFollows == IInv => SameKeyOpens
<1> SUFFICES ASSUME IInv, Handled, got.mode = sent.mode, got.key = sent.key
    PROVE  got.opened /\ got.frame = [sent.frame EXCEPT !.seq[4] = 0]
  BY DEF SameKeyOpens
<1>1. sent # Nobody /\ sent.mode \in {"ecb", "cbc"} /\ sent.key \in Bytes(16)
  BY DEF Handled, IInv, SentIsWellMade, WellMade
<1>2. got = Opened(Deciphered(got.mode, got.key), got.mode, got.key)
  BY <1>1 DEF IInv, GotIsDeciphered
<1>3. QED
  BY <1>1, <1>2, OpenedIs

\* The invariant has the gateway open every frame of the join.
LEMMA JoinFollows == IInv => JoinOpens
<1> SUFFICES ASSUME IInv, Handled, sent.to = "gateway", sent.mode = "ecb", got.mode # "none"
    PROVE  got.opened
  BY DEF JoinOpens
<1>1. sent.key = key_begin
  BY DEF Handled, IInv, SentIsWellMade, WellMade
<1>2. got.mode = "ecb" /\ got.key = key_begin
  BY DEF IInv, GotIsDeciphered
<1>3. QED
  BY <1>1, <1>2, SameKeyFollows DEF SameKeyOpens

\* A receiver with the key of the sender opens every frame.
THEOREM SameKeyAlwaysOpens == Spec => []SameKeyOpens
  BY CodecInvariance, SameKeyFollows, PTL

\* The gateway opens every frame of the join that it does not deny.
THEOREM JoinAlwaysOpens == Spec => []JoinOpens
  BY CodecInvariance, JoinFollows, PTL

\* While the CRC tells the wrong key or the wrong way, what is parsed is what
\* was sent.
THEOREM FrameArrivesExactly == Spec => [](OpensIsExact => FrameArrives)
<1>1. IInv => (OpensIsExact => FrameArrives)
  BY SameKeyFollows DEF OpensIsExact, FrameArrives, SameKeyOpens
<1>2. QED
  BY <1>1, CodecInvariance, PTL

\* While the CRC tells, the gateway prints what the node read.
THEOREM ReportArrivesExactly == Spec => [](OpensIsExact => ReportArrives)
<1>1. IInv => (OpensIsExact => ReportArrives)
  <2> SUFFICES ASSUME IInv, OpensIsExact, Handled, got.opened, sent.frame.cmd = SEND_PZEM
               PROVE  PRINTF_PZEM(got.frame.payload_data) = sent.reading
    BY DEF ReportArrives
  <2>1. got.frame = [sent.frame EXCEPT !.seq[4] = 0]
    BY SameKeyFollows DEF OpensIsExact, SameKeyOpens
  <2>2. /\ sent.frame \in FrameType /\ sent.reading \in ReadingType
        /\ sent.frame.payload_data = pack_data_PZEM(sent.reading)
    BY DEF Handled, IInv, SentIsWellMade, WellMade
  <2>3. got.frame.payload_data = sent.frame.payload_data
    BY <2>1, <2>2 DEF FrameType
  <2>4. QED
    BY <2>2, <2>3, ReadingCarried
<1>2. QED
  BY <1>1, CodecInvariance, PTL

\* The challenge that a node holds, and the reply in flight.
ChallengeHeld ==
  receive \in FrameType /\ receive.cmd = REQUEST_HASH =>
    asked \in Word16Bits /\ receive.payload_data = Pair(asked) \o Zeros(14)

ReplyHeld ==
  sent # Nobody /\ sent.frame.cmd = REPLY_HASH =>
    /\ sent.asked \in Word16Bits
    /\ sent.frame.payload_data = Pair(hash(sent.asked)) \o Zeros(14)

ReplyInv == ChallengeHeld /\ ReplyHeld

\* While the CRC tells, a step keeps the challenge and the reply.
LEMMA ReplyKept ==
  ASSUME IInv, ReplyInv, [Next]_vars, IInv', OpensIsExact'
  PROVE  ReplyInv'
<1>1. CASE UNCHANGED vars
  BY <1>1 DEF vars, ReplyInv, ChallengeHeld, ReplyHeld
<1>2. CASE SendStep
  <2>1. PICK f, mode, key, to, dest, challenge, reading :
          Sends(f, mode, key, to, dest, challenge, reading)
    BY <1>2 DEF SendStep
  <2>2. /\ sent' = [frame |-> f, mode |-> mode, key |-> key, to |-> to, dest |-> dest,
                    asked |-> challenge, reading |-> reading]
        /\ UNCHANGED <<receive, asked>>
    BY <2>1 DEF Sends, Send
  <2>3. ChallengeHeld'
    BY <2>2 DEF ReplyInv, ChallengeHeld
  <2>4. ReplyHeld'
    <3> SUFFICES ASSUME f.cmd = REPLY_HASH
                 PROVE  /\ challenge \in Word16Bits
                        /\ f.payload_data = Pair(hash(challenge)) \o Zeros(14)
      BY <2>2 DEF ReplyHeld
    <3>1. /\ receive \in FrameType /\ receive.cmd = REQUEST_HASH /\ challenge = asked
          /\ f.payload_data = Pair(hash(Unpair(receive.payload_data, 1))) \o Zeros(14)
      BY <2>1 DEF Sends, ReplyIsMade
    <3>2. asked \in Word16Bits /\ receive.payload_data = Pair(asked) \o Zeros(14)
      BY <3>1 DEF ReplyInv, ChallengeHeld
    <3>3. Unpair(receive.payload_data, 1) = asked
      BY <3>2, WordCarried
    <3>4. QED
      BY <3>1, <3>2, <3>3
  <2>5. QED
    BY <2>3, <2>4 DEF ReplyInv
<1>3. CASE ReceiveStep
  <2>1. sent # Nobody /\ sent' = sent
    BY <1>3 DEF ReceiveStep
  <2>2. ReplyHeld'
    BY <2>1 DEF ReplyInv, ReplyHeld
  <2>3. CASE UNCHANGED <<receive, asked>>
    BY <2>2, <2>3 DEF ReplyInv, ChallengeHeld
  <2>4. ASSUME NEW mode, NEW key, Receives(mode, key),
               got'.opened, receive' = got'.frame, asked' = sent.asked
        PROVE  ChallengeHeld'
    <3>1. /\ mode \in {"ecb", "cbc"} /\ key \in Bytes(16)
          /\ got' = Opened(Deciphered(mode, key), mode, key)
      BY <2>4 DEF Receives
    <3>2. /\ got'.mode = mode /\ got'.key = key
          /\ mode = sent.mode /\ key = sent.key => got'.frame = [sent.frame EXCEPT !.seq[4] = 0]
      BY <2>1, <3>1, OpenedIs
    <3>3. got'.mode = sent'.mode /\ got'.key = sent'.key
      <4>1. Handled'
        BY <2>1, <3>1, <3>2 DEF Handled, NotYet
      <4>2. QED
        BY <2>4, <4>1 DEF OpensIsExact
    <3>4. receive' = [sent.frame EXCEPT !.seq[4] = 0]
      BY <2>1, <2>4, <3>2, <3>3
    <3>5. /\ sent.frame \in FrameType
          /\ sent.frame.cmd = REQUEST_HASH =>
               sent.asked \in Word16Bits /\ sent.frame.payload_data = Pair(sent.asked) \o Zeros(14)
      BY <2>1 DEF IInv, SentIsWellMade, WellMade
    <3>6. receive'.cmd = sent.frame.cmd /\ receive'.payload_data = sent.frame.payload_data
      BY <3>4, <3>5 DEF FrameType
    <3>7. QED
      BY <2>4, <3>5, <3>6 DEF ChallengeHeld
  <2>5. QED
    BY <1>3, <2>2, <2>3, <2>4 DEF ReceiveStep, Receives, ReplyInv
<1>4. QED
  BY <1>1, <1>2, <1>3, StepIs

\* While the CRC tells, the reply to a challenge is the hash that the gateway
\* compares it with.
THEOREM ReplyAlwaysMatches == Spec /\ []OpensIsExact => []ReplyMatches
<1>1. Init => ReplyInv
  BY DEF Init, ReplyInv, ChallengeHeld, ReplyHeld, Blank, REQUEST_HASH
<1>2. IInv /\ ReplyInv /\ [Next]_vars /\ IInv' /\ OpensIsExact' => ReplyInv'
  BY ReplyKept
<1>3. IInv /\ ReplyInv /\ OpensIsExact => ReplyMatches
  <2> SUFFICES ASSUME IInv, ReplyInv, OpensIsExact, Handled, got.opened,
                      sent.frame.cmd = REPLY_HASH
               PROVE  Unpair(got.frame.payload_data, 1) = hash(sent.asked)
    BY DEF ReplyMatches
  <2>1. got.frame = [sent.frame EXCEPT !.seq[4] = 0]
    BY SameKeyFollows DEF OpensIsExact, SameKeyOpens
  <2>2. sent.frame \in FrameType
    BY DEF Handled, IInv, SentIsWellMade, WellMade
  <2>3. got.frame.payload_data = sent.frame.payload_data
    BY <2>1, <2>2 DEF FrameType
  <2>4. /\ sent.asked \in Word16Bits
        /\ sent.frame.payload_data = Pair(hash(sent.asked)) \o Zeros(14)
    BY DEF Handled, ReplyInv, ReplyHeld
  <2>5. QED
    BY <2>3, <2>4, HashType, WordCarried
<1>4. QED
  BY <1>1, <1>2, <1>3, CodecInvariance, PTL DEF Spec
-----------------------------------------------------------------------------
(* Where a frame goes *)

\* A frame for the node goes to its address, and one from it names its
\* address; the gateway denies the node exactly when it finds no line.
AddressInv ==
  /\ sent # Nobody =>
       /\ sent.to = "node" => sent.dest = NodeAddr
       /\ sent.to = "gateway" => sent.frame.ipv6_source_addr = NodeAddr
  /\ Handled /\ sent.to = "gateway" => (got.mode = "none" <=> my_device_pos = 0)

\* A step that sends keeps the invariant.
LEMMA SendsTo ==
  ASSUME NEW f, NEW mode, NEW key, NEW to, NEW dest, NEW challenge, NEW reading,
         Send(f, mode, key, to, dest, challenge, reading),
         to = "node" => dest = NodeAddr, to = "gateway" => f.ipv6_source_addr = NodeAddr
  PROVE  AddressInv'
<1>1. /\ sent' = [frame |-> f, mode |-> mode, key |-> key, to |-> to, dest |-> dest,
                  asked |-> challenge, reading |-> reading]
      /\ got' = NotYet /\ mac' = mac
  BY DEF Send
<1>2. sent'.to = to /\ sent'.dest = dest /\ sent'.frame = f
  BY <1>1
<1>3. NodeAddr' = NodeAddr
  BY <1>1 DEF NodeAddr
<1>4. ~Handled'
  BY <1>1 DEF Handled
<1>5. QED
  BY <1>2, <1>3, <1>4 DEF AddressInv

\* Every sender sends to and from the right address.
LEMMA SendersAddress ==
  ASSUME mac \in Mac,
         NodeJoins \/ NodeReplies \/ NodeReports \/ NodeAnswersTool
           \/ GatewayChallenges \/ GatewaySendsKey \/ ToolCommands
  PROVE  AddressInv'
<1>1. \A src, dst, seq, state, cmd, data, future :
        prepare2send(src, dst, seq, state, cmd, data, future).ipv6_source_addr = src
  BY DEF prepare2send
<1>2. get_my_addrress(mac) = NodeAddr
  BY NodeAddress DEF NodeAddr
<1>3. /\ getaddrinfo(ipv6_to_str_unexpanded(NodeAddr)) = NodeAddr
      /\ getaddrinfo(ipaddr_add(NodeAddr)) = NodeAddr
  BY NodeIsRead DEF NodeAddr
<1>4. ASSUME NEW seq, NEW cmd, NEW data, NEW challenge, NodeBegins(seq, cmd, data, challenge)
      PROVE  AddressInv'
  <2>1. PICK f : /\ Send(f, "ecb", key_begin, "gateway", set_border_router_address, challenge, 0)
                 /\ f.ipv6_source_addr = get_my_addrress(mac)
    BY <1>1, <1>4 DEF NodeBegins
  <2>2. QED
    BY <1>2, <2>1, SendsTo
<1>5. CASE NodeJoins
  BY <1>4, <1>5 DEF NodeJoins
<1>6. CASE NodeReplies
  BY <1>4, <1>6 DEF NodeReplies
<1>7. CASE NodeReports
  <2>1. PICK f, key, reading :
          /\ Send(f, "cbc", key, "gateway", set_border_router_address, 0, reading)
          /\ f.ipv6_source_addr = get_my_addrress(mac)
    BY <1>1, <1>7 DEF NodeReports
  <2>2. QED
    BY <1>2, <2>1, SendsTo
<1>8. CASE NodeAnswersTool
  <2>1. PICK f : Send(f, "cbc", key_begin, "tool", ipv6_bor, 0, 0)
    BY <1>8 DEF NodeAnswersTool
  <2>2. QED
    BY <2>1, SendsTo
<1>9. ASSUME NEW seq, NEW cmd, NEW data, NEW challenge, GatewayAnswers(seq, cmd, data, challenge)
      PROVE  AddressInv'
  <2>1. PICK f, dest : /\ Send(f, "ecb", key_begin, "node", dest, challenge, 0)
                       /\ dest = getaddrinfo(ipv6_to_str_unexpanded(NodeAddr))
    BY <1>9 DEF GatewayAnswers
  <2>2. QED
    BY <1>3, <2>1, SendsTo
<1>10. CASE GatewayChallenges
  BY <1>9, <1>10 DEF GatewayChallenges
<1>11. CASE GatewaySendsKey
  BY <1>9, <1>11 DEF GatewaySendsKey
<1>12. CASE ToolCommands
  <2>1. PICK f, text : /\ text \in {ipaddr_add(NodeAddr), ipv6_to_str_unexpanded(NodeAddr)}
                       /\ Send(f, "cbc", key_begin, "node", getaddrinfo(text), 0, 0)
    BY <1>12 DEF ToolCommands
  <2>2. getaddrinfo(text) = NodeAddr
    BY <1>3, <2>1
  <2>3. QED
    BY <2>1, <2>2, SendsTo
<1>13. QED
  BY <1>5, <1>6, <1>7, <1>8, <1>10, <1>11, <1>12

\* A receiver keeps the frame in flight, and only a gateway without a line
\* denies it.
LEMMA ReceiversAddress ==
  ASSUME AddressInv, NodeReceives \/ GatewayDenies \/ GatewayReceives \/ ToolReceives
  PROVE  AddressInv'
<1>1. mac' = mac /\ sent' = sent
  BY DEF NodeReceives, GatewayDenies, GatewayReceives, ToolReceives
<1>2. NodeAddr' = NodeAddr /\ my_device_pos' = my_device_pos
  BY <1>1 DEF NodeAddr, my_device_pos
<1>3. sent.to = "gateway" => (got'.mode = "none" <=> my_device_pos = 0)
  <2>1. CASE NodeReceives \/ ToolReceives
    BY <2>1 DEF NodeReceives, ToolReceives
  <2>2. CASE GatewayDenies
    BY <2>2 DEF GatewayDenies
  <2>3. CASE GatewayReceives
    <3>1. my_device_pos # 0 /\ \E mode \in {"ecb", "cbc"} : \E key : Decipher(mode, key)
      BY <2>3 DEF GatewayReceives
    <3>2. PICK mode \in {"ecb", "cbc"} : \E key : Decipher(mode, key)
      BY <3>1
    <3>3. PICK key : Decipher(mode, key)
      BY <3>2
    <3>4. got' = Opened(Deciphered(mode, key), mode, key)
      BY <3>3 DEF Decipher, With, Deciphered
    <3>5. got'.mode = mode /\ mode # "none"
      BY <3>4 DEF Opened
    <3>6. QED
      BY <3>1, <3>5
  <2>4. QED
    BY <2>1, <2>2, <2>3
<1>4. QED
  BY <1>1, <1>2, <1>3 DEF AddressInv, Handled

\* The addresses are right in every behaviour.
THEOREM AddressInvariance == Spec => []AddressInv
<1>1. Init => AddressInv
  BY DEF Init, AddressInv, Handled
<1>2. IInv /\ AddressInv /\ [Next]_vars => AddressInv'
  <2> SUFFICES ASSUME IInv, AddressInv, [Next]_vars PROVE AddressInv'
    OBVIOUS
  <2>1. mac \in Mac
    BY DEF IInv, BuffersHeld
  <2>2. CASE Next
    BY <2>1, <2>2, SendersAddress, ReceiversAddress DEF Next
  <2>3. CASE UNCHANGED vars
    BY <2>3 DEF vars, AddressInv, Handled, NodeAddr, my_device_pos
  <2>4. QED
    BY <2>2, <2>3
<1>3. QED
  BY <1>1, <1>2, CodecInvariance, PTL DEF Spec

\* An answer or a command goes to the node it is meant for.
THEOREM AlwaysReachesNode == Spec => []ReachesNode
<1>1. AddressInv => ReachesNode
  BY DEF AddressInv, ReachesNode
<1>2. QED
  BY <1>1, AddressInvariance, PTL

\* The gateway gives the record of a device to the frames of that device only.
THEOREM SenderAlwaysFound == Spec => []SenderFound
<1>1. IInv /\ AddressInv => SenderFound
  <2> DEFINE lines == {j \in 1..(Len(DeviceList) - 1) : getaddrinfo(DeviceList[j]) = NodeAddr}
  <2> SUFFICES ASSUME IInv, AddressInv, Handled, sent.to = "gateway"
               PROVE  IF got.mode = "none" THEN lines = {}
                      ELSE lines = {my_device_pos} /\ sent.frame.ipv6_source_addr = NodeAddr
    BY DEF SenderFound
  <2>1. lines = IF my_device_pos = 0 THEN {} ELSE {my_device_pos}
    BY DeviceFound DEF IInv, BuffersHeld
  <2>2. sent # Nobody /\ (got.mode = "none" <=> my_device_pos = 0)
    BY DEF AddressInv, Handled
  <2>3. sent.frame.ipv6_source_addr = NodeAddr
    BY <2>2 DEF AddressInv
  <2> HIDE DEF lines
  <2>4. QED
    BY <2>1, <2>2, <2>3
<1>2. QED
  BY <1>1, CodecInvariance, AddressInvariance, PTL
=============================================================================
