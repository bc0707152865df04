------------------------------ MODULE AesProofs ------------------------------
(***************************************************************************)
(* Proofs about Aes: a block deciphers to what was enciphered, whatever    *)
(* the block and the key.                                                  *)
(***************************************************************************)
EXTENDS Aes, Recursion, SequenceTheorems

-----------------------------------------------------------------------------
(* Bytes and their bits *)

\* The weights of the bits of a byte.
Weight == {1, 2, 4, 8, 16, 32, 64, 128}

Bit(a, n) == (a \div n) % 2

\* The number whose bits are these.
FromBits(c0, c1, c2, c3, c4, c5, c6, c7) ==
  1 * c0 + 2 * c1 + 4 * c2 + 8 * c3 + 16 * c4 + 32 * c5 + 64 * c6 + 128 * c7

\* A bit is 0 or 1.
LEMMA BitType == \A a \in Byte : \A n \in Weight : Bit(a, n) \in {0, 1}
  BY DEF Bit, Byte, Weight

\* A byte is the sum of its bits.
LEMMA OfItsBits ==
  ASSUME NEW a \in Byte
  PROVE  a = FromBits(Bit(a, 1), Bit(a, 2), Bit(a, 4), Bit(a, 8), Bit(a, 16), Bit(a, 32),
                      Bit(a, 64), Bit(a, 128))
  BY DEF Bit, FromBits, Byte

\* A sum of bits is a byte with these bits.
LEMMA BitsOf ==
  ASSUME NEW c0 \in {0, 1}, NEW c1 \in {0, 1}, NEW c2 \in {0, 1}, NEW c3 \in {0, 1},
         NEW c4 \in {0, 1}, NEW c5 \in {0, 1}, NEW c6 \in {0, 1}, NEW c7 \in {0, 1}
  PROVE  LET a == FromBits(c0, c1, c2, c3, c4, c5, c6, c7)
         IN  /\ a \in Byte
             /\ Bit(a, 1) = c0 /\ Bit(a, 2) = c1 /\ Bit(a, 4) = c2 /\ Bit(a, 8) = c3
             /\ Bit(a, 16) = c4 /\ Bit(a, 32) = c5 /\ Bit(a, 64) = c6 /\ Bit(a, 128) = c7
  BY DEF Bit, FromBits, Byte

\* Bytes with the same bits are the same.
LEMMA SameBits ==
  ASSUME NEW a \in Byte, NEW b \in Byte, \A n \in Weight : Bit(a, n) = Bit(b, n)
  PROVE  a = b
<1>1. /\ Bit(a, 1) = Bit(b, 1) /\ Bit(a, 2) = Bit(b, 2) /\ Bit(a, 4) = Bit(b, 4)
      /\ Bit(a, 8) = Bit(b, 8) /\ Bit(a, 16) = Bit(b, 16) /\ Bit(a, 32) = Bit(b, 32)
      /\ Bit(a, 64) = Bit(b, 64) /\ Bit(a, 128) = Bit(b, 128)
  BY DEF Weight
<1>2. /\ a = FromBits(Bit(a, 1), Bit(a, 2), Bit(a, 4), Bit(a, 8), Bit(a, 16), Bit(a, 32),
                      Bit(a, 64), Bit(a, 128))
      /\ b = FromBits(Bit(b, 1), Bit(b, 2), Bit(b, 4), Bit(b, 8), Bit(b, 16), Bit(b, 32),
                      Bit(b, 64), Bit(b, 128))
  BY OfItsBits
<1>3. QED
  BY <1>1, <1>2, Zenon

\* Xor8, bit by bit.
LEMMA XorIs == 
  ASSUME NEW a \in Byte, NEW b \in Byte
  PROVE  Xor8(a, b) = FromBits((a \div 1 + b \div 1) % 2, (a \div 2 + b \div 2) % 2,
           (a \div 4 + b \div 4) % 2, (a \div 8 + b \div 8) % 2,
           (a \div 16 + b \div 16) % 2, (a \div 32 + b \div 32) % 2,
           (a \div 64 + b \div 64) % 2, (a \div 128 + b \div 128) % 2)
<1> DEFINE bit(x, y, n) == n * ((x \div n + y \div n) % 2)
<1>1. XorTable = [x \in Byte |-> [y \in Byte |->
        bit(x, y, 1) + bit(x, y, 2) + bit(x, y, 4) + bit(x, y, 8) + bit(x, y, 16)
          + bit(x, y, 32) + bit(x, y, 64) + bit(x, y, 128)]]
  BY DEF XorTable
<1>2. Xor8(a, b) = bit(a, b, 1) + bit(a, b, 2) + bit(a, b, 4) + bit(a, b, 8)
          + bit(a, b, 16) + bit(a, b, 32) + bit(a, b, 64) + bit(a, b, 128)
  <2> HIDE DEF bit
  <2> QED BY <1>1 DEF Xor8
<1>3. QED
  BY <1>2 DEF FromBits

\* The bits of an exclusive or are the sums of the bits, modulo 2.
LEMMA XorBits ==
  ASSUME NEW a \in Byte, NEW b \in Byte
  PROVE  /\ Xor8(a, b) \in Byte
         /\ \A n \in Weight : Bit(Xor8(a, b), n) = (Bit(a, n) + Bit(b, n)) % 2
<1> DEFINE c(n) == (a \div n + b \div n) % 2
<1>1. \A n \in Weight : c(n) = (Bit(a, n) + Bit(b, n)) % 2 /\ c(n) \in {0, 1}
  BY DEF Weight, Bit, Byte
<1>2. Xor8(a, b) = FromBits(c(1), c(2), c(4), c(8), c(16), c(32), c(64), c(128))
  BY XorIs
<1> HIDE DEF c
<1>3. /\ c(1) \in {0, 1} /\ c(2) \in {0, 1} /\ c(4) \in {0, 1} /\ c(8) \in {0, 1}
      /\ c(16) \in {0, 1} /\ c(32) \in {0, 1} /\ c(64) \in {0, 1} /\ c(128) \in {0, 1}
  BY <1>1 DEF Weight
<1>4. /\ Xor8(a, b) \in Byte
      /\ Bit(Xor8(a, b), 1) = c(1) /\ Bit(Xor8(a, b), 2) = c(2) /\ Bit(Xor8(a, b), 4) = c(4)
      /\ Bit(Xor8(a, b), 8) = c(8) /\ Bit(Xor8(a, b), 16) = c(16)
      /\ Bit(Xor8(a, b), 32) = c(32) /\ Bit(Xor8(a, b), 64) = c(64)
      /\ Bit(Xor8(a, b), 128) = c(128)
  BY <1>2, <1>3, BitsOf
<1>5. QED
  BY <1>1, <1>4 DEF Weight

\* What is added twice is gone.
LEMMA XorTwice ==
  ASSUME NEW a \in Byte, NEW b \in Byte
  PROVE  Xor8(Xor8(a, b), b) = a
<1>1. Xor8(a, b) \in Byte /\ Xor8(Xor8(a, b), b) \in Byte
  BY XorBits
<1>2. ASSUME NEW n \in Weight PROVE Bit(Xor8(Xor8(a, b), b), n) = Bit(a, n)
  <2>1. Bit(a, n) \in {0, 1} /\ Bit(b, n) \in {0, 1}
    BY BitType
  <2>2. Bit(Xor8(Xor8(a, b), b), n) = (((Bit(a, n) + Bit(b, n)) % 2) + Bit(b, n)) % 2
    BY <1>1, XorBits
  <2>3. QED
    BY <2>1, <2>2
<1>3. QED
  BY <1>1, <1>2, SameBits

\* Doubling shifts the bits, and takes the polynomial 27 off what overflows.
LEMMA XtimeBits ==
  ASSUME NEW x \in Byte
  PROVE  /\ xtime(x) \in Byte
         /\ Bit(xtime(x), 1) = Bit(x, 128)
         /\ Bit(xtime(x), 2) = (Bit(x, 1) + Bit(x, 128)) % 2
         /\ Bit(xtime(x), 4) = Bit(x, 2)
         /\ Bit(xtime(x), 8) = (Bit(x, 4) + Bit(x, 128)) % 2
         /\ Bit(xtime(x), 16) = (Bit(x, 8) + Bit(x, 128)) % 2
         /\ Bit(xtime(x), 32) = Bit(x, 16)
         /\ Bit(xtime(x), 64) = Bit(x, 32)
         /\ Bit(xtime(x), 128) = Bit(x, 64)
<1> DEFINE u == (2 * x) % 256
           v == IF x >= 128 THEN 27 ELSE 0
<1>1. u \in Byte /\ v \in Byte
  BY DEF Byte
<1>2. /\ Bit(u, 1) = 0 /\ Bit(u, 2) = Bit(x, 1) /\ Bit(u, 4) = Bit(x, 2)
      /\ Bit(u, 8) = Bit(x, 4) /\ Bit(u, 16) = Bit(x, 8) /\ Bit(u, 32) = Bit(x, 16)
      /\ Bit(u, 64) = Bit(x, 32) /\ Bit(u, 128) = Bit(x, 64)
  BY DEF Byte, Bit
<1>3. /\ Bit(v, 1) = Bit(x, 128) /\ Bit(v, 2) = Bit(x, 128) /\ Bit(v, 4) = 0
      /\ Bit(v, 8) = Bit(x, 128) /\ Bit(v, 16) = Bit(x, 128) /\ Bit(v, 32) = 0
      /\ Bit(v, 64) = 0 /\ Bit(v, 128) = 0
  BY DEF Byte, Bit
<1>4. xtime(x) = Xor8(u, v)
  BY DEF xtime
<1> HIDE DEF u, v
<1>5. xtime(x) \in Byte /\ \A n \in Weight : Bit(xtime(x), n) = (Bit(u, n) + Bit(v, n)) % 2
  BY <1>1, <1>4, XorBits
<1>6. \A n \in Weight : Bit(x, n) \in {0, 1}
  BY BitType
<1>7. QED
  BY <1>2, <1>3, <1>5, <1>6 DEF Weight

\* Doubling is linear.
LEMMA XtimeSum ==
  ASSUME NEW a \in Byte, NEW b \in Byte
  PROVE  xtime(Xor8(a, b)) = Xor8(xtime(a), xtime(b))
<1>1. /\ Xor8(a, b) \in Byte /\ xtime(a) \in Byte /\ xtime(b) \in Byte
      /\ xtime(Xor8(a, b)) \in Byte /\ Xor8(xtime(a), xtime(b)) \in Byte
  BY XorBits, XtimeBits
<1>2. \A n \in Weight : Bit(a, n) \in {0, 1} /\ Bit(b, n) \in {0, 1}
  BY BitType
<1>3. \A n \in Weight : Bit(Xor8(a, b), n) = (Bit(a, n) + Bit(b, n)) % 2
  BY XorBits
<1>4. \A n \in Weight : Bit(Xor8(xtime(a), xtime(b)), n) = (Bit(xtime(a), n) + Bit(xtime(b), n)) % 2
  BY <1>1, XorBits
<1>5. \A n \in Weight : Bit(xtime(Xor8(a, b)), n) = Bit(Xor8(xtime(a), xtime(b)), n)
  <2> DEFINE c == Xor8(a, b)
  <2>1. c \in Byte /\ xtime(c) = xtime(Xor8(a, b))
    BY <1>1
  <2>2. \A n \in Weight : Bit(c, n) = (Bit(a, n) + Bit(b, n)) % 2
    BY <1>3
  <2> HIDE DEF c
  <2>3. QED
    BY <1>2, <1>4, <2>1, <2>2, XtimeBits DEF Weight
<1>6. QED
  BY <1>1, <1>5, SameBits

\* Doubling a sum of three.
LEMMA XtimeMix ==
  ASSUME NEW a \in Byte, NEW d \in Byte, NEW e \in Byte
  PROVE  xtime(Xor8(a, Xor8(xtime(d), e))) = Xor8(xtime(a), Xor8(xtime(xtime(d)), xtime(e)))
<1>1. xtime(d) \in Byte /\ Xor8(xtime(d), e) \in Byte
  BY XorBits, XtimeBits
<1>2. xtime(Xor8(a, Xor8(xtime(d), e))) = Xor8(xtime(a), xtime(Xor8(xtime(d), e)))
  BY <1>1, XtimeSum
<1>3. xtime(Xor8(xtime(d), e)) = Xor8(xtime(xtime(d)), xtime(e))
  BY <1>1, XtimeSum
<1>4. QED
  BY <1>2, <1>3

\* The product of a byte with each of the coefficients, bit by bit.
LEMMA MultiplyBits ==
  ASSUME NEW x \in Byte
  PROVE  /\ Multiply(x, 14) \in Byte /\ Multiply(x, 13) \in Byte
         /\ Multiply(x, 11) \in Byte /\ Multiply(x, 9) \in Byte
         /\ \A n \in Weight :
              LET b1 == Bit(x, n)
                  b2 == Bit(xtime(x), n)
                  b4 == Bit(xtime(xtime(x)), n)
                  b8 == Bit(xtime(xtime(xtime(x))), n)
              IN  /\ Bit(Multiply(x, 14), n) = (b2 + b4 + b8) % 2
                  /\ Bit(Multiply(x, 13), n) = (b1 + b4 + b8) % 2
                  /\ Bit(Multiply(x, 11), n) = (b1 + b2 + b8) % 2
                  /\ Bit(Multiply(x, 9), n) = (b1 + b8) % 2
<1> DEFINE x2 == xtime(x)
           x4 == xtime(x2)
           x8 == xtime(x4)
<1>1. x2 \in Byte /\ x4 \in Byte /\ x8 \in Byte /\ 0 \in Byte
  <2>1. 0 \in Byte
    BY DEF Byte
  <2>2. x2 \in Byte
    BY XtimeBits
  <2>3. x4 \in Byte
    BY <2>2, XtimeBits
  <2>4. x8 \in Byte
    BY <2>3, XtimeBits
  <2>5. QED
    BY <2>1, <2>2, <2>3, <2>4
<1>2. /\ Multiply(x, 14) = Xor8(Xor8(0, x2), Xor8(x4, x8))
      /\ Multiply(x, 13) = Xor8(Xor8(x, 0), Xor8(x4, x8))
      /\ Multiply(x, 11) = Xor8(Xor8(x, x2), Xor8(0, x8))
      /\ Multiply(x, 9) = Xor8(Xor8(x, 0), Xor8(0, x8))
  BY DEF Multiply
<1>3. \A n \in Weight : Bit(0, n) = 0
  BY DEF Bit, Weight
<1> HIDE DEF x2, x4, x8
<1>4. ASSUME NEW n \in Weight, NEW p \in Byte, NEW q \in Byte, NEW u \in Byte, NEW v \in Byte
      PROVE  /\ Xor8(Xor8(p, q), Xor8(u, v)) \in Byte
             /\ Bit(Xor8(Xor8(p, q), Xor8(u, v)), n)
                  = (Bit(p, n) + Bit(q, n) + Bit(u, n) + Bit(v, n)) % 2
  <2>1. Xor8(p, q) \in Byte /\ Xor8(u, v) \in Byte
    BY XorBits
  <2>2. /\ Bit(Xor8(p, q), n) = (Bit(p, n) + Bit(q, n)) % 2
        /\ Bit(Xor8(u, v), n) = (Bit(u, n) + Bit(v, n)) % 2
        /\ Bit(Xor8(Xor8(p, q), Xor8(u, v)), n) = (Bit(Xor8(p, q), n) + Bit(Xor8(u, v), n)) % 2
        /\ Xor8(Xor8(p, q), Xor8(u, v)) \in Byte
    BY <2>1, XorBits
  <2>3. Bit(p, n) \in {0, 1} /\ Bit(q, n) \in {0, 1} /\ Bit(u, n) \in {0, 1} /\ Bit(v, n) \in {0, 1}
    BY BitType
  <2>4. QED
    BY <2>2, <2>3
<1>5. \A n \in Weight : /\ Bit(x, n) \in {0, 1} /\ Bit(x2, n) \in {0, 1}
                        /\ Bit(x4, n) \in {0, 1} /\ Bit(x8, n) \in {0, 1}
  BY <1>1, BitType
<1>6. ASSUME NEW n \in Weight
      PROVE  /\ Multiply(x, 14) \in Byte /\ Multiply(x, 13) \in Byte
             /\ Multiply(x, 11) \in Byte /\ Multiply(x, 9) \in Byte
             /\ Bit(Multiply(x, 14), n) = (Bit(x2, n) + Bit(x4, n) + Bit(x8, n)) % 2
             /\ Bit(Multiply(x, 13), n) = (Bit(x, n) + Bit(x4, n) + Bit(x8, n)) % 2
             /\ Bit(Multiply(x, 11), n) = (Bit(x, n) + Bit(x2, n) + Bit(x8, n)) % 2
             /\ Bit(Multiply(x, 9), n) = (Bit(x, n) + Bit(x8, n)) % 2
  <2>1. /\ Multiply(x, 14) \in Byte
        /\ Bit(Multiply(x, 14), n) = (Bit(0, n) + Bit(x2, n) + Bit(x4, n) + Bit(x8, n)) % 2
    BY <1>1, <1>2, <1>4
  <2>2. /\ Multiply(x, 13) \in Byte
        /\ Bit(Multiply(x, 13), n) = (Bit(x, n) + Bit(0, n) + Bit(x4, n) + Bit(x8, n)) % 2
    BY <1>1, <1>2, <1>4
  <2>3. /\ Multiply(x, 11) \in Byte
        /\ Bit(Multiply(x, 11), n) = (Bit(x, n) + Bit(x2, n) + Bit(0, n) + Bit(x8, n)) % 2
    BY <1>1, <1>2, <1>4
  <2>4. /\ Multiply(x, 9) \in Byte
        /\ Bit(Multiply(x, 9), n) = (Bit(x, n) + Bit(0, n) + Bit(0, n) + Bit(x8, n)) % 2
    BY <1>1, <1>2, <1>4
  <2>5. QED
    BY <1>3, <1>5, <2>1, <2>2, <2>3, <2>4
<1>7. 1 \in Weight
  BY DEF Weight
<1>8. QED
  BY <1>6, <1>7 DEF x2, x4, x8

\* One byte of a mixed column and its doubles, bit by bit: the byte a, the sum d
\* of a and its neighbour b, and the sum e of the column.
LEMMA MixBits ==
  ASSUME NEW a \in Byte, NEW b \in Byte, NEW e \in Byte, NEW n \in Weight
  PROVE  LET m == Xor8(a, Xor8(xtime(Xor8(a, b)), e))
         IN  /\ m \in Byte
             /\ Bit(m, n) = (Bit(a, n) + Bit(xtime(a), n) + Bit(xtime(b), n) + Bit(e, n)) % 2
             /\ xtime(m) = Xor8(xtime(a), Xor8(xtime(Xor8(xtime(a), xtime(b))), xtime(e)))
<1> DEFINE d == Xor8(a, b)
           m == Xor8(a, Xor8(xtime(d), e))
<1>1. /\ d \in Byte /\ xtime(d) \in Byte /\ xtime(a) \in Byte /\ xtime(b) \in Byte
      /\ Xor8(xtime(d), e) \in Byte
  BY XorBits, XtimeBits
<1>2. xtime(d) = Xor8(xtime(a), xtime(b))
  BY XtimeSum
<1>3. /\ m \in Byte
      /\ Bit(m, n) = (Bit(a, n) + Bit(Xor8(xtime(d), e), n)) % 2
      /\ Bit(Xor8(xtime(d), e), n) = (Bit(xtime(d), n) + Bit(e, n)) % 2
      /\ Bit(xtime(d), n) = (Bit(xtime(a), n) + Bit(xtime(b), n)) % 2
  BY <1>1, <1>2, XorBits
<1>4. /\ Bit(a, n) \in {0, 1} /\ Bit(xtime(a), n) \in {0, 1} /\ Bit(xtime(b), n) \in {0, 1}
      /\ Bit(e, n) \in {0, 1}
  BY <1>1, BitType
<1>5. Bit(m, n) = (Bit(a, n) + Bit(xtime(a), n) + Bit(xtime(b), n) + Bit(e, n)) % 2
  <2> HIDE DEF m, d
  <2> QED BY <1>3, <1>4
<1>6. xtime(m) = Xor8(xtime(a), Xor8(xtime(Xor8(xtime(a), xtime(b))), xtime(e)))
  <2>1. xtime(m) = Xor8(xtime(a), Xor8(xtime(xtime(d)), xtime(e)))
    BY <1>1, XtimeMix
  <2>2. QED
    BY <1>2, <2>1
<1>7. QED
  BY <1>3, <1>5, <1>6

\* The byte that MixColumns makes of a, its neighbour b and the sum e of the column.
Mixed(a, b, e) == Xor8(a, Xor8(xtime(Xor8(a, b)), e))

\* The bits of one byte of MixColumns: each a sum of the bits of the column.
LEMMA MixedBits ==
  ASSUME NEW a \in Byte, NEW b \in Byte, NEW e \in Byte, NEW n \in Weight
  PROVE  LET m == Mixed(a, b, e)
             x2(x) == xtime(x)
             x4(x) == xtime(xtime(x))
             x8(x) == xtime(xtime(xtime(x)))
             x16(x) == xtime(xtime(xtime(xtime(x))))
         IN  /\ m \in Byte
             /\ Bit(m, n) = (Bit(a, n) + Bit(x2(a), n) + Bit(x2(b), n) + Bit(e, n)) % 2
             /\ Bit(x2(m), n) = (Bit(x2(a), n) + Bit(x4(a), n) + Bit(x4(b), n) + Bit(x2(e), n)) % 2
             /\ Bit(x4(m), n) = (Bit(x4(a), n) + Bit(x8(a), n) + Bit(x8(b), n) + Bit(x4(e), n)) % 2
             /\ Bit(x8(m), n) =
                  (Bit(x8(a), n) + Bit(x16(a), n) + Bit(x16(b), n) + Bit(x8(e), n)) % 2
<1> USE DEF Mixed
<1> DEFINE a2 == xtime(a)
           a4 == xtime(a2)
           a8 == xtime(a4)
           b2 == xtime(b)
           b4 == xtime(b2)
           b8 == xtime(b4)
           e2 == xtime(e)
           e4 == xtime(e2)
           e8 == xtime(e4)
           m == Mixed(a, b, e)
<1>1. a2 \in Byte /\ b2 \in Byte /\ e2 \in Byte
  BY XtimeBits
<1>2. a4 \in Byte /\ b4 \in Byte /\ e4 \in Byte
  <2> HIDE DEF a2, b2, e2
  <2> QED BY <1>1, XtimeBits
<1>3. a8 \in Byte /\ b8 \in Byte /\ e8 \in Byte
  <2> HIDE DEF a4, b4, e4
  <2> QED BY <1>2, XtimeBits
<1>4. /\ m \in Byte
      /\ Bit(m, n) = (Bit(a, n) + Bit(a2, n) + Bit(b2, n) + Bit(e, n)) % 2
      /\ xtime(m) = Mixed(a2, b2, e2)
  BY MixBits
<1>5. /\ Bit(Mixed(a2, b2, e2), n) = (Bit(a2, n) + Bit(a4, n) + Bit(b4, n) + Bit(e2, n)) % 2
      /\ xtime(Mixed(a2, b2, e2)) = Mixed(a4, b4, e4)
  <2> HIDE DEF a2, b2, e2
  <2> QED BY <1>1, MixBits
<1>6. /\ Bit(Mixed(a4, b4, e4), n) = (Bit(a4, n) + Bit(a8, n) + Bit(b8, n) + Bit(e4, n)) % 2
      /\ xtime(Mixed(a4, b4, e4)) = Mixed(a8, b8, e8)
  <2> HIDE DEF a4, b4, e4
  <2> QED BY <1>2, MixBits
<1>7. /\ Bit(Mixed(a8, b8, e8), n) =
           (Bit(a8, n) + Bit(xtime(a8), n) + Bit(xtime(b8), n) + Bit(e8, n)) % 2
  <2> HIDE DEF a8, b8, e8
  <2> QED BY <1>3, MixBits
<1> HIDE DEF Mixed, m
<1>8. QED
  BY <1>4, <1>5, <1>6, <1>7 DEF m

\* The sum of a column, and its doubles, bit by bit.
LEMMA SumBits ==
  ASSUME NEW a \in Byte, NEW b \in Byte, NEW c \in Byte, NEW d \in Byte, NEW n \in Weight
  PROVE  LET e == Xor8(Xor8(a, b), Xor8(c, d))
         IN  /\ e \in Byte
             /\ Bit(e, n) = (Bit(a, n) + Bit(b, n) + Bit(c, n) + Bit(d, n)) % 2
             /\ xtime(e) = Xor8(Xor8(xtime(a), xtime(b)), Xor8(xtime(c), xtime(d)))
<1> DEFINE p == Xor8(a, b)
           q == Xor8(c, d)
           e == Xor8(p, q)
<1>1. p \in Byte /\ q \in Byte
  BY XorBits
<1>2. /\ e \in Byte /\ Bit(e, n) = (Bit(p, n) + Bit(q, n)) % 2
      /\ Bit(p, n) = (Bit(a, n) + Bit(b, n)) % 2 /\ Bit(q, n) = (Bit(c, n) + Bit(d, n)) % 2
  BY <1>1, XorBits
<1>3. Bit(a, n) \in {0, 1} /\ Bit(b, n) \in {0, 1} /\ Bit(c, n) \in {0, 1} /\ Bit(d, n) \in {0, 1}
  BY BitType
<1>4. xtime(e) = Xor8(xtime(p), xtime(q)) /\ xtime(p) = Xor8(xtime(a), xtime(b))
      /\ xtime(q) = Xor8(xtime(c), xtime(d))
  BY <1>1, XtimeSum
<1>5. Bit(e, n) = (Bit(a, n) + Bit(b, n) + Bit(c, n) + Bit(d, n)) % 2
  <2> HIDE DEF e, p, q
  <2> QED BY <1>2, <1>3
<1>6. QED
  BY <1>2, <1>4, <1>5

\* The bits of a sum of four bytes, and of its doubles: xtime is linear.
LEMMA SumDoubles ==
  ASSUME NEW a \in Byte, NEW b \in Byte, NEW c \in Byte, NEW d \in Byte, NEW n \in Weight
  PROVE  LET e == Xor8(Xor8(a, b), Xor8(c, d))
             x2(x) == xtime(x)
             x4(x) == xtime(xtime(x))
             x8(x) == xtime(xtime(xtime(x)))
         IN  /\ Bit(e, n) = (Bit(a, n) + Bit(b, n) + Bit(c, n) + Bit(d, n)) % 2
             /\ Bit(x2(e), n) = (Bit(x2(a), n) + Bit(x2(b), n) + Bit(x2(c), n) + Bit(x2(d), n)) % 2
             /\ Bit(x4(e), n) = (Bit(x4(a), n) + Bit(x4(b), n) + Bit(x4(c), n) + Bit(x4(d), n)) % 2
             /\ Bit(x8(e), n) = (Bit(x8(a), n) + Bit(x8(b), n) + Bit(x8(c), n) + Bit(x8(d), n)) % 2
<1> DEFINE S(x, y, u, v) == Xor8(Xor8(x, y), Xor8(u, v))
           a2 == xtime(a)
           a4 == xtime(a2)
           a8 == xtime(a4)
           b2 == xtime(b)
           b4 == xtime(b2)
           b8 == xtime(b4)
           c2 == xtime(c)
           c4 == xtime(c2)
           c8 == xtime(c4)
           d2 == xtime(d)
           d4 == xtime(d2)
           d8 == xtime(d4)
<1>1. a2 \in Byte /\ b2 \in Byte /\ c2 \in Byte /\ d2 \in Byte
  BY XtimeBits
<1>2. a4 \in Byte /\ b4 \in Byte /\ c4 \in Byte /\ d4 \in Byte
  <2> HIDE DEF a2, b2, c2, d2
  <2> QED BY <1>1, XtimeBits
<1>3. a8 \in Byte /\ b8 \in Byte /\ c8 \in Byte /\ d8 \in Byte
  <2> HIDE DEF a4, b4, c4, d4
  <2> QED BY <1>2, XtimeBits
<1>4. /\ Bit(S(a, b, c, d), n) = (Bit(a, n) + Bit(b, n) + Bit(c, n) + Bit(d, n)) % 2
      /\ xtime(S(a, b, c, d)) = S(a2, b2, c2, d2)
  BY SumBits
<1>5. /\ Bit(S(a2, b2, c2, d2), n) = (Bit(a2, n) + Bit(b2, n) + Bit(c2, n) + Bit(d2, n)) % 2
      /\ xtime(S(a2, b2, c2, d2)) = S(a4, b4, c4, d4)
  <2> HIDE DEF a2, b2, c2, d2
  <2> QED BY <1>1, SumBits
<1>6. /\ Bit(S(a4, b4, c4, d4), n) = (Bit(a4, n) + Bit(b4, n) + Bit(c4, n) + Bit(d4, n)) % 2
      /\ xtime(S(a4, b4, c4, d4)) = S(a8, b8, c8, d8)
  <2> HIDE DEF a4, b4, c4, d4
  <2> QED BY <1>2, SumBits
<1>7. Bit(S(a8, b8, c8, d8), n) = (Bit(a8, n) + Bit(b8, n) + Bit(c8, n) + Bit(d8, n)) % 2
  <2> HIDE DEF a8, b8, c8, d8
  <2> QED BY <1>3, SumBits
<1>8. PICK e : e = S(a, b, c, d)
  OBVIOUS
<1>9. xtime(e) = S(a2, b2, c2, d2) /\ xtime(xtime(e)) = S(a4, b4, c4, d4)
      /\ xtime(xtime(xtime(e))) = S(a8, b8, c8, d8)
  <2> HIDE DEF S, a2, b2, c2, d2, a4, b4, c4, d4, a8, b8, c8, d8
  <2> QED BY <1>4, <1>5, <1>6, <1>8
<1>10. /\ Bit(e, n) = (Bit(a, n) + Bit(b, n) + Bit(c, n) + Bit(d, n)) % 2
       /\ Bit(xtime(e), n) = (Bit(a2, n) + Bit(b2, n) + Bit(c2, n) + Bit(d2, n)) % 2
       /\ Bit(xtime(xtime(e)), n) = (Bit(a4, n) + Bit(b4, n) + Bit(c4, n) + Bit(d4, n)) % 2
       /\ Bit(xtime(xtime(xtime(e))), n) = (Bit(a8, n) + Bit(b8, n) + Bit(c8, n) + Bit(d8, n)) % 2
  <2> HIDE DEF S, a2, b2, c2, d2, a4, b4, c4, d4, a8, b8, c8, d8
  <2> QED BY <1>4, <1>5, <1>6, <1>7, <1>8, <1>9, Zenon
<1>11. QED
  BY <1>8, <1>10, Zenon

\* Sums and the parities of their parts.
LEMMA FoldedParity ==
  ASSUME NEW P \in Int, NEW Q \in Int, NEW R \in Int, NEW T \in Int
  PROVE  ((P % 2) + (Q % 2) + (R % 2) + (T % 2)) % 2 = (P + Q + R + T) % 2
  OBVIOUS

\* A sum of four depends on their parities only.
LEMMA FourParities ==
  ASSUME NEW P \in Int, NEW Q \in Int, NEW R \in Int, NEW T \in Int,
         NEW p \in Int, NEW q \in Int, NEW r \in Int, NEW t \in Int,
         P % 2 = p % 2, Q % 2 = q % 2, R % 2 = r % 2, T % 2 = t % 2
  PROVE  (P + Q + R + T) % 2 = (p + q + r + t) % 2
  OBVIOUS

\* The coefficients of InvMixColumns undo those of MixColumns.
LEMMA ColumnInverse ==
  ASSUME NEW a \in Byte, NEW b \in Byte, NEW c \in Byte, NEW d \in Byte, NEW e \in Byte,
         e = Xor8(Xor8(a, b), Xor8(c, d))
  PROVE  /\ Mixed(a, b, e) \in Byte
         /\ Xor8(Xor8(Multiply(Mixed(a, b, e), 14), Multiply(Mixed(b, c, e), 11)),
                 Xor8(Multiply(Mixed(c, d, e), 13), Multiply(Mixed(d, a, e), 9))) = a
<1> DEFINE P == Multiply(Mixed(a, b, e), 14)
           Q == Multiply(Mixed(b, c, e), 11)
           R == Multiply(Mixed(c, d, e), 13)
           T == Multiply(Mixed(d, a, e), 9)
           z == Xor8(Xor8(P, Q), Xor8(R, T))
           x2(x) == xtime(x)
           x4(x) == xtime(xtime(x))
           x8(x) == xtime(xtime(xtime(x)))
           x16(x) == xtime(xtime(xtime(xtime(x))))
<1>1. ASSUME NEW x \in Byte
      PROVE  x2(x) \in Byte /\ x4(x) \in Byte /\ x8(x) \in Byte /\ x16(x) \in Byte
  <2>1. xtime(x) \in Byte
    BY XtimeBits
  <2>2. xtime(xtime(x)) \in Byte
    BY <2>1, XtimeBits
  <2>3. xtime(xtime(xtime(x))) \in Byte
    BY <2>2, XtimeBits
  <2>4. xtime(xtime(xtime(xtime(x)))) \in Byte
    BY <2>3, XtimeBits
  <2>5. QED
    BY <2>1, <2>2, <2>3, <2>4
<1>2. ASSUME NEW n \in Weight
      PROVE  /\ Bit(e, n) = (Bit(a, n) + Bit(b, n) + Bit(c, n) + Bit(d, n)) % 2
             /\ Bit(x2(e), n) = (Bit(x2(a), n) + Bit(x2(b), n) + Bit(x2(c), n) + Bit(x2(d), n)) % 2
             /\ Bit(x4(e), n) = (Bit(x4(a), n) + Bit(x4(b), n) + Bit(x4(c), n) + Bit(x4(d), n)) % 2
             /\ Bit(x8(e), n) = (Bit(x8(a), n) + Bit(x8(b), n) + Bit(x8(c), n) + Bit(x8(d), n)) % 2
  BY SumDoubles
<1>3. /\ Mixed(a, b, e) \in Byte /\ Mixed(b, c, e) \in Byte
      /\ Mixed(c, d, e) \in Byte /\ Mixed(d, a, e) \in Byte
  <2>1. 1 \in Weight
    BY DEF Weight
  <2>2. QED
    BY <2>1, MixedBits
<1>4. P \in Byte /\ Q \in Byte /\ R \in Byte /\ T \in Byte
  BY <1>3, MultiplyBits
<1>5. z \in Byte
  <2> HIDE DEF P, Q, R, T
  <2>1. Xor8(P, Q) \in Byte /\ Xor8(R, T) \in Byte
    BY <1>4, XorBits
  <2>2. QED
    BY <2>1, XorBits
<1>6. ASSUME NEW n \in Weight PROVE Bit(z, n) = Bit(a, n)
  <2>1. Bit(z, n) = (Bit(P, n) + Bit(Q, n) + Bit(R, n) + Bit(T, n)) % 2
    <3> HIDE DEF P, Q, R, T
    <3> QED BY <1>4, SumBits
  <2>2. Bit(P, n) =
             (Bit(x2(Mixed(a, b, e)), n) + Bit(x4(Mixed(a, b, e)), n)
                + Bit(x8(Mixed(a, b, e)), n)) % 2
    BY <1>3, MultiplyBits
  <2>3. Bit(Q, n) =
             (Bit(Mixed(b, c, e), n) + Bit(x2(Mixed(b, c, e)), n) + Bit(x8(Mixed(b, c, e)), n)) % 2
    BY <1>3, MultiplyBits
  <2>4. Bit(R, n) =
             (Bit(Mixed(c, d, e), n) + Bit(x4(Mixed(c, d, e)), n) + Bit(x8(Mixed(c, d, e)), n)) % 2
    BY <1>3, MultiplyBits
  <2>5. Bit(T, n) = (Bit(Mixed(d, a, e), n) + Bit(x8(Mixed(d, a, e)), n)) % 2
    BY <1>3, MultiplyBits
  <2>6. \A x \in {a, b, c, d} :
          /\ Bit(x, n) \in {0, 1} /\ Bit(x2(x), n) \in {0, 1} /\ Bit(x4(x), n) \in {0, 1}
          /\ Bit(x8(x), n) \in {0, 1} /\ Bit(x16(x), n) \in {0, 1}
    <3>1. \A x \in Byte :
          /\ Bit(x, n) \in {0, 1} /\ Bit(x2(x), n) \in {0, 1} /\ Bit(x4(x), n) \in {0, 1}
          /\ Bit(x8(x), n) \in {0, 1} /\ Bit(x16(x), n) \in {0, 1}
      BY <1>1, BitType
    <3>2. QED
      BY <3>1
  <2>7. /\ Bit(x2(Mixed(a, b, e)), n) =
             (Bit(x2(a), n) + Bit(x4(a), n) + Bit(x4(b), n) + Bit(x2(e), n)) % 2
        /\ Bit(x4(Mixed(a, b, e)), n) =
             (Bit(x4(a), n) + Bit(x8(a), n) + Bit(x8(b), n) + Bit(x4(e), n)) % 2
        /\ Bit(x8(Mixed(a, b, e)), n) =
             (Bit(x8(a), n) + Bit(x16(a), n) + Bit(x16(b), n) + Bit(x8(e), n)) % 2
    BY MixedBits
  <2>8. /\ Bit(Mixed(b, c, e), n) = (Bit(b, n) + Bit(x2(b), n) + Bit(x2(c), n) + Bit(e, n)) % 2
        /\ Bit(x2(Mixed(b, c, e)), n) =
             (Bit(x2(b), n) + Bit(x4(b), n) + Bit(x4(c), n) + Bit(x2(e), n)) % 2
        /\ Bit(x8(Mixed(b, c, e)), n) =
             (Bit(x8(b), n) + Bit(x16(b), n) + Bit(x16(c), n) + Bit(x8(e), n)) % 2
    BY MixedBits
  <2>9. /\ Bit(Mixed(c, d, e), n) = (Bit(c, n) + Bit(x2(c), n) + Bit(x2(d), n) + Bit(e, n)) % 2
        /\ Bit(x4(Mixed(c, d, e)), n) =
             (Bit(x4(c), n) + Bit(x8(c), n) + Bit(x8(d), n) + Bit(x4(e), n)) % 2
        /\ Bit(x8(Mixed(c, d, e)), n) =
             (Bit(x8(c), n) + Bit(x16(c), n) + Bit(x16(d), n) + Bit(x8(e), n)) % 2
    BY MixedBits
  <2>10. /\ Bit(Mixed(d, a, e), n) = (Bit(d, n) + Bit(x2(d), n) + Bit(x2(a), n) + Bit(e, n)) % 2
         /\ Bit(x8(Mixed(d, a, e)), n) =
              (Bit(x8(d), n) + Bit(x16(d), n) + Bit(x16(a), n) + Bit(x8(e), n)) % 2
    BY MixedBits
  <2> DEFINE B(x) == Bit(x, n)
             p == Mixed(a, b, e)
             q == Mixed(b, c, e)
             r == Mixed(c, d, e)
             t == Mixed(d, a, e)
             P1 == B(x2(p)) + B(x4(p)) + B(x8(p))
             Q1 == B(q) + B(x2(q)) + B(x8(q))
             R1 == B(r) + B(x4(r)) + B(x8(r))
             T1 == B(t) + B(x8(t))
             L1 == B(q) + B(r) + B(t)
             L2 == B(x2(p)) + B(x2(q))
             L4 == B(x4(p)) + B(x4(r))
             L8 == B(x8(p)) + B(x8(q)) + B(x8(r)) + B(x8(t))
             K1 == B(a) + B(x2(a)) + B(x2(b))
             K2 == B(x2(a)) + B(x2(b)) + B(x4(a)) + B(x4(c))
             K4 == B(x4(a)) + B(x4(c)) + B(x8(a)) + B(x8(b)) + B(x8(c)) + B(x8(d))
             K8 == B(x8(a)) + B(x8(b)) + B(x8(c)) + B(x8(d))
  <2> HIDE DEF x2, x4, x8, x16, P, Q, R, T, z
  <2>11. L1 % 2 = K1 % 2
    BY <1>2, <2>6, <2>8, <2>9, <2>10
  <2>12. L2 % 2 = K2 % 2
    BY <1>2, <2>6, <2>7, <2>8
  <2>13. L4 % 2 = K4 % 2
    BY <1>2, <2>6, <2>7, <2>9
  <2>14. L8 % 2 = K8 % 2
    BY <1>2, <2>6, <2>7, <2>8, <2>9, <2>10
  <2>15. /\ P1 \in Int /\ Q1 \in Int /\ R1 \in Int /\ T1 \in Int
         /\ L1 \in Int /\ L2 \in Int /\ L4 \in Int /\ L8 \in Int
         /\ P1 + Q1 + R1 + T1 = L1 + L2 + L4 + L8
    <3>1. /\ B(x2(p)) \in Int /\ B(x4(p)) \in Int /\ B(x8(p)) \in Int
          /\ B(q) \in Int /\ B(x2(q)) \in Int /\ B(x8(q)) \in Int
          /\ B(r) \in Int /\ B(x4(r)) \in Int /\ B(x8(r)) \in Int
          /\ B(t) \in Int /\ B(x8(t)) \in Int
      <4>1. \A x \in Byte : /\ Bit(x, n) \in {0, 1} /\ Bit(x2(x), n) \in {0, 1}
                            /\ Bit(x4(x), n) \in {0, 1} /\ Bit(x8(x), n) \in {0, 1}
        BY <1>1, BitType
      <4>2. p \in Byte /\ q \in Byte /\ r \in Byte /\ t \in Byte
        BY <1>3
      <4> HIDE DEF p, q, r, t
      <4>3. /\ B(x2(p)) \in {0, 1} /\ B(x4(p)) \in {0, 1} /\ B(x8(p)) \in {0, 1}
            /\ B(q) \in {0, 1} /\ B(x2(q)) \in {0, 1} /\ B(x8(q)) \in {0, 1}
            /\ B(r) \in {0, 1} /\ B(x4(r)) \in {0, 1} /\ B(x8(r)) \in {0, 1}
            /\ B(t) \in {0, 1} /\ B(x8(t)) \in {0, 1}
        BY <4>1, <4>2
      <4> HIDE DEF B
      <4>4. QED
        BY <4>3
    <3> HIDE DEF B, p, q, r, t
    <3>2. QED
      BY <3>1
  <2>16. /\ K1 \in Int /\ K2 \in Int /\ K4 \in Int /\ K8 \in Int
         /\ (K1 + K2 + K4 + K8) % 2 = B(a)
    <3>1. /\ B(a) \in {0, 1} /\ B(x2(a)) \in {0, 1} /\ B(x4(a)) \in {0, 1} /\ B(x8(a)) \in {0, 1}
          /\ B(x2(b)) \in {0, 1} /\ B(x8(b)) \in {0, 1} /\ B(x4(c)) \in {0, 1}
          /\ B(x8(c)) \in {0, 1} /\ B(x8(d)) \in {0, 1}
      BY <2>6
    <3> HIDE DEF B
    <3>2. /\ K1 \in Int /\ K2 \in Int /\ K4 \in Int /\ K8 \in Int
          /\ K1 + K2 + K4 + K8 =
               B(a) + 2 * (B(x2(a)) + B(x2(b)) + B(x4(a)) + B(x4(c))
                             + B(x8(a)) + B(x8(b)) + B(x8(c)) + B(x8(d)))
      <4>1. /\ B(a) \in Int /\ B(x2(a)) \in Int /\ B(x4(a)) \in Int /\ B(x8(a)) \in Int
            /\ B(x2(b)) \in Int /\ B(x8(b)) \in Int /\ B(x4(c)) \in Int
            /\ B(x8(c)) \in Int /\ B(x8(d)) \in Int
        BY <3>1
      <4> DEFINE M1 == B(x2(a)) + B(x2(b))
                 M2 == B(x4(a)) + B(x4(c))
                 M3 == B(x8(a)) + B(x8(b)) + B(x8(c)) + B(x8(d))
      <4>2. M1 \in Int /\ M2 \in Int /\ M3 \in Int
        BY <4>1
      <4>3. K1 = B(a) + M1 /\ K2 = M1 + M2 /\ K4 = M2 + M3 /\ K8 = M3
        BY <4>1
      <4>4. B(x2(a)) + B(x2(b)) + B(x4(a)) + B(x4(c)) + B(x8(a)) + B(x8(b)) + B(x8(c)) + B(x8(d))
              = M1 + M2 + M3
        BY <4>1
      <4> HIDE DEF M1, M2, M3, K1, K2, K4, K8
      <4>5. QED
        BY <4>1, <4>2, <4>3, <4>4
    <3>3. ASSUME NEW u \in {0, 1}, NEW v \in Int PROVE (u + 2 * v) % 2 = u
      OBVIOUS
    <3>4. B(x2(a)) + B(x2(b)) + B(x4(a)) + B(x4(c))
            + B(x8(a)) + B(x8(b)) + B(x8(c)) + B(x8(d)) \in Int
      BY <3>1
    <3> DEFINE rest == B(x2(a)) + B(x2(b)) + B(x4(a)) + B(x4(c))
                         + B(x8(a)) + B(x8(b)) + B(x8(c)) + B(x8(d))
    <3>5. rest \in Int /\ K1 + K2 + K4 + K8 = B(a) + 2 * rest
      BY <3>2, <3>4
    <3> HIDE DEF rest
    <3>6. (B(a) + 2 * rest) % 2 = B(a)
      BY <3>1, <3>3, <3>5
    <3>7. QED
      BY <3>2, <3>5, <3>6
  <2>17. B(P) = P1 % 2 /\ B(Q) = Q1 % 2 /\ B(R) = R1 % 2 /\ B(T) = T1 % 2
         /\ B(z) = (B(P) + B(Q) + B(R) + B(T)) % 2
    BY <2>1, <2>2, <2>3, <2>4, <2>5
  <2> HIDE DEF P1, Q1, R1, T1, L1, L2, L4, L8, K1, K2, K4, K8, B
  <2>18. (L1 + L2 + L4 + L8) % 2 = (K1 + K2 + K4 + K8) % 2
    BY <2>11, <2>12, <2>13, <2>14, <2>15, <2>16, FourParities
  <2>19. B(z) = (P1 + Q1 + R1 + T1) % 2
    BY <2>15, <2>17, FoldedParity
  <2>20. B(z) = B(a)
    BY <2>15, <2>16, <2>18, <2>19
  <2>21. QED
    BY <2>20 DEF B
<1>7. z = a
  <2> HIDE DEF z
  <2> QED BY <1>5, <1>6, SameBits
<1>8. QED
  BY <1>3, <1>7

-----------------------------------------------------------------------------
(* Blocks and the S-box *)

\* The contents of a block: state[i][j] for the 16 bytes.
BlockBytes == [1..16 -> Byte]

\* The sum of a column is the same from whichever row one starts.
LEMMA XorRotate ==
  ASSUME NEW a \in Byte, NEW b \in Byte, NEW c \in Byte, NEW d \in Byte
  PROVE  Xor8(Xor8(a, b), Xor8(c, d)) = Xor8(Xor8(b, c), Xor8(d, a))
<1> DEFINE u == Xor8(Xor8(a, b), Xor8(c, d))
           v == Xor8(Xor8(b, c), Xor8(d, a))
<1>1. \A n \in Weight :
        /\ u \in Byte /\ v \in Byte
        /\ Bit(u, n) = (Bit(a, n) + Bit(b, n) + Bit(c, n) + Bit(d, n)) % 2
        /\ Bit(v, n) = (Bit(b, n) + Bit(c, n) + Bit(d, n) + Bit(a, n)) % 2
  BY SumBits
<1>2. 1 \in Weight
  BY DEF Weight
<1> HIDE DEF u, v
<1>3. \A n \in Weight : Bit(a, n) \in {0, 1} /\ Bit(b, n) \in {0, 1}
        /\ Bit(c, n) \in {0, 1} /\ Bit(d, n) \in {0, 1}
  BY BitType
<1>4. u \in Byte /\ v \in Byte
  BY <1>1, <1>2
<1>5. \A n \in Weight : Bit(u, n) = Bit(v, n)
  BY <1>1, <1>3
<1>6. u = v
  BY <1>4, <1>5, SameBits
<1>7. QED
  BY <1>6 DEF u, v

\* A block is a sequence of sixteen bytes.
LEMMA BlockSeq ==
  ASSUME NEW s \in BlockBytes
  PROVE  s \in Seq(Byte) /\ Len(s) = 16
<1>1. s \in [1..16 -> Byte] /\ 16 \in Nat
  BY DEF BlockBytes
<1>2. s \in Seq(Byte)
  <2> HIDE DEF Byte
  <2> QED BY <1>1, SeqDef
<1>3. QED
  BY <1>1, <1>2, LenProperties DEF Byte

\* XorBytes works byte by byte.
LEMMA XorBytesIs ==
  ASSUME NEW s \in BlockBytes, NEW t \in BlockBytes
  PROVE  /\ XorBytes(s, t) \in BlockBytes
         /\ \A k \in 1..16 : XorBytes(s, t)[k] = Xor8(s[k], t[k])
<1>1. XorBytes(s, t) = [k \in 1..16 |-> Xor8(s[k], t[k])]
  <2>1. Len(s) = 16
    BY BlockSeq
  <2>2. QED
    BY <2>1 DEF XorBytes, Xor8
<1>2. \A k \in 1..16 : s[k] \in Byte /\ t[k] \in Byte
  BY DEF BlockBytes
<1>3. \A k \in 1..16 : Xor8(s[k], t[k]) \in Byte
  BY <1>2, XorBits
<1>4. QED
  BY <1>1, <1>3 DEF BlockBytes

\* Adding a round key twice changes nothing.
LEMMA XorBytesTwice ==
  ASSUME NEW s \in BlockBytes, NEW t \in BlockBytes
  PROVE  XorBytes(XorBytes(s, t), t) = s
<1> DEFINE u == XorBytes(s, t)
<1>1. u \in BlockBytes /\ \A k \in 1..16 : u[k] = Xor8(s[k], t[k])
  BY XorBytesIs
<1> HIDE DEF u
<1>2. XorBytes(u, t) \in BlockBytes /\ \A k \in 1..16 : XorBytes(u, t)[k] = Xor8(u[k], t[k])
  BY <1>1, XorBytesIs
<1>3. \A k \in 1..16 : s[k] \in Byte /\ t[k] \in Byte
  BY DEF BlockBytes
<1>4. \A k \in 1..16 : Xor8(Xor8(s[k], t[k]), t[k]) = s[k]
  BY <1>3, XorTwice
<1>5. \A k \in 1..16 : XorBytes(u, t)[k] = s[k]
  BY <1>1, <1>2, <1>4
<1>6. XorBytes(u, t) = s
  BY <1>2, <1>5 DEF BlockBytes
<1>7. QED
  BY <1>6 DEF u

\* The inverse S-box undoes the S-box.
LEMMA SboxInverse == \A x \in Byte : rsbox[sbox[x + 1] + 1] = x
  BY DEF Byte, sbox, rsbox

\* The S-box yields bytes.
LEMMA SboxType == \A x \in Byte : sbox[x + 1] \in Byte
  BY DEF Byte, sbox

\* The inverse S-box yields bytes.
LEMMA RsboxType == \A x \in Byte : rsbox[x + 1] \in Byte
  BY DEF Byte, rsbox

\* InvSubBytes undoes SubBytes.
LEMMA SubBytesInverse ==
  ASSUME NEW s \in BlockBytes
  PROVE  SubBytes(s) \in BlockBytes /\ InvSubBytes(SubBytes(s)) = s
<1>1. \A k \in 1..16 : s[k] \in Byte
  BY DEF BlockBytes
<1>2. \A k \in 1..16 : sbox[s[k] + 1] \in Byte /\ rsbox[sbox[s[k] + 1] + 1] = s[k]
  BY <1>1, SboxType, SboxInverse
<1>3. SubBytes(s) = [k \in 1..16 |-> sbox[s[k] + 1]]
  BY DEF SubBytes
<1>4. InvSubBytes(SubBytes(s)) = [k \in 1..16 |-> rsbox[SubBytes(s)[k] + 1]]
  BY DEF InvSubBytes
<1>5. InvSubBytes(SubBytes(s)) = [k \in 1..16 |-> s[k]]
  BY <1>2, <1>3, <1>4
<1>6. QED
  BY <1>2, <1>3, <1>5 DEF BlockBytes

-----------------------------------------------------------------------------
(* The steps of a round *)

\* The place of state[i][j], and the two indexes of a place.
LEMMA Places ==
  /\ \A k \in 1..16 : (k - 1) \div 4 \in 0..3 /\ (k - 1) % 4 \in 0..3
                      /\ 4 * ((k - 1) \div 4) + ((k - 1) % 4) + 1 = k
  /\ \A i \in 0..3 : \A j \in 0..3 : /\ 4 * i + j + 1 \in 1..16
                                     /\ ((4 * i + j + 1) - 1) \div 4 = i
                                     /\ ((4 * i + j + 1) - 1) % 4 = j
<1>1. ASSUME NEW k \in 1..16
      PROVE  (k - 1) \div 4 \in 0..3 /\ (k - 1) % 4 \in 0..3
             /\ 4 * ((k - 1) \div 4) + ((k - 1) % 4) + 1 = k
  OBVIOUS
<1>2. ASSUME NEW i \in 0..3, NEW j \in 0..3
      PROVE  /\ 4 * i + j + 1 \in 1..16
             /\ ((4 * i + j + 1) - 1) \div 4 = i
             /\ ((4 * i + j + 1) - 1) % 4 = j
  OBVIOUS
<1>3. QED
  BY <1>1, <1>2

\* Blocks with the same state[i][j] are the same.
LEMMA SameState ==
  ASSUME NEW s \in BlockBytes, NEW t \in BlockBytes,
         \A i \in 0..3 : \A j \in 0..3 : At(s, i, j) = At(t, i, j)
  PROVE  s = t
<1>1. ASSUME NEW k \in 1..16 PROVE s[k] = t[k]
  <2>1. PICK i \in 0..3 : i = (k - 1) \div 4
    BY Places
  <2>2. PICK j \in 0..3 : j = (k - 1) % 4
    BY Places
  <2>3. 4 * i + j + 1 = k
    BY <2>1, <2>2, Places
  <2>4. QED
    BY <2>3 DEF At
<1>2. QED
  BY <1>1 DEF BlockBytes

\* A byte of the state is a byte.
LEMMA AtType ==
  ASSUME NEW s \in BlockBytes, NEW i \in 0..3, NEW j \in 0..3
  PROVE  At(s, i, j) \in Byte
  BY Places DEF At, BlockBytes

\* ShiftRows as a block: every byte with the place it comes from.
LEMMA ShiftRowsIs ==
  ASSUME NEW s \in BlockBytes
  PROVE  /\ ShiftRows(s) \in BlockBytes
         /\ \A i \in 0..3 : \A j \in 0..3 : At(ShiftRows(s), i, j) = At(s, (i + j) % 4, j)
<1> DEFINE F(i, j) == At(s, (i + j) % 4, j)
<1>1. ShiftRows(s) = [k \in 1..16 |-> F((k - 1) \div 4, (k - 1) % 4)]
  BY DEF ShiftRows, StateOf
<1>2. \A i \in 0..3 : \A j \in 0..3 : F(i, j) \in Byte
  <2>1. \A i \in 0..3 : \A j \in 0..3 : (i + j) % 4 \in 0..3
    OBVIOUS
  <2>2. QED
    BY <2>1, AtType
<1> HIDE DEF F
<1>3. \A k \in 1..16 : F((k - 1) \div 4, (k - 1) % 4) \in Byte
  BY <1>2, Places
<1>4. ShiftRows(s) \in BlockBytes
  BY <1>1, <1>3 DEF BlockBytes
<1>5. ASSUME NEW i \in 0..3, NEW j \in 0..3 PROVE At(ShiftRows(s), i, j) = F(i, j)
  <2>1. PICK k \in 1..16 : k = 4 * i + j + 1 /\ (k - 1) \div 4 = i /\ (k - 1) % 4 = j
    BY Places
  <2>2. ShiftRows(s)[k] = F(i, j)
    BY <1>1, <2>1
  <2>3. QED
    BY <2>1, <2>2 DEF At
<1>6. QED
  BY <1>4, <1>5 DEF F

\* The same of InvShiftRows.
LEMMA InvShiftRowsIs ==
  ASSUME NEW s \in BlockBytes
  PROVE  /\ InvShiftRows(s) \in BlockBytes
         /\ \A i \in 0..3 : \A j \in 0..3 : At(InvShiftRows(s), i, j) = At(s, (i + 4 - j) % 4, j)
<1> DEFINE F(i, j) == At(s, (i + 4 - j) % 4, j)
<1>1. InvShiftRows(s) = [k \in 1..16 |-> F((k - 1) \div 4, (k - 1) % 4)]
  BY DEF InvShiftRows, StateOf
<1>2. \A i \in 0..3 : \A j \in 0..3 : F(i, j) \in Byte
  <2>1. \A i \in 0..3 : \A j \in 0..3 : (i + 4 - j) % 4 \in 0..3
    OBVIOUS
  <2>2. QED
    BY <2>1, AtType
<1> HIDE DEF F
<1>3. \A k \in 1..16 : F((k - 1) \div 4, (k - 1) % 4) \in Byte
  BY <1>2, Places
<1>4. InvShiftRows(s) \in BlockBytes
  BY <1>1, <1>3 DEF BlockBytes
<1>5. ASSUME NEW i \in 0..3, NEW j \in 0..3 PROVE At(InvShiftRows(s), i, j) = F(i, j)
  <2>1. PICK k \in 1..16 : k = 4 * i + j + 1 /\ (k - 1) \div 4 = i /\ (k - 1) % 4 = j
    BY Places
  <2>2. InvShiftRows(s)[k] = F(i, j)
    BY <1>1, <2>1
  <2>3. QED
    BY <2>1, <2>2 DEF At
<1>6. QED
  BY <1>4, <1>5 DEF F

\* InvShiftRows undoes ShiftRows.
LEMMA ShiftRowsInverse ==
  ASSUME NEW s \in BlockBytes
  PROVE  ShiftRows(s) \in BlockBytes /\ InvShiftRows(ShiftRows(s)) = s
<1>1. PICK t \in BlockBytes : t = ShiftRows(s)
  BY ShiftRowsIs
<1>2. \A i \in 0..3 : \A j \in 0..3 : At(t, i, j) = At(s, (i + j) % 4, j)
  BY <1>1, ShiftRowsIs
<1>3. /\ InvShiftRows(t) \in BlockBytes
      /\ \A i \in 0..3 : \A j \in 0..3 : At(InvShiftRows(t), i, j) = At(t, (i + 4 - j) % 4, j)
  BY InvShiftRowsIs
<1>4. ASSUME NEW i \in 0..3, NEW j \in 0..3 PROVE At(InvShiftRows(t), i, j) = At(s, i, j)
  <2>1. PICK l \in 0..3 : l = (i + 4 - j) % 4 /\ (l + j) % 4 = i
    <3>1. (i + 4 - j) % 4 \in 0..3 /\ (((i + 4 - j) % 4) + j) % 4 = i
      OBVIOUS
    <3>2. QED
      BY <3>1
  <2>2. At(InvShiftRows(t), i, j) = At(t, l, j)
    BY <1>3, <2>1
  <2>3. At(t, l, j) = At(s, i, j)
    BY <1>2, <2>1
  <2>4. QED
    BY <2>2, <2>3
<1>5. InvShiftRows(t) = s
  BY <1>3, <1>4, SameState
<1>6. QED
  BY <1>1, <1>5

\* MixColumns as a block: the mixed bytes of each column.
LEMMA MixColumnsIs ==
  ASSUME NEW s \in BlockBytes
  PROVE  /\ MixColumns(s) \in BlockBytes
         /\ \A i \in 0..3 : \A j \in 0..3 :
              At(MixColumns(s), i, j) =
                Mixed(At(s, i, j), At(s, i, (j + 1) % 4),
                      Xor8(Xor8(At(s, i, 0), At(s, i, 1)), Xor8(At(s, i, 2), At(s, i, 3))))
<1> DEFINE all(i) == Xor8(Xor8(At(s, i, 0), At(s, i, 1)), Xor8(At(s, i, 2), At(s, i, 3)))
           F(i, j) == Mixed(At(s, i, j), At(s, i, (j + 1) % 4), all(i))
<1>1. MixColumns(s) = [k \in 1..16 |-> F((k - 1) \div 4, (k - 1) % 4)]
  BY DEF MixColumns, StateOf, Mixed
<1>2. ASSUME NEW i \in 0..3, NEW j \in 0..3 PROVE F(i, j) \in Byte
  <2>1. (j + 1) % 4 \in 0..3 /\ 0 \in 0..3 /\ 1 \in 0..3 /\ 2 \in 0..3 /\ 3 \in 0..3
    OBVIOUS
  <2>2. /\ At(s, i, 0) \in Byte /\ At(s, i, 1) \in Byte /\ At(s, i, 2) \in Byte
        /\ At(s, i, 3) \in Byte /\ At(s, i, j) \in Byte /\ At(s, i, (j + 1) % 4) \in Byte
    BY <2>1, AtType
  <2>3. Xor8(At(s, i, 0), At(s, i, 1)) \in Byte /\ Xor8(At(s, i, 2), At(s, i, 3)) \in Byte
    BY <2>2, XorBits
  <2>4. all(i) \in Byte
    BY <2>3, XorBits
  <2>5. 1 \in Weight
    BY DEF Weight
  <2> HIDE DEF all
  <2>6. QED
    BY <2>2, <2>4, <2>5, MixedBits
<1> HIDE DEF F
<1>3. \A k \in 1..16 : F((k - 1) \div 4, (k - 1) % 4) \in Byte
  BY <1>2, Places
<1>4. MixColumns(s) \in BlockBytes
  BY <1>1, <1>3 DEF BlockBytes
<1>5. ASSUME NEW i \in 0..3, NEW j \in 0..3 PROVE At(MixColumns(s), i, j) = F(i, j)
  <2>1. PICK k \in 1..16 : k = 4 * i + j + 1 /\ (k - 1) \div 4 = i /\ (k - 1) % 4 = j
    BY Places
  <2>2. MixColumns(s)[k] = F(i, j)
    BY <1>1, <2>1
  <2>3. QED
    BY <2>1, <2>2 DEF At
<1>6. QED
  BY <1>4, <1>5 DEF F

\* The four bytes of a column after InvMixColumns.
Unmixed(a, b, c, d) ==
  Xor8(Xor8(Multiply(a, 14), Multiply(b, 11)), Xor8(Multiply(c, 13), Multiply(d, 9)))

\* A byte of InvMixColumns is a byte.
LEMMA UnmixedType ==
  ASSUME NEW a \in Byte, NEW b \in Byte, NEW c \in Byte, NEW d \in Byte
  PROVE  Unmixed(a, b, c, d) \in Byte
<1>1. Multiply(a, 14) \in Byte /\ Multiply(b, 11) \in Byte /\ Multiply(c, 13) \in Byte
      /\ Multiply(d, 9) \in Byte
  BY MultiplyBits
<1>2. Xor8(Multiply(a, 14), Multiply(b, 11)) \in Byte
      /\ Xor8(Multiply(c, 13), Multiply(d, 9)) \in Byte
  BY <1>1, XorBits
<1>3. QED
  BY <1>2, XorBits DEF Unmixed

\* InvMixColumns as a block.
LEMMA InvMixColumnsIs ==
  ASSUME NEW s \in BlockBytes
  PROVE  /\ InvMixColumns(s) \in BlockBytes
         /\ \A i \in 0..3 : \A j \in 0..3 :
              At(InvMixColumns(s), i, j) =
                Unmixed(At(s, i, j), At(s, i, (j + 1) % 4), At(s, i, (j + 2) % 4),
                        At(s, i, (j + 3) % 4))
<1> DEFINE F(i, j) == Unmixed(At(s, i, j), At(s, i, (j + 1) % 4), At(s, i, (j + 2) % 4),
                              At(s, i, (j + 3) % 4))
<1>1. InvMixColumns(s) = [k \in 1..16 |-> F((k - 1) \div 4, (k - 1) % 4)]
  BY DEF InvMixColumns, StateOf, Unmixed
<1>2. ASSUME NEW i \in 0..3, NEW j \in 0..3 PROVE F(i, j) \in Byte
  <2>1. (j + 1) % 4 \in 0..3 /\ (j + 2) % 4 \in 0..3 /\ (j + 3) % 4 \in 0..3
    OBVIOUS
  <2>2. QED
    BY <2>1, AtType, UnmixedType
<1> HIDE DEF F
<1>3. \A k \in 1..16 : F((k - 1) \div 4, (k - 1) % 4) \in Byte
  BY <1>2, Places
<1>4. InvMixColumns(s) \in BlockBytes
  BY <1>1, <1>3 DEF BlockBytes
<1>5. ASSUME NEW i \in 0..3, NEW j \in 0..3 PROVE At(InvMixColumns(s), i, j) = F(i, j)
  <2>1. PICK k \in 1..16 : k = 4 * i + j + 1 /\ (k - 1) \div 4 = i /\ (k - 1) % 4 = j
    BY Places
  <2>2. InvMixColumns(s)[k] = F(i, j)
    BY <1>1, <2>1
  <2>3. QED
    BY <2>1, <2>2 DEF At
<1>6. QED
  BY <1>4, <1>5 DEF F

\* InvMixColumns undoes MixColumns.
LEMMA MixColumnsInverse ==
  ASSUME NEW s \in BlockBytes
  PROVE  MixColumns(s) \in BlockBytes /\ InvMixColumns(MixColumns(s)) = s
<1>1. PICK t \in BlockBytes : t = MixColumns(s)
  BY MixColumnsIs
<1>2. ASSUME NEW i \in 0..3, NEW j \in 0..3 PROVE At(InvMixColumns(t), i, j) = At(s, i, j)
  <2> DEFINE a(l) == At(s, i, (j + l) % 4)
             e == Xor8(Xor8(At(s, i, 0), At(s, i, 1)), Xor8(At(s, i, 2), At(s, i, 3)))
             m(l) == At(t, i, (j + l) % 4)
  <2>1. /\ (j + 1) % 4 \in 0..3 /\ (j + 2) % 4 \in 0..3 /\ (j + 3) % 4 \in 0..3
        /\ (((j + 1) % 4) + 1) % 4 = (j + 2) % 4 /\ (((j + 2) % 4) + 1) % 4 = (j + 3) % 4
        /\ (((j + 3) % 4) + 1) % 4 = j /\ (j + 0) % 4 = j
    OBVIOUS
  <2>2. /\ m(0) = Mixed(a(0), a(1), e) /\ m(1) = Mixed(a(1), a(2), e)
        /\ m(2) = Mixed(a(2), a(3), e) /\ m(3) = Mixed(a(3), a(0), e)
    BY <1>1, <2>1, MixColumnsIs
  <2>3. a(0) \in Byte /\ a(1) \in Byte /\ a(2) \in Byte /\ a(3) \in Byte
    BY <2>1, AtType
  <2>4. e = Xor8(Xor8(a(0), a(1)), Xor8(a(2), a(3)))
    <3>1. \A l \in 0..3 : At(s, i, l) \in Byte
      BY AtType
    <3>2. /\ At(s, i, 0) \in Byte /\ At(s, i, 1) \in Byte /\ At(s, i, 2) \in Byte
          /\ At(s, i, 3) \in Byte
      BY <3>1
    <3>3. CASE j = 0
      BY <3>3
    <3>4. CASE j = 1
      BY <3>2, <3>4, XorRotate
    <3>5. CASE j = 2
      <4>1. e = Xor8(Xor8(At(s, i, 1), At(s, i, 2)), Xor8(At(s, i, 3), At(s, i, 0)))
        BY <3>2, XorRotate
      <4>2. e = Xor8(Xor8(At(s, i, 2), At(s, i, 3)), Xor8(At(s, i, 0), At(s, i, 1)))
        BY <3>2, <4>1, XorRotate
      <4>3. QED
        BY <3>5, <4>2
    <3>6. CASE j = 3
      <4>1. Xor8(Xor8(At(s, i, 3), At(s, i, 0)), Xor8(At(s, i, 1), At(s, i, 2))) = e
        BY <3>2, XorRotate
      <4>2. QED
        BY <3>6, <4>1
    <3>7. QED
      BY <3>3, <3>4, <3>5, <3>6
  <2>5. At(InvMixColumns(t), i, j) = Unmixed(m(0), m(1), m(2), m(3))
    BY <2>1, InvMixColumnsIs
  <2>6. e \in Byte
    BY <2>3, <2>4, SumBits DEF Weight
  <2> HIDE DEF a, e, m
  <2>7. Unmixed(Mixed(a(0), a(1), e), Mixed(a(1), a(2), e), Mixed(a(2), a(3), e),
                Mixed(a(3), a(0), e)) = a(0)
    BY <2>3, <2>4, <2>6, ColumnInverse DEF Unmixed
  <2>8. a(0) = At(s, i, j)
    BY <2>1 DEF a
  <2>9. QED
    BY <2>2, <2>5, <2>7, <2>8
<1>3. InvMixColumns(t) \in BlockBytes
  BY InvMixColumnsIs
<1>4. InvMixColumns(t) = s
  BY <1>2, <1>3, SameState
<1>5. QED
  BY <1>1, <1>4

-----------------------------------------------------------------------------
(* Cipher and InvCipher *)

\* A round makes a block of a block.
LEMMA RoundTypes ==
  ASSUME NEW s \in BlockBytes, NEW k \in BlockBytes
  PROVE  Round(s, k) \in BlockBytes
<1>1. SubBytes(s) \in BlockBytes
  BY SubBytesInverse
<1>2. ShiftRows(SubBytes(s)) \in BlockBytes
  BY <1>1, ShiftRowsInverse
<1>3. MixColumns(ShiftRows(SubBytes(s))) \in BlockBytes
  BY <1>2, MixColumnsInverse
<1>4. QED
  BY <1>3, XorBytesIs DEF Round

\* The round keys of a cipher.
RoundKeys == [1..11 -> BlockBytes]

\* The state before the last round: what the loop of Cipher computes.
CipherLoop(ks, block) ==
  CHOOSE f : f = [r \in 0..9 |->
    IF r = 0 THEN XorBytes(block, ks[1])
    ELSE With(f[r - 1], LAMBDA s : Round(s, ks[r + 1]))]

\* The loop starts with the first round key and goes on round by round.
LEMMA CipherLoopStep ==
  ASSUME NEW ks \in RoundKeys, NEW b \in BlockBytes
  PROVE  LET f == CipherLoop(ks, b)
         IN  /\ f[0] = XorBytes(b, ks[1])
             /\ \A r \in 1..9 : f[r] = Round(f[r - 1], ks[r + 1])
             /\ \A r \in 0..9 : f[r] \in BlockBytes
<1> DEFINE G == [p \in (1..9) \X BlockBytes |-> Round(p[2], ks[p[1] + 1])]
           x == XorBytes(b, ks[1])
           f == CipherLoop(ks, b)
<1>1. \A r \in 0..9 : ks[r + 1] \in BlockBytes
  BY DEF RoundKeys
<1>2. x \in BlockBytes
  BY <1>1, XorBytesIs
<1>3. G \in [(1..9) \X BlockBytes -> BlockBytes]
  BY <1>1, RoundTypes
<1>4. PICK g \in [0..9 -> BlockBytes] : Iterates(g, x, G, 9)
  <2> HIDE DEF G, x
  <2> QED BY <1>2, <1>3, IterationExists
<1>5. ASSUME NEW r \in 1..9 PROVE g[r] = Round(g[r - 1], ks[r + 1])
  <2> DEFINE s == g[r - 1]
  <2>1. s \in BlockBytes /\ g[r] = G[<<r, s>>] /\ <<r, s>> \in (1..9) \X BlockBytes
    BY <1>4 DEF Iterates
  <2> HIDE DEF s
  <2>2. QED
    BY <2>1 DEF s
<1>6. g = [r \in 0..9 |-> IF r = 0 THEN XorBytes(b, ks[1])
                          ELSE With(g[r - 1], LAMBDA s : Round(s, ks[r + 1]))]
  <2>1. ASSUME NEW r \in 0..9
        PROVE  g[r] = IF r = 0 THEN XorBytes(b, ks[1])
                      ELSE With(g[r - 1], LAMBDA s : Round(s, ks[r + 1]))
    <3>1. CASE r = 0
      BY <1>4, <3>1 DEF Iterates
    <3>2. CASE r # 0
      <4>1. g[r] = Round(g[r - 1], ks[r + 1])
        BY <1>5, <3>2
      <4>2. With(g[r - 1], LAMBDA s : Round(s, ks[r + 1])) = Round(g[r - 1], ks[r + 1])
        BY DEF With
      <4>3. QED
        BY <3>2, <4>1, <4>2
    <3>3. QED
      BY <3>1, <3>2
  <2>2. QED
    BY <2>1
<1>7. f = [r \in 0..9 |-> IF r = 0 THEN XorBytes(b, ks[1])
                          ELSE With(f[r - 1], LAMBDA s : Round(s, ks[r + 1]))]
  BY <1>6 DEF CipherLoop
<1> HIDE DEF f
<1>8. f[0] = x
  BY <1>7
<1>9. ASSUME NEW r \in 1..9 PROVE f[r] = Round(f[r - 1], ks[r + 1])
  <2>1. With(f[r - 1], LAMBDA s : Round(s, ks[r + 1])) = Round(f[r - 1], ks[r + 1])
    BY DEF With
  <2>2. r \in 0..9 /\ r # 0
    OBVIOUS
  <2>3. f[r] = With(f[r - 1], LAMBDA s : Round(s, ks[r + 1]))
    BY <1>7, <2>2
  <2>4. QED
    BY <2>1, <2>3
<1>10. \A r \in 0..9 : f[r] \in BlockBytes
  <2> DEFINE S == [r \in 0..9 |-> BlockBytes]
  <2>1. \A r \in 1..9 : f[r - 1] \in S[r - 1] => f[r] \in S[r]
    BY <1>1, <1>9, RoundTypes
  <2>2. f[0] \in S[0]
    BY <1>2, <1>8
  <2>3. \A r \in 0..9 : f[r] \in S[r]
    <3> HIDE DEF S
    <3> QED BY <2>1, <2>2, IterationStays, 9 \in Nat
  <2>4. QED
    BY <2>3
<1>11. QED
  BY <1>8, <1>9, <1>10 DEF f

\* Cipher is the loop and the last round, which mixes no columns.
LEMMA CipherIs ==
  ASSUME NEW ks, NEW b
  PROVE  Cipher(ks, b) = XorBytes(ShiftRows(SubBytes(CipherLoop(ks, b)[9])), ks[11])
  BY DEF Cipher, CipherLoop, With

\* The same of InvCipher.
InvCipherLoop(ks, block) ==
  CHOOSE f : f = [r \in 0..9 |->
    IF r = 0 THEN XorBytes(block, ks[11])
    ELSE With(f[r - 1], LAMBDA s : InvRound(s, ks[11 - r]))]

\* InvCipher is its loop and the last round.
LEMMA InvCipherIs ==
  ASSUME NEW ks, NEW b
  PROVE  InvCipher(ks, b) = XorBytes(InvSubBytes(InvShiftRows(InvCipherLoop(ks, b)[9])), ks[1])
  BY DEF InvCipher, InvCipherLoop, With

\* A round backwards makes a block of a block.
LEMMA InvRoundType ==
  ASSUME NEW s \in BlockBytes, NEW k \in BlockBytes
  PROVE  InvRound(s, k) \in BlockBytes
<1>1. InvShiftRows(s) \in BlockBytes
  BY InvShiftRowsIs
<1>2. InvSubBytes(InvShiftRows(s)) \in BlockBytes
  <2>1. PICK t \in BlockBytes : t = InvShiftRows(s)
    BY <1>1
  <2>2. \A i \in 1..16 : rsbox[t[i] + 1] \in Byte
    <3>1. \A i \in 1..16 : t[i] \in Byte
      BY DEF BlockBytes
    <3>2. QED
      BY <3>1, RsboxType
  <2>3. InvSubBytes(t) = [i \in 1..16 |-> rsbox[t[i] + 1]]
    BY DEF InvSubBytes
  <2>4. InvSubBytes(t) \in BlockBytes
    BY <2>2, <2>3 DEF BlockBytes
  <2>5. QED
    BY <2>1, <2>4
<1>3. XorBytes(InvSubBytes(InvShiftRows(s)), k) \in BlockBytes
  BY <1>2, XorBytesIs
<1>4. QED
  BY <1>3, InvMixColumnsIs DEF InvRound

\* The loop of InvCipher starts with the last round key and goes back.
LEMMA InvCipherLoopStep ==
  ASSUME NEW ks \in RoundKeys, NEW b \in BlockBytes
  PROVE  LET f == InvCipherLoop(ks, b)
         IN  /\ f[0] = XorBytes(b, ks[11])
             /\ \A r \in 1..9 : f[r] = InvRound(f[r - 1], ks[11 - r])
<1> DEFINE G == [p \in (1..9) \X BlockBytes |-> InvRound(p[2], ks[11 - p[1]])]
           x == XorBytes(b, ks[11])
           f == InvCipherLoop(ks, b)
<1>1. \A r \in 0..9 : ks[11 - r] \in BlockBytes
  BY DEF RoundKeys
<1>2. x \in BlockBytes
  <2>1. ks[11] \in BlockBytes
    BY DEF RoundKeys
  <2>2. QED
    BY <2>1, XorBytesIs
<1>3. G \in [(1..9) \X BlockBytes -> BlockBytes]
  BY <1>1, InvRoundType
<1>4. PICK g \in [0..9 -> BlockBytes] : Iterates(g, x, G, 9)
  <2> HIDE DEF G, x
  <2> QED BY <1>2, <1>3, IterationExists
<1>5. ASSUME NEW r \in 1..9 PROVE g[r] = InvRound(g[r - 1], ks[11 - r])
  <2> DEFINE s == g[r - 1]
  <2>1. s \in BlockBytes /\ g[r] = G[<<r, s>>] /\ <<r, s>> \in (1..9) \X BlockBytes
    BY <1>4 DEF Iterates
  <2> HIDE DEF s
  <2>2. QED
    BY <2>1 DEF s
<1>6. g = [r \in 0..9 |-> IF r = 0 THEN XorBytes(b, ks[11])
                          ELSE With(g[r - 1], LAMBDA s : InvRound(s, ks[11 - r]))]
  <2>1. ASSUME NEW r \in 0..9
        PROVE  g[r] = IF r = 0 THEN XorBytes(b, ks[11])
                      ELSE With(g[r - 1], LAMBDA s : InvRound(s, ks[11 - r]))
    <3>1. CASE r = 0
      BY <1>4, <3>1 DEF Iterates
    <3>2. CASE r # 0
      <4>1. g[r] = InvRound(g[r - 1], ks[11 - r])
        BY <1>5, <3>2
      <4>2. With(g[r - 1], LAMBDA s : InvRound(s, ks[11 - r])) = InvRound(g[r - 1], ks[11 - r])
        BY DEF With
      <4>3. QED
        BY <3>2, <4>1, <4>2
    <3>3. QED
      BY <3>1, <3>2
  <2>2. QED
    BY <2>1
<1>7. f = [r \in 0..9 |-> IF r = 0 THEN XorBytes(b, ks[11])
                          ELSE With(f[r - 1], LAMBDA s : InvRound(s, ks[11 - r]))]
  BY <1>6 DEF InvCipherLoop
<1> HIDE DEF f
<1>8. f[0] = x
  BY <1>7
<1>9. ASSUME NEW r \in 1..9 PROVE f[r] = InvRound(f[r - 1], ks[11 - r])
  <2>1. With(f[r - 1], LAMBDA s : InvRound(s, ks[11 - r])) = InvRound(f[r - 1], ks[11 - r])
    BY DEF With
  <2>2. r \in 0..9 /\ r # 0
    OBVIOUS
  <2>3. f[r] = With(f[r - 1], LAMBDA s : InvRound(s, ks[11 - r]))
    BY <1>7, <2>2
  <2>4. QED
    BY <2>1, <2>3
<1>10. QED
  BY <1>8, <1>9 DEF f

\* A round backwards undoes a round.
LEMMA RoundInverse ==
  ASSUME NEW s \in BlockBytes, NEW k \in BlockBytes
  PROVE  InvRound(ShiftRows(SubBytes(Round(s, k))), k) = ShiftRows(SubBytes(s))
<1>1. PICK u \in BlockBytes : u = ShiftRows(SubBytes(s))
  BY SubBytesInverse, ShiftRowsInverse
<1>2. PICK v \in BlockBytes : v = MixColumns(u) /\ InvMixColumns(v) = u
  BY MixColumnsInverse
<1>3. PICK w \in BlockBytes : w = XorBytes(v, k) /\ XorBytes(w, k) = v
  BY XorBytesIs, XorBytesTwice
<1>4. PICK x \in BlockBytes : x = SubBytes(w) /\ InvSubBytes(x) = w
  BY SubBytesInverse
<1>5. PICK y \in BlockBytes : y = ShiftRows(x) /\ InvShiftRows(y) = x
  BY ShiftRowsInverse
<1>6. Round(s, k) = w
  BY <1>1, <1>2, <1>3 DEF Round
<1>7. InvRound(y, k) = u
  BY <1>2, <1>3, <1>4, <1>5 DEF InvRound
<1>8. QED
  BY <1>1, <1>4, <1>5, <1>6, <1>7

\* AES deciphers what it enciphered, for all round keys and blocks.
THEOREM CipherInverse ==
  ASSUME NEW ks \in RoundKeys, NEW b \in BlockBytes
  PROVE  Cipher(ks, b) \in BlockBytes /\ InvCipher(ks, Cipher(ks, b)) = b
<1> DEFINE f == CipherLoop(ks, b)
           c == Cipher(ks, b)
           g == InvCipherLoop(ks, c)
           S == [r \in 0..9 |-> {ShiftRows(SubBytes(f[9 - r]))}]
<1>1. /\ f[0] = XorBytes(b, ks[1])
      /\ \A r \in 1..9 : f[r] = Round(f[r - 1], ks[r + 1])
      /\ \A r \in 0..9 : f[r] \in BlockBytes
  BY CipherLoopStep
<1>2. \A r \in 1..11 : ks[r] \in BlockBytes
  BY DEF RoundKeys
<1>3. c = XorBytes(ShiftRows(SubBytes(f[9])), ks[11])
  BY CipherIs
<1> HIDE DEF f, c
<1>4. \A r \in 0..9 : ShiftRows(SubBytes(f[r])) \in BlockBytes
  BY <1>1, SubBytesInverse, ShiftRowsInverse
<1>5. c \in BlockBytes /\ XorBytes(c, ks[11]) = ShiftRows(SubBytes(f[9]))
  <2>1. PICK u \in BlockBytes : u = ShiftRows(SubBytes(f[9]))
    BY <1>4
  <2>2. ks[11] \in BlockBytes
    BY <1>2
  <2>3. XorBytes(u, ks[11]) \in BlockBytes /\ XorBytes(XorBytes(u, ks[11]), ks[11]) = u
    BY <2>2, XorBytesIs, XorBytesTwice
  <2>4. QED
    BY <1>3, <2>1, <2>3
<1>6. /\ g[0] = XorBytes(c, ks[11])
      /\ \A r \in 1..9 : g[r] = InvRound(g[r - 1], ks[11 - r])
  BY <1>5, InvCipherLoopStep
<1> HIDE DEF g
<1>7. g[0] \in S[0]
  BY <1>5, <1>6
<1>8. ASSUME NEW r \in 1..9, g[r - 1] \in S[r - 1] PROVE g[r] \in S[r]
  <2>1. PICK i \in 1..9 : i = 10 - r
    OBVIOUS
  <2>2. g[r - 1] = ShiftRows(SubBytes(f[i])) /\ S[r] = {ShiftRows(SubBytes(f[i - 1]))}
    <3>1. 9 - (r - 1) = i /\ 9 - r = i - 1 /\ r \in 0..9 /\ r - 1 \in 0..9
      BY <2>1
    <3>2. QED
      BY <1>8, <3>1
  <2>3. g[r] = InvRound(ShiftRows(SubBytes(f[i])), ks[i + 1])
    <3>1. 11 - r = i + 1
      BY <2>1
    <3>2. QED
      BY <1>6, <2>2, <3>1
  <2>4. f[i] = Round(f[i - 1], ks[i + 1]) /\ f[i - 1] \in BlockBytes /\ ks[i + 1] \in BlockBytes
    BY <1>1, <1>2
  <2>5. g[r] = ShiftRows(SubBytes(f[i - 1]))
    BY <2>3, <2>4, RoundInverse
  <2>6. QED
    BY <2>2, <2>5
<1>9. g[9] = ShiftRows(SubBytes(f[0]))
  <2>1. \A r \in 0..9 : g[r] \in S[r]
    <3> HIDE DEF S
    <3> QED BY <1>7, <1>8, IterationStays, 9 \in Nat
  <2>2. QED
    BY <2>1
<1>10. InvSubBytes(InvShiftRows(g[9])) = f[0]
  <2>1. f[0] \in BlockBytes
    BY <1>1
  <2>2. PICK x \in BlockBytes : x = SubBytes(f[0]) /\ InvSubBytes(x) = f[0]
    BY <2>1, SubBytesInverse
  <2>3. InvShiftRows(ShiftRows(x)) = x
    BY ShiftRowsInverse
  <2>4. QED
    BY <1>9, <2>2, <2>3
<1>11. InvCipher(ks, c) = XorBytes(f[0], ks[1])
  BY <1>10, InvCipherIs DEF g
<1>12. InvCipher(ks, c) = b
  BY <1>1, <1>2, <1>11, XorBytesTwice
<1>13. QED
  BY <1>5, <1>12 DEF c

-----------------------------------------------------------------------------
(* The round keys *)

\* Pieces of a sequence of bytes.
LEMMA PieceType ==
  ASSUME NEW m \in Nat, NEW b \in [1..m -> Byte], NEW i \in 1..m, NEW j \in Nat, i <= j, j <= m
  PROVE  /\ SubSeq(b, i, j) \in [1..(j - i + 1) -> Byte]
         /\ \A k \in 1..(j - i + 1) : SubSeq(b, i, j)[k] = b[i + k - 1]
<1>1. b \in Seq(Byte) /\ Len(b) = m
  <2> HIDE DEF Byte
  <2>1. b \in Seq(Byte)
    BY SeqDef
  <2>2. QED
    BY <2>1, LenProperties
<1>2. /\ SubSeq(b, i, j) \in Seq(Byte) /\ Len(SubSeq(b, i, j)) = j - i + 1
      /\ \A k \in 1..(j - i + 1) : SubSeq(b, i, j)[k] = b[i + k - 1]
  <2> HIDE DEF Byte
  <2> QED BY <1>1, SubSeqProperties
<1>3. QED
  <2> HIDE DEF Byte
  <2> QED BY <1>2, LenProperties

\* Two sequences of bytes make one.
LEMMA JoinType ==
  ASSUME NEW m \in Nat, NEW n \in Nat, NEW b \in [1..m -> Byte], NEW c \in [1..n -> Byte]
  PROVE  /\ b \o c \in [1..(m + n) -> Byte]
         /\ \A k \in 1..(m + n) : (b \o c)[k] = IF k <= m THEN b[k] ELSE c[k - m]
<1>1. b \in Seq(Byte) /\ c \in Seq(Byte) /\ Len(b) = m /\ Len(c) = n
  <2> HIDE DEF Byte
  <2>1. b \in Seq(Byte) /\ c \in Seq(Byte)
    BY SeqDef
  <2>2. QED
    BY <2>1, LenProperties
<1>2. b \o c \in Seq(Byte) /\ Len(b \o c) = m + n
      /\ \A k \in 1..(m + n) : (b \o c)[k] = IF k <= m THEN b[k] ELSE c[k - m]
  <2> HIDE DEF Byte
  <2> QED BY <1>1, ConcatProperties
<1>3. QED
  <2> HIDE DEF Byte
  <2> QED BY <1>2, LenProperties

Word4 == [1..4 -> Byte]

\* XorBytes of two words of four bytes is one.
LEMMA XorWords ==
  ASSUME NEW s \in Word4, NEW t \in Word4
  PROVE  XorBytes(s, t) \in Word4
<1>1. Len(s) = 4
  <2>1. s \in [1..4 -> Byte] /\ 4 \in Nat
    BY DEF Word4
  <2>2. s \in Seq(Byte)
    <3> HIDE DEF Byte
    <3> QED BY <2>1, SeqDef
  <2>3. QED
    BY <2>1, <2>2, LenProperties DEF Byte
<1>2. XorBytes(s, t) = [k \in 1..4 |-> Xor8(s[k], t[k])]
  BY <1>1 DEF XorBytes, Xor8
<1>3. \A k \in 1..4 : s[k] \in Byte /\ t[k] \in Byte
  BY DEF Word4
<1>4. \A k \in 1..4 : Xor8(s[k], t[k]) \in Byte
  BY <1>3, XorBits
<1>5. QED
  BY <1>2, <1>4 DEF Word4

\* A round constant is a byte.
LEMMA RconType == \A r \in 1..10 : Rcon[r] \in Byte
  BY DEF Rcon, Byte

\* A round key of a round key.
LEMMA NextRoundKeyType ==
  ASSUME NEW k \in BlockBytes, NEW r \in 1..10
  PROVE  NextRoundKey(k, r) \in BlockBytes
<1> DEFINE word(c) == SubSeq(k, 4 * c + 1, 4 * c + 4)
           last == word(3)
           tempa == <<Xor8(sbox[last[2] + 1], Rcon[r]), sbox[last[3] + 1],
                      sbox[last[4] + 1], sbox[last[1] + 1]>>
           a == XorBytes(word(0), tempa)
           b == XorBytes(word(1), a)
           c == XorBytes(word(2), b)
           d == XorBytes(word(3), c)
<1>1. word(0) \in Word4 /\ word(1) \in Word4 /\ word(2) \in Word4 /\ word(3) \in Word4
  <2>1. k \in [1..16 -> Byte]
    BY DEF BlockBytes
  <2>2. ASSUME NEW i \in 0..3 PROVE word(i) \in Word4
    <3>1. /\ 16 \in Nat /\ 4 * i + 1 \in 1..16 /\ 4 * i + 4 \in Nat /\ 4 * i + 1 <= 4 * i + 4
          /\ 4 * i + 4 <= 16 /\ (4 * i + 4) - (4 * i + 1) + 1 = 4
      OBVIOUS
    <3>2. SubSeq(k, 4 * i + 1, 4 * i + 4) \in [1..((4 * i + 4) - (4 * i + 1) + 1) -> Byte]
      BY <2>1, <3>1, PieceType
    <3>3. QED
      BY <3>1, <3>2 DEF Word4
  <2> HIDE DEF word
  <2>3. QED
    BY <2>2
<1>2. NextRoundKey(k, r) = a \o b \o c \o d
  BY DEF NextRoundKey
<1> HIDE DEF word
<1>3. tempa \in Word4
  <2>1. last[1] \in Byte /\ last[2] \in Byte /\ last[3] \in Byte /\ last[4] \in Byte
    BY <1>1 DEF Word4
  <2> HIDE DEF last
  <2>2. /\ sbox[last[1] + 1] \in Byte /\ sbox[last[2] + 1] \in Byte
        /\ sbox[last[3] + 1] \in Byte /\ sbox[last[4] + 1] \in Byte
    BY <2>1, SboxType
  <2>3. Rcon[r] \in Byte
    BY RconType
  <2>4. Xor8(sbox[last[2] + 1], Rcon[r]) \in Byte
    BY <2>2, <2>3, XorBits
  <2>5. QED
    BY <2>2, <2>4 DEF Word4
<1> HIDE DEF tempa
<1>4. a \in Word4
  BY <1>1, <1>3, XorWords
<1> HIDE DEF a
<1>5. b \in Word4
  BY <1>1, <1>4, XorWords
<1> HIDE DEF b
<1>6. c \in Word4
  BY <1>1, <1>5, XorWords
<1> HIDE DEF c
<1>7. d \in Word4
  BY <1>1, <1>6, XorWords
<1> HIDE DEF d
<1>8. a \o b \in [1..(4 + 4) -> Byte]
  BY <1>4, <1>5, JoinType, 4 \in Nat DEF Word4
<1>9. a \o b \o c \in [1..(8 + 4) -> Byte]
  <2>1. a \o b \in [1..8 -> Byte] /\ 8 \in Nat
    BY <1>8
  <2>2. QED
    BY <1>6, <2>1, JoinType, 4 \in Nat DEF Word4
<1>10. a \o b \o c \o d \in [1..16 -> Byte]
  <2>1. a \o b \o c \in [1..12 -> Byte] /\ 12 \in Nat
    BY <1>9
  <2>2. a \o b \o c \o d \in [1..(12 + 4) -> Byte]
    BY <1>7, <2>1, JoinType, 4 \in Nat DEF Word4
  <2>3. QED
    BY <2>2
<1>11. QED
  BY <1>2, <1>10 DEF BlockBytes

\* The eleven round keys of a key are blocks.
LEMMA KeyExpansionType ==
  ASSUME NEW key \in BlockBytes
  PROVE  KeyExpansion(key) \in RoundKeys
<1> DEFINE B == Seq(BlockBytes)
           G == [p \in (1..10) \X B |->
                  IF Len(p[2]) = p[1] THEN Append(p[2], NextRoundKey(p[2][p[1]], p[1])) ELSE p[2]]
           S == [r \in 0..10 |-> {ks \in B : Len(ks) = r + 1}]
           f == CHOOSE upto : upto = [r \in 0..10 |->
                  IF r = 0 THEN <<key>>
                  ELSE With(upto[r - 1], LAMBDA ks : Append(ks, NextRoundKey(ks[r], r)))]
<1>0. ASSUME NEW r \in 1..10, NEW ks \in B, Len(ks) = r
      PROVE  Append(ks, NextRoundKey(ks[r], r)) \in B
             /\ Len(Append(ks, NextRoundKey(ks[r], r))) = r + 1
  <2>1. ks[r] \in BlockBytes
    BY <1>0
  <2>2. NextRoundKey(ks[r], r) \in BlockBytes
    BY <2>1, NextRoundKeyType
  <2>3. QED
    BY <1>0, <2>2, AppendProperties
<1>1. <<key>> \in B /\ Len(<<key>>) = 1
  OBVIOUS
<1>2. KeyExpansion(key) = f[10]
  BY DEF KeyExpansion
<1>3. G \in [(1..10) \X B -> B]
  <2>1. ASSUME NEW p \in (1..10) \X B PROVE G[p] \in B
    <3>1. p[1] \in 1..10 /\ p[2] \in B
      OBVIOUS
    <3> HIDE DEF B
    <3>2. QED
      BY <1>0, <3>1
  <2> HIDE DEF B
  <2>2. QED
    BY <2>1
<1>4. PICK g \in [0..10 -> B] : Iterates(g, <<key>>, G, 10)
  <2> HIDE DEF G, B
  <2> QED BY <1>1, <1>3, IterationExists
<1>5. /\ g[0] = <<key>>
      /\ \A r \in 1..10 : Len(g[r - 1]) = r => g[r] = Append(g[r - 1], NextRoundKey(g[r - 1][r], r))
  <2>1. g[0] = <<key>>
    BY <1>4 DEF Iterates
  <2>2. ASSUME NEW r \in 1..10, Len(g[r - 1]) = r
        PROVE  g[r] = Append(g[r - 1], NextRoundKey(g[r - 1][r], r))
    <3>0. r \in 0..10 /\ r - 1 \in 0..10 /\ r # 0
      OBVIOUS
    <3>1. g[r] = G[<<r, g[r - 1]>>] /\ g[r - 1] \in B
      <4> HIDE DEF G, B
      <4> QED BY <1>4, <3>0 DEF Iterates
    <3>2. <<r, g[r - 1]>> \in (1..10) \X B
      BY <3>1
    <3> HIDE DEF B
    <3>3. QED
      BY <2>2, <3>1, <3>2
  <2>3. QED
    BY <2>1, <2>2
<1>6. \A r \in 0..10 : g[r] \in S[r]
  <2>1. g[0] \in S[0]
    BY <1>1, <1>5
  <2>2. ASSUME NEW r \in 1..10, g[r - 1] \in S[r - 1] PROVE g[r] \in S[r]
    <3> HIDE DEF B
    <3>1. g[r - 1] \in B /\ Len(g[r - 1]) = r
      BY <2>2
    <3>2. g[r] = Append(g[r - 1], NextRoundKey(g[r - 1][r], r))
      BY <1>5, <3>1
    <3>3. g[r] \in B /\ Len(g[r]) = r + 1
      BY <1>0, <3>1, <3>2
    <3>4. QED
      BY <3>3
  <2>3. QED
    <3> HIDE DEF S
    <3> QED BY <2>1, <2>2, IterationStays, 10 \in Nat
<1>7. g = [r \in 0..10 |->
            IF r = 0 THEN <<key>>
            ELSE With(g[r - 1], LAMBDA ks : Append(ks, NextRoundKey(ks[r], r)))]
  <2>1. ASSUME NEW r \in 0..10
        PROVE  g[r] = IF r = 0 THEN <<key>>
                      ELSE With(g[r - 1], LAMBDA ks : Append(ks, NextRoundKey(ks[r], r)))
    <3>1. CASE r = 0
      BY <1>5, <3>1
    <3>2. CASE r # 0
      <4> HIDE DEF B
      <4>1. r \in 1..10 /\ r - 1 \in 0..10
        BY <3>2
      <4>2. Len(g[r - 1]) = r
        <5>1. g[r - 1] \in S[r - 1]
          BY <1>6, <4>1
        <5>2. QED
          BY <4>1, <5>1
      <4>3. g[r] = Append(g[r - 1], NextRoundKey(g[r - 1][r], r))
        BY <1>5, <4>1, <4>2
      <4>4. With(g[r - 1], LAMBDA ks : Append(ks, NextRoundKey(ks[r], r)))
              = Append(g[r - 1], NextRoundKey(g[r - 1][r], r))
        BY DEF With
      <4>5. QED
        BY <3>2, <4>3, <4>4
    <3>3. QED
      BY <3>1, <3>2
  <2> HIDE DEF B
  <2>2. QED
    BY <2>1
<1>8. f = [r \in 0..10 |->
            IF r = 0 THEN <<key>>
            ELSE With(f[r - 1], LAMBDA ks : Append(ks, NextRoundKey(ks[r], r)))]
  BY <1>7
<1> HIDE DEF f, B
<1>9. f[0] \in S[0]
  <2>1. f[0] = <<key>>
    <3>1. 0 \in 0..10
      OBVIOUS
    <3>2. QED
      BY <1>8, <3>1, Zenon
  <2>2. S[0] = {ks \in B : Len(ks) = 1}
    OBVIOUS
  <2>3. QED
    BY <1>1, <2>1, <2>2
<1>10. ASSUME NEW r \in 1..10, f[r - 1] \in S[r - 1] PROVE f[r] \in S[r]
  <2>1. f[r - 1] \in B /\ Len(f[r - 1]) = r
    BY <1>10
  <2>2. f[r] = With(f[r - 1], LAMBDA ks : Append(ks, NextRoundKey(ks[r], r)))
    <3>1. r \in 0..10 /\ r # 0
      OBVIOUS
    <3>2. QED
      BY <1>8, <3>1
  <2>3. With(f[r - 1], LAMBDA ks : Append(ks, NextRoundKey(ks[r], r)))
              = Append(f[r - 1], NextRoundKey(f[r - 1][r], r))
    BY DEF With
  <2>4. f[r] \in B /\ Len(f[r]) = r + 1
    BY <1>0, <2>1, <2>2, <2>3
  <2>5. QED
    BY <2>4
<1>11. f[10] \in B /\ Len(f[10]) = 11
  <2>1. \A r \in 0..10 : f[r] \in S[r]
    <3> HIDE DEF S
    <3> QED BY <1>9, <1>10, IterationStays, 10 \in Nat
  <2>2. QED
    BY <2>1
<1>12. f[10] \in [1..11 -> BlockBytes]
  <2>1. f[10] \in Seq(BlockBytes) /\ Len(f[10]) = 11
    BY <1>11 DEF B
  <2>2. QED
    BY <2>1, LenProperties
<1>13. QED
  BY <1>2, <1>12 DEF RoundKeys
=============================================================================
