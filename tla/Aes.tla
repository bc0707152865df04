-------------------------------- MODULE Aes ---------------------------------
(***************************************************************************)
(* AES-128 as every program of the system carries it (tiny_aes.c on the    *)
(* nodes, aes.c on the host, the same code).  A block is a sequence of 16  *)
(* bytes: byte 4i + j of it is state[i][j].                               *)
(***************************************************************************)
EXTENDS Integers, Sequences

Byte == 0..255

\* a ^ b, bit by bit, in a table that is computed once.
XorTable == [a \in Byte |-> [b \in Byte |->
  LET bit(n) == n * ((a \div n + b \div n) % 2)
  IN  bit(1) + bit(2) + bit(4) + bit(8) + bit(16) + bit(32) + bit(64) + bit(128)]]
Xor8(a, b) == XorTable[a][b]
XorBytes(s, t) == [k \in 1..Len(s) |-> XorTable[s[k]][t[k]]]

sbox ==
  <<99, 124, 119, 123, 242, 107, 111, 197, 48, 1, 103, 43, 254, 215, 171, 118, 202, 130, 201, 125,
    250, 89, 71, 240, 173, 212, 162, 175, 156, 164, 114, 192, 183, 253, 147, 38, 54, 63, 247, 204,
    52, 165, 229, 241, 113, 216, 49, 21, 4, 199, 35, 195, 24, 150, 5, 154, 7, 18, 128, 226,
    235, 39, 178, 117, 9, 131, 44, 26, 27, 110, 90, 160, 82, 59, 214, 179, 41, 227, 47, 132,
    83, 209, 0, 237, 32, 252, 177, 91, 106, 203, 190, 57, 74, 76, 88, 207, 208, 239, 170, 251,
    67, 77, 51, 133, 69, 249, 2, 127, 80, 60, 159, 168, 81, 163, 64, 143, 146, 157, 56, 245,
    188, 182, 218, 33, 16, 255, 243, 210, 205, 12, 19, 236, 95, 151, 68, 23, 196, 167, 126, 61,
    100, 93, 25, 115, 96, 129, 79, 220, 34, 42, 144, 136, 70, 238, 184, 20, 222, 94, 11, 219,
    224, 50, 58, 10, 73, 6, 36, 92, 194, 211, 172, 98, 145, 149, 228, 121, 231, 200, 55, 109,
    141, 213, 78, 169, 108, 86, 244, 234, 101, 122, 174, 8, 186, 120, 37, 46, 28, 166, 180, 198,
    232, 221, 116, 31, 75, 189, 139, 138, 112, 62, 181, 102, 72, 3, 246, 14, 97, 53, 87, 185,
    134, 193, 29, 158, 225, 248, 152, 17, 105, 217, 142, 148, 155, 30, 135, 233, 206, 85, 40, 223,
    140, 161, 137, 13, 191, 230, 66, 104, 65, 153, 45, 15, 176, 84, 187, 22>>

rsbox ==
  <<82, 9, 106, 213, 48, 54, 165, 56, 191, 64, 163, 158, 129, 243, 215, 251, 124, 227, 57, 130,
    155, 47, 255, 135, 52, 142, 67, 68, 196, 222, 233, 203, 84, 123, 148, 50, 166, 194, 35, 61,
    238, 76, 149, 11, 66, 250, 195, 78, 8, 46, 161, 102, 40, 217, 36, 178, 118, 91, 162, 73,
    109, 139, 209, 37, 114, 248, 246, 100, 134, 104, 152, 22, 212, 164, 92, 204, 93, 101, 182, 146,
    108, 112, 72, 80, 253, 237, 185, 218, 94, 21, 70, 87, 167, 141, 157, 132, 144, 216, 171, 0,
    140, 188, 211, 10, 247, 228, 88, 5, 184, 179, 69, 6, 208, 44, 30, 143, 202, 63, 15, 2,
    193, 175, 189, 3, 1, 19, 138, 107, 58, 145, 17, 65, 79, 103, 220, 234, 151, 242, 207, 206,
    240, 180, 230, 115, 150, 172, 116, 34, 231, 173, 53, 133, 226, 249, 55, 232, 28, 117, 223, 110,
    71, 241, 26, 113, 29, 41, 197, 137, 111, 183, 98, 14, 170, 24, 190, 27, 252, 86, 62, 75,
    198, 210, 121, 32, 154, 219, 192, 254, 120, 205, 90, 244, 31, 221, 168, 51, 136, 7, 199, 49,
    177, 18, 16, 89, 39, 128, 236, 95, 96, 81, 127, 169, 25, 181, 74, 13, 45, 229, 122, 159,
    147, 201, 156, 239, 160, 224, 59, 77, 174, 42, 245, 176, 200, 235, 187, 60, 131, 83, 153, 97,
    23, 43, 4, 126, 186, 119, 214, 38, 225, 105, 20, 99, 85, 33, 12, 125>>

\* Op of v, with v computed once: TLC would evaluate it at every use.
With(v, Op(_)) == CHOOSE r \in {Op(w) : w \in {v}} : TRUE

\* The block whose state[i][j] is F(i, j).
StateOf(F(_, _)) == [k \in 1..16 |-> F((k - 1) \div 4, (k - 1) % 4)]
At(s, i, j) == s[4 * i + j + 1]

xtime(x) == Xor8((2 * x) % 256, IF x >= 128 THEN 27 ELSE 0)

\* Multiplication by 9, 11, 13 and 14 in GF(2^8), as the macro spells it out.
Multiply(x, y) ==
  LET x2 == xtime(x)
      x4 == xtime(x2)
      x8 == xtime(x4)
      bit(n, v) == IF (y \div n) % 2 = 1 THEN v ELSE 0
  IN  Xor8(Xor8(bit(1, x), bit(2, x2)), Xor8(bit(4, x4), bit(8, x8)))

SubBytes(s) == [k \in 1..16 |-> sbox[s[k] + 1]]
InvSubBytes(s) == [k \in 1..16 |-> rsbox[s[k] + 1]]

ShiftRows(s) == StateOf(LAMBDA i, j : At(s, (i + j) % 4, j))
InvShiftRows(s) == StateOf(LAMBDA i, j : At(s, (i + 4 - j) % 4, j))

MixColumns(s) ==
  LET all(i) == Xor8(Xor8(At(s, i, 0), At(s, i, 1)), Xor8(At(s, i, 2), At(s, i, 3)))
  IN  StateOf(LAMBDA i, j :
        Xor8(At(s, i, j),
             Xor8(xtime(Xor8(At(s, i, j), At(s, i, (j + 1) % 4))), all(i))))

InvMixColumns(s) ==
  StateOf(LAMBDA i, j :
    Xor8(Xor8(Multiply(At(s, i, j), 14), Multiply(At(s, i, (j + 1) % 4), 11)),
         Xor8(Multiply(At(s, i, (j + 2) % 4), 13), Multiply(At(s, i, (j + 3) % 4), 9))))

\* The round constants the expansion of a 128-bit key uses.
Rcon == <<1, 2, 4, 8, 16, 32, 64, 128, 27, 54>>

\* Round key r from the one before it.
NextRoundKey(k, r) ==
  LET word(c) == SubSeq(k, 4 * c + 1, 4 * c + 4)
      last == word(3)
      tempa == <<Xor8(sbox[last[2] + 1], Rcon[r]), sbox[last[3] + 1],
                 sbox[last[4] + 1], sbox[last[1] + 1]>>
      a == XorBytes(word(0), tempa)
      b == XorBytes(word(1), a)
      c == XorBytes(word(2), b)
  IN  a \o b \o c \o XorBytes(word(3), c)

\* RoundKey: the eleven round keys, round 0 first.
KeyExpansion(key) ==
  LET upto[r \in 0..10] ==
        IF r = 0 THEN <<key>>
        ELSE With(upto[r - 1], LAMBDA ks : Append(ks, NextRoundKey(ks[r], r)))
  IN  upto[10]

Round(s, k) == XorBytes(MixColumns(ShiftRows(SubBytes(s))), k)
InvRound(s, k) == InvMixColumns(XorBytes(InvSubBytes(InvShiftRows(s)), k))

\* ks[r + 1] is the key of AddRoundKey(r).
Cipher(ks, block) ==
  LET after[r \in 0..9] ==
        IF r = 0 THEN XorBytes(block, ks[1])
        ELSE With(after[r - 1], LAMBDA s : Round(s, ks[r + 1]))
  IN  With(after[9], LAMBDA s : XorBytes(ShiftRows(SubBytes(s)), ks[11]))

InvCipher(ks, block) ==
  LET after[r \in 0..9] ==
        IF r = 0 THEN XorBytes(block, ks[11])
        ELSE With(after[r - 1], LAMBDA s : InvRound(s, ks[11 - r]))
  IN  With(after[9], LAMBDA s : XorBytes(InvSubBytes(InvShiftRows(s)), ks[1]))
=============================================================================
