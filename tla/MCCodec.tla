------------------------------ MODULE MCCodec -------------------------------
(***************************************************************************)
(* An instance of Codec.  The inputs lie at the borders of their fields:   *)
(* numbers that carry from byte to byte, challenges whose bytes differ or  *)
(* are zero, keys that strcpy cuts short, and readings at zero and at the  *)
(* top of their range.                                                     *)
(***************************************************************************)
EXTENDS Codec

\* A node of the list, one whose address has two runs of zeros, and one that
\* is not listed.
Listed == <<0, 18, 75, 0, 5, 175, 131, 248>>
Sparse == <<0, 18, 75, 0, 0, 0, 0, 1>>
Unlisted == <<0, 18, 75, 0, 5, 169, 143, 146>>
MCMac == {Listed, Sparse, Unlisted}

\* device.txt with three devices, and the line that ends it.
Line(i, j, k, l) ==
  <<10, 10, 10, 10, COLON, COLON, 0, 2, 1, 2, COLON, 4, 11, 0, 0, COLON>>
    \o HexByte(i) \o HexByte(j) \o <<COLON>> \o HexByte(k) \o HexByte(l)
MCDeviceList ==
  <<Line(5, 169, 143, 145), Line(5, 175, 131, 248), Line(0, 0, 0, 1),
    [k \in 1..25 |-> EQUALS]>>

MCRand == {<<255, 254>>, <<254, 0>>, <<18, 52>>}

LongKey == <<17, 34, 51, 68, 85, 102, 119, 136, 153, 170, 187, 204, 221, 238, 254, 1>>
CutKey == <<17, 34, 51, 0, 85, 102, 119, 136, 153, 170, 187, 204, 221, 238, 254, 1>>
EmptyKey == <<0, 34, 51, 68, 85, 102, 119, 136, 153, 170, 187, 204, 221, 238, 254, 1>>
MCRawKey == {LongKey, CutKey, EmptyKey}

MCCounter == {<<0, 0, 0, 0>>, <<255, 0, 0, 0>>, <<255, 255, 255, 255>>}

Reading(v, c, p, e) ==
  [addr |-> <<192, 168, 1, 1>>, power_alarm |-> 20, voltage_x10 |-> v,
   current_x100 |-> c, power |-> p, energy |-> e]

MCReport ==
  {[seq |-> <<7, 0, 0, 0>>, reading |-> Reading(2205, 48, 105, <<0, 1>>), raw |-> LongKey],
   [seq |-> <<255, 255, 0, 0>>, reading |-> Reading(2600, 10000, 26000, <<152, 38527>>), raw |-> CutKey],
   [seq |-> <<0, 0, 1, 0>>, reading |-> Reading(0, 0, 0, <<0, 0>>), raw |-> EmptyKey],
   [seq |-> <<1, 2, 3, 4>>, reading |-> Reading(65535, 65535, 65535, <<65535, 65535>>), raw |-> LongKey]}

\* The example of FIPS 197, appendix C.1.
Plain == <<0, 17, 34, 51, 68, 85, 102, 119, 136, 153, 170, 187, 204, 221, 238, 255>>
Secret == <<105, 196, 224, 216, 106, 123, 4, 48, 216, 205, 183, 128, 112, 180, 197, 90>>
ASSUME CipherIsAes == Cipher(KeyExpansion([k \in 1..16 |-> k - 1]), Plain) = Secret

\* Every text of the border router is read as the address it was printed for,
\* and is no longer than 39 characters, whichever words are zero.
Global(w) ==
  [k \in 1..16 |-> IF k % 2 = 1 THEN w[(k + 1) \div 2] \div 256 ELSE w[k \div 2] % 256]
ASSUME TextsAreRead ==
  \A w \in [1..6 -> {0, 1, 530, 43981}] :
    With(Global(<<65152>> \o w \o <<33169>>), LAMBDA a :
      With(ipaddr_add(a), LAMBDA text : getaddrinfo(text) = a /\ Len(text) <= 39))
=============================================================================
