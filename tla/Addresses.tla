----------------------------- MODULE Addresses ------------------------------
(***************************************************************************)
(* IPv6 addresses and their texts: how a node forms its address, how the   *)
(* gateway and the border router print one, how the gateway looks a text   *)
(* up in device.txt, and what getaddrinfo makes of a text.                 *)
(*                                                                         *)
(* An address is its 16 bytes.  A text is a sequence of characters: a hex  *)
(* digit is its value, the others are the constants below.                 *)
(***************************************************************************)
EXTENDS Integers, Sequences

COLON == 16
EQUALS == 17
NUL == 18

LEN_CHAR_IPV6 == 26

HexByte(b) == <<b \div 16, b % 16>>
Word16(a, i) == 256 * a[2 * i - 1] + a[2 * i]

\* %x
HexWord(w) ==
  LET d == <<w \div 4096, (w \div 256) % 16, (w \div 16) % 16, w % 16>>
  IN  SubSeq(d, CHOOSE k \in 1..4 : (d[k] # 0 \/ k = 4) /\ \A i \in 1..(k - 1) : d[i] = 0, 4)

-----------------------------------------------------------------------------
(* On the node *)

\* Half of the node's address comes from its MAC, the 0212 is a constant.
get_my_addrress(mac) ==
  <<170, 170>> \o [k \in 1..6 |-> 0] \o <<2, 18>> \o SubSeq(mac, 3, 8)

set_border_router_address == <<170, 170>> \o [k \in 1..13 |-> 0] \o <<1>>

\* What the stack takes for the source of a datagram: the prefix of the DAG
\* and the MAC with the universal bit flipped.
SourceAddress(mac) ==
  <<170, 170>> \o [k \in 1..6 |-> 0]
    \o <<IF (mac[1] \div 2) % 2 = 0 THEN mac[1] + 2 ELSE mac[1] - 2>>
    \o SubSeq(mac, 2, 8)

-----------------------------------------------------------------------------
(* On the gateway *)

\* Mutant: %x for the second byte of a pair.
ShortBytes(a) ==
  LET pair(i) == HexByte(a[i]) \o (IF a[i + 1] < 16 THEN <<a[i + 1]>> ELSE HexByte(a[i + 1]))
  IN  pair(1) \o <<COLON, COLON>> \o pair(9) \o <<COLON>> \o pair(11)
        \o <<COLON>> \o pair(13) \o <<COLON>> \o pair(15)

\* Bytes 2 to 7 are left out.
ipv6_to_str_unexpanded(a) ==
  LET pair(i) == HexByte(a[i]) \o HexByte(a[i + 1])
  IN  pair(1) \o <<COLON, COLON>> \o pair(9) \o <<COLON>> \o pair(11)
        \o <<COLON>> \o pair(13) \o <<COLON>> \o pair(15)

\* The string in an array: it ends before the first NUL.
CString(array) ==
  SubSeq(array, 1, (CHOOSE k \in DOMAIN array :
                      array[k] = NUL /\ \A i \in 1..(k - 1) : array[i] # NUL) - 1)

\* Mutant: the line is counted before it is compared.
CountsLineFirst(text, s, line) ==
  LET array == line \o SubSeq(s.my_device_ipaddr, Len(line) + 1, LEN_CHAR_IPV6)
  IN  [my_device_ipaddr |-> array, j |-> s.j + 1,
       found |-> IF s.found = 0 /\ CString(array) = text THEN s.j + 1 ELSE s.found]

\* A line ends: it lies in the array over what earlier lines left there.
ReadLine(text, s, line) ==
  LET array == line \o SubSeq(s.my_device_ipaddr, Len(line) + 1, LEN_CHAR_IPV6)
  IN  [my_device_ipaddr |-> array, j |-> s.j + 1,
       found |-> IF s.found = 0 /\ CString(array) = text THEN s.j ELSE s.found]

\* The number of the first line of the file that is the text, or 0.  The last
\* of the lines is what follows the last newline: it is never compared.
check_my_device_list(file, text) ==
  LET after[n \in 0..(Len(file) - 1)] ==
        IF n = 0
        THEN [my_device_ipaddr |-> [k \in 1..LEN_CHAR_IPV6 |-> NUL], j |-> 1, found |-> 0]
        ELSE ReadLine(text, after[n - 1], file[n])
  IN  after[Len(file) - 1].found

-----------------------------------------------------------------------------
(* On the border router *)

\* One word of ipaddr_add.  f counts the zeros of the run that "::" stands
\* for, and is -1 after it.
AddWord(s, word, first) ==
  IF word = 0 /\ s.f >= 0
  THEN [f |-> s.f + 1, text |-> IF s.f = 0 THEN s.text \o <<COLON, COLON>> ELSE s.text]
  ELSE [f |-> IF s.f > 0 THEN -1 ELSE s.f,
        text |-> s.text \o (IF s.f > 0 \/ first THEN <<>> ELSE <<COLON>>) \o HexWord(word)]

ipaddr_add(a) ==
  LET after[i \in 0..8] ==
        IF i = 0 THEN [f |-> 0, text |-> <<>>]
        ELSE AddWord(after[i - 1], Word16(a, i), i = 1)
  IN  after[8].text

-----------------------------------------------------------------------------
(* getaddrinfo, for a text that neither begins nor ends with a colon *)

NoAddress == <<>>

\* The place of the first colon behind place i, or the one behind the text.
ColonAfter(text, i) ==
  LET colons == {k \in (i + 1)..Len(text) : text[k] = COLON}
  IN  IF colons = {} THEN Len(text) + 1
      ELSE CHOOSE k \in colons : \A j \in colons : k <= j

\* Where the k-th word of a text ends, for the first nine.
WordEnds(text) ==
  LET end[k \in 0..9] ==
        IF k = 0 THEN 0 ELSE ColonAfter(text, end[k - 1])
  IN  end

\* Up to four digits.
ValueOf(word) ==
  LET digit(i) == IF i <= Len(word) THEN word[Len(word) + 1 - i] ELSE 0
  IN  4096 * digit(4) + 256 * digit(3) + 16 * digit(2) + digit(1)

\* One empty word stands for as many words of zero as are missing.
getaddrinfo(text) ==
  LET end == WordEnds(text)
      n == CHOOSE k \in 1..9 : end[k] > end[k - 1] /\ (k = 9 \/ end[k] = Len(text) + 1)
      gaps == {k \in 1..n : end[k] = end[k - 1] + 1}
      gap == IF gaps = {} THEN n + 1 ELSE CHOOSE k \in gaps : TRUE
      value(k) == ValueOf(SubSeq(text, end[k - 1] + 1, end[k] - 1))
      word == [i \in 1..8 |-> IF i < gap THEN value(i)
                              ELSE IF i > gap + 8 - n THEN value(i - 8 + n) ELSE 0]
  IN  IF /\ n <= 8 /\ \A k \in 1..n : end[k] - end[k - 1] <= 5
         /\ (gaps = {} /\ n = 8) \/ \E k \in 2..(n - 1) : gaps = {k}
      THEN [i \in 1..16 |-> LET w == word[(i + 1) \div 2]
                            IN  IF i % 2 = 1 THEN w \div 256 ELSE w % 256]
      ELSE NoAddress
=============================================================================
