------------------------------- MODULE Codec --------------------------------
(***************************************************************************)
(* The 64 bytes of a frame, from the program that prepares it to the one   *)
(* that parses it: layout, CRC, the two ways of enciphering, and how a     *)
(* receiver tells them apart.  Module Frames takes all of this as ideal;   *)
(* here it is computed byte by byte on chosen inputs, whatever frames the  *)
(* static buffers of the node held before.  A datagram also goes to an     *)
(* address that the sender made of a text, and the gateway accepts it only *)
(* from an address whose text it finds in device.txt (Addresses).          *)
(*                                                                         *)
(* Integers wider than 16 bits are kept as bytes or as <<high, low>> pairs *)
(* of 16-bit words.                                                        *)
(***************************************************************************)
EXTENDS Aes, Addresses

CONSTANTS
  Mac,        \* the MAC addresses of nodes within reach
  DeviceList, \* the lines of device.txt, the last one unended
  Rand,       \* pairs of values of rand()
  RawKey,     \* contents of byte_array in gen_random_key_128
  Counter,    \* values of frame_counter, as four bytes
  Report      \* records [seq, reading, raw]: what a node reports, under which key

\* A word of 16 bits, and what a meter was read to show; energy is <<high, low>>.
Word == 65536
Word16Bits == 0..(Word - 1)
ReadingType == [addr : [1..4 -> Byte], power_alarm : Byte, voltage_x10 : Word16Bits,
                current_x100 : Word16Bits, power : Word16Bits, energy : Word16Bits \X Word16Bits]

\* A device: xxxx::xxxx:xxxx:xxxx:xxxx.
MAX_DEVICE == 9
DeviceText ==
  {t \in [1..25 -> 0..COLON] : \A k \in 1..25 : t[k] = COLON <=> k \in {5, 6, 11, 16, 21}}

\* Bytes are bytes, and rand() is not negative.
ASSUME CodecAssumption ==
  /\ Mac \subseteq [1..8 -> Byte]
  /\ Rand \subseteq Nat \X Nat
  /\ RawKey \subseteq [1..16 -> Byte]
  /\ Counter \subseteq [1..4 -> Byte]
  /\ Report \subseteq [seq : [1..4 -> Byte], reading : ReadingType, raw : [1..16 -> Byte]]

\* The radios are of one maker: get_my_addrress has two bytes of the MAC as a
\* constant.
ASSUME MacAssumption == \A m \in Mac : m[1] = 0 /\ m[2] = 18

\* device.txt names each device once, and no more than my_device has room for.
ASSUME DeviceListAssumption ==
  /\ Len(DeviceList) - 1 \in 0..MAX_DEVICE
  /\ \A i \in 1..(Len(DeviceList) - 1) :
       /\ DeviceList[i] \in DeviceText
       /\ \A j \in 1..(i - 1) : DeviceList[j] # DeviceList[i]

VARIABLES
  mac,         \* the node whose frames are followed
  for_future,  \* on the node: send.for_future
  receive,     \* on the node: the frame last parsed
  asked,       \* history: the challenge that frame carried
  sent,        \* history: the frame in flight, how it was enciphered, and for whom
  datagram,    \* its 64 bytes
  got          \* what the receiver made of it

vars == <<mac, for_future, receive, asked, sent, datagram, got>>

Zeros(n) == [k \in 1..n |-> 0]
Ones(n) == [k \in 1..n |-> 255]

STATE_BEGIN == 1
STATE_NORMAL == 2
REQUEST_JOIN == 1
REQUEST_HASH == 2
REPLY_HASH == 3
JOIN_SUCCESS == 4
SEND_PZEM == 5

key_begin == <<73, 60, 51, 85, 95, 89, 111, 114, 105, 45, 80, 104, 117, 111, 110, 103>>
iv == <<0, 1, 2, 3, 4, 5, 6, 7, 8, 9, 10, 11, 12, 13, 14, 15>>
ipv6_bor == <<170, 170>> \o Zeros(13) \o <<1>>
NodeAddr == SourceAddress(mac)

-----------------------------------------------------------------------------
(* Words of 16 and 32 bits *)

Xor16(a, b) == 256 * Xor8(a \div 256, b \div 256) + Xor8(a % 256, b % 256)
Low(w) == w % 256
High(w) == w \div 256

Xor32(x, y) == <<Xor16(x[1], y[1]), Xor16(x[2], y[2])>>
Add32(x, y) == <<(x[1] + y[1] + (x[2] + y[2]) \div Word) % Word, (x[2] + y[2]) % Word>>
Shl32(x, p) == <<(x[1] * p + (x[2] * p) \div Word) % Word, (x[2] * p) % Word>>

\* hash(a), with a shift to the left as a product with a power of two.  Each
\* line starts from a again; the shift by 19 leaves nothing of the word below
\* it but its top 13 bits.
hash(a) ==
  LET w == <<0, a>>
      t1 == Add32(Add32(w, <<32469, 23830>>), Shl32(w, 4096))
      t2 == Xor32(Xor32(w, <<51041, 49724>>), <<0, t1[1] \div 8>>)
      t3 == Add32(Add32(w, <<5718, 26545>>), Shl32(t2, 32))
      t4 == Xor32(Add32(w, <<54178, 25708>>), Shl32(t3, 512))
      t5 == Add32(Add32(w, <<64880, 18117>>), Shl32(t4, 8))
  IN  Xor32(Xor32(w, <<46426, 20233>>), <<0, t5[1]>>)[2]

gen_random_num(r) == 256 * (r[1] % 255) + (r[2] % 255)

-----------------------------------------------------------------------------
(* CRC *)

POLY == 33800

CrcBit(crc, bit) ==
  IF crc % 2 # bit THEN Xor16(crc \div 2, POLY) ELSE crc \div 2

CrcByte(crc, byte) ==
  LET after[i \in 0..8] ==
        IF i = 0 THEN <<crc, byte>>
        ELSE With(after[i - 1], LAMBDA s : <<CrcBit(s[1], s[2] % 2), s[2] \div 2>>)
  IN  after[8][1]

\* The two bytes of the CRC as they lie in the frame.
gen_crc16(data) ==
  LET after[i \in 0..Len(data)] ==
        IF i = 0 THEN Word - 1
        ELSE With(after[i - 1], LAMBDA c : CrcByte(c, data[i]))
  IN  With(Word - 1 - after[Len(data)], LAMBDA c : <<High(c), Low(c)>>)

check_crc16(b) == gen_crc16(SubSeq(b, 1, 62)) = SubSeq(b, 63, 64)

-----------------------------------------------------------------------------
(* Layout *)

SFD == 126
MAX_LEN == 64

\* The packed struct as it lies in memory.
Packed(f) ==
  <<f.sfd, f.len>> \o f.seq \o <<f.state, f.cmd>> \o f.payload_data
    \o f.ipv6_source_addr \o f.ipv6_dest_addr \o f.for_future \o f.crc

\* The host's version clears for_future, the node's leaves what send holds.
prepare2send(src, dst, seq, state, cmd, data, future) ==
  LET f == [sfd |-> SFD, len |-> MAX_LEN, seq |-> seq, state |-> state,
            cmd |-> cmd, payload_data |-> data, ipv6_source_addr |-> src,
            ipv6_dest_addr |-> dst, for_future |-> future, crc |-> Zeros(2)]
  IN  [f EXCEPT !.crc = gen_crc16(SubSeq(Packed(f), 1, 62))]

\* Mutant: the third byte of the number shifted like the second.
ParseSeqShifted(b) ==
  [sfd |-> b[1], len |-> b[2], seq |-> <<b[3], Low(b[4] + b[5]), 0, 0>>,
   state |-> b[7], cmd |-> b[8], payload_data |-> SubSeq(b, 9, 24),
   ipv6_source_addr |-> SubSeq(b, 25, 40), ipv6_dest_addr |-> SubSeq(b, 41, 56),
   for_future |-> SubSeq(b, 57, 62), crc |-> SubSeq(b, 63, 64)]

\* The top byte of seq is shifted into b1 and never added.
parse_64(b) ==
  [sfd |-> b[1], len |-> b[2], seq |-> <<b[3], b[4], b[5], 0>>,
   state |-> b[7], cmd |-> b[8], payload_data |-> SubSeq(b, 9, 24),
   ipv6_source_addr |-> SubSeq(b, 25, 40), ipv6_dest_addr |-> SubSeq(b, 41, 56),
   for_future |-> SubSeq(b, 57, 62), crc |-> SubSeq(b, 63, 64)]

\* Two bytes of a payload, low one first.
Pair(w) == <<Low(w), High(w)>>
Unpair(b, k) == b[k] + 256 * b[k + 1]

\* Mutant: both halves of the energy from the lower word.
PackEnergyShort(r) ==
  <<255>> \o r.addr \o <<r.power_alarm>> \o Pair(r.voltage_x10)
    \o Pair(r.current_x100) \o Pair(r.power) \o Pair(r.energy[2]) \o Pair(r.energy[2])

pack_data_PZEM(r) ==
  <<255>> \o r.addr \o <<r.power_alarm>> \o Pair(r.voltage_x10)
    \o Pair(r.current_x100) \o Pair(r.power) \o Pair(r.energy[2]) \o Pair(r.energy[1])

PRINTF_PZEM(b) ==
  [addr |-> SubSeq(b, 2, 5), power_alarm |-> b[6], voltage_x10 |-> Unpair(b, 7),
   current_x100 |-> Unpair(b, 9), power |-> Unpair(b, 11),
   energy |-> <<Unpair(b, 15), Unpair(b, 13)>>]

\* What strcpy leaves of byte_array in data[16], which was zero before.  With
\* no zero byte among the sixteen it copies them all and goes on to the next
\* zero behind byte_array; what that overwrites behind data[] is not modelled.
gen_random_key_128(raw) ==
  [k \in 1..16 |-> IF \E j \in 1..k : raw[j] = 0 THEN 0 ELSE raw[k]]

-----------------------------------------------------------------------------
(* Enciphering *)

Block(b, n) == SubSeq(b, 16 * n - 15, 16 * n)

\* Only the payload, in place.
AES128_ECB_encrypt(b, key) ==
  SubSeq(b, 1, 8) \o Cipher(KeyExpansion(key), SubSeq(b, 9, 24)) \o SubSeq(b, 25, 64)

AES128_ECB_decrypt(b, key) ==
  SubSeq(b, 1, 8) \o InvCipher(KeyExpansion(key), SubSeq(b, 9, 24)) \o SubSeq(b, 25, 64)

\* One call for all four blocks: Iv is the block just written.
encrypt_cbc(b, key) ==
  With(KeyExpansion(key), LAMBDA ks :
    LET written[n \in 0..4] ==
          IF n = 0 THEN iv
          ELSE With(written[n - 1], LAMBDA w :
                 w \o Cipher(ks, XorBytes(Block(b, n), Block(w, n))))
    IN  SubSeq(written[4], 17, 80))

\* One call of AES128_CBC_decrypt_buffer for one block.
CbcDecrypt(ks, chain, block) == XorBytes(InvCipher(ks, block), chain)

\* Mutant: every call is handed the initial vector again.
DecryptIvAgain(b, key) ==
  With(KeyExpansion(key), LAMBDA ks :
    CbcDecrypt(ks, iv, Block(b, 1)) \o CbcDecrypt(ks, iv, Block(b, 2))
      \o CbcDecrypt(ks, iv, Block(b, 3)) \o CbcDecrypt(ks, iv, Block(b, 4)))

\* Four calls, one for each block: the later ones go on with the key and the
\* Iv that the first left in the static variables.
decrypt_cbc(b, key) ==
  With(KeyExpansion(key), LAMBDA ks :
    CbcDecrypt(ks, iv, Block(b, 1)) \o CbcDecrypt(ks, Block(b, 1), Block(b, 2))
      \o CbcDecrypt(ks, Block(b, 2), Block(b, 3))
      \o CbcDecrypt(ks, Block(b, 3), Block(b, 4)))

\* Mutant: the loop goes one byte too far, into the CRC.
MarkerTooLong(b) == \A i \in 57..63 : b[i] = 255

\* The marker of a frame with only its payload enciphered.  rev_buffer is
\* char, signed on the host: 0xff is -1 and equals 0xffffffff.
check_statedata_rev(b) == \A i \in 57..62 : b[i] = 255

-----------------------------------------------------------------------------
(* One frame after another *)

Blank == [cmd |-> 0]
NotYet == [opened |-> FALSE, mode |-> "none"]
Nobody == [to |-> "nobody"]

Ready == sent = Nobody \/ got # NotYet

Send(f, mode, key, to, dest, challenge, reading) ==
  /\ Ready
  /\ sent' = [frame |-> f, mode |-> mode, key |-> key, to |-> to, dest |-> dest,
              asked |-> challenge, reading |-> reading]
  /\ datagram' = IF mode = "ecb" THEN AES128_ECB_encrypt(Packed(f), key)
                                 ELSE encrypt_cbc(Packed(f), key)
  /\ got' = NotYet
  /\ UNCHANGED <<mac, receive, asked>>

\* send2bor_begin
NodeBegins(seq, cmd, data, challenge) ==
  /\ for_future' = Ones(6)
  /\ Send(prepare2send(get_my_addrress(mac), set_border_router_address, seq,
                       STATE_BEGIN, cmd, data, Ones(6)),
          "ecb", key_begin, "gateway", set_border_router_address, challenge, 0)

NodeJoins == \E seq \in Counter : NodeBegins(seq, REQUEST_JOIN, Zeros(16), 0)

\* Mutant: the hash of the lower byte of the challenge.
HashLowByte ==
  /\ receive.cmd = REQUEST_HASH
  /\ NodeBegins(<<1, 0, 0, 0>>, REPLY_HASH,
                Pair(hash(receive.payload_data[1])) \o Zeros(14), asked)

NodeReplies ==
  /\ receive.cmd = REQUEST_HASH
  /\ NodeBegins(<<1, 0, 0, 0>>, REPLY_HASH,
                Pair(hash(Unpair(receive.payload_data, 1))) \o Zeros(14), asked)

\* send2bor_normal
NodeReports ==
  \E r \in Report :
    /\ for_future' = Zeros(6)
    /\ Send(prepare2send(get_my_addrress(mac), set_border_router_address, r.seq,
                         STATE_NORMAL, SEND_PZEM, pack_data_PZEM(r.reading), Zeros(6)),
            "cbc", gen_random_key_128(r.raw), "gateway", set_border_router_address,
            0, r.reading)

\* The relay reply is prepared over whatever send held before, and goes to the
\* host that the command came from.
NodeAnswersTool ==
  \E cmd \in {7, 9} :
    /\ Send(prepare2send(get_my_addrress(mac), set_border_router_address, Zeros(4),
                         STATE_NORMAL, cmd, Zeros(16), for_future),
            "cbc", key_begin, "tool", ipv6_bor, 0, 0)
    /\ UNCHANGED for_future

\* The line of device.txt that is the address a datagram came from.
my_device_pos == check_my_device_list(DeviceList, ipv6_to_str_unexpanded(NodeAddr))

\* The answer goes to the address whose text the sender's was turned into.
GatewayAnswers(seq, cmd, data, challenge) ==
  /\ my_device_pos # 0
  /\ Send(prepare2send(ipv6_bor, NodeAddr, seq, STATE_BEGIN, cmd, data, Zeros(6)),
          "ecb", key_begin, "node", getaddrinfo(ipv6_to_str_unexpanded(NodeAddr)),
          challenge, 0)
  /\ UNCHANGED for_future

GatewayChallenges ==
  \E r \in Rand :
    LET c == gen_random_num(r)
    IN  GatewayAnswers(Zeros(4), REQUEST_HASH, Pair(c) \o Zeros(14), c)

GatewaySendsKey ==
  \E raw \in RawKey :
    GatewayAnswers(<<1, 0, 0, 0>>, JOIN_SUCCESS, gen_random_key_128(raw), 0)

\* The user copies the address from the page of the border router, or from the
\* table that the gateway prints.
ToolCommands ==
  \E cmd \in {6, 8}, dst_ipv6addr \in {ipaddr_add(NodeAddr), ipv6_to_str_unexpanded(NodeAddr)} :
    /\ Send(prepare2send(ipv6_bor, Zeros(16), Zeros(4), STATE_NORMAL, cmd,
                         key_begin, Zeros(6)),
            "cbc", key_begin, "node", getaddrinfo(dst_ipv6addr), 0, 0)
    /\ UNCHANGED for_future

Opened(plain, mode, key) ==
  IF check_crc16(plain)
  THEN [opened |-> TRUE, mode |-> mode, key |-> key, frame |-> parse_64(plain)]
  ELSE [opened |-> FALSE, mode |-> mode, key |-> key]

Decipher(mode, key) ==
  got' = With(IF mode = "ecb" THEN AES128_ECB_decrypt(datagram, key)
                              ELSE decrypt_cbc(datagram, key),
              LAMBDA plain : Opened(plain, mode, key))

\* In the BEGIN loop the node takes every datagram for ECB, in the NORMAL
\* loop for CBC under key_begin.
NodeReceives ==
  /\ sent.to = "node" /\ sent.dest = NodeAddr /\ got = NotYet
  /\ \E mode \in {"ecb", "cbc"} : Decipher(mode, key_begin)
  /\ receive' = IF got'.opened THEN got'.frame ELSE receive
  /\ asked' = IF got'.opened THEN sent.asked ELSE asked
  /\ UNCHANGED <<mac, for_future, sent, datagram>>

\* The sender is not in the list.
GatewayDenies ==
  /\ sent.to = "gateway" /\ got = NotYet
  /\ my_device_pos = 0
  /\ got' = [opened |-> FALSE, mode |-> "none", key |-> <<>>]
  /\ UNCHANGED <<mac, for_future, receive, asked, sent, datagram>>

\* The gateway may hold another key for the node than the node has.
GatewayReceives ==
  /\ sent.to = "gateway" /\ got = NotYet
  /\ my_device_pos # 0
  /\ IF check_statedata_rev(datagram)
     THEN Decipher("ecb", key_begin)
     ELSE \E raw \in RawKey : Decipher("cbc", gen_random_key_128(raw))
  /\ UNCHANGED <<mac, for_future, receive, asked, sent, datagram>>

ToolReceives ==
  /\ sent.to = "tool" /\ got = NotYet
  /\ Decipher("cbc", key_begin)
  /\ UNCHANGED <<mac, for_future, receive, asked, sent, datagram>>

Init ==
  /\ mac \in Mac
  /\ for_future = Zeros(6) /\ receive = Blank /\ asked = 0
  /\ sent = Nobody /\ datagram = <<>> /\ got = NotYet

Next ==
  \/ NodeJoins \/ NodeReplies \/ NodeReports \/ NodeAnswersTool
  \/ GatewayChallenges \/ GatewaySendsKey \/ ToolCommands
  \/ NodeReceives \/ GatewayDenies \/ GatewayReceives \/ ToolReceives

Spec == Init /\ [][Next]_vars

-----------------------------------------------------------------------------
(* Properties *)

Handled == sent # Nobody /\ got # NotYet

\* A receiver accepts a datagram exactly when it deciphers it the way, and
\* with the key, it was enciphered: what Opens in Frames says.  A frame that
\* reaches the node in the other loop, or the gateway under another key, is
\* rejected by its CRC (server.c:330, 375; test.c:395).
OpensIsExact ==
  Handled => (got.opened <=> got.mode = sent.mode /\ got.key = sent.key)

\* The gateway opens every frame of the join that it does not deny, although
\* it has to see from the enciphered bytes which way to decipher them: the
\* marker lies outside the payload and is set for every such frame, whatever
\* the buffer held (server.c:218-220, 239-241; test/util.c:378, test.c:385).
JoinOpens ==
  Handled /\ sent.to = "gateway" /\ sent.mode = "ecb" /\ got.mode # "none" => got.opened

\* The gateway gives the record of a device to the frames of that device only:
\* the text it makes of the sender's address is in the list exactly when the
\* list has a line that is read as this address, the record has the number of
\* that line, and the frame names the same address (test.c:374-379).
SenderFound ==
  Handled /\ sent.to = "gateway" =>
    LET lines == {j \in 1..(Len(DeviceList) - 1) : getaddrinfo(DeviceList[j]) = NodeAddr}
    IN  IF got.mode = "none"
        THEN lines = {}
        ELSE lines = {my_device_pos} /\ sent.frame.ipv6_source_addr = NodeAddr

\* An answer or a command goes to the node it is meant for, although its
\* address was turned into one of two texts and back (test.c:184-190,
\* border-router.c:127-144, test_cli.c:163).
ReachesNode ==
  sent # Nobody /\ sent.to = "node" => sent.dest = NodeAddr

\* What a receiver accepts and parses is what the sender prepared, field by
\* field and for every history of the node's static buffers; of the sequence
\* number it keeps the lower 24 bits (test/util.c:99-143).
FrameArrives ==
  Handled /\ got.opened =>
    got.frame = [sent.frame EXCEPT !.seq[4] = 0]

\* The values the gateway prints are the values the node read, over the whole
\* width of each (udp-server/util.c:208-232, test/util.c:432-472).
ReportArrives ==
  Handled /\ got.opened /\ sent.frame.cmd = SEND_PZEM =>
    PRINTF_PZEM(got.frame.payload_data) = sent.reading

\* The reply of a node to a challenge is the hash the gateway compares it
\* with, after both crossed the wire (server.c:234-237, test.c:210-213).
ReplyMatches ==
  Handled /\ got.opened /\ sent.frame.cmd = REPLY_HASH =>
    Unpair(got.frame.payload_data, 1) = hash(sent.asked)
=============================================================================
