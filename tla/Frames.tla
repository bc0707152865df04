------------------------------- MODULE Frames -------------------------------
(***************************************************************************)
(* The 64-byte frame that nodes, the gateway and the command line tool     *)
(* exchange (struct frame_struct_t), and the two ways it is enciphered.    *)
(*                                                                         *)
(* A frame keeps the fields some receiver reads.  The start delimiter, the *)
(* length and ipv6_source_addr are written and never read.  for_future is  *)
(* only a marker for "payload enciphered alone" (see mode below).          *)
(*                                                                         *)
(* The 16-byte payload is a member of a small set: a challenge, its hash,  *)
(* a session key, or Zero where no receiver looks at it.  The CRC is the   *)
(* tuple of the fields it covers, so two different frames never share one. *)
(***************************************************************************)
EXTENDS Naturals

CONSTANTS
  Node,           \* the metering nodes within radio reach
  Gw, Cli,        \* the gateway program (port 3000) and the relay tool (3001)
  NoAddr,         \* the all-zero IPv6 address
  Challenge,      \* the values of gen_random_num
  ZeroChallenge,  \* the challenge code of a record that was memset to zero
  Digest,         \* the values of hash
  Hash,           \* the function hash(), the same code on both sides
  Key,            \* the values gen_random_key_128 can leave in data[16]
  ZeroKey,        \* sixteen zero bytes
  KeyBegin,       \* the key compiled into every program
  Zero,           \* a payload nobody reads
  NoCrc,          \* the crc field of a frame that was never prepared
  MaxCount        \* bound: the uint32_t counters saturate here

STATE_BEGIN == 1
STATE_NORMAL == 2

REQUEST_JOIN == 1
REQUEST_HASH == 2
REPLY_HASH == 3
JOIN_SUCCESS == 4
SEND_PZEM == 5
REQUEST_LED_ON == 6
REPLY_LED_ON == 7
REQUEST_LED_OFF == 8
REPLY_LED_OFF == 9

Count == 0..MaxCount
Payload == Challenge \cup Digest \cup Key \cup {Zero}
Address == Node \cup {Gw, Cli, NoAddr}

\* The counters only matter up to the first values: a fresh frame of the
\* gateway has sequence number 0 or 1, so saturating is exact for every test.
Tick(c) == IF c < MaxCount THEN c + 1 ELSE c

gen_crc16(seq, state, cmd, data, dst) == <<seq, state, cmd, data, dst>>

Checksum == Count \X (0..2) \X (0..9) \X Payload \X Address

ASSUME FramesAssumption ==
  /\ ZeroChallenge \in Challenge
  /\ Hash \in [Challenge -> Digest]
  /\ ZeroKey \in Key    \* strcpy stops at a leading zero byte
  /\ MaxCount \in Nat \ {0, 1}
  /\ {Gw, Cli, NoAddr} \cap Node = {}
  /\ Gw # Cli
  /\ NoCrc \notin Checksum

Frame == [seq : Count, state : 0..2, cmd : 0..9, data : Payload,
          dst : Address, crc : {NoCrc} \cup Checksum]

prepare2send(dst, seq, state, cmd, data) ==
  [seq |-> seq, state |-> state, cmd |-> cmd, data |-> data, dst |-> dst,
   crc |-> gen_crc16(seq, state, cmd, data, dst)]

check_crc16(f) == f.crc = gen_crc16(f.seq, f.state, f.cmd, f.data, f.dst)

\* A frame_struct_t in static storage, or after memset(.., 0, ..).
Blank == [seq |-> 0, state |-> 0, cmd |-> 0, data |-> Zero, dst |-> NoAddr,
          crc |-> NoCrc]

\* A datagram in flight.  mode is "ecb" when only the payload is enciphered,
\* which the nodes also mark by for_future = ff..ff, and "cbc" when the whole
\* frame is.
Datagram == [from : Node \cup {Gw, Cli}, to : Node \cup {Gw, Cli},
             mode : {"ecb", "cbc"}, key : Key \cup {KeyBegin}, frame : Frame]

ecb_encrypt(from, to, f) ==
  [from |-> from, to |-> to, mode |-> "ecb", key |-> KeyBegin, frame |-> f]

encrypt_cbc(from, to, key, f) ==
  [from |-> from, to |-> to, mode |-> "cbc", key |-> key, frame |-> f]

\* The receiver deciphers with (mode, key) and the checksum holds.  The
\* cipher is ideal: the wrong mode or the wrong key never passes the CRC.
Opens(m, mode, key) ==
  /\ m.mode = mode
  /\ m.key = key
  /\ check_crc16(m.frame)
=============================================================================
