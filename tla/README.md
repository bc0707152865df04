# A formal model of the AdaptiveSEC metering system

The repository is a small metering network: OpenMote (CC2538) nodes read a
PZEM-004T energy meter, report it over 6LoWPAN to a program on a Linux host,
and switch a relay when the operator asks. Before a node may report it joins
the host with a challenge and is given a session key.

This directory holds TLA+ modules translated from that source, the
configurations TLC checks them under, and proofs checked by TLAPS. Paths in
this file are relative to `src/`; line numbers refer to the same commit.

## 1. The system

```
  PZEM-004T --UART1-- node (udp-server) ~~6LoWPAN~~ border router --SLIP-- Linux host
   meter               server.c                     border-router.c        test/test.c      port 3000
                       PZEM004T.c                   slip-bridge.c          test_cli.c       port 3001
                       my_leds.c -> relay
```

All datagrams are the same 64-byte `frame_struct_t`. A frame goes out either
with only its 16-byte payload enciphered in ECB under the key compiled into
every program (`key_begin`), or as a whole in CBC under the session key
(reports) or `key_begin` (relay commands and replies).

| Component | Source | State | Operations | Talks to |
|---|---|---|---|---|
| Node firmware | `udp-server/server.c`, `server.h` | loop it is in (`state`), `begin_cmd`, retransmission flag, last frame received, session key, frame counter, `etimer`, relay pin | `start_up`, BEGIN loop with `tcpip_begin_handler` and timer branch, NORMAL loop with `tcpip_normal_handler` and `timeout_normal_handler`, `send2bor_*` | gateway and relay tool by UDP, meter by UART, relay by a pin |
| PZEM-004T driver | `udp-server/PZEM004T.c`, `uart1_callback` in `server.c:131` | assembly buffer and index, `rx_count`, `PZEM_data_t`, step of the poll cycle | `send_to_PZEM`, `uart1_callback` (interrupt), `recv_from_PZEM`, `parse_PZEM`, `pack_data_PZEM` | meter; shared variables with the process of the node |
| Relay and LEDs | `udp-server/my_leds.c` | level of the pin | `my_leds_on`, `my_leds_off`, never called: `toggle`, `get` | called by the node firmware |
| Gateway | `test/test.c`, `test/util.c`, `test/test.h` | `my_device[]` read from `device.txt`, static answer frame `send_device`, the length word of `recvfrom` | receive loop: `REQUEST_JOIN`, `REPLY_HASH` (match, mismatch, duplicate), report, ignore; `PRINT_ALL` | nodes by UDP port 3000 |
| Relay tool | `test_cli/test_cli.c` | one run: command, wait, report | send, receive one datagram, time out after `TIMEOUT_ACK` | nodes by UDP port 3001 |
| Frame codec | `*/util.c` | static buffers of the node; `device.txt` on the host | `prepare2send`, `gen_crc16`, `check_crc16`, `parse_64`, `pack`, `hash`, `gen_random_*`, ciphers, conversions between addresses and texts, look-up in `device.txt` | used by all programs |
| Border router, SLIP bridge | `rpl-border-router/border-router.c`, `slip-bridge.c` | `prefix_set`, `prefix`, `last_sender`, `debug_frame` | prefix request every second, configuration messages, `output`, `putchar` | host by SLIP, RPL |
| Web page | `rpl-border-router/httpd-simple.c`, `generate_routes` in `border-router.c` | pool `conns` of connection blocks with two psock threads each; static `buf`, `blen` and iterators shared by all of them | `httpd_appcall` (connect, request, answer, acknowledgement, retransmission, poll, end), the 10 s timer | uIP, tables of neighbours and routes. Built with `WITH_WEBSERVER=1`; the Makefile's default is 0 |
| AES | `tiny_aes.c`, `aes.c` (vendored) | static `state`, `RoundKey`, `Iv`, `Key` | ECB and CBC on blocks of 16 bytes | codec |
| Contiki, RPL, AdaptiveSEC | not in the repository | - | `etimer`, uIP, MAC | everything on the nodes |
| Earlier variants | `test-uart/`, `cli_cua_thay.c`, `udp-echo-server.c` | - | - | superseded programs |

### How it can go wrong

The programs are short, but they run against each other over a lossy path and
most of the difficulties are between them:

* **Join.** `REQUEST_JOIN -> REQUEST_HASH(challenge) -> REPLY_HASH -> JOIN_SUCCESS(key)`,
  with the node retrying at every timer expiry. The gateway builds every answer
  in one static frame, keeps a copy per device for duplicates, and sets
  `authenticated` on a path shared by right and wrong hashes. The node keeps one
  flag with opposite meanings in the two phases of the join.
* **The protothread and its timer.** Contiki queues the event of an `etimer`; a
  packet that arrives between expiry and event is consumed by the timer branch
  and never read, and the event is then found with the timer re-armed.
* **Crash and restart.** Neither the node nor the gateway stores anything.
* **The relay tool** takes whatever arrives first on its port for its answer.
* **The meter.** The receive interrupt assembles seven bytes with no timeout; it
  shares `PZEM_data_t` and `rx_count` with the process that packs a report.
* **The border router** asks for its prefix until it comes, may get it twice, and
  takes prefixes and the last sender from one buffer; packets and debug output
  share the serial line.
* **Bytes.** A `char` comparison with `0xffffffff` tells the two kinds of
  frame apart, the marker lives in a buffer the node never clears, CBC is undone
  by four calls that share static state, keys are copied with `strcpy`.
* **Texts.** A node is found by the text of its address, an answer finds its way
  through another text; both leave something out.
* **The web page.** The threads of all connections write one static buffer and
  advance static iterators while the tables change.
* **Widths.** `uint16_t` voltage, `uint32_t` counters, a 24-bit parse of the
  sequence number.

`PROJECT.json` lists every such hazard at its line with the properties aimed at
it.

### What makes each component correct

* Node: its session key is one the gateway generated, and for this node; it
  never falls silent while joining; relay state and relay replies agree.
* Gateway: only listed devices join; the record of a device agrees with the
  device; `authenticated` means a challenge was answered; what it sends
  verifies and reaches the node it names; frames of a session are counted in
  order.
* Relay tool: it reports what happened.
* Meter driver: a report holds what was measured in its cycle; a disturbance
  does not silence the meter for ever; the buffer is never overrun.
* Border router: it comes up, with its radio on only as the root; it passes what
  the mesh sends and bounces nothing; the line stays readable.
* Web page: no connection overruns the buffer or leaks a block; every connection
  ends; a client that is alone receives the page.
* Codec: a frame opens under its own key and mode only, as what was prepared, and
  sender and receiver of a frame are the nodes meant.

## 2. The modules

Arrows point from a module to those that extend or instantiate it.

```
Frames --> Network --> Node, Gateway, RelayCli --> MeteringSystem
SessionKeys, SecureJoin --(abstract)--> MeteringSystem
MeteringSystem --> SingleFlight --> MCMetering
MeteringSystem --> LossHistory --> MCLossHistory
MeteringSystem --> MeteringSystemProofs
SingleFlight, MeteringSystemProofs --> SingleFlightProofs
Meter          --> MCMeter, MeterProofs
BorderRouter   --> MCBorderRouter, BorderRouterProofs
WebServer      --> MCWebServer
WebServer, Recursion --> WebServerProofs
Aes, Addresses --> Codec --> MCCodec
Aes, Recursion --> AesProofs
Codec, AesProofs --> CodecProofs
```

| Module | Models | State and actions against the code |
|---|---|---|
| `Frames` | the frame, its CRC, the two ciphers | A frame is a record of the fields some receiver reads: `seq`, `state`, `cmd`, `data`, `dst`, `crc`. `prepare2send` and `check_crc16` are translated; `Opens` says when a receiver deciphers a datagram to a frame whose CRC holds. |
| `Network` | radio, border router, SLIP, host UDP (external) | `net`, a set of datagrams in flight. `Post` drops when a node's queue is full, `Delivered` may leave a copy behind, `Lose` loses one. |
| `Node` | `server.c` | One action per run of the protothread from one `PROCESS_YIELD` to the next: `BeginTimer`, `BeginReceive`, `BeginOverrun` (a packet takes the timer branch), `BeginStaleEvent` (the event of a timer already dealt with), the same four for NORMAL, `Reboot`. `Resume` is the rest of the BEGIN loop to its next yield. `timer` is `"running"`, `"expired"` (event queued) or `"stale"` (re-armed while the event is queued). |
| `Gateway` | `test.c` | One action per turn of the receive loop, by what it does with the datagram: `Join`, `ReplyMatch`, `ReplyMismatch`, `ReplyDuplicate`, `process_normal`, `Ignore`; `Restart` is the end and a new start of the program. `addrlen` is the word `recvfrom` takes for the length of its address buffer. `issued` is a history variable: the keys the program printed as generated. |
| `RelayCli` | `test_cli.c` | `CliRun`, `CliReceive`, `CliTimeout`: one run after another; `CliUnbound`: a datagram arrives with no run there to read it. |
| `MeteringSystem` | the composition | `Next`, `Fairness`, the safety properties, the inductive invariant, the two refinement mappings. |
| `SessionKeys` | abstract: what the join is for | `Grant`, `TakeUp`, `Forget`: a node takes up a granted key and keeps it until it reboots. Implemented under every fault (`KeysAsPromised`); the mapping is `session` = the key of a node in `STATE_NORMAL`, `granted` = `issued`. |
| `SecureJoin` | abstract: the join the two programs mean | `BeChallenged`, `Grant` (only to a device that is answering), `Join` (only with a key granted to the node itself), `Reboot`. Implemented while round trips are short and the gateway keeps running (`JoinAsPromised`); findings 2 and 3 are why it is not implemented otherwise. |
| `SingleFlight` | what holds while round trips are shorter than the timers | Definitions only: `FlightInv` and `JoinInv`, the inductive invariants behind the properties that need that assumption. |
| `LossHistory` | what holds over a link that loses datagrams | `MeteringSystem` with fairness and a history variable `lost`: the keys on their way (`Grants`) and the datagrams of the tool's present run (`OfTool`) that `Lose` has taken. Only `Loses` adds to it, so a datagram that a handler takes and drops is not in it. |
| `Meter` | poll cycle, `uart1_callback`, parser, packing | `Poll` is `timeout_normal_handler` in cases 1-6, `PackFirst`/`PackRest` the two halves of `pack_data_PZEM` between which the interrupt may run, `send2bor_emergency` the incomplete cycle, `ReceiveByte` and `Noise` the interrupt. Bytes are bytes: checksum and head codes are computed. |
| `Aes` | `tiny_aes.c` (the host's `aes.c` is the same code; so are the copies in `test_cli`; a definition is mapped to one of them) | AES-128 on sequences of 16 bytes, with the tables and steps of the source. |
| `Codec` | the 64 bytes: `util.c` of node and host, and the calls of it in `server.c`, `test.c`, `test_cli.c` | One action per frame a program prepares and sends (`NodeJoins`, `NodeReplies`, `NodeReports`, `NodeAnswersTool`, `GatewayChallenges`, `GatewaySendsKey`, `ToolCommands`) and per program that receives one. `for_future` and `receive` are what the node's static buffers keep from frame to frame; `sent` and `asked` are history. `NodeAddr` is the address of the node at hand; `GatewayDenies` is a datagram whose sender `device.txt` does not list. `MacAssumption` and `DeviceListAssumption` say which nodes and which `device.txt` the code is meant for (see *Addresses* below). |
| `Addresses` | the conversions of `util.c` and `border-router.c` between addresses and texts, reading and searching `device.txt` | Pure operators: `get_my_addrress`, `ipv6_to_str_unexpanded`, `ipaddr_add` (the `::` form), `ReadLine` and `check_my_device_list`, and what `getaddrinfo` makes of a text (external). A text is a sequence of characters, a hexadecimal digit being its value. Loops over words, lines and colons are recursive functions, so that they can be reasoned about. |
| `BorderRouter` | `border-router.c`, `slip-bridge.c` | `Continue` is one turn of the request loop (`Ask`) or what follows it (`ComeUp`), `SlipInput` is `slip_input_callback` with `set_prefix_64`, `MeshPacket` a packet handed to `output`, `Reboot` a power cycle. `uip_buf` is kept as the three pieces that prefixes and source addresses are read from. `tx` holds the line's unread tokens and `debug_frame`. The host (`HostReads`, `HostAnswers`, `HostSends`) and the line (`LineLoses`) are external; `seen` and `given` are history. |
| `WebServer` | `httpd-simple.c`, `generate_routes` and its helpers | `Connect`, `Refuse`, `ReadMethod`, `ReadPath`, `Reject`, `ReadOn`, `Acked`, `Retransmit`, `Poll`, `End` are the events uIP passes to `httpd_appcall`; `Top`, `Neighbor`, `Route` and the others (`Script`) the steps of a thread between two `PSOCK_SEND`s, `running` saying whose. A line of the page is as many equal cells as it is wide. `got`, `clean` and `stable` are history. |
| `MCMetering`, `MCLossHistory`, `MCMeter`, `MCBorderRouter`, `MCWebServer`, `MCCodec` | instances | values a `.cfg` cannot write. |
| `Recursion` | - | Lemmas on functions defined by recursion over an interval of numbers: they exist and keep their range. Shared by the proofs about the web page, AES and the codec with its addresses. |
| the seven modules `*Proofs` | theorems | see section 6. |

Operators in `Node`, `Gateway`, `Meter`, `BorderRouter`, `WebServer`, `Addresses` and `Codec` that a comment calls a *mutant* are
wrong versions of the operator beside them. They are used by nothing; putting
one in place of the right operator must break the property named for it in
`PROJECT.json`, which shows that the property depends on that code.

### Abstractions

* **Payload.** A challenge, its hash or a key is a member of a small set. The
  initial record has the zero challenge and the zero key, and both are also
  values the generators can return, so that "not yet set" and "set to zero" are
  confused exactly where the code confuses them.
* **CRC and ciphers.** The CRC is the tuple of the fields it covers; the wrong
  key or mode never passes it. Collisions of CRC-16 are not modelled. `Codec`
  checks on computed bytes that the frames of the programs do behave so
  (`OpensIsExact`, `FrameArrives`), and that the right key and mode always pass
  is proved there for all frames (`SameKeyAlwaysOpens`).
* **Counters** saturate at `MaxCount`; the code compares them with nothing, and
  `ReceivedWithinNumbered` compares two that saturate alike. The sequence
  number of a gateway frame is 0 or 1 where it matters. The 24 bits a parser
  keeps of a sequence number are in `Codec` only.
* **`strcpy` of a key.** When none of its sixteen bytes is zero the copy runs on
  to the next zero byte behind the array. `Codec` models the sixteen bytes of the
  result; what the rest overwrites is left out.
* **Addresses.** `MacAssumption`: a MAC begins with `00:12`. The firmware writes
  `0212` as a constant into the source field of its frames (`udp-server/util.c:77`)
  and takes only the last six bytes from the radio; for a radio of another maker
  the address in the frame would not be that of the node. `DeviceListAssumption`:
  every line of `device.txt` but the unended last one is of the form
  `xxxx::xxxx:xxxx:xxxx:xxxx`, no two are the same, and there are at most
  `MAX_DEVICE`, as in the file of the repository; nothing in the code checks it.
* **Report contents** are left out of `Node`: whether a NORMAL timer run sends
  (`NormalTimer`) is open there and determined in `Meter`.
* **Router's line.** A debug line is three tokens, a frame one, each between
  `END`s. `PRINTF` writes in `slip-bridge.c` (`DEBUG_PRINT`) and not in
  `border-router.c`, whose `DEBUG_PRINTF` is no debug level; `PRINTA` always
  writes. The list of addresses is printed as one line.
* **Router's addresses.** `PrefixAssumption`: bytes 6 and 7 of a prefix, zeros
  and hexadecimal digits differ from the first two bytes of every node's
  address. It holds of `aaaa::/64` and `fd00::/64`, where bytes 6 and 7 are zero.
  It is what keeps `last_sender` harmless after a configuration message; under a
  prefix that repeats its first bytes there, packets of a node could be dropped.
* **Web page.** The contents of `buf` are kept only for a client that has had the
  server for itself; with several the pages mix, as a comment of the source
  (`border-router.c:65`) concedes, and only lengths and places are followed.
  Each string constant and heading is one cell. A free block is kept as
  `Connect` would leave it. uIP reports the end of a connection once; its
  FIN timeouts are part of `End`. A neighbour's line is at most 39 characters and
  a newline: `PrintedLength` proves it of the text, and TLC evaluates it on samples
  (`TextsAreRead`, an assumption of `MCCodec`); `uip_ds6_nbr_next(NULL)` is taken to be `NULL`. The 404 branch is
  never taken: `httpd_simple_get_script` knows one script for every name.
* **Environment.** `Faults` says what the environment does. Without `"late"` a
  timer expires, an operator acts and a node reboots only while nothing of that
  node is in flight (`Quiet`): the round trip is shorter than the timers
  (seconds against milliseconds), which is how the system was meant to run.
  With `"late"` that assumption is dropped and datagrams may be duplicated.

* **Copies.** `src/test/util.c` and `src/test_cli/util.c` are the same text byte
  for byte. What only the gateway calls is mapped to `test/util.c`, which it links;
  `Codec` and `Addresses`, which speak of both host programs, are mapped to the
  copy in `test_cli`.
* **RPL.** `rpl_set_root` is taken to return a DAG: the branch of
  `set_prefix_64` for `NULL` (`border-router.c:393-394`), which leaves
  `prefix_set` at 1 without a root, is not modelled.

## 3. The runs

Instances: one or two nodes, two challenges, two hashes, two keys.

| Run | Configuration | Checks | Shows |
|---|---|---|---|
| `single_flight` | two nodes, one listed, one relay target; loss, reboot, restart | `TypeOK`, `OnlyListedJoin`, `SessionAgreement`, `ReceivedWithinNumbered`, `CliReportsRelay`, `CountsInOrder`, `FlightInv` | While round trips are shorter than the timers, node and gateway never hold different keys (a gateway restart forgets the session whole), frames are counted in the order of their numbers and never more than were numbered (but for one, the request, while a device joins), the relay tool tells the truth, an unlisted node never joins, and the invariant of the proofs is an invariant. |
| `two_devices` | two listed nodes; loss, reboot | `KeyIsOwn`, `JoinInv`, `JoinAsPromised` | The one static answer frame does not hand one node's key to the other, record and node agree at every step, and the two programs implement `SecureJoin`. |
| `late_join` | one listed node; loss, late and duplicated datagrams, reboot, restart | `KeysComeFromGateway`, `DoneTracksPhase`, `IInv`, `KeysAsPromised` | Nothing but generated keys is installed, a joining node never falls silent, the invariant of the proofs is an invariant, and the two programs implement `SessionKeys`. |
| `lossy_liveness` | two listed nodes, one relay target; loss | `JoinCompletes`, `RelayCommandAnswered` | Both nodes join unless the JOIN_SUCCESS itself is lost (`KeyLost`: finding 1 makes that loss final), although the gateway always drops its first datagram; a relay command to a joined node is reported back unless it or its reply is lost (`ExchangeLost`). Both exceptions are read off `lost`, so they hold only if the link has really lost that datagram: a node that takes a key or a command and does nothing breaks the property. |
| `meter` | at most two lost bytes or answers, or one spurious byte | `MeterTypeOK`, `ReportsWhatWasMeasured`, `ReportsResume` | The buffer is never overrun; a report carries what the meter measured in its own cycle; after disturbances reports come again. |
| `codec` | any sequence of frames, chosen field values | `OpensIsExact`, `JoinOpens`, `FrameArrives`, `ReportArrives`, `ReplyMatches`, `SenderFound`, `ReachesNode` | A receiver accepts a frame exactly under the key and mode it was enciphered with, the gateway tells the two modes apart and opens every frame of the join, the receiver parses what was prepared (24 bits of the number), and challenge replies and readings survive packing, whatever the node's buffers held. The gateway gives a frame the record of its sender or, if `device.txt` has no line for it, none; every answer and command finds its node through the text made of its address. |
| `border_router` | two prefixes, two nodes, a host; lost and late frames, reboot | `TypeOK`, `RadioOnlyAsRoot`, `RootOnHostsPrefix`, `NoBounce`, `FramesIntact`, `MeshPacketsPass`, `RadioComesUp` | The router comes up although requests and answers are lost, only as root under a prefix the host gave out; it passes every packet of the mesh and bounces none, whatever the shared buffer held; debug lines and frames do not tear each other. |
| `web_server` | three clients, two blocks; tables that change, lost segments, clients that fall silent | `TypeOK`, `BufferFits`, `SendsWithinBuf`, `PoolSound`, `PageOfOnlyConnection`, `ConnectionsEnd` | No interleaving of the threads overruns the buffer or reads outside it, no end of a connection leaks a block, a client that is alone receives the page whatever earlier ones left behind, and every connection ends. |
| `duplicate_reply` | loss | `GatewayFramesVerify` violated | finding 1 |
| `late_challenge` | late | `AuthenticatedMeansChallenged` violated | finding 2 |
| `stale_answer` | two nodes, restart | `AddressedToReceiver` violated | finding 3 |
| `late_relay_reply` | late | `CliReportsRelay` violated | finding 4 |

### Bounds and why they are enough

* `QueueCap` (2, at most): datagrams of one node in flight. Two are needed for a
  datagram to overtake another; every hazard in the list that involves order
  needs two.
* `MaxCount`: 2, a saturated counter is one that has counted at least two
  frames and the properties compare for order only; 3 in `single_flight`, where
  `CountsInOrder` needs numbers below the bound to be skipped.
* Two challenges and two keys: one more than what an old and a new session need
  to be told apart. Two nodes: one pair is what a confusion of nodes needs.
* `NodeSymmetry` in `two_devices` only, where both nodes are listed, none is
  commanded and only safety properties, alike for both nodes, are checked.
* `MaxGlitches = 2` in `meter`, all three `Disturbances` allowed. A byte that nobody sent takes up the whole
  bound: together with a lost byte it can transpose two bytes of an answer, and
  a sum of bytes does not see that. That limit is the meter's protocol, not this
  code.
* `Sample` in `MCMeter`: two voltages, load off and on, and all-zero answers. An
  all-zero answer ends in a checksum byte that is itself the code of an answer,
  so the assembler can lock on the wrong byte: the case that makes
  `ReportsResume` and `ReportsWhatWasMeasured` hard.
* `codec`: three MACs (listed; listed, with two runs of zeros in its address; not
  listed); three pairs of random bytes, three counters, four readings; field values at the borders of their bytes; challenges with a zero
  and a non-zero byte in each place; keys without a zero byte, with one in the
  middle, with one in front. Each frame is independent of the others but for
  `for_future` and `receive`, so one frame at a time in flight is enough. The
  cipher itself is compared with the example of FIPS 197 (`CipherIsAes`), and a
  frame that decipherment does not invert fails its CRC in the run.
* `border_router`: the router writes only while at most `MaxOut = 3` tokens are
  unread, so several lines and frames follow each other there; `MaxIn = 3` frames on
  the way to the router let a late answer follow packets and other answers, and
  one place is left for an answer so that traffic cannot crowd it out. Two
  prefixes tell an old answer from a new one; each node has an address under one
  of them.
* `web_server`: three clients on two blocks, so that one is refused and a block
  is used again; a buffer of 7 cells with a margin of 3 and lines of 1 and 2 cells, so
  that the table of neighbours needs a flush in its middle; segments of 3 cells,
  so that a full buffer takes several.
* In `meter` the line is quiet when the timer expires (`LineQuiet`): an answer of
  seven bytes at 9600 baud takes some 7 ms, the timer 5 s.

### Fairness

`LossySpec` conjoins `Fairness` of `MeteringSystem`; the meter, the border router
and the web server have their own. No safety property needs any.

* Timers expire and their events are dispatched: weak fairness (`TimerExpires`,
  `NodeTimer`). Contiki's etimer process polls, and nothing in the code stops it.
* A handler runs if a datagram for it keeps arriving: strong fairness for each
  node and sender, and at the gateway for each node and command. A link may lose
  any number of datagrams, but not every one of a kind for ever.
* A run of the relay tool ends: weak fairness (`select` has a timeout).
* A meter that is asked answers and its bytes arrive: weak fairness; `NoAnswer`
  and `LoseByte` are limited by `MaxGlitches`.
* Web page: a thread that may run does, uIP polls, a closed connection is reported
  as ended, the timer expires: weak fairness. That a client acknowledges or
  sends is not assumed.
* The border router's timer expires and the host reads its line: weak fairness.
  Its processes run and its frames are read: strong fairness for `Continue` and
  `SlipInput`, whose guard `Room` is a bound of the model and not of the code.
  Strong fairness of `HostAnswers` and `SlipConfig`: the line may lose any number
  of requests and answers, but not all of them for ever.

## 4. Findings

1. **A repeated REPLY_HASH gets an answer that cannot verify** (`test/test.c:243`).
   The copy of the last answer is given a new sequence number under the old CRC.
   If the first JOIN_SUCCESS is lost the node rejects every later one. Since the
   gateway answers every retry this way the join never ends; `JoinCompletes` is
   therefore stated up to the loss of that one datagram (`KeyLost`).
2. **A wrong hash authenticates** (`test/test.c:266`). The test at line 213 has
   no `else`: after a mismatch the record is marked `authenticated = 'Y'`. A
   challenge overtaken by a second one is enough to get there.
3. **The stale static frame** (`test/test.c:213, 255`). On a mismatch
   `send_device` is sent as it is: it may be the answer built for another node,
   with that node's key. Its CRC holds and the node looks at neither address nor
   sequence number. `KeyIsOwn` and `JoinAsPromised` therefore hold without gateway restarts
   and late datagrams only, and `SessionAgreement` with restarts only if one
   device is listed.
4. **The relay tool believes the first datagram** (`test_cli/test_cli.c:184-206`),
   the late reply of an earlier run included.

Not stated as findings, because no text of the repository says otherwise: a
report counted twice when datagrams are late or duplicated (`check_seq` is unused;
`CountsInOrder` holds without such datagrams), and sessions
that a gateway restart leaves half open (the node goes on sending reports).

## 5. Not modelled, and why

* Border router: `rpl_repair_root` on a press of the button, which happens inside
  RPL; a reboot in the middle of a frame on the line; the border router is not
  composed with the metering protocol, where it is part of the unreliable path
  in `Network`.
* Web page: the contents of pages sent to several clients at once (see above);
  TCP itself, which is uIP's.
* `PRINT_ALL` beyond the reception ratio it sums, and all other console output:
  output only. `my_leds_toggle` and `my_leds_get` are never called.
* What `strcpy` writes behind a key without a zero byte.
* Contiki, RPL and AdaptiveSEC are not in the repository; `etimer`, uIP delivery
  and the link are external actions.
* `test-uart/` and both `udp-echo-server.c` are earlier programs that nothing in
  the delivered system runs; `cli_cua_thay.c` is the sample of another author and
  includes a header (`sls.h`) the repository does not have.

## 6. Proofs

Seven modules hold the theorems, an eighth, `Recursion`, lemmas they share. All
are for any value of the constants that keeps the named assumptions of the
modules, which TLC evaluates in every run.

### Metering system, any faults

`MeteringSystemProofs` proves, for any set of nodes, challenges and keys, any
`QueueCap`, `MaxCount` and any set of faults (assumptions `FramesAssumption`,
`NetworkAssumption`, `GatewayAssumption`, `CliAssumption`):

| Theorem | States |
|---|---|
| `Invariance` | `Spec => []IInv` |
| `TypeCorrect` | `Spec => []TypeOK` |
| `KeyProvenance` | `Spec => []KeysComeFromGateway` |
| `RetryFlag` | `Spec => []DoneTracksPhase` |
| `ListedOnly` | `Spec => []OnlyListedJoin` |
| `KeysImplemented` | `Spec => KeysAsPromised`, the refinement of `SessionKeys` |

For the refinement `KeysComeFromGateway` is what `TakeUp` needs; a reboot maps to
`Forget`, `ReplyMatch` to `Grant`, everything else to a stutter.

The argument. None of the three safety properties is inductive: what a node
installs as its key is the payload of a frame that may have waited in
`send_device`, in a record's `last_data_send` or in the network, across
restarts of the gateway. The strengthening is `Provenance`: wherever a frame of
the gateway is kept, a `REQUEST_HASH` carries a challenge and a `JOIN_SUCCESS`
carries an issued key, unless the frame was never prepared and so cannot
verify; and only the gateway enciphers in ECB towards a node, and only for
listed ones. A renumbered frame keeps this because renumbering does not touch
command and payload. `ChallengeHeld` (a node that answers holds a challenge)
is needed for the type of the hash it sends. `DoneTracksPhase` and
`OnlyListedJoin` go along since the same case analysis settles them.
`IInv` was checked by TLC first (`late_join`). The proof has one lemma per
action, collected by component (`NodeStepGood`, `GatewayStepGood`,
`CliStepGood`, `NetworkStepGood`).

### Metering system, round trips shorter than the timers

`SingleFlightProofs` assumes `"late" \notin Faults`; losses, reboots and
restarts stay allowed. From `JoinInvariance` to `SecureJoinImplemented` the
theorems assume also `"restart" \notin Faults`, without which finding 3 refutes
what they state; the last two allow restarts and assume that one device is listed.

| Theorem | States |
|---|---|
| `FlightInvariance` | `Spec => []FlightInv` |
| `PrintedRatioBounded` | `Spec => []ReceivedWithinNumbered` |
| `CountedInOrder` | `Spec => CountsInOrder` |
| `ToolTellsTruth` | `Spec => CliReportsRelay` |
| `JoinInvariance` | `Spec => []JoinInv` |
| `KeysAgree` | `Spec => []SessionAgreement` |
| `KeysOwn` | `Spec => []KeyIsOwn` |
| `FindingsNeedFaults` | `Spec => [](AddressedToReceiver /\ AuthenticatedMeansChallenged)` |
| `SecureJoinImplemented` | `Spec => JoinAsPromised` |
| `OneDeviceInvariance` | `Spec => []OneDeviceInv` |
| `KeysAgreeOverRestarts` | `Spec => []SessionAgreement` |

The argument. None of these is inductive: what a node, a record or a run of the
tool says is settled by a datagram sent earlier. `FlightInv` therefore speaks of
what is in flight. `OneInFlight`: of each node at most one datagram is, because
whoever sends has just taken the last one or found none. While it is, the node and
the waiting run cannot move, so it still says what they are (`Uplink`,
`Downlink`, `RelayCommand`, `RelayAnswer`), and the number of whatever a node sends after
its challenge is above what the gateway counted (`Numbered`). `CountsInOrder` and
`ReceivedWithinNumbered` follow: a reply sets both counters to its number
(`test.c:260`), a report raises `last_seq` at least as far as `num_receive`, and the
one frame counted without a number is the request, whose record is set to 1 and 0.

`JoinInv` adds the agreement of record and node in each phase: the challenge while the node is answering, the key once it has
joined; every answer in flight fits the step its receiver is at, so a reply
never mismatches and the stale frame of finding 3 is never sent. The refinement
then follows from `AnswerFits` and `Answering`. The proofs have one lemma per
action; those of a node go through `NodeFlight` (a step that leaves at most its
own new datagram), those of the gateway through `GatewayFlight`.

With restarts a hash may be wrong and the stale frame is sent. `OneDeviceInv`
says why that is harmless while it can only be the device's own: as long as the
record is not authenticated the frame holds no key, because only `Join` and a
restart get there, and both put something else in it (`AnswersKept`); and whatever key is on its way, or the
node reports under, is that of the record unless the record is that of a new run
(`KeysInFlight`). It is defined in
`SingleFlightProofs`; TLC checked it in the configuration of `single_flight`.

### Meter

`MeterProofs`, for any set of readings, noise bytes and disturbances:

| Theorem | States |
|---|---|
| `TypeCorrect` | `Spec => []MeterTypeOK`: the buffer is never overrun |
| `CycleInvariance` | `Spec => []CycleInv` if no byte is lost or added |
| `ReportsAreMeasured` | `Spec => ReportsWhatWasMeasured` under the same condition |

The last two assume `Disturbances \subseteq {"no_answer"}`: a sum of bytes does
not detect every loss, so with lost bytes the property depends on the readings
and stays with TLC. `CycleInv` says that assembler and line hold one answer
between them, byte for byte; that a value measured in this cycle and settled has
been taken; and that as many answers were accepted as commands settled only if
each was answered. With the six of `rx_count == 6` none is missing.

### Border router

`BorderRouterProofs` proves, for any prefixes, nodes and hosts that keep
`AddressAssumption` and `PrefixAssumption`, and any `MaxOut` and `MaxIn`:

| Theorem | States |
|---|---|
| `RouterInvariance` | `Spec => []IInv` |
| `TypeCorrect` | `Spec => []TypeOK` |
| `RadioSafe` | `Spec => []RadioOnlyAsRoot` |
| `RootGiven` | `Spec => []RootOnHostsPrefix` |
| `NeverBounced` | `Spec => []NoBounce` |
| `LineIntact` | `Spec => []FramesIntact` |
| `MeshPass` | `Spec => MeshPacketsPass` |

The argument. What the host has read says nothing of what it will read, so the
invariant speaks of the whole line: `Framed` says of every token on it which ones
stand beside it. `FramedJoin` (framed sequences join to a framed one) covers all
writing, `FrameTaken` (taking a frame off leaves a framed sequence, and what is
taken is whole) covers all reading. `Clean` adds that no debug line is open
between two runs of a process. `AnswersGiven` carries the prefixes the host gave
out through the frames on the way, and `last_sender \notin Node`, kept by
`PrefixAssumption`, gives `MeshPacketsPass`.

### Web page

`WebServerProofs`, for any number of connections and blocks, any tables and
sizes that keep `WebAssumption`:

| Theorem | States |
|---|---|
| `Invariance` | `Spec => []IInv` |
| `TypeCorrect` | `Spec => []TypeOK` |
| `NeverOverruns` | `Spec => []BufferFits` |
| `SendsInside` | `Spec => []SendsWithinBuf` |
| `PoolKept` | `Spec => []PoolSound` |
| `PageInvariance` | `Spec => []PageSoFar` |
| `PageReceived` | `Spec => []PageOfOnlyConnection` |

The argument. `blen` is shared, so `BufferFits` cannot be kept by one thread for
itself. `RunsWithRoom`: a thread at the head of a loop finds `blen` at most
`BufSize - Margin` (neighbours) or zero (routes), because it gets there from a
send, after which it resets `blen`, or from an `ADD` that was followed by the
test. `WaitsInSend`: nobody waits at the head of a loop, so no other thread runs
in between. `Owns` is `PoolSound` entry by entry. These parts and `PageSoFar` are defined in
`WebServerProofs`.

The page is a matter of its own, as no state holds it: parts of it are with the
client, in flight, in `buf`, and still in the tables. `PageSoFar` says of a
client that has the server for itself that what it got, followed by what its
thread has pending (`Pending`), is the page up to the place of the thread
(`Upto`). A send that is lost changes neither side, since what is sent again is
what was sent first; an acknowledgement moves a segment from `Pending` to `got`;
a step of the thread adds to `Pending` the line by which `Upto` grows. `Upto` is
defined by recursion over a table, so the proof shows first, with the lemmas of
`Recursion`, that the recursive function exists and what one more entry adds.

### AES and codec

`AesProofs` has no behaviour to speak of but one theorem about the cipher,
`CipherInverse`: for every block of 16 bytes and any eleven round keys,
`InvCipher` of `Cipher` of the block is the block. The `Xor` of two bytes is
taken apart into bits, where doubling in the field (`xtime`) is a shift and an
exclusive or of four bits; from that `MixColumns` followed by `InvMixColumns`
gives back each bit of a column. That the tables `sbox` and `rsbox` are inverse
is checked entry by entry. The two loops are then run against each other: each
round of the inverse cipher gives back what the cipher held before the round
with the same key.

`CodecProofs`, for any addresses, random numbers, raw keys, counters and
readings that keep `CodecAssumption` (they are bytes and words) and
`MacAssumption`, and any list of devices that keeps `DeviceListAssumption`:

| Theorem | States |
|---|---|
| `CodecInvariance` | `Spec => []IInv` |
| `SameKeyAlwaysOpens` | `Spec => []SameKeyOpens`: with the key and the mode of the sender a receiver opens the frame, and parses what was prepared |
| `JoinAlwaysOpens` | `Spec => []JoinOpens` |
| `FrameArrivesExactly` | `Spec => [](OpensIsExact => FrameArrives)` |
| `ReportArrivesExactly` | `Spec => [](OpensIsExact => ReportArrives)` |
| `ReplyAlwaysMatches` | `Spec /\ []OpensIsExact => []ReplyMatches` |
| `AddressInvariance` | `Spec => []AddressInv` |
| `AlwaysReachesNode` | `Spec => []ReachesNode` |
| `SenderAlwaysFound` | `Spec => []SenderFound` |
| `UnexpandedIsRead` | `getaddrinfo` reads `ipv6_to_str_unexpanded(a)` as `a`, if bytes 3 to 8 of `a` (2 to 7 in the code) are zero |
| `PrintedIsRead` | `getaddrinfo` reads `ipaddr_add(a)` as `a`, if the text neither begins nor ends with the run of zeros |
| `PrintedLength` | `ipaddr_add(a)` has at most 39 characters, for every address |
| `FirstLineFound` | `check_my_device_list` returns the first line that is the text, or 0 |

The argument. `IInv` says that the frame in flight is one some program prepares,
the datagram that frame enciphered, and what the receiver holds that datagram
deciphered; it is what ties the three variables together, and was checked by TLC
first. From there on it is about operators: enciphering is undone
(`EcbInverse`, and `CbcInverse`, four blocks in one call against four calls of
one block), the bytes of a frame are parsed back to its fields but for the top
byte of the number (`ParseIsPacked`), `gen_crc16` of 62 bytes fits the two that
`prepare2send` writes (`Prepared`), words survive packing (`WordCarried`,
`ReadingCarried`). The marker is seen (`MarkerSeen`) because a frame of the join
sets it whatever `for_future` held and ECB leaves it alone. `ReplyMatches` is
about two frames; its invariant `ReplyInv` relates the reply to the challenge
last parsed, which is the one last sent only if nothing else was opened.

`OpensIsExact` has two directions. The one that can be proved is
`SameKeyAlwaysOpens`. The other, that no wrong key or mode passes, is a matter
of collisions of a CRC of 16 bits: it is false for one frame in some 65536, and
so not for all values of the constants. TLC checks it on the instance; the three
theorems that need it say so. The values in the run satisfy it, so the condition
is not empty.

Addresses. `AddressInv` says that a frame for the node goes to its address, one
from it names it, and the gateway denies it exactly when the search finds no
line; TLC checked it first, in the configuration of `codec`. Its steps rest on
what is printed and what is read. On the side of reading, the words of a text are
found by its colons (`ColonAfter`, `WordEnds`); a text spells a list of words with
one gap, and then `getaddrinfo` gives these words back and zeros for the gap
(`ReadAs`), as `ValueOf` undoes both `%x` and `%02x%02x`. On the side of printing,
`ipv6_to_str_unexpanded` spells six words with the gap behind the first.
`ipaddr_add` goes over eight words: before its first zero, inside the run and
behind it the text so far spells the words so far, and the run is the gap
(`ZeroRun`, `Printed`). `check_my_device_list` is followed line by line: after each
line the result is the first of the lines so far that is the text (`FirstOf`). It
is right although the array is never cleared because every line fills the same 25
places. `SenderFound` speaks of addresses and not of texts; the two agree because
two lines that are read as one address are the same line.

The recursions here are over eight words, nine colons or the lines of a file,
with the step as a definition of its own. The lemmas of `Recursion` are enough
for them, and no induction over data is needed.

### Only model-checked

* All liveness, which is out of the prover's reach: `JoinCompletes`,
  `RelayCommandAnswered`, `ReportsResume`, `RadioComesUp`, `ConnectionsEnd`.
* `OpensIsExact`, for the reason above.
* `ReportsWhatWasMeasured` on a line that loses or adds bytes.

## 7. Plan

Done: every component of section 1 that is part of the delivered system, with
the parts named in section 5 left out; the two abstract specifications and their
refinements; the proofs of section 6.

What would be worth adding, in this order:

1. `ReportsWhatWasMeasured` with one lost byte: which answers a sum of bytes does
   tell apart.
2. The border router as the path between nodes and gateway, in place of `Network`,
   to see what a late prefix does to a join.
