---------------------------- MODULE BorderRouter ----------------------------
(***************************************************************************)
(* The border router: the process that asks the host for a prefix and      *)
(* becomes the root of the mesh (border-router.c), and the bridge between  *)
(* the mesh and the serial line to the host (slip-bridge.c).               *)
(*                                                                         *)
(* The host's end of the line, Contiki's SLIP driver, RPL and the mesh are *)
(* external.  Every action of the router is one run of a Contiki process;  *)
(* what it prints goes over the same line as its packets.                  *)
(***************************************************************************)
EXTENDS Naturals, Sequences

CONSTANTS
  Two, Six, Rest,  \* values of 2, of 6 and of 14 bytes in a packet buffer
  Zero, Hex,       \* all bytes zero; hexadecimal digits
  Prefix,          \* prefixes the host may give out: bytes 0..5, bytes 6..7
  Node, Host,      \* addresses in the mesh and behind the line: bytes 0..1, 2..15
  None,            \* no DAG
  MaxOut,          \* bound: tokens the host has not read yet when the router writes
  MaxIn            \* bound: frames on the way to the router

ASSUME AddressAssumption ==
  /\ {Zero, Hex} \subseteq Two \cap Six \cap Rest
  /\ Prefix \subseteq Six \X Two /\ None \notin Prefix
  /\ Node \subseteq Two \X Rest /\ Host \subseteq Two \X Rest
  /\ MaxOut \in Nat /\ MaxIn \in Nat

\* Bytes 6..7 of a prefix, zeros and digits differ from the first two bytes of
\* every node's address, as with aaaa::/64 and fd00::/64; and the host's
\* addresses are not in the mesh.
ASSUME PrefixAssumption ==
  /\ \A n \in Node : n[1] \notin {p[2] : p \in Prefix} \cup {Zero, Hex}
  /\ Node \cap Host = {}

VARIABLES
  thread,       \* where border_router_process waits
  timer,        \* its etimer
  prefix_set, prefix,
  radio,        \* NETSTACK_MAC on
  addrs,        \* prefixes the router has an address under
  dag,          \* prefix of the DAG it is the root of
  uip_buf,      \* bytes 2..7, 8..9 and 10..23 of the packet buffer
  last_sender,
  tx,           \* tokens written to the line and not read, and debug_frame
  toRouter,     \* frames on the way from the host
  seen,         \* history: the frame the host read last
  given         \* history: the prefixes the host has given out

router == <<thread, timer, prefix_set, prefix, radio, addrs, dag>>
bridge == <<uip_buf, last_sender, tx>>
host == <<toRouter, seen, given>>
vars == <<router, bridge, host>>

-----------------------------------------------------------------------------
(* The line *)

END == <<"end">>
CR == <<"\r">>
Text == <<"text">>
NL == <<"\n">>
AskPrefix == <<"?P">>
AskMac == <<"?M">>
Mac == <<"!M">>
Config(p) == <<"!P", p>>
Packet(src) == <<"IP", src>>

ToHost == {AskPrefix, Mac} \cup {Packet(a) : a \in Two \X Rest}
FromHost == {AskMac} \cup {Config(p) : p \in Prefix} \cup {Packet(h) : h \in Host}
Token == {END, CR, Text, NL} \cup ToHost

slip_send(t, frame) ==
  [out |-> t.out \o <<END, frame, END>>, debug_frame |-> t.debug_frame]

\* Mutant: the end of a line does not end the debug frame.
PutcharStaysOpen(t, c) ==
  [out |-> t.out \o (IF t.debug_frame THEN <<>> ELSE <<END, CR>>)
                 \o (IF c = NL THEN <<c, END>> ELSE <<c>>),
   debug_frame |-> TRUE]

putchar(t, c) ==
  [out |-> t.out \o (IF t.debug_frame THEN <<>> ELSE <<END, CR>>)
                 \o (IF c = NL THEN <<c, END>> ELSE <<c>>),
   debug_frame |-> c # NL]

\* One line of output, its text a single token.
PrintLine(t) == putchar(putchar(t, Text), NL)

\* The host keeps up with what the router writes.
Room == Len(tx.out) <= MaxOut

-----------------------------------------------------------------------------
(* border_router_process *)

Init ==
  /\ thread = "paused" /\ timer = "none"
  /\ prefix_set = FALSE /\ prefix = <<Zero, Zero>>
  /\ radio = FALSE /\ addrs = {} /\ dag = None
  /\ uip_buf = <<Zero, Zero, Zero>> /\ last_sender = <<Zero, Zero>>
  /\ tx = [out |-> <<>>, debug_frame |-> FALSE]
  /\ toRouter = <<>> /\ seen = <<>> /\ given = {}

\* etimer_set and request_prefix, which touches bytes 0 and 1 of uip_buf only.
Ask ==
  /\ thread' = "asking" /\ timer' = "running"
  /\ tx' = slip_send(tx, AskPrefix)
  /\ UNCHANGED radio

\* The loop is left: radio on, and the addresses printed below their title.
ComeUp ==
  /\ thread' = "up" /\ timer' = "none" /\ radio' = TRUE
  /\ tx' = PrintLine(PrintLine(tx))

\* Mutant: the process waits for its timer once.
AskOnce == IF thread = "paused" THEN Ask ELSE ComeUp

\* Mutant: the prefix is asked for once, before the loop.
RequestOnce ==
  \/ prefix_set /\ ComeUp
  \/ /\ ~prefix_set /\ thread' = "asking" /\ timer' = "running"
     /\ tx' = IF thread = "paused" THEN slip_send(tx, AskPrefix) ELSE tx
     /\ UNCHANGED radio

\* The head of the loop.
AskOrComeUp == IF prefix_set THEN ComeUp ELSE Ask

\* After PROCESS_PAUSE, and when an event finds the timer expired.
Continue ==
  /\ Room
  /\ thread = "paused" \/ (thread = "asking" /\ timer = "expired")
  /\ AskOrComeUp
  /\ UNCHANGED <<prefix_set, prefix, addrs, dag, uip_buf, last_sender, host>>

TimerExpires ==
  /\ timer = "running" /\ timer' = "expired"
  /\ UNCHANGED <<thread, prefix_set, prefix, radio, addrs, dag, bridge, host>>

\* rpl_set_root makes the first DAG; when there is one it may return NULL, and
\* the old one stays.
set_prefix_64(p) ==
  /\ prefix' = p /\ prefix_set' = TRUE
  /\ addrs' = addrs \cup {p}
  /\ dag' \in IF dag = None THEN {p} ELSE {p, dag}
  /\ UNCHANGED <<thread, timer, radio>>

-----------------------------------------------------------------------------
(* The bridge *)

SrcIpAddr(buf) == <<buf[2], buf[3]>>

\* Mutant: saved before the frame was read into the buffer.
SavedBefore(old, new) == SrcIpAddr(old)
\* Mutant: the address taken from where the header begins.
SavedHeader(old, new) == <<new[1], new[2]>>
\* The last line of slip_input_callback, after whatever was read.
SavedSender(old, new) == SrcIpAddr(new)

output(t, buf, sender) ==
  IF sender = SrcIpAddr(buf) THEN PrintLine(t)
                             ELSE slip_send(t, Packet(SrcIpAddr(buf)))

\* Mutant: the prefix is read before the frame.
ConfigureFromOld(p) ==
  /\ uip_buf' = <<p[1], p[2], uip_buf[3]>>
  /\ set_prefix_64(<<uip_buf[1], uip_buf[2]>>)
  /\ tx' = PrintLine(PrintLine(tx))

\* A configuration message fills bytes 2..9 with the prefix.
Configure(p) ==
  /\ uip_buf' = <<p[1], p[2], uip_buf[3]>>
  /\ set_prefix_64(<<uip_buf'[1], uip_buf'[2]>>)
  /\ tx' = PrintLine(PrintLine(tx))

\* The router's MAC address in hexadecimal; bytes 18..23, which keep what they
\* held, are left out.
AnswerMac ==
  /\ uip_buf' = <<Hex, Hex, Hex>>
  /\ tx' = slip_send(PrintLine(tx), Mac)
  /\ UNCHANGED router

\* A packet is routed into the mesh or, without a route, handed to output.
Route(h) ==
  /\ uip_buf' = <<Zero, h[1], h[2]>>
  /\ tx' \in {tx, output(tx, uip_buf', SavedSender(uip_buf, uip_buf'))}
  /\ UNCHANGED router

SlipInput ==
  /\ Room /\ toRouter # <<>>
  /\ toRouter' = Tail(toRouter)
  /\ \/ \E p \in Prefix : Head(toRouter) = Config(p) /\ Configure(p)
     \/ Head(toRouter) = AskMac /\ AnswerMac
     \/ \E h \in Host : Head(toRouter) = Packet(h) /\ Route(h)
  /\ last_sender' = SavedSender(uip_buf, uip_buf')
  /\ UNCHANGED <<seen, given>>

\* A packet from the mesh for an address there is no route to.
MeshPacket(n) ==
  /\ Room /\ radio
  /\ uip_buf' = <<Zero, n[1], n[2]>>
  /\ tx' = output(tx, uip_buf', last_sender)
  /\ UNCHANGED <<router, last_sender, host>>

\* Power comes back; what was written before is on the line.
Reboot ==
  /\ thread # "paused" /\ thread' = "paused" /\ timer' = "none"
  /\ prefix_set' = FALSE /\ prefix' = <<Zero, Zero>>
  /\ radio' = FALSE /\ addrs' = {} /\ dag' = None
  /\ uip_buf' = <<Zero, Zero, Zero>> /\ last_sender' = <<Zero, Zero>>
  /\ tx' = [tx EXCEPT !.debug_frame = FALSE]
  /\ UNCHANGED host

-----------------------------------------------------------------------------
(* The host: tunslip6 and whatever sends through it *)

Reach(frame) ==
  toRouter' = IF Len(toRouter) < MaxIn THEN Append(toRouter, frame) ELSE toRouter

\* The next frame on the line, empty ones included, is read.
ReadFrame ==
  \E k \in 1..Len(tx.out) :
    /\ tx.out[k] = END /\ \A j \in 1..(k - 1) : tx.out[j] # END
    /\ seen' = SubSeq(tx.out, 1, k - 1)
    /\ tx' = [tx EXCEPT !.out = SubSeq(@, k + 1, Len(@))]

HostReads ==
  /\ ReadFrame
  /\ UNCHANGED <<router, uip_buf, last_sender, toRouter, given>>

HostAnswers ==
  /\ ReadFrame /\ seen' = <<AskPrefix>>
  /\ \E p \in Prefix : Reach(Config(p)) /\ given' = given \cup {p}
  /\ UNCHANGED <<router, uip_buf, last_sender>>

\* One place of the line is left for an answer.
HostSends ==
  /\ Len(toRouter) + 1 < MaxIn
  /\ Reach(AskMac) \/ \E h \in Host : Reach(Packet(h))
  /\ UNCHANGED <<router, bridge, seen, given>>

\* A frame reaches the router garbled.
LineLoses ==
  /\ Room /\ toRouter # <<>> /\ toRouter' = Tail(toRouter)
  /\ UNCHANGED <<router, bridge, seen, given>>

-----------------------------------------------------------------------------

Next ==
  \/ Continue \/ TimerExpires \/ SlipInput \/ \E n \in Node : MeshPacket(n)
  \/ Reboot \/ HostReads \/ HostAnswers \/ HostSends \/ LineLoses

SlipConfig ==
  /\ SlipInput /\ \E p \in Prefix : Head(toRouter) = Config(p)

\* The router's timer and processes run; the host reads its line.  The line
\* may lose any number of requests and answers, but not all of them.
Fairness ==
  /\ SF_vars(Continue) /\ WF_vars(TimerExpires) /\ SF_vars(SlipInput)
  /\ WF_vars(HostReads) /\ SF_vars(HostAnswers) /\ SF_vars(SlipConfig)

Spec == Init /\ [][Next]_vars
FairSpec == Spec /\ Fairness

-----------------------------------------------------------------------------
(* Properties *)

TypeOK ==
  /\ thread \in {"paused", "asking", "up"}
  /\ timer \in {"none", "running", "expired"}
  /\ prefix_set \in BOOLEAN /\ prefix \in Six \X Two
  /\ radio \in BOOLEAN
  /\ addrs \subseteq Prefix /\ dag \in Prefix \cup {None}
  /\ uip_buf \in Six \X Two \X Rest /\ last_sender \in Two \X Rest
  /\ tx \in [out : Seq(Token), debug_frame : BOOLEAN]
  /\ toRouter \in Seq(FromHost)
  /\ seen \in Seq(Token) /\ given \subseteq Prefix

\* The radio is off until the router has been made the root of a DAG, through
\* reboots and whatever answers are still on the way (border-router.c:406-409).
RadioOnlyAsRoot == radio => prefix_set /\ dag # None

\* The router is root under a prefix the host gave out and under an address of
\* its own, although a late answer may replace the prefix and although the
\* prefix is taken from a buffer that requests and packets share
\* (slip-bridge.c:60-72, border-router.c:382-398).
RootOnHostsPrefix ==
  /\ dag # None => dag \in given \cap addrs
  /\ prefix_set => prefix \in given \cap addrs

\* A packet from the mesh is always passed to the host: last_sender never
\* holds the address of a node, although it is also copied out of the buffer
\* after configuration messages, which leave residues of packets there
\* (slip-bridge.c:90-92, 106).
MeshPacketsPass ==
  [][\A n \in Node : MeshPacket(n) => tx' = slip_send(tx, Packet(n))]_vars

\* A packet that came over the line is never sent back over it
\* (slip-bridge.c:90, 107).
NoBounce ==
  \A k \in 1..Len(tx.out) : \A h \in Host : tx.out[k] # Packet(h)

\* Debug output and packets share the line; the host always finds either one
\* whole line, or one frame, between two ends (slip-bridge.c:125-149).
FramesIntact ==
  \/ seen = <<>>
  \/ seen = <<CR, Text, NL>>
  \/ Len(seen) = 1 /\ seen[1] \in ToHost

\* Once the router is not rebooted any more it gets its prefix and comes up
\* for good, however many requests and answers were lost (border-router.c:427).
RadioComesUp == <>[][thread' # "paused"]_thread => <>[]radio
=============================================================================
