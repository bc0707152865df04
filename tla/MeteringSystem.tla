--------------------------- MODULE MeteringSystem ---------------------------
(***************************************************************************)
(* Nodes, gateway, relay tool and the network between them.                *)
(***************************************************************************)
EXTENDS Node, Gateway, RelayCli

vars == <<nodeVars, gatewayVars, cli, net>>

Init == NodeInit /\ GatewayInit /\ CliInit

\* A step of the nodes, of the gateway, of the tool, and of the network.
NodeStep ==
  /\ \E n \in Node : \/ TimerExpires(n)
                     \/ NodeTimer(n)
                     \/ \E m \in net : NodeReceive(n, m)
                     \/ Reboot(n)
  /\ UNCHANGED <<gatewayVars, cli>>

GatewayStep ==
  /\ (\E m \in net : GatewayReceive(m)) \/ Restart
  /\ UNCHANGED <<nodeVars, cli>>

CliStep ==
  /\ \/ \E n \in CliTargets, cmd \in {REQUEST_LED_ON, REQUEST_LED_OFF} :
          MayAct(n) /\ CliRun(n, cmd)
     \/ \E m \in net : CliReceive(m) \/ CliUnbound(m)
     \/ CliTimeout
  /\ UNCHANGED <<nodeVars, gatewayVars>>

NetworkStep == Lose /\ UNCHANGED <<nodeVars, gatewayVars, cli>>

Next == NodeStep \/ GatewayStep \/ CliStep \/ NetworkStep

Spec == Init /\ [][Next]_vars

-----------------------------------------------------------------------------
(* Fairness.  Every timer expires and every queued event is dispatched; the *)
(* host programs are scheduled.  A link that loses frames does not lose     *)
(* every frame of a kind for ever: a handler whose datagram keeps arriving  *)
(* runs (strong fairness for each handler and node).                        *)

NodeHandles(n, m) == NodeReceive(n, m) /\ UNCHANGED <<gatewayVars, cli>>

GatewayHandles(m) == GatewayReceive(m) /\ UNCHANGED <<nodeVars, cli>>

FairNode(n) ==
  /\ WF_vars(TimerExpires(n) /\ UNCHANGED <<gatewayVars, cli>>)
  /\ WF_vars(NodeTimer(n) /\ UNCHANGED <<gatewayVars, cli>>)
  /\ SF_vars(\E m \in net : m.from = Gw /\ NodeHandles(n, m))
  /\ SF_vars(\E m \in net : m.from = Cli /\ NodeHandles(n, m))

FairGateway(n) ==
  /\ SF_vars(\E m \in net : m.from = n /\ m.frame.cmd = REQUEST_JOIN
                            /\ GatewayHandles(m))
  /\ SF_vars(\E m \in net : m.from = n /\ m.frame.cmd = REPLY_HASH
                            /\ GatewayHandles(m))
  /\ SF_vars(\E m \in net : m.from = n /\ m.frame.cmd = SEND_PZEM
                            /\ GatewayHandles(m))

FairCli == WF_vars(CliStep /\ cli.phase = "waiting" /\ cli'.phase = "exited")

Fairness == (\A n \in Node : FairNode(n) /\ FairGateway(n)) /\ FairCli

-----------------------------------------------------------------------------
(* Properties *)

\* Every variable keeps the range its C type and its code allow.
TypeOK ==
  /\ NodeTypeOK
  /\ GatewayTypeOK
  /\ CliTypeOK
  /\ net \subseteq Datagram

\* A node in STATE_NORMAL holds a key the gateway generated in some run:
\* whatever is lost, late or restarted, no other payload is ever installed
\* as a session key (server.c:340-345).
KeysComeFromGateway ==
  \A n \in Node : state[n] = STATE_NORMAL =>
    \E d \in Device : <<d, key_normal[n]>> \in issued

\* The retransmission flag is always the value its phase tests for, so a
\* joining node never falls silent with nothing left to send
\* (server.c:486, 505).
DoneTracksPhase ==
  \A n \in Node : state[n] = STATE_BEGIN =>
    (done[n] = 1 <=> begin_cmd[n] = REPLY_HASH)

\* A node that device.txt does not list never leaves STATE_BEGIN
\* (test.c:379).
OnlyListedJoin == \A n \in Node \ Device : state[n] = STATE_BEGIN

\* A node in STATE_NORMAL holds the key the gateway generated for that very
\* node, although every answer is built in one static frame (test.c:59).
KeyIsOwn ==
  \A n \in Node : state[n] = STATE_NORMAL => <<n, key_normal[n]>> \in issued

\* While every round trip is shorter than the timers, a node in STATE_NORMAL
\* and the gateway hold the same key for it.  If one device is listed, only a
\* restart of the gateway forgets the key, and then everything about the node:
\* no half session.  (If two are, a restart lets one be sent the other's frame:
\* AddressedToReceiver.)
SessionAgreement ==
  \A d \in Device : state[d] = STATE_NORMAL =>
    \/ my_device[d].key = key_normal[d]
    \/ "restart" \in Faults /\ my_device[d] = NewDevice

\* PRINT_ALL divides the sum of num_receive by the sum of last_seq over all
\* records (util.c:424-429).  In each of them the first is at most the second;
\* only in one that is not authenticated it may be one above, as the challenge
\* sets them to 1 and 0 (test.c:144-193).  So the sum above the line passes the
\* one below it by no more than the devices that are joining.  (That no frame is counted twice is
\* CountsInOrder: a frame lost would hide it here.)
ReceivedWithinNumbered ==
  \A d \in Device :
    my_device[d].num_receive <=
      my_device[d].last_seq + (IF my_device[d].authenticated = "Y" THEN 0 ELSE 1)

\* In one session the gateway counts frames in the order of their numbers,
\* although it never calls check_seq (util.c:370): whatever it counts has a
\* greater number than the last (test.c:258-260, 281-285).
CountsInOrder ==
  [][\A d \in Device :
       /\ my_device[d].authenticated = "Y"
       /\ my_device'[d].authenticated = "Y"
       /\ my_device'[d].num_receive # my_device[d].num_receive
       => \/ my_device'[d].last_seq > my_device[d].last_seq
          \/ my_device'[d].last_seq = MaxCount]_my_device

\* The tool prints "Da bat relay" (the relay is on) or "Da tat relay" only
\* when the relay of the node it was run for is in that state and that is
\* what it asked for (test_cli.c:205-210).
CliReportsRelay ==
  [][cli'.phase = "exited" /\ cli'.said # "nothing" =>
       /\ cli'.said = "on" <=> pin[cli.target] = 0
       /\ cli'.said = "on" <=> cli.cmd = REQUEST_LED_ON]_cli

\* The frames of the gateway that are in flight pass the check of the node
\* that receives them: test.c:241-243 answers a duplicate REPLY_HASH by
\* sending the last frame with its seq brought up to date.
GatewayFramesVerify ==
  \A m \in net : m.from = Gw => check_crc16(m.frame)

\* authenticated 'Y' (test.h:95) means the device has answered its challenge
\* and was given a key (test.c:213-216).
AuthenticatedMeansChallenged ==
  \A d \in Device : my_device[d].authenticated = "Y" =>
    \E k \in Key : <<d, k>> \in issued

\* A frame of the gateway that verifies goes to the node its ipv6_dest_addr
\* names (test.h:62, "destination address").
AddressedToReceiver ==
  \A m \in net : m.from = Gw /\ check_crc16(m.frame) => m.frame.dst = m.to

-----------------------------------------------------------------------------
(* What the join promises: SessionKeys under every fault of the             *)
(* environment, SecureJoin while every round trip is shorter than the       *)
(* timers and the gateway keeps running.                                    *)

SessionOf == [n \in Node |-> IF state[n] = STATE_NORMAL THEN {key_normal[n]} ELSE {}]

PhaseOf ==
  [n \in Node |-> IF state[n] = STATE_NORMAL THEN "joined"
                  ELSE IF begin_cmd[n] = REPLY_HASH THEN "answering" ELSE "asking"]

Keys == INSTANCE SessionKeys WITH session <- SessionOf, granted <- issued

Handshake == INSTANCE SecureJoin WITH phase <- PhaseOf, session <- SessionOf, granted <- issued

\* Whatever is lost, late, duplicated, rebooted or restarted, the two programs
\* implement SessionKeys: a node takes up only keys the gateway granted, and
\* changes its key only through a reboot (server.c:340-345, test.c:213-238).
KeysAsPromised == Keys!Spec

\* Over a lossy link, with nodes that reboot, they implement SecureJoin: a key
\* is granted only to a device that is answering its challenge, and each node
\* takes up its own, once, after it was challenged (server.c:333-345).
JoinAsPromised == Handshake!Spec

-----------------------------------------------------------------------------
(* The inductive invariant behind TypeOK, KeysComeFromGateway,             *)
(* DoneTracksPhase and OnlyListedJoin.                                     *)

\* A node that answers a challenge holds one.
ChallengeHeld ==
  \A n \in Node : state[n] = STATE_BEGIN /\ begin_cmd[n] = REPLY_HASH =>
    payload[n] \in Challenge

\* What a frame built by the gateway carries, wherever it is kept.
Genuine(f) ==
  /\ f.crc = NoCrc \/ f.cmd \in {REQUEST_HASH, JOIN_SUCCESS}
  /\ f.cmd = REQUEST_HASH => f.data \in Challenge
  /\ f.cmd = JOIN_SUCCESS => \E d \in Device : <<d, f.data>> \in issued

\* What is in flight: only the gateway enciphers for a node in ECB, and only
\* for listed ones.
GenuineDatagram(m) ==
  /\ m.to \in Node /\ m.mode = "ecb" => m.from = Gw
  /\ m.from = Gw => m.to \in Device /\ Genuine(m.frame)

Provenance ==
  /\ Genuine(send_device)
  /\ \A d \in Device : Genuine(my_device[d].last_data_send)
  /\ \A m \in net : GenuineDatagram(m)

\* Whatever is lost, late, rebooted or restarted, gateway frames carry only
\* challenges and keys it generated (test.c:152, 217), every node answers a
\* challenge it was given, and so the four invariants above hold.
IInv ==
  /\ TypeOK
  /\ DoneTracksPhase
  /\ ChallengeHeld
  /\ Provenance
  /\ KeysComeFromGateway
  /\ OnlyListedJoin
=============================================================================
