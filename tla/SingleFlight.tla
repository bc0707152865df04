---------------------------- MODULE SingleFlight -----------------------------
(***************************************************************************)
(* What holds of the metering system while every round trip is shorter     *)
(* than the timers ("late" is not among the faults): at most one datagram  *)
(* of a node is in flight, and while it is, nothing it speaks of changes.  *)
(* FlightInv and JoinInv are the inductive invariants behind the           *)
(* properties that hold under this assumption only.                        *)
(***************************************************************************)
EXTENDS MeteringSystem

Asking(n) == state[n] = STATE_BEGIN /\ begin_cmd[n] = REQUEST_JOIN

Answering(n) == state[n] = STATE_BEGIN /\ begin_cmd[n] = REPLY_HASH

-----------------------------------------------------------------------------
(* While the timers are long *)

Routed ==
  \A m \in net : IF m.from \in Node THEN m.to \in {Gw, Cli} ELSE m.to \in Node

OneInFlight ==
  \A n \in Node : \A m1, m2 \in net : Involves(m1, n) /\ Involves(m2, n) => m1 = m2

\* A timer expires only while nothing is under way, and its event is the next
\* one the thread sees.
TimersQuiet ==
  \A n \in Node : timer[n] = "running" \/ (timer[n] = "expired" /\ Idle(n))

\* What a node has sent to the gateway is what it would send again.
Uplink(m) ==
  /\ m.frame.seq < frame_counter[m.from] \/ frame_counter[m.from] = MaxCount
  /\ \/ /\ m.mode = "ecb"
        /\ m.frame.state = STATE_BEGIN
        /\ state[m.from] = STATE_BEGIN
        /\ m.frame.cmd = begin_cmd[m.from]
        /\ begin_cmd[m.from] = REPLY_HASH => m.frame.data = Hash[payload[m.from]]
     \/ /\ m.mode = "cbc"
        /\ m.frame.state = STATE_NORMAL
        /\ state[m.from] = STATE_NORMAL

\* A node the gateway is answering is still joining; if it has not been
\* challenged, its record is that of a new session, in which nothing is counted.
Downlink(m) ==
  /\ m.mode = "ecb"
  /\ state[m.to] = STATE_BEGIN
  /\ begin_cmd[m.to] = REQUEST_JOIN =>
       my_device[m.to].authenticated = "N" /\ my_device[m.to].last_seq = 0

\* The command and the reply in flight belong to the run that is waiting, and
\* the reply says what the relay still does.
RelayCommand(m) ==
  /\ m.mode = "cbc"
  /\ cli.phase = "waiting"
  /\ cli.target = m.to
  /\ m.frame.cmd = cli.cmd

RelayAnswer(m) ==
  /\ cli.phase = "waiting"
  /\ cli.target = m.from
  /\ m.frame.cmd = IF pin[m.from] = 0 THEN REPLY_LED_ON ELSE REPLY_LED_OFF
  /\ pin[m.from] = 0 <=> cli.cmd = REQUEST_LED_ON

InFlight ==
  \A m \in net : /\ m.to = Gw => Uplink(m)
                 /\ m.from = Gw => Downlink(m)
                 /\ m.from = Cli => RelayCommand(m)
                 /\ m.to = Cli => RelayAnswer(m)

\* A number the gateway has not counted in this session yet.
Fresh(d, seq) == seq > my_device[d].last_seq \/ seq = MaxCount

\* Every number a node that was challenged sends, or will send, is fresh.
Numbered ==
  /\ \A n \in Node : frame_counter[n] > 0
  /\ \A d \in Device : ~Asking(d) =>
       /\ Fresh(d, frame_counter[d])
       /\ \A m \in net : m.from = d /\ m.to = Gw => Fresh(d, m.frame.seq)

\* While round trips are short, and whatever is lost, rebooted or restarted, a
\* node has one datagram in flight, it says what the node and the run of the
\* relay tool still are, and its number has not been counted (server.c:484-518,
\* test.c:258-285, test_cli.c:184-206).
FlightInv ==
  /\ Routed
  /\ OneInFlight
  /\ TimersQuiet
  /\ InFlight
  /\ Numbered
  /\ ReceivedWithinNumbered

-----------------------------------------------------------------------------
(* ... and while the gateway keeps running *)

ChallengeAgreed ==
  \A d \in Device : Answering(d) => payload[d] = my_device[d].challenge_code

Authenticated(d) ==
  /\ <<d, my_device[d].key>> \in issued
  /\ my_device[d].last_data_send.cmd = JOIN_SUCCESS
  /\ my_device[d].last_data_send.data = my_device[d].key
  /\ my_device[d].last_data_send.dst = d

RecordsGranted ==
  \A d \in Device : my_device[d].authenticated = "Y" => Authenticated(d)

SessionsKept ==
  \A d \in Device : state[d] = STATE_NORMAL =>
    my_device[d].authenticated = "Y" /\ my_device[d].key = key_normal[d]

\* An answer in flight is for its receiver and the step its receiver is at.
AnswerFits(m) ==
  /\ m.frame.dst = m.to
  /\ \/ /\ m.frame.cmd = REQUEST_HASH
        /\ m.frame.data = my_device[m.to].challenge_code
        /\ Asking(m.to)
     \/ /\ m.frame.cmd = JOIN_SUCCESS
        /\ m.frame.data = my_device[m.to].key
        /\ my_device[m.to].authenticated = "Y"
        /\ Answering(m.to)

\* If also the gateway keeps running, record and node agree on the challenge
\* and the key at every step of the join, and every answer in flight fits its
\* receiver: no wrong hash, no stale frame (test.c:146-260, server.c:333-345).
JoinInv ==
  /\ ChallengeAgreed
  /\ RecordsGranted
  /\ SessionsKept
  /\ \A m \in net : m.from = Gw => AnswerFits(m)
=============================================================================
