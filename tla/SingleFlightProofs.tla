------------------------- MODULE SingleFlightProofs --------------------------
(***************************************************************************)
(* Proofs of what holds while every round trip is shorter than the timers, *)
(* for every set of nodes and every device list: first FlightInv and what  *)
(* follows from it, then, if the gateway also keeps running, JoinInv, and  *)
(* if it restarts but lists one device, OneDeviceInv.                      *)
(***************************************************************************)
EXTENDS SingleFlight, MeteringSystemProofs

-----------------------------------------------------------------------------
(* While the gateway may restart but one device is listed *)

\* A key agrees with the record of d if the record has it or is as a new run
\* of the gateway found it.
Agrees(d, k) ==
  my_device[d].key = k \/ ("restart" \in Faults /\ my_device[d] = NewDevice)

\* The static frame holds no key while a wrong hash has it sent to d, and the
\* copy of the last answer none but that of the record.
AnswersKept ==
  \A d \in Device :
    IF my_device[d].authenticated = "N" THEN send_device.cmd # JOIN_SUCCESS
    ELSE my_device[d].last_data_send.cmd = JOIN_SUCCESS =>
           my_device[d].last_data_send.data = my_device[d].key

KeysInFlight ==
  \A m \in net : /\ m.from = Gw /\ m.frame.cmd = JOIN_SUCCESS => Agrees(m.to, m.frame.data)
                 /\ m.to = Gw /\ m.mode = "cbc" => m.key = key_normal[m.from]

\* If the gateway restarts but lists one device, the stale frame is that
\* device's own: the key it holds, or that is on its way there, is that of the
\* record or of a run that has ended (test.c:59, 213-255, server.c:340-345).
OneDeviceInv ==
  /\ AnswersKept
  /\ KeysInFlight
  /\ SessionAgreement

-----------------------------------------------------------------------------
(* Facts about the operators *)

\* Without "late" a datagram is delivered once and the environment waits.
LEMMA Patience ==
  ASSUME "late" \notin Faults
  PROVE  /\ \A m : Delivered(m) = {net \ {m}}
         /\ \A n \in Node : MayAct(n) => Idle(n) /\ timer[n] = "running"
  BY DEF Delivered, MayAct, Quiet

\* The other datagrams are of other nodes.
LEMMA Alone ==
  ASSUME OneInFlight, NEW n \in Node, NEW m \in net, Involves(m, n)
  PROVE  \A x \in net \ {m} : ~Involves(x, n)
  BY DEF OneInFlight

\* The ends of a datagram of each kind.
LEMMA Ends ==
  ASSUME IInv, Routed, NEW m \in net
  PROVE  /\ m \in Datagram /\ m.frame \in Frame
         /\ m.to = Gw \/ m.to = Cli => m.from \in Node
         /\ m.from = Gw \/ m.from = Cli => m.to \in Node
         /\ m.to \in Node => m.from \in {Gw, Cli}
         /\ m.from = Gw => m.to \in Device
<1>1. m \in Datagram /\ m.frame \in Frame
  BY DEF IInv, TypeOK, Datagram
<1>2. m.from = Gw => m.to \in Device
  BY DEF IInv, Provenance, GenuineDatagram
<1>3. m.from \in Node \cup {Gw, Cli}
  BY <1>1 DEF Datagram
<1>4. QED
  BY <1>1, <1>2, <1>3, Constants DEF Routed

-----------------------------------------------------------------------------
(* Steps of one node *)

\* A step of n leaves the other nodes, the gateway and the tool alone ...
OwnStep(n) ==
  /\ \A i \in Node \ {n} :
       /\ state'[i] = state[i] /\ begin_cmd'[i] = begin_cmd[i]
       /\ payload'[i] = payload[i] /\ key_normal'[i] = key_normal[i]
       /\ frame_counter'[i] = frame_counter[i]
       /\ timer'[i] = timer[i] /\ pin'[i] = pin[i]
  /\ UNCHANGED <<my_device, issued, cli>>

\* ... and where base is what is in flight of the others, adds at most m.
Adds(n, base, m) ==
  /\ base \subseteq net
  /\ \A x \in base : ~Involves(x, n)
  /\ net' \subseteq base \cup {m}
  /\ m \in net' => m \in base \/ (m.from = n /\ m.to \in {Gw, Cli})

\* n may send what its new state says, under a number not counted yet.
SentRight(n, base, m) ==
  m \in net' /\ m \notin base =>
    /\ m.to = Gw => Uplink(m)'
    /\ m.to = Cli => RelayAnswer(m)'

CounterRight(n, base, m) ==
  /\ frame_counter'[n] > 0
  /\ n \in Device /\ ~Asking(n)' =>
       /\ Fresh(n, frame_counter'[n])
       /\ m \in net' /\ m \notin base /\ m.to = Gw => Fresh(n, m.frame.seq)

\* A step of a node that leaves at most its own new datagram in flight, saying what
\* the node now is.
LEMMA NodeFlight ==
  ASSUME IInv, FlightInv, NEW n \in Node, NEW base, NEW m,
         OwnStep(n), Adds(n, base, m), timer'[n] = "running",
         SentRight(n, base, m), CounterRight(n, base, m)
  PROVE  FlightInv'
<1>1. \A x \in net' : (x \in net /\ x \in base) \/ x = m
  BY DEF Adds
<1>2. Routed'
  BY <1>1, Constants DEF FlightInv, Routed, Adds
<1>3. OneInFlight'
  BY <1>1, Constants DEF FlightInv, OneInFlight, Adds, Involves
<1>4. TimersQuiet'
  <2> SUFFICES ASSUME NEW i \in Node
               PROVE  (timer[i] = "running" \/ (timer[i] = "expired" /\ Idle(i)))'
    BY DEF TimersQuiet
  <2>1. CASE i # n
    BY <1>1, <2>1, Constants DEF FlightInv, TimersQuiet, Idle, Involves, Adds, OwnStep
  <2>2. QED
    BY <2>1
<1>5. InFlight'
  <2> SUFFICES ASSUME NEW x \in net'
               PROVE  /\ x.to = Gw => Uplink(x)'
                      /\ x.from = Gw => Downlink(x)'
                      /\ x.from = Cli => RelayCommand(x)'
                      /\ x.to = Cli => RelayAnswer(x)'
    BY DEF InFlight
  <2>1. CASE x \in base
    <3>1. x \in net /\ x.from # n /\ x.to # n
      BY <2>1 DEF Adds, Involves
    <3>2. /\ x.to = Gw \/ x.to = Cli => x.from \in Node
          /\ x.from = Gw => x.to \in Node
      BY <3>1, Ends DEF FlightInv
    <3>3. /\ x.to = Gw => Uplink(x)
          /\ x.from = Gw => Downlink(x)
          /\ x.from = Cli => RelayCommand(x)
          /\ x.to = Cli => RelayAnswer(x)
      BY <3>1 DEF FlightInv, InFlight
    <3>4. x.to = Gw => Uplink(x)'
      BY <3>1, <3>2, <3>3 DEF Uplink, OwnStep
    <3>5. x.from = Gw => Downlink(x)'
      BY <3>1, <3>2, <3>3 DEF Downlink, OwnStep
    <3>6. (x.from = Cli => RelayCommand(x)') /\ (x.to = Cli => RelayAnswer(x)')
      BY <3>1, <3>2, <3>3 DEF RelayCommand, RelayAnswer, OwnStep
    <3>7. QED
      BY <3>4, <3>5, <3>6
  <2>2. CASE x \notin base
    BY <1>1, <2>2, Constants DEF Adds, SentRight
  <2>3. QED
    BY <2>1, <2>2
<1>6. Numbered'
  <2>0. \A i \in Node : frame_counter'[i] > 0
    BY DEF FlightInv, Numbered, CounterRight, OwnStep
  <2> SUFFICES ASSUME NEW d \in Device, ~Asking(d)'
               PROVE  /\ Fresh(d, frame_counter'[d])
                      /\ \A x \in net' : x.from = d /\ x.to = Gw => Fresh(d, x.frame.seq)
    BY <2>0 DEF Numbered, Fresh, OwnStep
  <2>1. CASE d = n
    BY <1>1, <2>1 DEF CounterRight, Adds, Involves
  <2>2. CASE d # n
    <3>1. d \in Node /\ ~Asking(d) /\ frame_counter'[d] = frame_counter[d]
      BY <2>2, Constants DEF OwnStep, Asking
    <3>2. \A x \in net' : x.from = d => x \in net
      BY <1>1, <2>2 DEF Adds
    <3>3. QED
      BY <3>1, <3>2 DEF FlightInv, Numbered
  <2>3. QED
    BY <2>1, <2>2
<1>7. ReceivedWithinNumbered'
  BY DEF FlightInv, ReceivedWithinNumbered, OwnStep
<1>8. QED
  BY <1>2, <1>3, <1>4, <1>5, <1>6, <1>7 DEF FlightInv

\* Nothing of n's is in flight: net itself is what the others have there.
LEMMA IdleAdds ==
  ASSUME NEW n \in Node, Idle(n), NEW m, net' \subseteq net \cup {m},
         m.from = n, m.to \in {Gw, Cli}
  PROVE  Adds(n, net, m)
  BY DEF Adds, Idle

\* The next number of a node has not been counted either.
LEMMA TickFresh ==
  ASSUME NEW c \in Count
  PROVE  /\ c < Tick(c) \/ Tick(c) = MaxCount
         /\ Tick(c) > 0
         /\ \A d : my_device[d].last_seq \in Nat /\ Fresh(d, c) => Fresh(d, Tick(c))
  BY Constants, SMT DEF Tick, Count, Fresh

\* The number last counted is a number.
LEMMA LastSeq == ASSUME IInv PROVE \A d \in Device : my_device[d].last_seq \in Nat
  BY DEF IInv, TypeOK, GatewayTypeOK, DeviceRecord, Count

\* A thread that resumes the BEGIN loop in a good state sends what it says.
LEMMA ResumeFlight ==
  ASSUME IInv, FlightInv, NEW n \in Node, NEW base,
         base \subseteq net, \A x \in base : ~Involves(x, n),
         Resume(n, base), OwnStep(n), timer'[n] = "running",
         n \in Device /\ ~Asking(n)' => Fresh(n, frame_counter[n])
  PROVE  FlightInv'
<1>1. frame_counter \in [Node -> Count] /\ frame_counter[n] \in Count
  BY DEF IInv, TypeOK, NodeTypeOK
<1>2. CASE SendsOnResume(n)
  <2>0. PICK m : m = ecb_encrypt(n, Gw, BeginFrame(begin_cmd'[n], payload'[n], frame_counter[n]))
    OBVIOUS
  <2>1. net' = Post(base, m) /\ frame_counter'[n] = Tick(frame_counter[n])
    BY <1>1, <1>2, <2>0 DEF Resume, send2bor_begin
  <2>2. /\ m.from = n /\ m.to = Gw /\ m.mode = "ecb"
        /\ m.frame.seq = frame_counter[n] /\ m.frame.state = STATE_BEGIN
        /\ m.frame.cmd = begin_cmd'[n]
        /\ begin_cmd'[n] = REPLY_HASH => m.frame.data = Hash[payload'[n]]
    BY <2>0 DEF ecb_encrypt, BeginFrame, prepare2send
  <2>3. Adds(n, base, m)
    BY <2>1, <2>2, PostAdds DEF Adds
  <2>4. SentRight(n, base, m)
    <3>1. m.frame.seq < frame_counter'[m.from] \/ frame_counter'[m.from] = MaxCount
      BY <1>1, <2>1, <2>2, TickFresh
    <3>2. state'[m.from] = STATE_BEGIN
      BY <1>2, <2>2 DEF SendsOnResume
    <3>3. Uplink(m)'
      BY <2>2, <3>1, <3>2 DEF Uplink
    <3>4. QED
      BY <2>2, <3>3, Constants DEF SentRight
  <2>5. CounterRight(n, base, m)
    BY <1>1, <2>1, <2>2, TickFresh, LastSeq DEF CounterRight
  <2>6. QED
    BY <2>3, <2>4, <2>5, NodeFlight
<1>3. CASE ~SendsOnResume(n)
  <2>1. net' = base /\ frame_counter' = frame_counter
    BY <1>3 DEF Resume
  <2>2. \A m : Adds(n, base, m) /\ SentRight(n, base, m) /\ CounterRight(n, base, m)
    BY <2>1 DEF Adds, SentRight, CounterRight, FlightInv, Numbered
  <2>3. QED
    BY <2>2, NodeFlight
<1>4. QED
  BY <1>2, <1>3

\* A timer expires only with nothing of the node in flight (Quiet).
LEMMA TimerExpiresFlight ==
  ASSUME "late" \notin Faults, IInv, FlightInv, NEW n \in Node, TimerExpires(n),
         UNCHANGED <<gatewayVars, cli>>
  PROVE  FlightInv'
<1>1. /\ Idle(n) /\ timer' = [timer EXCEPT ![n] = "expired"]
      /\ UNCHANGED <<state, begin_cmd, payload, frame_counter, pin, net, my_device, cli>>
  BY Patience DEF TimerExpires, joining, gatewayVars
<1>2. TimersQuiet'
  BY <1>1 DEF FlightInv, TimersQuiet, Idle, IInv, TypeOK, NodeTypeOK
<1>3. Routed' /\ OneInFlight' /\ ReceivedWithinNumbered'
  BY <1>1 DEF FlightInv, Routed, OneInFlight, ReceivedWithinNumbered
<1>4. InFlight'
  BY <1>1 DEF FlightInv, InFlight, Uplink, Downlink, RelayCommand, RelayAnswer
<1>5. Numbered'
  BY <1>1 DEF FlightInv, Numbered, Fresh, Asking
<1>6. QED
  BY <1>2, <1>3, <1>4, <1>5 DEF FlightInv

\* The node repeats what it says of its step of the join (server.c:484-518).
LEMMA BeginTimerFlight ==
  ASSUME "late" \notin Faults, IInv, FlightInv, NEW n \in Node, BeginTimer(n),
         UNCHANGED <<gatewayVars, cli>>
  PROVE  FlightInv'
<1>1. Idle(n)
  BY DEF BeginTimer, FlightInv, TimersQuiet
<1>2. /\ timer' = [timer EXCEPT ![n] = "running"]
      /\ UNCHANGED <<state, begin_cmd, payload, key_normal, pin, my_device, issued, cli>>
      /\ Resume(n, net)
  BY DEF BeginTimer, RearmAndFlag, gatewayVars
<1>3. \A i \in Node \ {n} : frame_counter'[i] = frame_counter[i]
  BY <1>2 DEF Resume, send2bor_begin, IInv, TypeOK, NodeTypeOK
<1>4. OwnStep(n) /\ timer'[n] = "running"
  BY <1>2, <1>3 DEF OwnStep, IInv, TypeOK, NodeTypeOK
<1>5. n \in Device /\ ~Asking(n)' => Fresh(n, frame_counter[n])
  BY <1>2 DEF Asking, FlightInv, Numbered
<1>6. QED
  BY <1>1, <1>2, <1>4, <1>5, ResumeFlight DEF Idle

\* The event of a timer already dealt with, or a packet that arrives between
\* expiry and event: both need something in flight when the timer expires.
LEMMA NoOverrun ==
  ASSUME FlightInv, NEW n \in Node
  PROVE  /\ ~BeginStaleEvent(n) /\ ~NormalStaleEvent(n)
         /\ \A m \in net : ~BeginOverrun(n, m) /\ ~NormalOverrun(n, m)
  BY DEF FlightInv, TimersQuiet, Idle, Involves, BeginStaleEvent, NormalStaleEvent,
     BeginOverrun, NormalOverrun

\* The answer is taken off the line before the node moves on (server.c:296-350).
LEMMA BeginReceiveFlight ==
  ASSUME "late" \notin Faults, IInv, FlightInv, NEW n \in Node, NEW m \in net,
         BeginReceive(n, m), UNCHANGED <<gatewayVars, cli>>
  PROVE  FlightInv'
<1>1. Resume(n, net \ {m}) /\ m.to = n /\ timer[n] = "running" /\ UNCHANGED <<timer, pin>>
  BY Patience DEF BeginReceive, FlightInv, TimersQuiet
<1>2. \A x \in net \ {m} : ~Involves(x, n)
  BY <1>1, Alone DEF FlightInv, Involves
<1>3. \A i \in Node \ {n} : /\ state'[i] = state[i] /\ begin_cmd'[i] = begin_cmd[i]
                            /\ payload'[i] = payload[i] /\ key_normal'[i] = key_normal[i]
  BY DEF BeginReceive, tcpip_begin_handler, joining, IInv, TypeOK, NodeTypeOK
<1>4. \A i \in Node \ {n} : frame_counter'[i] = frame_counter[i]
  BY <1>1 DEF Resume, send2bor_begin, IInv, TypeOK, NodeTypeOK
<1>5. OwnStep(n) /\ timer'[n] = "running"
  BY <1>1, <1>3, <1>4 DEF OwnStep, gatewayVars
<1>6. n \in Device /\ ~Asking(n)' => Fresh(n, frame_counter[n])
  <2> SUFFICES ASSUME n \in Device, ~Asking(n)'
               PROVE  Fresh(n, frame_counter[n])
    OBVIOUS
  <2>1. CASE Asking(n)
    <3>1. Opens(m, "ecb", KeyBegin)
      BY <2>1 DEF BeginReceive, tcpip_begin_handler, joining, Asking
    <3>2. m.from = Gw
      BY <1>1, <3>1 DEF IInv, Provenance, GenuineDatagram, Opens
    <3>3. my_device[n].last_seq = 0
      BY <1>1, <2>1, <3>2 DEF Asking, FlightInv, InFlight, Downlink
    <3>4. QED
      BY <3>3 DEF FlightInv, Numbered, Fresh
  <2>2. CASE ~Asking(n)
    BY <2>2 DEF FlightInv, Numbered
  <2>3. QED
    BY <2>1, <2>2
<1>7. QED
  BY <1>1, <1>2, <1>5, <1>6, ResumeFlight

\* A report goes out under the next number, or nothing does.
LEMMA NormalTimerFlight ==
  ASSUME "late" \notin Faults, IInv, FlightInv, NEW n \in Node, NormalTimer(n),
         UNCHANGED <<gatewayVars, cli>>
  PROVE  FlightInv'
<1>1. /\ Idle(n) /\ state[n] = STATE_NORMAL
      /\ timer' = [timer EXCEPT ![n] = "running"]
      /\ UNCHANGED <<state, begin_cmd, payload, key_normal, pin, my_device, issued, cli>>
  BY DEF NormalTimer, FlightInv, TimersQuiet, joining, gatewayVars
<1>2. frame_counter \in [Node -> Count] /\ frame_counter[n] \in Count
  BY DEF IInv, TypeOK, NodeTypeOK
<1>3. ~Asking(n) /\ ~Asking(n)'
  BY <1>1 DEF Asking, STATE_BEGIN, STATE_NORMAL
<1>4. \A i \in Node \ {n} : frame_counter'[i] = frame_counter[i]
  BY <1>2 DEF NormalTimer, send2bor_normal
<1>5. OwnStep(n) /\ timer'[n] = "running"
  BY <1>1, <1>4 DEF OwnStep, IInv, TypeOK, NodeTypeOK
<1>6. CASE send2bor_normal(n, net)
  <2>1. PICK m : m = encrypt_cbc(n, Gw, key_normal[n],
                   prepare2send(Gw, frame_counter[n], STATE_NORMAL, SEND_PZEM, Zero))
    OBVIOUS
  <2>2. net' = Post(net, m) /\ frame_counter'[n] = Tick(frame_counter[n])
    BY <1>2, <1>6, <2>1 DEF send2bor_normal
  <2>3. /\ m.from = n /\ m.to = Gw /\ m.mode = "cbc"
        /\ m.frame.seq = frame_counter[n] /\ m.frame.state = STATE_NORMAL
    BY <2>1 DEF encrypt_cbc, prepare2send
  <2>4. Adds(n, net, m)
    BY <1>1, <2>2, <2>3, PostAdds, IdleAdds
  <2>5. SentRight(n, net, m)
    <3>1. m.frame.seq < frame_counter'[m.from] \/ frame_counter'[m.from] = MaxCount
      BY <1>2, <2>2, <2>3, TickFresh
    <3>2. Uplink(m)'
      BY <1>1, <2>3, <3>1 DEF Uplink
    <3>3. QED
      BY <2>3, <3>2, Constants DEF SentRight
  <2>6. CounterRight(n, net, m)
    BY <1>2, <1>3, <2>2, <2>3, TickFresh, LastSeq DEF CounterRight, FlightInv, Numbered
  <2>7. QED
    BY <1>5, <2>4, <2>5, <2>6, NodeFlight
<1>7. CASE UNCHANGED <<net, frame_counter>>
  <2>1. \A m : Adds(n, net, m) /\ SentRight(n, net, m) /\ CounterRight(n, net, m)
    BY <1>1, <1>3, <1>7 DEF Adds, SentRight, CounterRight, Idle, FlightInv, Numbered
  <2>2. QED
    BY <1>5, <2>1, NodeFlight
<1>8. QED
  BY <1>6, <1>7 DEF NormalTimer

\* The relay is switched as the run that waits asked for, and the reply says so.
LEMMA NormalReceiveFlight ==
  ASSUME "late" \notin Faults, IInv, FlightInv, NEW n \in Node, NEW m \in net,
         NormalReceive(n, m), UNCHANGED <<gatewayVars, cli>>
  PROVE  FlightInv'
<1>1. /\ m.to = n /\ state[n] = STATE_NORMAL /\ timer[n] = "running"
      /\ UNCHANGED <<state, begin_cmd, key_normal, frame_counter, timer, my_device, issued, cli>>
  BY DEF NormalReceive, FlightInv, TimersQuiet, Idle, Involves, gatewayVars
<1>2. \A x \in net \ {m} : ~Involves(x, n)
  BY <1>1, Alone DEF FlightInv, Involves
<1>3. ~Asking(n) /\ ~Asking(n)'
  BY <1>1 DEF Asking, STATE_BEGIN, STATE_NORMAL
<1>4. payload \in [Node -> Payload] /\ pin \in [Node -> {0, 1}]
  BY DEF IInv, TypeOK, NodeTypeOK
<1>5. CASE Opens(m, "cbc", KeyBegin)
  <2>1. m.from = Cli /\ RelayCommand(m)
    <3>1. m.from \in {Gw, Cli}
      BY <1>1, Ends DEF FlightInv
    <3>2. m.from # Gw
      BY <1>5 DEF FlightInv, InFlight, Downlink, Opens
    <3>3. QED
      BY <3>1, <3>2 DEF FlightInv, InFlight
  <2>2. /\ payload' = [payload EXCEPT ![n] = m.frame.data]
        /\ \/ /\ m.frame.cmd = REQUEST_LED_ON
              /\ pin' = [pin EXCEPT ![n] = 0]
              /\ net' = Post(net \ {m}, RelayReply(n, REPLY_LED_ON))
           \/ /\ m.frame.cmd # REQUEST_LED_ON
              /\ pin' = [pin EXCEPT ![n] = 1]
              /\ net' = Post(net \ {m}, RelayReply(n, REPLY_LED_OFF))
    BY <1>5, Patience DEF NormalReceive, relay_on, relay_off, my_leds_on, my_leds_off
  <2>3. PICK cmd \in {REPLY_LED_ON, REPLY_LED_OFF} :
          /\ cmd = IF pin'[n] = 0 THEN REPLY_LED_ON ELSE REPLY_LED_OFF
          /\ pin'[n] = 0 <=> m.frame.cmd = REQUEST_LED_ON
          /\ net' = Post(net \ {m}, RelayReply(n, cmd))
    BY <1>4, <2>2
  <2>4. PICK r : r = RelayReply(n, cmd)
    OBVIOUS
  <2>5. r.from = n /\ r.to = Cli /\ r.frame.cmd = cmd
    BY <2>4 DEF RelayReply, encrypt_cbc, prepare2send
  <2>6. Adds(n, net \ {m}, r)
    BY <1>2, <2>3, <2>4, <2>5, PostAdds DEF Adds
  <2>7. SentRight(n, net \ {m}, r)
    <3>1. RelayAnswer(r)'
      BY <1>1, <2>1, <2>3, <2>5 DEF RelayAnswer, RelayCommand
    <3>2. QED
      BY <2>5, <3>1, Constants DEF SentRight
  <2>8. CounterRight(n, net \ {m}, r)
    BY <1>1, <1>3, <2>5, Constants DEF CounterRight, FlightInv, Numbered
  <2>9. OwnStep(n)
    BY <1>1, <1>4, <2>2 DEF OwnStep
  <2>10. QED
    BY <1>1, <2>6, <2>7, <2>8, <2>9, NodeFlight
<1>6. CASE ~Opens(m, "cbc", KeyBegin)
  <2>1. net' = net \ {m} /\ UNCHANGED <<payload, pin>>
    BY <1>6, Patience DEF NormalReceive
  <2>2. \A r : /\ Adds(n, net \ {m}, r) /\ SentRight(n, net \ {m}, r)
               /\ CounterRight(n, net \ {m}, r)
    BY <1>1, <1>2, <1>3, <2>1 DEF Adds, SentRight, CounterRight, FlightInv, Numbered
  <2>3. OwnStep(n)
    BY <1>1, <2>1 DEF OwnStep
  <2>4. QED
    BY <1>1, <2>2, <2>3, NodeFlight
<1>7. QED
  BY <1>5, <1>6

\* A node reboots only with nothing of it in flight.
LEMMA RebootFlight ==
  ASSUME "late" \notin Faults, IInv, FlightInv, NEW n \in Node, Reboot(n),
         UNCHANGED <<gatewayVars, cli>>
  PROVE  FlightInv'
<1>1. PICK m : m = ecb_encrypt(n, Gw, BeginFrame(REQUEST_JOIN, Zero, 0))
  OBVIOUS
<1>2. /\ m.from = n /\ m.to = Gw /\ m.mode = "ecb"
      /\ m.frame.seq = 0 /\ m.frame.state = STATE_BEGIN /\ m.frame.cmd = REQUEST_JOIN
  BY <1>1 DEF ecb_encrypt, BeginFrame, prepare2send
<1>3. Idle(n)
  BY Patience DEF Reboot
<1>4. /\ state'[n] = STATE_BEGIN /\ begin_cmd'[n] = REQUEST_JOIN
      /\ frame_counter'[n] = 1 /\ timer'[n] = "running"
      /\ net' = Post(net, m)
  BY <1>1 DEF Reboot, IInv, TypeOK, NodeTypeOK
<1>5. OwnStep(n)
  BY DEF Reboot, OwnStep, gatewayVars, IInv, TypeOK, NodeTypeOK
<1>6. Adds(n, net, m)
  BY <1>2, <1>3, <1>4, PostAdds, IdleAdds
<1>7. SentRight(n, net, m)
  <2>1. Uplink(m)'
    BY <1>2, <1>4 DEF Uplink, REQUEST_JOIN, REPLY_HASH
  <2>2. QED
    BY <1>2, <2>1, Constants DEF SentRight
<1>8. CounterRight(n, net, m)
  BY <1>4 DEF CounterRight, Asking
<1>9. QED
  BY <1>4, <1>5, <1>6, <1>7, <1>8, NodeFlight

\* A step of the nodes keeps FlightInv.
LEMMA NodeStepFlight ==
  ASSUME "late" \notin Faults, IInv, FlightInv, NodeStep
  PROVE  FlightInv'
<1>1. UNCHANGED <<gatewayVars, cli>>
  BY DEF NodeStep
<1>2. PICK n \in Node : \/ TimerExpires(n)
                        \/ NodeTimer(n)
                        \/ \E m \in net : NodeReceive(n, m)
                        \/ Reboot(n)
  BY DEF NodeStep
<1>3. CASE TimerExpires(n) \/ NodeTimer(n)
  BY <1>1, <1>3, TimerExpiresFlight, BeginTimerFlight, NormalTimerFlight, NoOverrun
     DEF NodeTimer
<1>4. CASE \E m \in net : NodeReceive(n, m)
  BY <1>1, <1>4, BeginReceiveFlight, NormalReceiveFlight, NoOverrun DEF NodeReceive
<1>5. CASE Reboot(n)
  BY <1>1, <1>5, RebootFlight
<1>6. QED
  BY <1>2, <1>3, <1>4, <1>5

-----------------------------------------------------------------------------
(* Steps of the gateway, the tool and the network *)

\* Handling m, the gateway touches the record of its sender only, and adds at
\* most the answer a.
AnswersTo(m, a) ==
  /\ m \in net /\ m.from \in Node
  /\ net' \subseteq (net \ {m}) \cup {a}
  /\ a \in net' => a \in net \ {m} \/ (a.from = Gw /\ a.to = m.from /\ Downlink(a)')
  /\ \A d \in Device \ {m.from} : my_device'[d] = my_device[d]

RecordRight(d) ==
  d \in Device =>
    /\ my_device'[d].num_receive <=
         my_device'[d].last_seq + (IF my_device'[d].authenticated = "Y" THEN 0 ELSE 1)
    /\ ~Asking(d) => Fresh(d, frame_counter[d])'

\* The gateway takes a datagram and puts at most one in its place.
LEMMA GatewayFlight ==
  ASSUME IInv, FlightInv, UNCHANGED <<nodeVars, cli>>, NEW m, NEW a,
         AnswersTo(m, a), RecordRight(m.from)
  PROVE  FlightInv'
<1>1. UNCHANGED <<state, begin_cmd, payload, frame_counter, timer, pin, cli>>
  BY DEF nodeVars, joining
<1>2. \A x \in net' : (x \in net /\ x # m) \/ x = a
  BY DEF AnswersTo
<1>3. \A x \in net \ {m} : ~Involves(x, m.from)
  BY Alone DEF FlightInv, AnswersTo, Involves
<1>4. Routed'
  BY <1>2, Constants DEF FlightInv, Routed, AnswersTo
<1>5. OneInFlight'
  BY <1>2, <1>3, Constants DEF FlightInv, OneInFlight, AnswersTo, Involves
<1>6. TimersQuiet'
  <2> SUFFICES ASSUME NEW i \in Node
               PROVE  (timer[i] = "running" \/ (timer[i] = "expired" /\ Idle(i)))'
    BY DEF TimersQuiet
  <2>1. timer[m.from] = "running"
    BY DEF FlightInv, TimersQuiet, Idle, Involves, AnswersTo
  <2>2. CASE i # m.from
    BY <1>1, <1>2, <2>2, Constants DEF FlightInv, TimersQuiet, Idle, Involves, AnswersTo
  <2>3. QED
    BY <1>1, <2>1, <2>2
<1>7. InFlight'
  <2> SUFFICES ASSUME NEW x \in net'
               PROVE  /\ x.to = Gw => Uplink(x)'
                      /\ x.from = Gw => Downlink(x)'
                      /\ x.from = Cli => RelayCommand(x)'
                      /\ x.to = Cli => RelayAnswer(x)'
    BY DEF InFlight
  <2>1. CASE x \in net /\ x # m
    <3>1. /\ x.to = Gw => Uplink(x)
          /\ x.from = Gw => Downlink(x)
          /\ x.from = Cli => RelayCommand(x)
          /\ x.to = Cli => RelayAnswer(x)
      BY <2>1 DEF FlightInv, InFlight
    <3>2. x.from = Gw => x.to \in Device \ {m.from}
      BY <1>3, <2>1, Ends DEF FlightInv, Involves
    <3>3. x.from = Gw => Downlink(x)'
      BY <1>1, <3>1, <3>2 DEF Downlink, AnswersTo
    <3>4. (x.to = Gw => Uplink(x)') /\ (x.from = Cli => RelayCommand(x)')
            /\ (x.to = Cli => RelayAnswer(x)')
      BY <1>1, <3>1 DEF Uplink, RelayCommand, RelayAnswer
    <3>5. QED
      BY <3>3, <3>4
  <2>2. CASE ~(x \in net /\ x # m)
    BY <1>2, <2>2, Constants DEF AnswersTo
  <2>3. QED
    BY <2>1, <2>2
<1>8. Numbered'
  <2> SUFFICES ASSUME NEW d \in Device, ~Asking(d)'
               PROVE  /\ Fresh(d, frame_counter[d])'
                      /\ \A x \in net' : x.from = d /\ x.to = Gw => Fresh(d, x.frame.seq)'
    BY <1>1 DEF Numbered, FlightInv
  <2>1. ~Asking(d)
    BY <1>1 DEF Asking
  <2>2. CASE d = m.from
    BY <1>2, <1>3, <2>1, <2>2, Constants DEF RecordRight, Involves, AnswersTo
  <2>3. CASE d # m.from
    <3>1. my_device'[d] = my_device[d]
      BY <2>3 DEF AnswersTo
    <3>2. \A x \in net' : x.from = d => x \in net
      BY <1>2, Constants DEF AnswersTo
    <3>3. QED
      BY <1>1, <2>1, <3>1, <3>2 DEF FlightInv, Numbered, Fresh
  <2>4. QED
    BY <2>2, <2>3
<1>9. ReceivedWithinNumbered'
  BY DEF FlightInv, ReceivedWithinNumbered, RecordRight, AnswersTo
<1>10. QED
  BY <1>4, <1>5, <1>6, <1>7, <1>8, <1>9 DEF FlightInv

\* A frame of the join that reaches the gateway says what its sender still does.
LEMMA UplinkBegin ==
  ASSUME IInv, FlightInv, NEW m \in net, NEW cmd, m.to = Gw, IsBegin(m, cmd)
  PROVE  /\ m.from \in Node /\ state[m.from] = STATE_BEGIN
         /\ begin_cmd[m.from] = cmd
         /\ cmd = REPLY_HASH => m.frame.data = Hash[payload[m.from]]
  BY Ends DEF FlightInv, InFlight, Uplink, IsBegin, STATE_BEGIN, STATE_NORMAL

\* What an answer leaves in flight.
LEMMA AnswerAdds ==
  ASSUME "late" \notin Faults, NEW m \in net, NEW f, Answer(m, f)
  PROVE  net' \subseteq (net \ {m}) \cup {ecb_encrypt(Gw, m.from, f)}
  BY Patience, PostAdds DEF Answer

\* The record of a new session counts from zero (test.c:146-172).
LEMMA JoinFlight ==
  ASSUME "late" \notin Faults, IInv, FlightInv, UNCHANGED <<nodeVars, cli>>,
         NEW m \in net, Join(m)
  PROVE  FlightInv'
<1>1. PICK c, f :
        /\ c \in Challenge
        /\ my_device' = [my_device EXCEPT ![m.from] = Challenged(c, f)]
        /\ Answer(m, f)
  BY DEF Join, copy_node2node
<1>2. /\ m.to = Gw /\ m.from \in Device /\ state[m.from] = STATE_BEGIN
      /\ begin_cmd[m.from] = REQUEST_JOIN /\ my_device'[m.from].authenticated = "N"
      /\ my_device'[m.from].num_receive = 1 /\ my_device'[m.from].last_seq = 0
  BY <1>1, UplinkBegin DEF Join, Parses, checklist_my_device, IInv, TypeOK,
     GatewayTypeOK, Challenged
<1>3. PICK a : a = ecb_encrypt(Gw, m.from, f)
  OBVIOUS
<1>4. a.from = Gw /\ a.to = m.from /\ a.mode = "ecb"
  BY <1>3 DEF ecb_encrypt
<1>5. Downlink(a)'
  BY <1>2, <1>4 DEF Downlink, nodeVars, joining
<1>6. AnswersTo(m, a)
  BY <1>1, <1>2, <1>3, <1>4, <1>5, AnswerAdds, Constants DEF AnswersTo, IInv, TypeOK,
     GatewayTypeOK
<1>7. RecordRight(m.from)
  BY <1>2 DEF RecordRight, Asking
<1>8. QED
  BY <1>6, <1>7, GatewayFlight

\* The three answers to a REPLY_HASH: the record takes the number of the frame.
LEMMA ReplyFlight ==
  ASSUME "late" \notin Faults, IInv, FlightInv, UNCHANGED <<nodeVars, cli>>,
         NEW m \in net, NEW f, NEW k, Parses(m), IsBegin(m, REPLY_HASH), ReplyWith(m, f, k)
  PROVE  FlightInv'
<1>1. /\ m.to = Gw /\ m.from \in Device /\ m.from \in Node
      /\ state[m.from] = STATE_BEGIN /\ begin_cmd[m.from] = REPLY_HASH
  BY UplinkBegin DEF Parses, checklist_my_device
<1>2. PICK a : a = ecb_encrypt(Gw, m.from, f)
  OBVIOUS
<1>3. a.from = Gw /\ a.to = m.from /\ a.mode = "ecb"
  BY <1>2 DEF ecb_encrypt
<1>4. Downlink(a)'
  BY <1>1, <1>3 DEF Downlink, nodeVars, joining, REQUEST_JOIN, REPLY_HASH
<1>5. my_device' = [my_device EXCEPT ![m.from] =
                      Replied(my_device[m.from], m.frame.seq, f, k)] /\ Answer(m, f)
  BY DEF ReplyWith, copy_node2node
<1>6. AnswersTo(m, a)
  BY <1>1, <1>2, <1>3, <1>4, <1>5, AnswerAdds DEF AnswersTo, IInv, TypeOK, GatewayTypeOK
<1>7. /\ my_device'[m.from].num_receive = m.frame.seq
      /\ my_device'[m.from].last_seq = m.frame.seq
  BY <1>1, <1>5 DEF Replied, IInv, TypeOK, GatewayTypeOK
<1>8. m.frame.seq \in Nat /\ frame_counter[m.from] \in Nat
  BY <1>1 DEF IInv, TypeOK, NodeTypeOK, Datagram, Frame, Count
<1>9. m.frame.seq < frame_counter[m.from] \/ frame_counter[m.from] = MaxCount
  BY <1>1 DEF FlightInv, InFlight, Uplink
<1>10. RecordRight(m.from)
  BY <1>7, <1>8, <1>9 DEF RecordRight, Fresh, nodeVars
<1>11. QED
  BY <1>6, <1>10, GatewayFlight

\* A report that opens is from a node in STATE_NORMAL, under a fresh number.
LEMMA NormalFlight ==
  ASSUME "late" \notin Faults, IInv, FlightInv, UNCHANGED <<nodeVars, cli>>,
         NEW m \in net, process_normal(m)
  PROVE  FlightInv'
<1>1. /\ m.to = Gw /\ m.from \in Device /\ m.from \in Node /\ net' = net \ {m}
      /\ my_device' = [my_device EXCEPT ![m.from] = Counted(my_device[m.from], m.frame.seq)]
  BY Patience, Constants DEF process_normal, Parses, checklist_my_device, copy_node2node
<1>2. state[m.from] = STATE_NORMAL /\ ~Asking(m.from)
  BY <1>1 DEF process_normal, IsNormal, FlightInv, InFlight, Uplink, Asking, STATE_BEGIN,
     STATE_NORMAL
<1>3. \A a : AnswersTo(m, a)
  BY <1>1 DEF AnswersTo, IInv, TypeOK, GatewayTypeOK
<1>4. /\ my_device'[m.from].authenticated = my_device[m.from].authenticated
      /\ my_device'[m.from].num_receive = Tick(my_device[m.from].num_receive)
      /\ my_device'[m.from].last_seq = m.frame.seq
  BY <1>1 DEF Counted, IInv, TypeOK, GatewayTypeOK
<1>5. /\ m.frame.seq \in Count /\ frame_counter[m.from] \in Count
      /\ my_device[m.from].num_receive \in Count /\ my_device[m.from].last_seq \in Count
  BY <1>1 DEF IInv, TypeOK, NodeTypeOK, GatewayTypeOK, DeviceRecord, Datagram, Frame
<1>6. m.frame.seq < frame_counter[m.from] \/ frame_counter[m.from] = MaxCount
  BY <1>1 DEF FlightInv, InFlight, Uplink
<1>7. /\ Fresh(m.from, m.frame.seq)
      /\ my_device[m.from].num_receive <= my_device[m.from].last_seq
           + (IF my_device[m.from].authenticated = "Y" THEN 0 ELSE 1)
  BY <1>1, <1>2 DEF FlightInv, Numbered, ReceivedWithinNumbered
<1>8. Tick(my_device[m.from].num_receive) <= m.frame.seq
           + (IF my_device[m.from].authenticated = "Y" THEN 0 ELSE 1)
  BY <1>5, <1>7, Constants, SMT DEF Fresh, Tick, Count
<1>9. RecordRight(m.from)
  <2>1. m.frame.seq \in Nat /\ frame_counter[m.from] \in Nat
    BY <1>5 DEF Count
  <2>2. (Fresh(m.from, frame_counter[m.from]))'
    BY <1>4, <1>6, <2>1 DEF Fresh, nodeVars
  <2>3. QED
    BY <1>4, <1>8, <2>2 DEF RecordRight
<1>10. QED
  BY <1>3, <1>9, GatewayFlight

\* Steps that only take something off the net.
LEMMA LessFlight ==
  ASSUME FlightInv, UNCHANGED <<nodeVars, my_device, cli>>, net' \subseteq net
  PROVE  FlightInv'
<1>1. UNCHANGED <<state, begin_cmd, payload, frame_counter, timer, pin>>
  BY DEF nodeVars, joining
<1>2. Routed' /\ OneInFlight' /\ TimersQuiet' /\ ReceivedWithinNumbered'
  BY <1>1 DEF FlightInv, Routed, OneInFlight, TimersQuiet, Idle, ReceivedWithinNumbered
<1>3. InFlight'
  BY <1>1 DEF FlightInv, InFlight, Uplink, Downlink, RelayCommand, RelayAnswer
<1>4. Numbered'
  BY <1>1 DEF FlightInv, Numbered, Fresh, Asking
<1>5. QED
  BY <1>2, <1>3, <1>4 DEF FlightInv

\* A new run of the gateway has counted nothing.
LEMMA RestartFlight ==
  ASSUME IInv, FlightInv, UNCHANGED <<nodeVars, cli>>, Restart
  PROVE  FlightInv'
<1>1. /\ UNCHANGED <<state, begin_cmd, payload, frame_counter, timer, pin, net, cli>>
      /\ \A d \in Device : /\ my_device'[d].authenticated = "N"
                           /\ my_device'[d].num_receive = 0 /\ my_device'[d].last_seq = 0
  BY DEF nodeVars, joining, Restart, init_main, NewDevice
<1>2. Routed' /\ OneInFlight' /\ TimersQuiet'
  BY <1>1 DEF FlightInv, Routed, OneInFlight, TimersQuiet, Idle
<1>3. Numbered'
  <2>1. \A d \in Device, c \in Nat : Fresh(d, c) => Fresh(d, c)'
    BY <1>1, LastSeq DEF Fresh
  <2>2. /\ \A n \in Node : frame_counter[n] \in Nat
        /\ \A m \in net : m.frame.seq \in Nat
    BY DEF IInv, TypeOK, NodeTypeOK, Datagram, Frame, Count
  <2>3. QED
    BY <1>1, <2>1, <2>2, Constants DEF FlightInv, Numbered, Asking
<1>4. ReceivedWithinNumbered'
  BY <1>1 DEF ReceivedWithinNumbered
<1>5. InFlight'
  BY <1>1, Ends DEF FlightInv, InFlight, Uplink, Downlink, RelayCommand, RelayAnswer
<1>6. QED
  BY <1>2, <1>3, <1>4, <1>5 DEF FlightInv

\* The steps of the gateway together.
LEMMA GatewayStepFlight ==
  ASSUME "late" \notin Faults, IInv, FlightInv, GatewayStep
  PROVE  FlightInv'
<1>1. UNCHANGED <<nodeVars, cli>>
  BY DEF GatewayStep
<1>2. CASE Restart
  BY <1>1, <1>2, RestartFlight
<1>3. CASE \E m \in net : GatewayReceive(m)
  <2>1. PICK m \in net : GatewayReceive(m)
    BY <1>3
  <2>2. CASE Join(m)
    BY <1>1, <2>2, JoinFlight
  <2>3. CASE ReplyMatch(m) \/ ReplyMismatch(m) \/ ReplyDuplicate(m)
    BY <1>1, <2>3, ReplyFlight DEF ReplyMatch, ReplyMismatch, ReplyDuplicate
  <2>4. CASE process_normal(m)
    BY <1>1, <2>4, NormalFlight
  <2>5. CASE Ignore(m)
    BY <1>1, <2>5, LessFlight, DeliveredAdds DEF Ignore
  <2>6. QED
    BY <2>1, <2>2, <2>3, <2>4, <2>5 DEF GatewayReceive
<1>4. QED
  BY <1>2, <1>3 DEF GatewayStep

\* While no run waits, nothing of the tool is in flight.
LEMMA ToolSilent ==
  ASSUME FlightInv, cli.phase # "waiting", NEW m \in net
  PROVE  m.from # Cli /\ m.to # Cli
  BY DEF FlightInv, InFlight, RelayCommand, RelayAnswer

\* A run starts while its node has nothing in flight.
LEMMA RunFlight ==
  ASSUME "late" \notin Faults, IInv, FlightInv, UNCHANGED <<nodeVars, gatewayVars>>,
         NEW n \in CliTargets, NEW cmd, MayAct(n), CliRun(n, cmd)
  PROVE  FlightInv'
<1>1. PICK m : m = encrypt_cbc(Cli, n, KeyBegin,
                     prepare2send(NoAddr, 0, STATE_NORMAL, cmd, Zero))
  OBVIOUS
<1>2. m.from = Cli /\ m.to = n /\ m.mode = "cbc" /\ m.frame.cmd = cmd
  BY <1>1 DEF encrypt_cbc, prepare2send
<1>3. /\ n \in Node /\ Idle(n) /\ timer[n] = "running" /\ cli.phase # "waiting"
      /\ cli'.phase = "waiting" /\ cli'.target = n /\ cli'.cmd = cmd
  BY Patience, Constants DEF CliRun
<1>4. /\ UNCHANGED <<state, begin_cmd, payload, frame_counter, timer, pin, my_device>>
      /\ \A x \in net' : x \in net \/ x = m
  BY <1>1, PostAdds DEF CliRun, nodeVars, joining, gatewayVars
<1>5. Routed' /\ OneInFlight'
  BY <1>2, <1>3, <1>4, Constants DEF FlightInv, Routed, OneInFlight, Idle, Involves
<1>6. TimersQuiet'
  BY <1>2, <1>3, <1>4, Constants DEF FlightInv, TimersQuiet, Idle, Involves
<1>7. InFlight'
  <2> SUFFICES ASSUME NEW x \in net'
               PROVE  /\ x.to = Gw => Uplink(x)'
                      /\ x.from = Gw => Downlink(x)'
                      /\ x.from = Cli => RelayCommand(x)'
                      /\ x.to = Cli => RelayAnswer(x)'
    BY DEF InFlight
  <2>1. CASE x = m
    BY <1>2, <1>3, <2>1, Constants DEF RelayCommand
  <2>2. CASE x \in net
    BY <1>3, <1>4, <2>2, ToolSilent DEF FlightInv, InFlight, Uplink, Downlink
  <2>3. QED
    BY <1>4, <2>1, <2>2
<1>8. Numbered' /\ ReceivedWithinNumbered'
  BY <1>2, <1>4, Constants DEF FlightInv, Numbered, Fresh, Asking, ReceivedWithinNumbered
<1>9. QED
  BY <1>5, <1>6, <1>7, <1>8 DEF FlightInv

\* A run ends with nothing of its node left in flight.
LEMMA EndFlight ==
  ASSUME IInv, FlightInv, UNCHANGED <<nodeVars, gatewayVars>>, net' \subseteq net,
         \A x \in net' : ~Involves(x, cli.target), cli.phase = "waiting"
  PROVE  FlightInv'
<1>1. UNCHANGED <<state, begin_cmd, payload, frame_counter, timer, pin, my_device>>
  BY DEF nodeVars, joining, gatewayVars
<1>2. Routed' /\ OneInFlight' /\ TimersQuiet' /\ ReceivedWithinNumbered'
  BY <1>1 DEF FlightInv, Routed, OneInFlight, TimersQuiet, Idle, ReceivedWithinNumbered
<1>3. InFlight'
  <2>1. \A x \in net' : x.from # Cli /\ x.to # Cli
    BY DEF FlightInv, InFlight, RelayCommand, RelayAnswer, Involves
  <2>2. QED
    BY <1>1, <2>1 DEF FlightInv, InFlight, Uplink, Downlink
<1>4. Numbered'
  BY <1>1 DEF FlightInv, Numbered, Fresh, Asking
<1>5. QED
  BY <1>2, <1>3, <1>4 DEF FlightInv

\* The tool sends only to a node with nothing in flight (Quiet).
LEMMA CliStepFlight ==
  ASSUME "late" \notin Faults, IInv, FlightInv, CliStep
  PROVE  FlightInv'
<1>1. UNCHANGED <<nodeVars, gatewayVars>>
  BY DEF CliStep
<1>2. CASE \E n \in CliTargets, cmd \in {REQUEST_LED_ON, REQUEST_LED_OFF} :
             MayAct(n) /\ CliRun(n, cmd)
  BY <1>1, <1>2, RunFlight
<1>3. CASE \E m \in net : CliReceive(m)
  <2>1. PICK m \in net : CliReceive(m)
    BY <1>3
  <2>2. net' = net \ {m} /\ m.to = Cli /\ cli.phase = "waiting"
    BY <2>1, Patience DEF CliReceive
  <2>3. m.from \in Node /\ cli.target = m.from
    BY <2>2, Ends DEF FlightInv, InFlight, RelayAnswer
  <2>4. \A x \in net' : ~Involves(x, cli.target)
    BY <2>2, <2>3, Alone DEF FlightInv, Involves
  <2>5. QED
    BY <1>1, <2>2, <2>4, EndFlight
<1>4. CASE \E m \in net : CliUnbound(m)
  BY <1>4, ToolSilent DEF CliUnbound
<1>5. CASE CliTimeout
  BY <1>1, <1>5, EndFlight DEF CliTimeout, Idle
<1>6. QED
  BY <1>2, <1>3, <1>4, <1>5 DEF CliStep

\* A lost datagram takes nothing with it.
LEMMA NetworkStepFlight ==
  ASSUME FlightInv, NetworkStep \/ UNCHANGED vars
  PROVE  FlightInv'
  BY LessFlight DEF NetworkStep, Lose, gatewayVars, vars

\* Nothing is in flight at the start.
LEMMA InitFlight == Init => FlightInv
<1> SUFFICES ASSUME Init PROVE FlightInv
  OBVIOUS
<1>1. \A m \in net : \E n \in Node :
        /\ m = ecb_encrypt(n, Gw, BeginFrame(REQUEST_JOIN, Zero, 0))
        /\ m.from = n /\ m.to = Gw /\ m.mode = "ecb"
        /\ m.frame.seq = 0 /\ m.frame.state = STATE_BEGIN /\ m.frame.cmd = REQUEST_JOIN
  BY DEF Init, NodeInit, ecb_encrypt, BeginFrame, prepare2send
<1>2. Routed /\ OneInFlight
  BY <1>1, Constants DEF Routed, OneInFlight, Involves
<1>3. TimersQuiet
  BY DEF Init, NodeInit, TimersQuiet
<1>4. InFlight
  BY <1>1, Constants DEF Init, NodeInit, InFlight, Uplink, REQUEST_JOIN, REPLY_HASH
<1>5. /\ \A d \in Device : /\ my_device[d].authenticated = "N" /\ Asking(d)
                           /\ my_device[d].num_receive = 0 /\ my_device[d].last_seq = 0
      /\ \A n \in Node : frame_counter[n] = 1
  BY Constants DEF Init, NodeInit, Asking, GatewayInit, init_main, NewDevice
<1>6. Numbered /\ ReceivedWithinNumbered
  BY <1>5 DEF Numbered, ReceivedWithinNumbered
<1>7. QED
  BY <1>2, <1>3, <1>4, <1>6 DEF FlightInv

\* Every step keeps the invariant.
LEMMA FlightStep ==
  ASSUME "late" \notin Faults, IInv, FlightInv, [Next]_vars
  PROVE  FlightInv'
  BY NodeStepFlight, GatewayStepFlight, CliStepFlight, NetworkStepFlight DEF Next

-----------------------------------------------------------------------------
\* While round trips are shorter than the timers, whatever is lost, rebooted or
\* restarted, a node has one datagram in flight and it says what the node still
\* is (server.c:484-518).
THEOREM FlightInvariance ==
  ASSUME "late" \notin Faults
  PROVE  Spec => []FlightInv
<1>1. Init => FlightInv
  BY InitFlight
<1>2. IInv /\ FlightInv /\ [Next]_vars => FlightInv'
  BY FlightStep
<1>3. QED
  BY <1>1, <1>2, Invariance, PTL DEF Spec

\* Then the sum of what was received that PRINT_ALL divides by the sum of the
\* last numbers exceeds it by no more than the records that are not authenticated,
\* by one each (test.c:144-193, 258-260, util.c:424-429).
THEOREM PrintedRatioBounded ==
  ASSUME "late" \notin Faults
  PROVE  Spec => []ReceivedWithinNumbered
<1>1. FlightInv => ReceivedWithinNumbered
  BY DEF FlightInv
<1>2. QED
  BY <1>1, FlightInvariance, PTL

\* What a step of the gateway does to the count of one record.
LEMMA CountStep ==
  ASSUME "late" \notin Faults, IInv, FlightInv, GatewayStep, NEW d \in Device,
         my_device[d].authenticated = "Y", my_device'[d].authenticated = "Y",
         my_device'[d].num_receive # my_device[d].num_receive
  PROVE  my_device'[d].last_seq > my_device[d].last_seq \/ my_device'[d].last_seq = MaxCount
<1>1. my_device \in [Device -> DeviceRecord]
  BY DEF IInv, TypeOK, GatewayTypeOK
<1>2. CASE Restart
  BY <1>2 DEF Restart, init_main, NewDevice
<1>3. CASE \E m \in net : GatewayReceive(m)
  <2>1. PICK m \in net : GatewayReceive(m)
    BY <1>3
  <2>2. CASE Join(m)
    BY <1>1, <2>2 DEF Join, copy_node2node, Challenged, Parses, checklist_my_device
  <2>3. CASE ReplyMatch(m) \/ ReplyMismatch(m) \/ ReplyDuplicate(m)
    <3>1. PICK f, k : /\ Parses(m) /\ IsBegin(m, REPLY_HASH) /\ ReplyWith(m, f, k)
      BY <2>3 DEF ReplyMatch, ReplyMismatch, ReplyDuplicate
    <3>2. my_device' = [my_device EXCEPT ![m.from] =
                          Replied(my_device[m.from], m.frame.seq, f, k)]
      BY <3>1 DEF ReplyWith, copy_node2node
    <3>3. d = m.from /\ my_device'[d].last_seq = m.frame.seq
      BY <1>1, <3>2 DEF Replied
    <3>4. m.to = Gw /\ ~Asking(d)
      BY <3>1, <3>3, UplinkBegin DEF Parses, Asking, REQUEST_JOIN, REPLY_HASH
    <3>5. QED
      BY <3>3, <3>4 DEF FlightInv, Numbered, Fresh
  <2>4. CASE process_normal(m)
    <3>1. my_device' = [my_device EXCEPT ![m.from] = Counted(my_device[m.from], m.frame.seq)]
      BY <2>4 DEF process_normal, copy_node2node
    <3>2. d = m.from /\ my_device'[d].last_seq = m.frame.seq
      BY <1>1, <3>1 DEF Counted
    <3>3. m.to = Gw /\ ~Asking(d)
      BY <2>4, <3>2 DEF process_normal, Parses, IsNormal, FlightInv, InFlight, Uplink,
         Asking, STATE_BEGIN, STATE_NORMAL
    <3>4. QED
      BY <3>2, <3>3 DEF FlightInv, Numbered, Fresh
  <2>5. CASE Ignore(m)
    BY <2>5 DEF Ignore
  <2>6. QED
    BY <2>1, <2>2, <2>3, <2>4, <2>5 DEF GatewayReceive
<1>4. QED
  BY <1>2, <1>3 DEF GatewayStep

\* ... and frames of a session are counted in the order of their numbers, though
\* the gateway never checks it (test.c:258-260, 281-285).
THEOREM CountedInOrder ==
  ASSUME "late" \notin Faults
  PROVE  Spec => CountsInOrder
<1> DEFINE Ordered ==
      \A d \in Device :
        /\ my_device[d].authenticated = "Y"
        /\ my_device'[d].authenticated = "Y"
        /\ my_device'[d].num_receive # my_device[d].num_receive
        => \/ my_device'[d].last_seq > my_device[d].last_seq
           \/ my_device'[d].last_seq = MaxCount
<1>1. IInv /\ FlightInv /\ [Next]_vars => [Ordered]_my_device
  <2> SUFFICES ASSUME IInv, FlightInv, [Next]_vars, my_device' # my_device PROVE Ordered
    OBVIOUS
  <2>1. GatewayStep
    BY DEF Next, NodeStep, CliStep, NetworkStep, vars, gatewayVars
  <2>2. QED
    BY <2>1, CountStep
<1>2. QED
  BY <1>1, Invariance, FlightInvariance, PTL DEF Spec, CountsInOrder

\* ... and the relay tool tells the operator the truth about the relay it was
\* run for (test_cli.c:205-210).
THEOREM ToolTellsTruth ==
  ASSUME "late" \notin Faults
  PROVE  Spec => CliReportsRelay
<1> DEFINE Truth == cli'.phase = "exited" /\ cli'.said # "nothing" =>
                      /\ cli'.said = "on" <=> pin[cli.target] = 0
                      /\ cli'.said = "on" <=> cli.cmd = REQUEST_LED_ON
<1>1. IInv /\ FlightInv /\ [Next]_vars => [Truth]_cli
  <2> SUFFICES ASSUME IInv, FlightInv, [Next]_vars, cli' # cli,
                      cli'.phase = "exited", cli'.said # "nothing"
               PROVE  /\ cli'.said = "on" <=> pin[cli.target] = 0
                      /\ cli'.said = "on" <=> cli.cmd = REQUEST_LED_ON
    OBVIOUS
  <2>1. CliStep
    BY DEF Next, NodeStep, GatewayStep, NetworkStep, vars
  <2>2. PICK m \in net : CliReceive(m)
    BY <2>1 DEF CliStep, CliRun, CliUnbound, CliTimeout, Exits
  <2>3. RelayAnswer(m) /\ cli'.said = Report(m)
    BY <2>2 DEF CliReceive, Exits, FlightInv, InFlight
  <2>4. cli'.said = "on" <=> m.frame.cmd = REPLY_LED_ON
    BY <2>3 DEF Report, REPLY_LED_ON, REPLY_LED_OFF
  <2>5. QED
    BY <2>3, <2>4 DEF RelayAnswer, REPLY_LED_ON, REPLY_LED_OFF
<1>2. QED
  BY <1>1, Invariance, FlightInvariance, PTL DEF Spec, CliReportsRelay

-----------------------------------------------------------------------------
(* Without restarts: node and record agree, and the system implements SecureJoin *)

\* The gateway's answers in flight.
AnswersFit == \A m \in net : m.from = Gw => AnswerFits(m)

\* A step of n that leaves n in agreement with its record.
LEMMA NodeJoins ==
  ASSUME IInv, FlightInv, JoinInv, NEW n \in Node, NEW base, NEW m,
         OwnStep(n), Adds(n, base, m),
         n \in Device /\ Answering(n)' => payload'[n] = my_device[n].challenge_code,
         n \in Device /\ state'[n] = STATE_NORMAL =>
           my_device[n].authenticated = "Y" /\ my_device[n].key = key_normal'[n]
  PROVE  JoinInv'
<1>1. UNCHANGED <<my_device, issued>>
  BY DEF OwnStep
<1>2. ChallengeAgreed'
  <2> SUFFICES ASSUME NEW d \in Device, Answering(d)'
               PROVE  payload'[d] = my_device[d].challenge_code
    BY <1>1 DEF ChallengeAgreed
  <2>1. CASE d # n
    BY <2>1, Constants DEF OwnStep, JoinInv, ChallengeAgreed, Answering
  <2>2. QED
    BY <2>1
<1>3. SessionsKept'
  <2> SUFFICES ASSUME NEW d \in Device, state'[d] = STATE_NORMAL
               PROVE  my_device[d].authenticated = "Y" /\ my_device[d].key = key_normal'[d]
    BY <1>1 DEF SessionsKept
  <2>1. CASE d # n
    BY <2>1, Constants DEF OwnStep, JoinInv, SessionsKept
  <2>2. QED
    BY <2>1
<1>4. RecordsGranted'
  BY <1>1 DEF JoinInv, RecordsGranted, Authenticated
<1>5. AnswersFit'
  <2> SUFFICES ASSUME NEW x \in net', x.from = Gw
               PROVE  AnswerFits(x)'
    BY DEF AnswersFit
  <2>1. x \in net /\ x.to # n
    BY Constants DEF Adds, Involves
  <2>2. x.to \in Device /\ x.to \in Node /\ AnswerFits(x)
    BY <2>1, Ends DEF FlightInv, JoinInv
  <2>3. QED
    BY <1>1, <2>1, <2>2 DEF AnswerFits, Asking, Answering, OwnStep
<1>6. QED
  BY <1>2, <1>3, <1>4, <1>5 DEF JoinInv, AnswersFit

\* What a node action leaves in flight and untouched, whatever it sends.
LEMMA BeginAdds ==
  ASSUME NEW n \in Node, NEW base, base \subseteq net, \A x \in base : ~Involves(x, n),
         Resume(n, base)
  PROVE  \E m : Adds(n, base, m)
<1>1. PICK m : /\ m.from = n /\ m.to = Gw
               /\ m = ecb_encrypt(n, Gw, BeginFrame(begin_cmd'[n], payload'[n], frame_counter[n]))
  BY DEF ecb_encrypt
<1>2. net' \subseteq base \cup {m}
  BY <1>1, PostAdds DEF Resume, send2bor_begin
<1>3. Adds(n, base, m)
  BY <1>1, <1>2 DEF Adds
<1>4. QED
  BY <1>3

\* Actions of n that leave what it joined with alone.
LEMMA KeepsJoining ==
  ASSUME IInv, FlightInv, JoinInv, NEW n \in Node, NEW base, NEW m,
         OwnStep(n), Adds(n, base, m), UNCHANGED <<state, begin_cmd, key_normal>>,
         state[n] = STATE_BEGIN => payload'[n] = payload[n]
  PROVE  JoinInv'
  BY NodeJoins DEF JoinInv, ChallengeAgreed, SessionsKept, Answering

\* The node repeats what it last sent: record and node agree as before.
LEMMA BeginTimerJoin ==
  ASSUME IInv, FlightInv, JoinInv, NEW n \in Node, BeginTimer(n),
         UNCHANGED <<gatewayVars, cli>>
  PROVE  JoinInv'
<1>1. \A x \in net : ~Involves(x, n)
  BY DEF BeginTimer, FlightInv, TimersQuiet, Idle
<1>2. /\ timer' = [timer EXCEPT ![n] = "running"]
      /\ UNCHANGED <<state, begin_cmd, payload, key_normal, pin, my_device, issued, cli>>
      /\ Resume(n, net)
  BY DEF BeginTimer, RearmAndFlag, gatewayVars
<1>3. \A i \in Node \ {n} : frame_counter'[i] = frame_counter[i]
  BY <1>2 DEF Resume, send2bor_begin, IInv, TypeOK, NodeTypeOK
<1>4. OwnStep(n)
  BY <1>2, <1>3 DEF OwnStep, IInv, TypeOK, NodeTypeOK
<1>5. \E m : Adds(n, net, m)
  BY <1>1, <1>2, BeginAdds
<1>6. QED
  BY <1>2, <1>4, <1>5, KeepsJoining

\* What opens at a joining node fits it, and is a challenge or a key.
LEMMA OpenedFits ==
  ASSUME IInv, FlightInv, JoinInv, NEW n \in Node, NEW m \in net, m.to = n,
         Opens(m, "ecb", KeyBegin)
  PROVE  n \in Device /\ AnswerFits(m)
<1>1. m.from = Gw /\ m.to \in Device
  BY DEF IInv, Provenance, GenuineDatagram, Opens
<1>2. QED
  BY <1>1 DEF JoinInv

\* An answer fits the step its receiver is at, so challenge and key taken from it
\* are those of the record (server.c:333-345).
LEMMA BeginReceiveJoin ==
  ASSUME "late" \notin Faults, IInv, FlightInv, JoinInv, NEW n \in Node, NEW m \in net,
         BeginReceive(n, m), UNCHANGED <<gatewayVars, cli>>
  PROVE  JoinInv'
<1>1. Resume(n, net \ {m}) /\ m.to = n /\ UNCHANGED <<timer, pin>> /\ state[n] = STATE_BEGIN
  BY Patience DEF BeginReceive
<1>2. \A x \in net \ {m} : ~Involves(x, n)
  BY <1>1, Alone DEF FlightInv, Involves
<1>3. /\ state \in [Node -> {STATE_BEGIN, STATE_NORMAL}]
      /\ begin_cmd \in [Node -> {REQUEST_JOIN, REPLY_HASH}]
      /\ payload \in [Node -> Payload] /\ key_normal \in [Node -> Key]
  BY DEF IInv, TypeOK, NodeTypeOK
<1>4. \A i \in Node \ {n} : /\ state'[i] = state[i] /\ begin_cmd'[i] = begin_cmd[i]
                            /\ payload'[i] = payload[i] /\ key_normal'[i] = key_normal[i]
  BY <1>3 DEF BeginReceive, tcpip_begin_handler, joining
<1>5. \A i \in Node \ {n} : frame_counter'[i] = frame_counter[i]
  BY <1>1 DEF Resume, send2bor_begin, IInv, TypeOK, NodeTypeOK
<1>6. OwnStep(n)
  BY <1>1, <1>4, <1>5 DEF OwnStep, gatewayVars
<1>7. PICK a : Adds(n, net \ {m}, a)
  BY <1>1, <1>2, BeginAdds
<1>8. CASE ~Opens(m, "ecb", KeyBegin)
  BY <1>6, <1>7, <1>8, KeepsJoining DEF BeginReceive, tcpip_begin_handler, joining
<1>9. CASE Opens(m, "ecb", KeyBegin)
  <2>1. n \in Device /\ AnswerFits(m)
    BY <1>1, <1>9, OpenedFits
  <2>2. payload'[n] = m.frame.data
    BY <1>3, <1>9 DEF BeginReceive, tcpip_begin_handler
  <2>3. CASE m.frame.cmd = REQUEST_HASH
    <3>1. m.frame.data = my_device[n].challenge_code
      BY <1>1, <2>1, <2>3 DEF AnswerFits, REQUEST_HASH, JOIN_SUCCESS
    <3>2. state'[n] = STATE_BEGIN
      <4>1. state' = state
        BY <1>9, <2>3 DEF BeginReceive, tcpip_begin_handler, REQUEST_HASH, JOIN_SUCCESS
      <4>2. QED
        BY <1>1, <4>1
    <3>3. QED
      BY <1>6, <1>7, <2>2, <3>1, <3>2, NodeJoins DEF STATE_BEGIN, STATE_NORMAL
  <2>4. CASE m.frame.cmd = JOIN_SUCCESS
    <3>1. m.frame.data = my_device[n].key /\ my_device[n].authenticated = "Y"
      BY <1>1, <2>1, <2>4 DEF AnswerFits, REQUEST_HASH, JOIN_SUCCESS
    <3>2. /\ key_normal' = [key_normal EXCEPT ![n] = m.frame.data]
          /\ state' = [state EXCEPT ![n] = STATE_NORMAL]
      BY <1>9, <2>4 DEF BeginReceive, tcpip_begin_handler, REQUEST_HASH, JOIN_SUCCESS
    <3>3. state'[n] = STATE_NORMAL /\ key_normal'[n] = m.frame.data
      BY <1>3, <3>2
    <3>4. QED
      BY <1>6, <1>7, <3>1, <3>3, NodeJoins DEF Answering, STATE_BEGIN, STATE_NORMAL
  <2>5. QED
    BY <2>1, <2>3, <2>4 DEF AnswerFits
<1>10. QED
  BY <1>8, <1>9

\* A report changes neither key nor record.
LEMMA NormalTimerJoin ==
  ASSUME IInv, FlightInv, JoinInv, NEW n \in Node, NormalTimer(n),
         UNCHANGED <<gatewayVars, cli>>
  PROVE  JoinInv'
<1>1. /\ Idle(n) /\ timer' = [timer EXCEPT ![n] = "running"]
      /\ UNCHANGED <<state, begin_cmd, payload, key_normal, pin, my_device, issued, cli>>
  BY DEF NormalTimer, FlightInv, TimersQuiet, joining, gatewayVars
<1>2. \A i \in Node \ {n} : frame_counter'[i] = frame_counter[i]
  BY DEF NormalTimer, send2bor_normal, IInv, TypeOK, NodeTypeOK
<1>3. OwnStep(n)
  BY <1>1, <1>2 DEF OwnStep, IInv, TypeOK, NodeTypeOK
<1>4. PICK m : m = encrypt_cbc(n, Gw, key_normal[n],
                 prepare2send(Gw, frame_counter[n], STATE_NORMAL, SEND_PZEM, Zero))
  OBVIOUS
<1>5. m.from = n /\ m.to = Gw
  BY <1>4 DEF encrypt_cbc
<1>6. net' \subseteq net \cup {m}
  BY <1>4, PostAdds DEF NormalTimer, send2bor_normal
<1>7. Adds(n, net, m)
  BY <1>1, <1>5, <1>6, IdleAdds
<1>8. QED
  BY <1>1, <1>3, <1>7, KeepsJoining

\* A relay command changes neither key nor record.
LEMMA NormalReceiveJoin ==
  ASSUME "late" \notin Faults, IInv, FlightInv, JoinInv, NEW n \in Node, NEW m \in net,
         NormalReceive(n, m), UNCHANGED <<gatewayVars, cli>>
  PROVE  JoinInv'
<1>1. /\ m.to = n /\ state[n] = STATE_NORMAL
      /\ UNCHANGED <<state, begin_cmd, key_normal, frame_counter, timer, my_device, issued, cli>>
  BY DEF NormalReceive, gatewayVars
<1>2. \A x \in net \ {m} : ~Involves(x, n)
  BY <1>1, Alone DEF FlightInv, Involves
<1>3. OwnStep(n)
  BY <1>1 DEF OwnStep, NormalReceive, relay_on, relay_off, my_leds_on, my_leds_off,
     IInv, TypeOK, NodeTypeOK
<1>4. PICK cmd : net' \subseteq (net \ {m}) \cup {RelayReply(n, cmd)}
  BY Patience, PostAdds DEF NormalReceive
<1>5. PICK r : r = RelayReply(n, cmd)
  OBVIOUS
<1>6. r.from = n /\ r.to = Cli
  BY <1>5 DEF RelayReply, encrypt_cbc
<1>7. Adds(n, net \ {m}, r)
  BY <1>2, <1>4, <1>5, <1>6 DEF Adds
<1>8. QED
  BY <1>1, <1>3, <1>7, KeepsJoining DEF STATE_BEGIN, STATE_NORMAL

\* A node that reboots leaves nothing in flight and asks again.
LEMMA RebootJoin ==
  ASSUME "late" \notin Faults, IInv, FlightInv, JoinInv, NEW n \in Node, Reboot(n),
         UNCHANGED <<gatewayVars, cli>>
  PROVE  JoinInv'
<1>1. PICK m : m = ecb_encrypt(n, Gw, BeginFrame(REQUEST_JOIN, Zero, 0))
  OBVIOUS
<1>2. m.from = n /\ m.to = Gw
  BY <1>1 DEF ecb_encrypt
<1>3. net' \subseteq net \cup {m}
  BY <1>1, PostAdds DEF Reboot
<1>4. Idle(n)
  BY Patience DEF Reboot
<1>5. Adds(n, net, m)
  BY <1>2, <1>3, <1>4, IdleAdds
<1>6. OwnStep(n)
  BY DEF Reboot, OwnStep, gatewayVars, IInv, TypeOK, NodeTypeOK
<1>7. state'[n] = STATE_BEGIN /\ begin_cmd'[n] = REQUEST_JOIN
  BY DEF Reboot, IInv, TypeOK, NodeTypeOK
<1>8. QED
  BY <1>5, <1>6, <1>7, NodeJoins DEF Answering, STATE_BEGIN, STATE_NORMAL, REQUEST_JOIN,
     REPLY_HASH

\* A step of the nodes keeps JoinInv.
LEMMA NodeStepJoin ==
  ASSUME "late" \notin Faults, IInv, FlightInv, JoinInv, NodeStep
  PROVE  JoinInv'
<1>1. UNCHANGED <<gatewayVars, cli>>
  BY DEF NodeStep
<1>2. PICK n \in Node : \/ TimerExpires(n)
                        \/ NodeTimer(n)
                        \/ \E m \in net : NodeReceive(n, m)
                        \/ Reboot(n)
  BY DEF NodeStep
<1>3. CASE TimerExpires(n)
  BY <1>1, <1>3 DEF TimerExpires, joining, gatewayVars, JoinInv, ChallengeAgreed,
     RecordsGranted, Authenticated, SessionsKept, AnswerFits, Asking, Answering
<1>4. CASE NodeTimer(n)
  BY <1>1, <1>4, BeginTimerJoin, NormalTimerJoin, NoOverrun DEF NodeTimer
<1>5. CASE \E m \in net : NodeReceive(n, m)
  BY <1>1, <1>5, BeginReceiveJoin, NormalReceiveJoin, NoOverrun DEF NodeReceive
<1>6. CASE Reboot(n)
  BY <1>1, <1>6, RebootJoin
<1>7. QED
  BY <1>2, <1>3, <1>4, <1>5, <1>6

-----------------------------------------------------------------------------
(* Steps of the gateway, the tool and the network *)

\* Handling m, the gateway brings the record of its sender d and the answer a
\* into agreement.
LEMMA GatewayJoins ==
  ASSUME IInv, FlightInv, JoinInv, UNCHANGED <<nodeVars, cli>>, issued \subseteq issued',
         NEW m, NEW a, AnswersTo(m, a), NEW d \in Device, d = m.from,
         a \in net' /\ a \notin net \ {m} => AnswerFits(a)',
         Answering(d) => my_device'[d].challenge_code = my_device[d].challenge_code,
         state[d] = STATE_NORMAL => /\ my_device'[d].authenticated = my_device[d].authenticated
                                    /\ my_device'[d].key = my_device[d].key,
         my_device'[d].authenticated = "Y" => Authenticated(d)'
  PROVE  JoinInv'
<1>1. UNCHANGED <<state, begin_cmd, payload, key_normal>>
  BY DEF nodeVars, joining
<1>2. \A i \in Device : i # d => my_device'[i] = my_device[i]
  BY DEF AnswersTo
<1>3. ChallengeAgreed'
  BY <1>1, <1>2 DEF JoinInv, ChallengeAgreed, Answering
<1>4. SessionsKept'
  BY <1>1, <1>2 DEF JoinInv, SessionsKept
<1>5. RecordsGranted'
  BY <1>2 DEF JoinInv, RecordsGranted, Authenticated
<1>6. AnswersFit'
  <2> SUFFICES ASSUME NEW x \in net', x.from = Gw
               PROVE  AnswerFits(x)'
    BY DEF AnswersFit
  <2>1. CASE x \in net \ {m}
    <3>1. x.to # d
      BY <2>1, Alone DEF FlightInv, AnswersTo, Involves
    <3>2. x.to \in Device /\ AnswerFits(x)
      BY <2>1, Ends DEF FlightInv, JoinInv
    <3>3. QED
      BY <1>1, <1>2, <3>1, <3>2 DEF AnswerFits, Asking, Answering
  <2>2. CASE x \notin net \ {m}
    BY <2>2 DEF AnswersTo
  <2>3. QED
    BY <2>1, <2>2
<1>7. QED
  BY <1>3, <1>4, <1>5, <1>6 DEF JoinInv, AnswersFit

\* A new challenge goes into the record and to the node that asked (test.c:146-172).
LEMMA JoinJoin ==
  ASSUME "late" \notin Faults, IInv, FlightInv, JoinInv, UNCHANGED <<nodeVars, cli>>,
         NEW m \in net, Join(m)
  PROVE  JoinInv'
<1>1. PICK c, f :
        /\ c \in Challenge
        /\ f = prepare2send(m.from, 0, STATE_BEGIN, REQUEST_HASH, c)
        /\ my_device' = [my_device EXCEPT ![m.from] = Challenged(c, f)]
        /\ Answer(m, f)
  BY DEF Join, copy_node2node
<1>2. /\ m.to = Gw /\ m.from \in Device /\ m.from \in Node /\ Asking(m.from)
      /\ issued' = issued
  BY UplinkBegin DEF Join, Parses, checklist_my_device, Asking
<1>3. /\ my_device'[m.from].authenticated = "N" /\ my_device'[m.from].last_seq = 0
      /\ my_device'[m.from].challenge_code = c
  BY <1>1, <1>2 DEF IInv, TypeOK, GatewayTypeOK, Challenged
<1>4. PICK a : a = ecb_encrypt(Gw, m.from, f)
  OBVIOUS
<1>5. /\ a.from = Gw /\ a.to = m.from /\ a.mode = "ecb" /\ a.frame.dst = m.from
      /\ a.frame.cmd = REQUEST_HASH /\ a.frame.data = c
  BY <1>1, <1>4 DEF ecb_encrypt, prepare2send
<1>6. AnswerFits(a)' /\ Downlink(a)'
  BY <1>2, <1>3, <1>5 DEF AnswerFits, Downlink, Asking, nodeVars, joining
<1>7. AnswersTo(m, a)
  BY <1>1, <1>2, <1>4, <1>5, <1>6, AnswerAdds DEF AnswersTo, IInv, TypeOK, GatewayTypeOK
<1>8. ~Answering(m.from) /\ state[m.from] # STATE_NORMAL
  BY <1>2 DEF Asking, Answering, REQUEST_JOIN, REPLY_HASH, STATE_BEGIN, STATE_NORMAL
<1>9. QED
  BY <1>2, <1>3, <1>6, <1>7, <1>8, GatewayJoins

\* A REPLY_HASH answered with f, under key k, both in agreement.
LEMMA ReplyJoin ==
  ASSUME "late" \notin Faults, IInv, FlightInv, JoinInv, UNCHANGED <<nodeVars, cli>>,
         issued \subseteq issued',
         NEW m \in net, NEW f, NEW k, Parses(m), IsBegin(m, REPLY_HASH), ReplyWith(m, f, k),
         <<m.from, k>> \in issued', f.cmd = JOIN_SUCCESS, f.data = k, f.dst = m.from
  PROVE  JoinInv'
<1>1. m.to = Gw /\ m.from \in Device /\ m.from \in Node /\ Answering(m.from)
  BY UplinkBegin DEF Parses, checklist_my_device, Answering
<1>2. my_device' = [my_device EXCEPT ![m.from] =
                      Replied(my_device[m.from], m.frame.seq, f, k)] /\ Answer(m, f)
  BY DEF ReplyWith, copy_node2node
<1>3. /\ my_device'[m.from].authenticated = "Y" /\ my_device'[m.from].key = k
      /\ my_device'[m.from].challenge_code = my_device[m.from].challenge_code
      /\ my_device'[m.from].last_data_send = f
  BY <1>1, <1>2 DEF Replied, IInv, TypeOK, GatewayTypeOK
<1>4. PICK a : a = ecb_encrypt(Gw, m.from, f)
  OBVIOUS
<1>5. a.from = Gw /\ a.to = m.from /\ a.mode = "ecb" /\ a.frame = f
  BY <1>4 DEF ecb_encrypt
<1>6. AnswerFits(a)' /\ Downlink(a)'
  BY <1>1, <1>3, <1>5 DEF AnswerFits, Downlink, Answering, nodeVars, joining, REQUEST_JOIN,
     REPLY_HASH
<1>7. AnswersTo(m, a)
  BY <1>1, <1>2, <1>4, <1>5, <1>6, AnswerAdds DEF AnswersTo, IInv, TypeOK, GatewayTypeOK
<1>8. Authenticated(m.from)' /\ state[m.from] # STATE_NORMAL
  BY <1>1, <1>3 DEF Authenticated, Answering, STATE_BEGIN, STATE_NORMAL
<1>9. QED
  BY <1>1, <1>3, <1>6, <1>7, <1>8, GatewayJoins

\* No hash is wrong, and a repeated one comes from an authenticated device.
LEMMA HashMatches ==
  ASSUME IInv, FlightInv, JoinInv, NEW m \in net
  PROVE  ~ReplyMismatch(m)
<1> SUFFICES ASSUME ReplyMismatch(m) PROVE FALSE
  OBVIOUS
<1>1. m.to = Gw /\ m.from \in Device /\ IsBegin(m, REPLY_HASH)
  BY DEF ReplyMismatch, Parses, checklist_my_device
<1>2. Answering(m.from) /\ m.frame.data = Hash[payload[m.from]]
  BY <1>1, UplinkBegin DEF Answering
<1>3. IsMatch(m)
  BY <1>1, <1>2 DEF IsMatch, JoinInv, ChallengeAgreed
<1>4. QED
  BY <1>3 DEF ReplyMismatch

\* A new key goes into the record and to the node that answered (test.c:213-238).
LEMMA ReplyMatchJoin ==
  ASSUME "late" \notin Faults, IInv, FlightInv, JoinInv, UNCHANGED <<nodeVars, cli>>,
         NEW m \in net, ReplyMatch(m)
  PROVE  JoinInv'
<1>1. PICK k, f :
        /\ k \in Key
        /\ f = prepare2send(m.from, my_device[m.from].num_send, STATE_BEGIN, JOIN_SUCCESS, k)
        /\ ReplyWith(m, f, k)
        /\ issued' = issued \cup {<<m.from, k>>}
  BY DEF ReplyMatch
<1>2. f.cmd = JOIN_SUCCESS /\ f.data = k /\ f.dst = m.from
  BY <1>1 DEF prepare2send
<1>3. QED
  BY <1>1, <1>2, ReplyJoin DEF ReplyMatch

\* A repeated answer carries the key of the record (test.c:241-252).
LEMMA ReplyDuplicateJoin ==
  ASSUME "late" \notin Faults, IInv, FlightInv, JoinInv, UNCHANGED <<nodeVars, cli>>,
         NEW m \in net, ReplyDuplicate(m)
  PROVE  JoinInv'
<1>1. m.from \in Device /\ my_device[m.from].authenticated = "Y" /\ issued' = issued
  BY DEF ReplyDuplicate, Parses, checklist_my_device
<1>2. Authenticated(m.from)
  BY <1>1 DEF JoinInv, RecordsGranted
<1>3. PICK f : f = Renumbered(m.from)
  OBVIOUS
<1>4. my_device[m.from].last_data_send \in Frame
  BY <1>1 DEF IInv, TypeOK, GatewayTypeOK, DeviceRecord
<1>5. f.cmd = JOIN_SUCCESS /\ f.data = my_device[m.from].key /\ f.dst = m.from
  BY <1>2, <1>3, <1>4, SMT DEF Renumbered, Authenticated, Frame
<1>6. <<m.from, my_device[m.from].key>> \in issued'
  BY <1>1, <1>2 DEF Authenticated
<1>7. ReplyWith(m, f, my_device[m.from].key)
  BY <1>3 DEF ReplyDuplicate
<1>8. PICK k : k = my_device[m.from].key
  OBVIOUS
<1>9. QED
  BY <1>1, <1>5, <1>6, <1>7, <1>8, ReplyJoin DEF ReplyDuplicate

\* Counting a report keeps everything the join agreed on.
LEMMA NormalJoin ==
  ASSUME "late" \notin Faults, IInv, FlightInv, JoinInv, UNCHANGED <<nodeVars, cli>>,
         NEW m \in net, process_normal(m)
  PROVE  JoinInv'
<1>1. /\ m.from \in Device /\ m.from \in Node /\ net' = net \ {m} /\ issued' = issued
      /\ my_device' = [my_device EXCEPT ![m.from] = Counted(my_device[m.from], m.frame.seq)]
  BY Patience, Constants DEF process_normal, Parses, checklist_my_device, copy_node2node
<1>2. /\ my_device'[m.from].authenticated = my_device[m.from].authenticated
      /\ my_device'[m.from].key = my_device[m.from].key
      /\ my_device'[m.from].challenge_code = my_device[m.from].challenge_code
      /\ my_device'[m.from].last_data_send = my_device[m.from].last_data_send
  BY <1>1 DEF Counted, IInv, TypeOK, GatewayTypeOK
<1>3. \A a : AnswersTo(m, a)
  BY <1>1 DEF AnswersTo, IInv, TypeOK, GatewayTypeOK
<1>4. my_device'[m.from].authenticated = "Y" => Authenticated(m.from)'
  <2>1. my_device[m.from].authenticated = "Y" => Authenticated(m.from)
    BY <1>1 DEF JoinInv, RecordsGranted
  <2>2. QED
    BY <1>1, <1>2, <2>1 DEF Authenticated
<1>5. QED
  BY <1>1, <1>2, <1>3, <1>4, GatewayJoins

\* Steps that send nothing for the gateway and leave nodes and records alone.
LEMMA LessJoin ==
  ASSUME JoinInv, UNCHANGED <<nodeVars, my_device, issued>>,
         \A x \in net' : x \in net \/ x.from # Gw
  PROVE  JoinInv'
<1>1. UNCHANGED <<state, begin_cmd, payload, key_normal>>
  BY DEF nodeVars, joining
<1>2. ChallengeAgreed' /\ SessionsKept' /\ RecordsGranted'
  BY <1>1 DEF JoinInv, ChallengeAgreed, SessionsKept, RecordsGranted, Authenticated, Answering
<1>3. AnswersFit'
  BY <1>1 DEF JoinInv, AnswersFit, AnswerFits, Asking, Answering
<1>4. QED
  BY <1>2, <1>3 DEF JoinInv, AnswersFit

\* The steps of the gateway together.
LEMMA GatewayStepJoin ==
  ASSUME "late" \notin Faults, "restart" \notin Faults, IInv, FlightInv, JoinInv, GatewayStep
  PROVE  JoinInv'
<1>1. UNCHANGED <<nodeVars, cli>>
  BY DEF GatewayStep
<1>2. PICK m \in net : GatewayReceive(m)
  BY DEF GatewayStep, Restart
<1>3. CASE Join(m)
  BY <1>1, <1>3, JoinJoin
<1>4. CASE ReplyMatch(m)
  BY <1>1, <1>4, ReplyMatchJoin
<1>5. CASE ReplyMismatch(m)
  BY <1>5, HashMatches
<1>6. CASE ReplyDuplicate(m)
  BY <1>1, <1>6, ReplyDuplicateJoin
<1>7. CASE process_normal(m)
  BY <1>1, <1>7, NormalJoin
<1>8. CASE Ignore(m)
  BY <1>1, <1>8, LessJoin, DeliveredAdds DEF Ignore
<1>9. QED
  BY <1>2, <1>3, <1>4, <1>5, <1>6, <1>7, <1>8 DEF GatewayReceive

\* The relay tool touches no node and no record.
LEMMA CliStepJoin ==
  ASSUME IInv, JoinInv, CliStep
  PROVE  JoinInv'
<1>1. UNCHANGED <<nodeVars, my_device, issued>>
  BY DEF CliStep, gatewayVars
<1>2. \A n, f : encrypt_cbc(Cli, n, KeyBegin, f).from # Gw
  BY Constants DEF encrypt_cbc
<1>3. \A x \in net' : x \in net \/ x.from # Gw
  BY <1>2, PostAdds, DeliveredAdds DEF CliStep, CliRun, CliReceive, CliUnbound, CliTimeout
<1>4. QED
  BY <1>1, <1>3, LessJoin

\* A lost datagram takes nothing with it.
LEMMA NetworkStepJoin ==
  ASSUME JoinInv, NetworkStep \/ UNCHANGED vars
  PROVE  JoinInv'
  BY LessJoin DEF NetworkStep, Lose, gatewayVars, vars

\* At the start nobody is authenticated.
LEMMA InitJoin == Init => JoinInv
<1> SUFFICES ASSUME Init PROVE JoinInv
  OBVIOUS
<1>1. \A m \in net : m.from # Gw
  BY Constants DEF Init, NodeInit, ecb_encrypt
<1>2. \A d \in Device : my_device[d].authenticated = "N"
  BY DEF Init, GatewayInit, init_main, NewDevice
<1>3. \A n \in Node : Asking(n)
  BY DEF Init, NodeInit, Asking
<1>4. QED
  BY <1>1, <1>2, <1>3, Constants DEF JoinInv, ChallengeAgreed, RecordsGranted, SessionsKept,
     Asking, Answering, STATE_BEGIN, STATE_NORMAL, REQUEST_JOIN, REPLY_HASH

\* Every step keeps the invariant.
LEMMA JoinStep ==
  ASSUME "late" \notin Faults, "restart" \notin Faults, IInv, FlightInv, JoinInv, [Next]_vars
  PROVE  JoinInv'
  BY NodeStepJoin, GatewayStepJoin, CliStepJoin, NetworkStepJoin DEF Next

-----------------------------------------------------------------------------
\* While round trips are shorter than the timers and the gateway keeps running,
\* node and record agree at every step of the join (test.c:146-260,
\* server.c:333-345).
THEOREM JoinInvariance ==
  ASSUME "late" \notin Faults, "restart" \notin Faults
  PROVE  Spec => []JoinInv
<1>1. Init => JoinInv
  BY InitJoin
<1>2. IInv /\ FlightInv /\ JoinInv /\ [Next]_vars => JoinInv'
  BY JoinStep
<1>3. QED
  BY <1>1, <1>2, Invariance, FlightInvariance, PTL DEF Spec

\* Node and gateway hold the same key (server.c:340-345, test.c:213-260).
THEOREM KeysAgree ==
  ASSUME "late" \notin Faults, "restart" \notin Faults
  PROVE  Spec => []SessionAgreement
<1>1. JoinInv => SessionAgreement
  BY DEF JoinInv, SessionsKept, SessionAgreement
<1>2. QED
  BY <1>1, JoinInvariance, PTL

\* It is the key generated for that node, though every answer is built in one
\* static frame (test.c:59).
THEOREM KeysOwn ==
  ASSUME "late" \notin Faults, "restart" \notin Faults
  PROVE  Spec => []KeyIsOwn
<1>1. IInv /\ JoinInv => KeyIsOwn
  BY DEF IInv, OnlyListedJoin, JoinInv, SessionsKept, RecordsGranted, Authenticated, KeyIsOwn,
     STATE_BEGIN, STATE_NORMAL
<1>2. QED
  BY <1>1, Invariance, JoinInvariance, PTL

\* Outside the conditions of the second and third finding a frame of the gateway
\* goes to the node it names, and an authenticated device was given a key
\* (test.c:213-216, 255, 266).
THEOREM FindingsNeedFaults ==
  ASSUME "late" \notin Faults, "restart" \notin Faults
  PROVE  Spec => [](AddressedToReceiver /\ AuthenticatedMeansChallenged)
<1>1. IInv /\ JoinInv => AddressedToReceiver /\ AuthenticatedMeansChallenged
  BY DEF IInv, TypeOK, GatewayTypeOK, JoinInv, RecordsGranted, Authenticated, AnswerFits,
     AddressedToReceiver, AuthenticatedMeansChallenged
<1>2. QED
  BY <1>1, Invariance, JoinInvariance, PTL

-----------------------------------------------------------------------------
(* The refinement of SecureJoin *)

\* The initial state is one of SecureJoin.
LEMMA HandshakeInit == Init => Handshake!Init
<1> SUFFICES ASSUME Init PROVE Handshake!Init
  OBVIOUS
<1>1. STATE_BEGIN # STATE_NORMAL /\ REQUEST_JOIN # REPLY_HASH
  BY DEF STATE_BEGIN, STATE_NORMAL, REQUEST_JOIN, REPLY_HASH
<1>2. QED
  BY <1>1 DEF Init, NodeInit, GatewayInit, Handshake!Init, SessionOf, PhaseOf

\* What leaves phase, key and keys granted alone is a stutter of SecureJoin.
LEMMA HandshakeStutter ==
  ASSUME UNCHANGED <<state, begin_cmd, key_normal, issued>>
  PROVE  UNCHANGED <<PhaseOf, SessionOf, issued>>
  BY DEF PhaseOf, SessionOf

\* A datagram that opens challenges an asking node or lets an answering one join.
LEMMA HandshakeReceive ==
  ASSUME IInv, FlightInv, JoinInv, NEW n \in Node, NEW m \in net, BeginReceive(n, m),
         UNCHANGED issued
  PROVE  [Handshake!Next]_<<PhaseOf, SessionOf, issued>>
<1>1. m.to = n /\ state[n] = STATE_BEGIN
  BY DEF BeginReceive
<1>2. /\ state \in [Node -> {STATE_BEGIN, STATE_NORMAL}]
      /\ begin_cmd \in [Node -> {REQUEST_JOIN, REPLY_HASH}]
      /\ key_normal \in [Node -> Key]
  BY DEF IInv, TypeOK, NodeTypeOK
<1>3. STATE_BEGIN # STATE_NORMAL /\ REQUEST_JOIN # REPLY_HASH
  BY DEF STATE_BEGIN, STATE_NORMAL, REQUEST_JOIN, REPLY_HASH
<1>4. CASE ~Opens(m, "ecb", KeyBegin)
  BY <1>4, HandshakeStutter DEF BeginReceive, tcpip_begin_handler, joining
<1>5. CASE Opens(m, "ecb", KeyBegin)
  <2>1. n \in Device /\ AnswerFits(m)
    BY <1>1, <1>5, OpenedFits
  <2>2. CASE m.frame.cmd = REQUEST_HASH
    <3>1. Asking(n)
      BY <1>1, <2>1, <2>2 DEF AnswerFits, REQUEST_HASH, JOIN_SUCCESS
    <3>2. begin_cmd' = [begin_cmd EXCEPT ![n] = REPLY_HASH] /\ UNCHANGED <<state, key_normal>>
      BY <1>5, <2>2 DEF BeginReceive, tcpip_begin_handler, REQUEST_HASH, JOIN_SUCCESS
    <3>3. PhaseOf[n] = "asking"
      BY <1>3, <3>1 DEF PhaseOf, Asking
    <3>4. PhaseOf' = [PhaseOf EXCEPT ![n] = "answering"]
      BY <1>1, <1>2, <1>3, <3>2 DEF PhaseOf
    <3>5. UNCHANGED <<SessionOf, issued>>
      BY <3>2 DEF SessionOf
    <3>6. Handshake!BeChallenged(n)
      BY <3>3, <3>4, <3>5 DEF Handshake!BeChallenged
    <3>7. QED
      BY <2>1, <3>6 DEF Handshake!Next
  <2>3. CASE m.frame.cmd = JOIN_SUCCESS
    <3>1. /\ Answering(n) /\ m.frame.data = my_device[n].key
          /\ my_device[n].authenticated = "Y"
      BY <1>1, <2>1, <2>3 DEF AnswerFits, REQUEST_HASH, JOIN_SUCCESS
    <3>2. /\ key_normal' = [key_normal EXCEPT ![n] = m.frame.data]
          /\ state' = [state EXCEPT ![n] = STATE_NORMAL]
          /\ UNCHANGED begin_cmd
      BY <1>5, <2>3 DEF BeginReceive, tcpip_begin_handler, REQUEST_HASH, JOIN_SUCCESS
    <3>3. <<n, m.frame.data>> \in issued /\ m.frame.data \in Key
      <4>1. <<n, m.frame.data>> \in issued
        BY <2>1, <3>1 DEF JoinInv, RecordsGranted, Authenticated
      <4>2. issued \subseteq Device \X Key
        BY DEF IInv, TypeOK, GatewayTypeOK
      <4>3. QED
        BY <4>1, <4>2
    <3>4. PhaseOf[n] = "answering"
      BY <1>3, <3>1 DEF PhaseOf, Answering
    <3>5. PhaseOf' = [PhaseOf EXCEPT ![n] = "joined"]
      BY <1>2, <1>3, <3>2 DEF PhaseOf
    <3>6. SessionOf' = [SessionOf EXCEPT ![n] = {m.frame.data}]
      BY <1>2, <3>2 DEF SessionOf
    <3>7. Handshake!Join(n)
      BY <3>3, <3>4, <3>5, <3>6 DEF Handshake!Join
    <3>8. QED
      BY <2>1, <3>7 DEF Handshake!Next
  <2>4. QED
    BY <2>1, <2>2, <2>3 DEF AnswerFits
<1>6. QED
  BY <1>4, <1>5

\* A step of a node is one of SecureJoin for that node, or a stutter.
LEMMA HandshakeNodeStep ==
  ASSUME IInv, FlightInv, JoinInv, NodeStep
  PROVE  [Handshake!Next]_<<PhaseOf, SessionOf, issued>>
<1>1. UNCHANGED issued
  BY DEF NodeStep, gatewayVars
<1>2. PICK n \in Node : \/ TimerExpires(n)
                        \/ NodeTimer(n)
                        \/ \E m \in net : NodeReceive(n, m)
                        \/ Reboot(n)
  BY DEF NodeStep
<1>3. CASE TimerExpires(n) \/ NodeTimer(n)
  BY <1>1, <1>3, HandshakeStutter DEF TimerExpires, NodeTimer, BeginTimer, RearmAndFlag,
     BeginStaleEvent, NormalTimer, NormalStaleEvent, joining
<1>4. CASE \E m \in net : NodeReceive(n, m)
  <2>1. PICK m \in net : NodeReceive(n, m)
    BY <1>4
  <2>2. CASE BeginReceive(n, m)
    BY <1>1, <2>2, HandshakeReceive
  <2>3. CASE BeginOverrun(n, m) \/ NormalReceive(n, m) \/ NormalOverrun(n, m)
    BY <1>1, <2>3, HandshakeStutter DEF BeginOverrun, RearmAndFlag, NormalReceive,
       NormalOverrun, joining
  <2>4. QED
    BY <2>1, <2>2, <2>3 DEF NodeReceive
<1>5. CASE Reboot(n)
  <2>1. /\ state' = [state EXCEPT ![n] = STATE_BEGIN]
        /\ begin_cmd' = [begin_cmd EXCEPT ![n] = REQUEST_JOIN]
        /\ key_normal' = [key_normal EXCEPT ![n] = ZeroKey]
    BY <1>5 DEF Reboot
  <2>2. STATE_BEGIN # STATE_NORMAL /\ REQUEST_JOIN # REPLY_HASH
    BY DEF STATE_BEGIN, STATE_NORMAL, REQUEST_JOIN, REPLY_HASH
  <2>3. /\ state \in [Node -> {STATE_BEGIN, STATE_NORMAL}]
        /\ begin_cmd \in [Node -> {REQUEST_JOIN, REPLY_HASH}]
        /\ key_normal \in [Node -> Key]
    BY DEF IInv, TypeOK, NodeTypeOK
  <2>4. PhaseOf' = [PhaseOf EXCEPT ![n] = "asking"]
    BY <2>1, <2>2, <2>3 DEF PhaseOf
  <2>5. SessionOf' = [SessionOf EXCEPT ![n] = {}]
    BY <2>1, <2>2, <2>3 DEF SessionOf
  <2>6. Handshake!Reboot(n)
    BY <1>1, <2>4, <2>5 DEF Handshake!Reboot
  <2>7. QED
    BY <2>6 DEF Handshake!Next
<1>6. QED
  BY <1>2, <1>3, <1>4, <1>5

\* A key is granted to a device that is answering its challenge.
LEMMA HandshakeGatewayStep ==
  ASSUME IInv, FlightInv, GatewayStep
  PROVE  [Handshake!Next]_<<PhaseOf, SessionOf, issued>>
<1>1. UNCHANGED <<PhaseOf, SessionOf>>
  BY DEF GatewayStep, nodeVars, joining, PhaseOf, SessionOf
<1>2. CASE \E m \in net : ReplyMatch(m)
  <2>1. PICK m \in net : ReplyMatch(m)
    BY <1>2
  <2>2. PICK k \in Key : issued' = issued \cup {<<m.from, k>>}
    BY <2>1 DEF ReplyMatch
  <2>3. /\ m.from \in Device /\ m.from \in Node
        /\ state[m.from] = STATE_BEGIN /\ begin_cmd[m.from] = REPLY_HASH
    BY <2>1, UplinkBegin DEF ReplyMatch, Parses, checklist_my_device
  <2>4. PhaseOf[m.from] = "answering"
    BY <2>3 DEF PhaseOf, STATE_BEGIN, STATE_NORMAL
  <2>5. Handshake!Grant(m.from, k)
    BY <1>1, <2>2, <2>4 DEF Handshake!Grant
  <2>6. QED
    BY <2>3, <2>5 DEF Handshake!Next
<1>3. CASE ~\E m \in net : ReplyMatch(m)
  BY <1>1, <1>3 DEF GatewayStep, GatewayReceive, Join, ReplyMismatch, ReplyDuplicate,
     process_normal, Ignore, Restart
<1>4. QED
  BY <1>2, <1>3

\* Over a lossy link, with nodes that reboot, the two programs implement
\* SecureJoin: a key is granted only to a device that is answering its
\* challenge, and each node takes up its own (server.c:333-345, test.c:146-238).
THEOREM SecureJoinImplemented ==
  ASSUME "late" \notin Faults, "restart" \notin Faults
  PROVE  Spec => JoinAsPromised
<1>1. Init => Handshake!Init
  BY HandshakeInit
<1>2. IInv /\ FlightInv /\ JoinInv /\ [Next]_vars
        => [Handshake!Next]_<<PhaseOf, SessionOf, issued>>
  <2> SUFFICES ASSUME IInv, FlightInv, JoinInv, [Next]_vars
               PROVE  [Handshake!Next]_<<PhaseOf, SessionOf, issued>>
    OBVIOUS
  <2>1. CASE NodeStep
    BY <2>1, HandshakeNodeStep
  <2>2. CASE GatewayStep
    BY <2>2, HandshakeGatewayStep
  <2>3. CASE CliStep \/ NetworkStep \/ UNCHANGED vars
    BY <2>3, HandshakeStutter DEF CliStep, NetworkStep, vars, nodeVars, joining, gatewayVars
  <2>4. QED
    BY <2>1, <2>2, <2>3 DEF Next
<1>3. QED
  BY <1>1, <1>2, Invariance, FlightInvariance, JoinInvariance, PTL
     DEF Spec, JoinAsPromised, Handshake!Spec
-----------------------------------------------------------------------------
(* With restarts, one listed device: no half session *)

\* Steps that leave every key where it is and send none.
LEMMA KeysStay ==
  ASSUME OneDeviceInv, UNCHANGED <<state, key_normal, my_device, send_device>>,
         NEW a, net' \subseteq net \cup {a}, a.from # Gw,
         a.to = Gw /\ a.mode = "cbc" => a.key = key_normal[a.from]
  PROVE  OneDeviceInv'
<1>1. AnswersKept' /\ SessionAgreement'
  BY DEF OneDeviceInv, AnswersKept, SessionAgreement
<1>2. KeysInFlight'
  BY DEF OneDeviceInv, KeysInFlight, Agrees
<1>3. QED
  BY <1>1, <1>2 DEF OneDeviceInv

\* Steps of the tool, of the network, and of a gateway that does not answer.
LEMMA NothingSaid ==
  ASSUME OneDeviceInv, UNCHANGED <<state, key_normal, my_device, send_device>>,
         \A x \in net' : x \in net \/ (x.from # Gw /\ x.to # Gw)
  PROVE  OneDeviceInv'
<1>1. AnswersKept' /\ SessionAgreement'
  BY DEF OneDeviceInv, AnswersKept, SessionAgreement
<1>2. KeysInFlight'
  BY DEF OneDeviceInv, KeysInFlight, Agrees
<1>3. QED
  BY <1>1, <1>2 DEF OneDeviceInv

\* A node takes up a key, or drops it, while nothing else of it is in flight.
LEMMA KeyChanges ==
  ASSUME IInv, FlightInv, OneDeviceInv, UNCHANGED <<my_device, send_device>>,
         NEW n \in Node, NEW base, NEW a,
         \A i \in Node \ {n} : state'[i] = state[i] /\ key_normal'[i] = key_normal[i],
         base \subseteq net, \A x \in base : ~Involves(x, n),
         net' \subseteq base \cup {a}, a.from = n, a.mode = "ecb",
         n \in Device /\ state'[n] = STATE_NORMAL => Agrees(n, key_normal'[n])
  PROVE  OneDeviceInv'
<1>1. AnswersKept'
  BY DEF OneDeviceInv, AnswersKept
<1>2. SessionAgreement'
  BY Constants DEF OneDeviceInv, SessionAgreement, Agrees
<1>3. KeysInFlight'
  <2> SUFFICES ASSUME NEW x \in net'
               PROVE  /\ x.from = Gw /\ x.frame.cmd = JOIN_SUCCESS =>
                           Agrees(x.to, x.frame.data)'
                      /\ x.to = Gw /\ x.mode = "cbc" => x.key = key_normal'[x.from]
    BY DEF KeysInFlight
  <2>1. CASE x \in base
    <3>1. x \in net /\ x.from # n
      BY <2>1 DEF Involves
    <3>2. x.to = Gw => key_normal'[x.from] = key_normal[x.from]
      BY <3>1, Ends DEF FlightInv
    <3>3. QED
      BY <3>1, <3>2 DEF OneDeviceInv, KeysInFlight, Agrees
  <2>2. CASE x = a
    BY <2>2, Constants
  <2>3. QED
    BY <2>1, <2>2
<1>4. QED
  BY <1>1, <1>2, <1>3 DEF OneDeviceInv

\* What the BEGIN loop sends is not enciphered with the session key.
LEMMA ResumeAdds ==
  ASSUME NEW n \in Node, NEW base, Resume(n, base)
  PROVE  \E a : net' \subseteq base \cup {a} /\ a.from = n /\ a.mode = "ecb"
<1>1. PICK a : a = ecb_encrypt(n, Gw, BeginFrame(begin_cmd'[n], payload'[n], frame_counter[n]))
  OBVIOUS
<1>2. a.from = n /\ a.mode = "ecb"
  BY <1>1 DEF ecb_encrypt
<1>3. net' \subseteq base \cup {a}
  BY <1>1, PostAdds DEF Resume, send2bor_begin
<1>4. QED
  BY <1>2, <1>3

\* A joining node takes up the key of the record, or one of a gateway that has
\* forgotten it since (server.c:340-345).
LEMMA BeginReceiveKey ==
  ASSUME "late" \notin Faults, IInv, FlightInv, OneDeviceInv, NEW n \in Node, NEW m \in net,
         BeginReceive(n, m), UNCHANGED <<gatewayVars, cli>>
  PROVE  OneDeviceInv'
<1>1. Resume(n, net \ {m}) /\ m.to = n /\ state[n] = STATE_BEGIN
  BY Patience DEF BeginReceive
<1>2. \A x \in net \ {m} : ~Involves(x, n)
  BY <1>1, Alone DEF FlightInv, Involves
<1>3. /\ state \in [Node -> {STATE_BEGIN, STATE_NORMAL}] /\ key_normal \in [Node -> Key]
      /\ UNCHANGED <<my_device, send_device>>
  BY DEF IInv, TypeOK, NodeTypeOK, gatewayVars
<1>4. \A i \in Node \ {n} : state'[i] = state[i] /\ key_normal'[i] = key_normal[i]
  BY <1>3 DEF BeginReceive, tcpip_begin_handler, joining
<1>5. PICK a : net' \subseteq (net \ {m}) \cup {a} /\ a.from = n /\ a.mode = "ecb"
  BY <1>1, ResumeAdds
<1>6. state'[n] = STATE_NORMAL => Agrees(n, key_normal'[n])
  <2> SUFFICES ASSUME state'[n] = STATE_NORMAL PROVE Agrees(n, key_normal'[n])
    OBVIOUS
  <2>1. Opens(m, "ecb", KeyBegin)
    BY <1>1 DEF BeginReceive, tcpip_begin_handler, joining, STATE_BEGIN, STATE_NORMAL
  <2>2. m.frame.cmd = JOIN_SUCCESS
    BY <1>1, <2>1 DEF BeginReceive, tcpip_begin_handler, STATE_BEGIN, STATE_NORMAL
  <2>3. key_normal'[n] = m.frame.data
    BY <1>3, <2>1, <2>2 DEF BeginReceive, tcpip_begin_handler, JOIN_SUCCESS, REQUEST_HASH
  <2>4. m.from = Gw
    BY <1>1, <2>1 DEF IInv, Provenance, GenuineDatagram, Opens
  <2>5. QED
    BY <1>1, <2>2, <2>3, <2>4 DEF OneDeviceInv, KeysInFlight
<1>7. QED
  BY <1>2, <1>3, <1>4, <1>5, <1>6, KeyChanges

\* A node that reboots holds no key and has nothing in flight.
LEMMA RebootKey ==
  ASSUME "late" \notin Faults, IInv, FlightInv, OneDeviceInv, NEW n \in Node, Reboot(n),
         UNCHANGED <<gatewayVars, cli>>
  PROVE  OneDeviceInv'
<1>1. PICK a : a = ecb_encrypt(n, Gw, BeginFrame(REQUEST_JOIN, Zero, 0))
  OBVIOUS
<1>2. a.from = n /\ a.mode = "ecb"
  BY <1>1 DEF ecb_encrypt
<1>3. net' \subseteq net \cup {a}
  BY <1>1, PostAdds DEF Reboot
<1>4. \A x \in net : ~Involves(x, n)
  BY Patience DEF Reboot, Idle
<1>5. /\ UNCHANGED <<my_device, send_device>> /\ state'[n] = STATE_BEGIN
      /\ \A i \in Node \ {n} : state'[i] = state[i] /\ key_normal'[i] = key_normal[i]
  BY DEF Reboot, gatewayVars, IInv, TypeOK, NodeTypeOK
<1>6. QED
  BY <1>2, <1>3, <1>4, <1>5, KeyChanges DEF STATE_BEGIN, STATE_NORMAL

\* Other steps of a node leave its key alone, and a report goes out under it.
LEMMA NodeStepKey ==
  ASSUME "late" \notin Faults, IInv, FlightInv, OneDeviceInv, NodeStep
  PROVE  OneDeviceInv'
<1>1. UNCHANGED <<gatewayVars, cli>> /\ UNCHANGED <<my_device, send_device>>
  BY DEF NodeStep, gatewayVars
<1>2. PICK n \in Node : \/ TimerExpires(n)
                        \/ NodeTimer(n)
                        \/ \E m \in net : NodeReceive(n, m)
                        \/ Reboot(n)
  BY DEF NodeStep
<1>3. CASE TimerExpires(n)
  BY <1>1, <1>3, NothingSaid DEF TimerExpires, joining
<1>4. CASE BeginTimer(n)
  <2>1. Resume(n, net) /\ UNCHANGED <<state, key_normal>>
    BY <1>4 DEF BeginTimer, RearmAndFlag
  <2>2. PICK a : net' \subseteq net \cup {a} /\ a.from = n /\ a.mode = "ecb"
    BY <2>1, ResumeAdds
  <2>3. QED
    BY <1>1, <2>1, <2>2, KeysStay, Constants
<1>5. CASE NormalTimer(n)
  <2>1. PICK a : a = encrypt_cbc(n, Gw, key_normal[n],
                   prepare2send(Gw, frame_counter[n], STATE_NORMAL, SEND_PZEM, Zero))
    OBVIOUS
  <2>2. a.from = n /\ a.key = key_normal[n]
    BY <2>1 DEF encrypt_cbc
  <2>3. net' \subseteq net \cup {a} /\ UNCHANGED <<state, key_normal>>
    BY <1>5, <2>1, PostAdds DEF NormalTimer, send2bor_normal, joining
  <2>4. QED
    BY <1>1, <2>2, <2>3, KeysStay, Constants
<1>6. CASE \E m \in net : NormalReceive(n, m)
  <2>1. PICK m \in net : NormalReceive(n, m)
    BY <1>6
  <2>2. PICK cmd : net' \subseteq net \cup {RelayReply(n, cmd)}
    BY <2>1, Patience, PostAdds DEF NormalReceive
  <2>3. RelayReply(n, cmd).from = n /\ RelayReply(n, cmd).to = Cli
    BY DEF RelayReply, encrypt_cbc
  <2>4. \A x \in net' : x \in net \/ (x.from # Gw /\ x.to # Gw)
    BY <2>2, <2>3, Constants
  <2>5. QED
    BY <1>1, <2>1, <2>4, NothingSaid DEF NormalReceive
<1>7. CASE \E m \in net : BeginReceive(n, m)
  BY <1>1, <1>7, BeginReceiveKey
<1>8. CASE Reboot(n)
  BY <1>1, <1>8, RebootKey
<1>9. QED
  BY <1>2, <1>3, <1>4, <1>5, <1>6, <1>7, <1>8, NoOverrun DEF NodeTimer, NodeReceive

\* The gateway takes m from its one device d and puts at most the answer a in
\* its place.
LEMMA GatewayKeys ==
  ASSUME IInv, FlightInv, OneDeviceInv, UNCHANGED <<nodeVars, cli>>,
         NEW m \in net, NEW a, NEW d \in Device, d = m.from, \A e \in Device : e = d,
         net' \subseteq (net \ {m}) \cup {a},
         a \in net' => a \in net \ {m}
                         \/ /\ a.from = Gw /\ a.to = d
                            /\ a.frame.cmd = JOIN_SUCCESS => Agrees(d, a.frame.data)',
         AnswersKept',
         state[d] = STATE_NORMAL => Agrees(d, key_normal[d])'
  PROVE  OneDeviceInv'
<1>1. UNCHANGED <<state, key_normal>>
  BY DEF nodeVars, joining
<1>2. SessionAgreement'
  BY <1>1 DEF SessionAgreement, Agrees
<1>3. KeysInFlight'
  <2> SUFFICES ASSUME NEW x \in net'
               PROVE  /\ x.from = Gw /\ x.frame.cmd = JOIN_SUCCESS =>
                           Agrees(x.to, x.frame.data)'
                      /\ x.to = Gw /\ x.mode = "cbc" => x.key = key_normal'[x.from]
    BY DEF KeysInFlight
  <2>1. CASE x \in net \ {m}
    <3>1. x.to # d
      BY <2>1, Alone, Constants DEF FlightInv, Involves
    <3>2. x.from # Gw
      BY <2>1, <3>1, Ends DEF FlightInv
    <3>3. QED
      BY <1>1, <2>1, <3>2 DEF OneDeviceInv, KeysInFlight
  <2>2. CASE x \notin net \ {m}
    <3>1. x.from = Gw /\ x.to = d /\ (x.frame.cmd = JOIN_SUCCESS => Agrees(d, x.frame.data)')
      BY <2>2
    <3>2. QED
      BY <3>1, Constants
  <2>3. QED
    BY <2>1, <2>2
<1>4. QED
  BY <1>2, <1>3 DEF OneDeviceInv

\* A new challenge replaces whatever key the static frame held (test.c:146-172).
LEMMA JoinKey ==
  ASSUME "late" \notin Faults, IInv, FlightInv, OneDeviceInv, UNCHANGED <<nodeVars, cli>>,
         \A d, e \in Device : d = e, NEW m \in net, Join(m)
  PROVE  OneDeviceInv'
<1>1. PICK c, f :
        /\ f = prepare2send(m.from, 0, STATE_BEGIN, REQUEST_HASH, c)
        /\ my_device' = [my_device EXCEPT ![m.from] = Challenged(c, f)]
        /\ Answer(m, f)
  BY DEF Join, copy_node2node
<1>2. m.from \in Device /\ \A e \in Device : e = m.from
  BY DEF Join, Parses, checklist_my_device
<1>3. state[m.from] = STATE_BEGIN
  BY UplinkBegin DEF Join, Parses
<1>4. f.cmd # JOIN_SUCCESS
  BY <1>1 DEF prepare2send, REQUEST_HASH, JOIN_SUCCESS
<1>5. send_device' = f /\ my_device'[m.from].authenticated = "N"
  BY <1>1, <1>2 DEF Answer, Challenged, IInv, TypeOK, GatewayTypeOK
<1>6. PICK a : a = ecb_encrypt(Gw, m.from, f)
  OBVIOUS
<1>7. a.from = Gw /\ a.to = m.from /\ a.frame = f
  BY <1>6 DEF ecb_encrypt
<1>8. net' \subseteq (net \ {m}) \cup {a}
  BY <1>1, <1>6, AnswerAdds
<1>9. AnswersKept'
  BY <1>2, <1>4, <1>5 DEF AnswersKept
<1>10. QED
  BY <1>2, <1>3, <1>4, <1>7, <1>8, <1>9, GatewayKeys DEF STATE_BEGIN, STATE_NORMAL

\* A REPLY_HASH is answered with a frame that holds the key k of the record or
\* none.
LEMMA ReplyKey ==
  ASSUME "late" \notin Faults, IInv, FlightInv, OneDeviceInv, UNCHANGED <<nodeVars, cli>>,
         \A d, e \in Device : d = e, NEW m \in net, NEW f, NEW k,
         Parses(m), IsBegin(m, REPLY_HASH), ReplyWith(m, f, k),
         f.cmd = JOIN_SUCCESS => f.data = k
  PROVE  OneDeviceInv'
<1>1. m.from \in Device /\ \A e \in Device : e = m.from
  BY DEF Parses, checklist_my_device
<1>2. state[m.from] = STATE_BEGIN
  BY UplinkBegin DEF Parses
<1>3. my_device' = [my_device EXCEPT ![m.from] =
                      Replied(my_device[m.from], m.frame.seq, f, k)] /\ Answer(m, f)
  BY DEF ReplyWith, copy_node2node
<1>4. /\ my_device'[m.from].authenticated = "Y" /\ my_device'[m.from].key = k
      /\ my_device'[m.from].last_data_send = f
  BY <1>1, <1>3 DEF Replied, IInv, TypeOK, GatewayTypeOK
<1>5. PICK a : a = ecb_encrypt(Gw, m.from, f)
  OBVIOUS
<1>6. a.from = Gw /\ a.to = m.from /\ a.frame = f
  BY <1>5 DEF ecb_encrypt
<1>7. net' \subseteq (net \ {m}) \cup {a}
  BY <1>3, <1>5, AnswerAdds
<1>8. AnswersKept'
  BY <1>1, <1>4 DEF AnswersKept
<1>9. a.frame.cmd = JOIN_SUCCESS => Agrees(m.from, a.frame.data)'
  BY <1>4, <1>6 DEF Agrees
<1>10. QED
  BY <1>1, <1>2, <1>6, <1>7, <1>8, <1>9, GatewayKeys DEF STATE_BEGIN, STATE_NORMAL

\* The three answers: a new key; the static frame, which holds none while the
\* device is not authenticated; the last answer again (test.c:206-255).
LEMMA RepliesKey ==
  ASSUME "late" \notin Faults, IInv, FlightInv, OneDeviceInv, UNCHANGED <<nodeVars, cli>>,
         \A d, e \in Device : d = e, NEW m \in net,
         ReplyMatch(m) \/ ReplyMismatch(m) \/ ReplyDuplicate(m)
  PROVE  OneDeviceInv'
<1>1. m.from \in Device
  BY DEF ReplyMatch, ReplyMismatch, ReplyDuplicate, Parses, checklist_my_device
<1>2. CASE ReplyMatch(m)
  <2>1. PICK k, f :
          /\ f = prepare2send(m.from, my_device[m.from].num_send, STATE_BEGIN, JOIN_SUCCESS, k)
          /\ ReplyWith(m, f, k)
    BY <1>2 DEF ReplyMatch
  <2>2. f.data = k
    BY <2>1 DEF prepare2send
  <2>3. QED
    BY <1>2, <2>1, <2>2, ReplyKey DEF ReplyMatch
<1>3. CASE ReplyMismatch(m)
  <2>1. PICK f, k : f = send_device /\ k = my_device[m.from].key
    OBVIOUS
  <2>2. f.cmd # JOIN_SUCCESS
    BY <1>1, <1>3, <2>1 DEF ReplyMismatch, OneDeviceInv, AnswersKept
  <2>3. QED
    BY <1>3, <2>1, <2>2, ReplyKey DEF ReplyMismatch
<1>4. CASE ReplyDuplicate(m)
  <2>1. PICK f, k : f = Renumbered(m.from) /\ k = my_device[m.from].key
    OBVIOUS
  <2>2. my_device[m.from].last_data_send \in Frame
    BY <1>1 DEF IInv, TypeOK, GatewayTypeOK, DeviceRecord
  <2>3. /\ f.cmd = my_device[m.from].last_data_send.cmd
        /\ f.data = my_device[m.from].last_data_send.data
    BY <2>1, <2>2, SMT DEF Renumbered, Frame
  <2>4. f.cmd = JOIN_SUCCESS => f.data = k
    BY <1>1, <1>4, <2>1, <2>3 DEF ReplyDuplicate, OneDeviceInv, AnswersKept
  <2>5. QED
    BY <1>4, <2>1, <2>4, ReplyKey DEF ReplyDuplicate
<1>5. QED
  BY <1>2, <1>3, <1>4

\* A report that a record counts opens under the key of the record: the record
\* of a new run counts it only if that is the key of the node (test.c:258-285).
LEMMA NormalKey ==
  ASSUME "late" \notin Faults, IInv, FlightInv, OneDeviceInv, UNCHANGED <<nodeVars, cli>>,
         \A d, e \in Device : d = e, NEW m \in net, process_normal(m)
  PROVE  OneDeviceInv'
<1>1. /\ m.to = Gw /\ m.from \in Device /\ m.from \in Node /\ net' = net \ {m}
      /\ \A e \in Device : e = m.from
      /\ send_device' = send_device
      /\ my_device' = [my_device EXCEPT ![m.from] = Counted(my_device[m.from], m.frame.seq)]
  BY Patience, Constants DEF process_normal, Parses, checklist_my_device, copy_node2node
<1>2. /\ my_device'[m.from].authenticated = my_device[m.from].authenticated
      /\ my_device'[m.from].key = my_device[m.from].key
      /\ my_device'[m.from].last_data_send = my_device[m.from].last_data_send
  BY <1>1 DEF Counted, IInv, TypeOK, GatewayTypeOK
<1>3. m.mode = "cbc"
  BY <1>1 DEF process_normal, IsNormal, FlightInv, InFlight, Uplink, STATE_BEGIN, STATE_NORMAL
<1>4. m.key = my_device[m.from].key
  BY <1>3 DEF process_normal, Parses, check_statedata_rev, Opens
<1>5. my_device[m.from].key = key_normal[m.from]
  BY <1>1, <1>3, <1>4 DEF OneDeviceInv, KeysInFlight
<1>6. key_normal' = key_normal
  BY DEF nodeVars, joining
<1>7. Agrees(m.from, key_normal[m.from])'
  BY <1>2, <1>5, <1>6 DEF Agrees
<1>8. AnswersKept'
  BY <1>1, <1>2 DEF OneDeviceInv, AnswersKept
<1>9. net' \subseteq (net \ {m}) \cup {m} /\ (m \in net' => m \in net \ {m})
  BY <1>1
<1>10. QED
  BY <1>1, <1>7, <1>8, <1>9, GatewayKeys

\* A new run of the gateway knows no key at all.
LEMMA RestartKey ==
  ASSUME IInv, FlightInv, UNCHANGED <<nodeVars, cli>>, OneDeviceInv, Restart
  PROVE  OneDeviceInv'
<1>1. /\ "restart" \in Faults /\ net' = net /\ send_device'.cmd = 0
      /\ \A d \in Device : my_device'[d] = NewDevice /\ my_device'[d].authenticated = "N"
  BY DEF Restart, init_main, NewDevice, Blank
<1>2. UNCHANGED <<state, key_normal>>
  BY DEF nodeVars, joining
<1>3. AnswersKept'
  BY <1>1 DEF AnswersKept, JOIN_SUCCESS
<1>4. SessionAgreement'
  BY <1>1, Zenon DEF SessionAgreement
<1>5. KeysInFlight'
  <2> SUFFICES ASSUME NEW x \in net
               PROVE  /\ x.from = Gw => Agrees(x.to, x.frame.data)'
                      /\ x.to = Gw /\ x.mode = "cbc" => x.key = key_normal'[x.from]
    BY <1>1 DEF KeysInFlight
  <2>1. x.from = Gw => x.to \in Device
    BY Ends DEF FlightInv
  <2>2. x.from = Gw => Agrees(x.to, x.frame.data)'
    BY <1>1, <2>1, Zenon DEF Agrees
  <2>3. QED
    BY <1>2, <2>2 DEF OneDeviceInv, KeysInFlight
<1>6. QED
  BY <1>3, <1>4, <1>5 DEF OneDeviceInv

\* The steps of the gateway together.
LEMMA GatewayStepKey ==
  ASSUME "late" \notin Faults, IInv, FlightInv, OneDeviceInv,
         \A d, e \in Device : d = e, GatewayStep
  PROVE  OneDeviceInv'
<1>1. UNCHANGED <<nodeVars, cli>> /\ UNCHANGED <<state, key_normal>>
  BY DEF GatewayStep, nodeVars, joining
<1>2. CASE Restart
  BY <1>1, <1>2, RestartKey
<1>3. CASE \E m \in net : GatewayReceive(m)
  <2>1. PICK m \in net : GatewayReceive(m)
    BY <1>3
  <2>2. CASE Join(m)
    BY <1>1, <2>2, JoinKey
  <2>3. CASE ReplyMatch(m) \/ ReplyMismatch(m) \/ ReplyDuplicate(m)
    BY <1>1, <2>3, RepliesKey
  <2>4. CASE process_normal(m)
    BY <1>1, <2>4, NormalKey
  <2>5. CASE Ignore(m)
    BY <1>1, <2>5, NothingSaid, DeliveredAdds DEF Ignore
  <2>6. QED
    BY <2>1, <2>2, <2>3, <2>4, <2>5 DEF GatewayReceive
<1>4. QED
  BY <1>2, <1>3 DEF GatewayStep

\* The relay tool and the network carry no key.
LEMMA OthersKey ==
  ASSUME OneDeviceInv, CliStep \/ NetworkStep \/ UNCHANGED vars
  PROVE  OneDeviceInv'
<1>1. UNCHANGED <<state, key_normal, my_device, send_device>>
  BY DEF CliStep, NetworkStep, gatewayVars, nodeVars, joining, vars
<1>2. \A n, f : encrypt_cbc(Cli, n, KeyBegin, f).from = Cli
                  /\ encrypt_cbc(Cli, n, KeyBegin, f).to = n
  BY DEF encrypt_cbc
<1>3. CASE CliStep
  <2>1. \A x \in net' : x \in net \/ (x.from # Gw /\ x.to # Gw)
    BY <1>2, <1>3, Constants, PostAdds, DeliveredAdds
       DEF CliStep, CliRun, CliReceive, CliUnbound, CliTimeout
  <2>2. QED
    BY <1>1, <2>1, NothingSaid
<1>4. CASE NetworkStep \/ UNCHANGED vars
  BY <1>1, <1>4, NothingSaid DEF NetworkStep, Lose, vars
<1>5. QED
  BY <1>3, <1>4

\* While round trips are shorter than the timers and one device is listed, its
\* key and that of its record are the same until the gateway is started anew,
\* and the key of a frame in flight is too (test.c:59, 213-255).
THEOREM OneDeviceInvariance ==
  ASSUME "late" \notin Faults, \A d, e \in Device : d = e
  PROVE  Spec => []OneDeviceInv
<1>1. Init => OneDeviceInv
  <2> SUFFICES ASSUME Init PROVE OneDeviceInv
    OBVIOUS
  <2>1. \A m \in net : m.from # Gw /\ m.mode = "ecb"
    BY Constants DEF Init, NodeInit, ecb_encrypt
  <2>2. /\ \A d \in Device : my_device[d].authenticated = "N"
        /\ send_device.cmd # JOIN_SUCCESS
    BY DEF Init, GatewayInit, init_main, NewDevice, Blank, JOIN_SUCCESS
  <2>3. \A d \in Device : state[d] # STATE_NORMAL
    BY Constants DEF Init, NodeInit, STATE_BEGIN, STATE_NORMAL
  <2>4. QED
    BY <2>1, <2>2, <2>3 DEF OneDeviceInv, AnswersKept, KeysInFlight, SessionAgreement
<1>2. IInv /\ FlightInv /\ OneDeviceInv /\ [Next]_vars => OneDeviceInv'
  BY NodeStepKey, GatewayStepKey, OthersKey DEF Next
<1>3. QED
  BY <1>1, <1>2, Invariance, FlightInvariance, PTL DEF Spec

\* With one listed device a restart of the gateway leaves no half session: node
\* and gateway hold the same key, or the gateway knows nothing of the node
\* (server.c:340-345, test.c:59).
THEOREM KeysAgreeOverRestarts ==
  ASSUME "late" \notin Faults, \A d, e \in Device : d = e
  PROVE  Spec => []SessionAgreement
<1>1. OneDeviceInv => SessionAgreement
  BY DEF OneDeviceInv
<1>2. QED
  BY <1>1, OneDeviceInvariance, PTL
=============================================================================
