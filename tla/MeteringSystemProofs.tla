------------------------ MODULE MeteringSystemProofs ------------------------
(***************************************************************************)
(* Proofs about MeteringSystem, for every set of nodes, every device list  *)
(* and every combination of faults.                                        *)
(***************************************************************************)
EXTENDS MeteringSystem, TLAPS

\* Facts about the constants that most steps need.
LEMMA Constants ==
  /\ ZeroChallenge \in Challenge /\ ZeroKey \in Key
  /\ Hash \in [Challenge -> Digest]
  /\ MaxCount \in Nat /\ 0 \in Count /\ 1 \in Count
  /\ Gw \notin Node /\ Cli \notin Node /\ NoAddr \notin Node /\ Gw # Cli
  /\ NoCrc \notin Checksum
  /\ Device \subseteq Node
  /\ CliTargets \subseteq Node
  BY FramesAssumption, GatewayAssumption, CliAssumption, SMT DEF Count

\* A prepared frame is a frame, and its checksum verifies.
LEMMA Prepared ==
  ASSUME NEW dst \in Address, NEW seq \in Count, NEW st \in 0..2,
         NEW cmd \in 0..9, NEW data \in Payload
  PROVE  /\ prepare2send(dst, seq, st, cmd, data) \in Frame
         /\ check_crc16(prepare2send(dst, seq, st, cmd, data))
  BY SMT DEF prepare2send, gen_crc16, Frame, Checksum, check_crc16

\* A counter that saturates stays a counter.
LEMMA TickTyped == \A c \in Count : Tick(c) \in Count
  BY Constants, SMT DEF Tick, Count

\* Posting adds at most the datagram posted; a delivery adds none.
LEMMA PostAdds == \A base, m : Post(base, m) \subseteq base \cup {m}
  BY DEF Post

\* Taking a datagram adds none.
LEMMA DeliveredAdds == \A m : \A base \in Delivered(m) : base \subseteq net
  BY DEF Delivered

-----------------------------------------------------------------------------
\* What nodes and the relay tool send: never a frame that could pass for one
\* of the gateway's.
Harmless(m) ==
  m \in Datagram /\ m.from # Gw /\ (m.to \in Node => m.mode # "ecb")

OnlyHarmlessSent == \A m \in net' : m \in net \/ Harmless(m)

LEMMA FromNode ==
  ASSUME NEW n \in Node, NEW f \in Frame, NEW k \in Key \cup {KeyBegin}
  PROVE  /\ Harmless(ecb_encrypt(n, Gw, f))
         /\ Harmless(encrypt_cbc(n, Gw, k, f))
         /\ Harmless(encrypt_cbc(n, Cli, k, f))
         /\ Harmless(encrypt_cbc(Cli, n, k, f))
  BY Constants, SMT DEF Harmless, Datagram, ecb_encrypt, encrypt_cbc

LEMMA BeginFrameTyped ==
  ASSUME NEW seq \in Count, NEW cmd \in {REQUEST_JOIN, REPLY_HASH},
         NEW data, cmd = REPLY_HASH => data \in Challenge
  PROVE  BeginFrame(cmd, data, seq) \in Frame
<1> DEFINE sent == IF cmd = REPLY_HASH THEN Hash[data] ELSE Zero
<1>1. sent \in Payload
  BY Constants DEF Payload
<1>2. Gw \in Address /\ STATE_BEGIN \in 0..2 /\ cmd \in 0..9
  BY DEF Address, STATE_BEGIN, REQUEST_JOIN, REPLY_HASH
<1> HIDE DEF sent
<1>3. prepare2send(Gw, seq, STATE_BEGIN, cmd, sent) \in Frame
  BY <1>1, <1>2, Prepared
<1>4. QED
  BY <1>3 DEF BeginFrame, sent

\* The part of the invariant a step of another component leaves alone.
LEMMA HarmlessStep ==
  ASSUME Provenance, net \subseteq Datagram, OnlyHarmlessSent,
         UNCHANGED <<my_device, send_device, issued>>
  PROVE  Provenance' /\ net' \subseteq Datagram
  BY DEF Provenance, OnlyHarmlessSent, Harmless, GenuineDatagram, Genuine

-----------------------------------------------------------------------------
\* The invariant of the node's own variables, given its net.
NodeInv ==
  NodeTypeOK /\ DoneTracksPhase /\ ChallengeHeld /\ OnlyListedJoin

\* A thread that ends up in a good state sends a good frame.
LEMMA ResumeSends ==
  ASSUME NEW n \in Node, NEW base, base \subseteq net,
         frame_counter \in [Node -> Count],
         state'[n] = STATE_BEGIN =>
            /\ begin_cmd'[n] \in {REQUEST_JOIN, REPLY_HASH}
            /\ begin_cmd'[n] = REPLY_HASH => payload'[n] \in Challenge,
         Resume(n, base)
  PROVE  OnlyHarmlessSent /\ frame_counter' \in [Node -> Count]
<1>1. CASE SendsOnResume(n)
  <2>1. send2bor_begin(n, begin_cmd'[n], payload'[n], base)
    BY <1>1 DEF Resume
  <2>2. BeginFrame(begin_cmd'[n], payload'[n], frame_counter[n]) \in Frame
    BY <1>1, BeginFrameTyped DEF SendsOnResume
  <2>3. Harmless(ecb_encrypt(n, Gw,
          BeginFrame(begin_cmd'[n], payload'[n], frame_counter[n])))
    BY <2>2, FromNode
  <2>4. OnlyHarmlessSent
    BY <2>1, <2>3, PostAdds DEF send2bor_begin, OnlyHarmlessSent
  <2>5. frame_counter' \in [Node -> Count]
    BY <2>1, TickTyped DEF send2bor_begin
  <2>6. QED
    BY <2>4, <2>5
<1>2. CASE ~SendsOnResume(n)
  BY <1>2 DEF Resume, OnlyHarmlessSent
<1>3. QED
  BY <1>1, <1>2

\* What each node action must establish.
NodeGood == NodeInv' /\ KeysComeFromGateway' /\ OnlyHarmlessSent

LEMMA TimerExpiresGood ==
  ASSUME IInv, NEW n \in Node, TimerExpires(n), UNCHANGED issued
  PROVE  NodeGood
  BY DEF IInv, TypeOK, NodeTypeOK, TimerExpires, NodeGood, NodeInv, joining,
     DoneTracksPhase, ChallengeHeld, OnlyListedJoin, KeysComeFromGateway,
     OnlyHarmlessSent

\* Both branches that find the timer expired in STATE_BEGIN.
LEMMA RearmGood ==
  ASSUME IInv, NEW n \in Node, state[n] = STATE_BEGIN, UNCHANGED issued,
         NEW t \in {"running", "stale"}, RearmAndFlag(n, t),
         NEW base, base \subseteq net, Resume(n, base)
  PROVE  NodeGood
<1>1. OnlyHarmlessSent /\ frame_counter' \in [Node -> Count]
  <2>1. /\ frame_counter \in [Node -> Count]
        /\ begin_cmd'[n] \in {REQUEST_JOIN, REPLY_HASH}
        /\ begin_cmd'[n] = REPLY_HASH => payload'[n] \in Challenge
    BY DEF IInv, TypeOK, NodeTypeOK, ChallengeHeld, RearmAndFlag
  <2>2. QED
    BY <2>1, ResumeSends
<1>2. NodeInv'
  <2>1. NodeTypeOK'
    BY <1>1 DEF IInv, TypeOK, NodeTypeOK, RearmAndFlag
  <2>2. DoneTracksPhase'
    BY DEF IInv, TypeOK, NodeTypeOK, RearmAndFlag, DoneTracksPhase,
       REQUEST_JOIN, REPLY_HASH
  <2>3. ChallengeHeld' /\ OnlyListedJoin'
    BY DEF IInv, RearmAndFlag, ChallengeHeld, OnlyListedJoin
  <2>4. QED
    BY <2>1, <2>2, <2>3 DEF NodeInv
<1>3. KeysComeFromGateway'
  BY DEF IInv, RearmAndFlag, KeysComeFromGateway
<1>4. QED
  BY <1>1, <1>2, <1>3 DEF NodeGood

LEMMA BeginTimerGood ==
  ASSUME IInv, NEW n \in Node, BeginTimer(n), UNCHANGED issued
  PROVE  NodeGood
  BY RearmGood DEF BeginTimer

LEMMA BeginOverrunGood ==
  ASSUME IInv, NEW n \in Node, NEW m \in net, BeginOverrun(n, m),
         UNCHANGED issued
  PROVE  NodeGood
  BY RearmGood, DeliveredAdds DEF BeginOverrun

LEMMA BeginStaleEventGood ==
  ASSUME IInv, NEW n \in Node, BeginStaleEvent(n), UNCHANGED issued
  PROVE  NodeGood
<1>1. OnlyHarmlessSent /\ frame_counter' \in [Node -> Count]
  <2>1. /\ frame_counter \in [Node -> Count]
        /\ begin_cmd'[n] \in {REQUEST_JOIN, REPLY_HASH}
        /\ begin_cmd'[n] = REPLY_HASH => payload'[n] \in Challenge
    BY DEF IInv, TypeOK, NodeTypeOK, ChallengeHeld, BeginStaleEvent, joining
  <2>2. QED
    BY <2>1, ResumeSends DEF BeginStaleEvent
<1>2. NodeInv'
  BY <1>1 DEF IInv, TypeOK, NodeTypeOK, BeginStaleEvent, joining, NodeInv,
     DoneTracksPhase, ChallengeHeld, OnlyListedJoin
<1>3. KeysComeFromGateway'
  BY DEF IInv, BeginStaleEvent, joining, KeysComeFromGateway
<1>4. QED
  BY <1>1, <1>2, <1>3 DEF NodeGood

\* A frame that opens in STATE_BEGIN is one the gateway built for a listed
\* node: a challenge or a key.
LEMMA OpenedInBegin ==
  ASSUME IInv, NEW n \in Node, NEW m \in net, m.to = n,
         Opens(m, "ecb", KeyBegin)
  PROVE  /\ n \in Device
         /\ m.frame.data \in Payload
         /\ m.frame.cmd \in {REQUEST_HASH, JOIN_SUCCESS}
         /\ m.frame.cmd = REQUEST_HASH => m.frame.data \in Challenge
         /\ m.frame.cmd = JOIN_SUCCESS =>
              /\ m.frame.data \in Key
              /\ \E d \in Device : <<d, m.frame.data>> \in issued
<1>1. m \in Datagram /\ m.frame \in Frame
  BY DEF IInv, TypeOK, Datagram
<1>2. m.from = Gw /\ n \in Device /\ Genuine(m.frame)
  BY DEF IInv, Provenance, GenuineDatagram, Opens
<1>3. m.frame.crc \in Checksum
  BY <1>1, SMT DEF Opens, check_crc16, gen_crc16, Frame, Checksum
<1>4. m.frame.crc # NoCrc
  BY <1>3, Constants
<1>5. \A d : <<d, m.frame.data>> \in issued => m.frame.data \in Key
  BY DEF IInv, TypeOK, GatewayTypeOK
<1>6. m.frame.data \in Payload
  BY <1>1 DEF Frame
<1>7. QED
  BY <1>2, <1>4, <1>5, <1>6 DEF Genuine

LEMMA BeginReceiveGood ==
  ASSUME IInv, NEW n \in Node, NEW m \in net, BeginReceive(n, m),
         UNCHANGED issued
  PROVE  NodeGood
<1> USE DEF STATE_BEGIN, STATE_NORMAL, REQUEST_JOIN, REQUEST_HASH, REPLY_HASH,
            JOIN_SUCCESS
<1>1. PICK base \in Delivered(m) : Resume(n, base)
  BY DEF BeginReceive
<1>2. /\ state' \in [Node -> {STATE_BEGIN, STATE_NORMAL}]
      /\ begin_cmd' \in [Node -> {REQUEST_JOIN, REPLY_HASH}]
      /\ done' \in [Node -> {0, 1}]
      /\ payload' \in [Node -> Payload]
      /\ key_normal' \in [Node -> Key]
      /\ DoneTracksPhase' /\ ChallengeHeld' /\ OnlyListedJoin'
      /\ KeysComeFromGateway'
  <2>1. CASE ~Opens(m, "ecb", KeyBegin)
    BY <2>1 DEF BeginReceive, tcpip_begin_handler, joining, IInv, TypeOK,
       NodeTypeOK, DoneTracksPhase, ChallengeHeld, OnlyListedJoin,
       KeysComeFromGateway
  <2>2. CASE Opens(m, "ecb", KeyBegin) /\ m.frame.cmd = REQUEST_HASH
    <3>1. /\ payload' = [payload EXCEPT ![n] = m.frame.data]
          /\ begin_cmd' = [begin_cmd EXCEPT ![n] = REPLY_HASH]
          /\ done' = [done EXCEPT ![n] = 1]
          /\ UNCHANGED <<state, key_normal>>
      BY <2>2 DEF BeginReceive, tcpip_begin_handler
    <3>2. m.frame.data \in Challenge /\ m.frame.data \in Payload
      BY <2>2, OpenedInBegin DEF BeginReceive
    <3>3. QED
      BY <3>1, <3>2 DEF IInv, TypeOK, NodeTypeOK, DoneTracksPhase,
         ChallengeHeld, OnlyListedJoin, KeysComeFromGateway
  <2>3. CASE Opens(m, "ecb", KeyBegin) /\ m.frame.cmd = JOIN_SUCCESS
    <3>1. /\ payload' = [payload EXCEPT ![n] = m.frame.data]
          /\ key_normal' = [key_normal EXCEPT ![n] = m.frame.data]
          /\ state' = [state EXCEPT ![n] = STATE_NORMAL]
          /\ done' = [done EXCEPT ![n] = 0]
          /\ UNCHANGED begin_cmd
      BY <2>3 DEF BeginReceive, tcpip_begin_handler
    <3>2. /\ n \in Device /\ m.frame.data \in Key /\ m.frame.data \in Payload
          /\ \E d \in Device : <<d, m.frame.data>> \in issued
      BY <2>3, OpenedInBegin DEF BeginReceive
    <3>3. KeysComeFromGateway'
      BY <3>1, <3>2 DEF IInv, TypeOK, NodeTypeOK, KeysComeFromGateway
    <3>4. QED
      BY <3>1, <3>2, <3>3 DEF IInv, TypeOK, NodeTypeOK, DoneTracksPhase,
         ChallengeHeld, OnlyListedJoin
  <2>4. QED
    BY <2>1, <2>2, <2>3, OpenedInBegin DEF BeginReceive
<1>3. OnlyHarmlessSent /\ frame_counter' \in [Node -> Count]
  <2>1. frame_counter \in [Node -> Count] /\ base \subseteq net
    BY <1>1, DeliveredAdds DEF IInv, TypeOK, NodeTypeOK
  <2>2. /\ begin_cmd'[n] \in {REQUEST_JOIN, REPLY_HASH}
        /\ state'[n] = STATE_BEGIN /\ begin_cmd'[n] = REPLY_HASH =>
             payload'[n] \in Challenge
    BY <1>2 DEF ChallengeHeld
  <2>3. QED
    BY <1>1, <2>1, <2>2, ResumeSends
<1>4. timer' \in [Node -> {"running", "expired", "stale"}] /\ pin' \in [Node -> {0, 1}]
  BY DEF BeginReceive, IInv, TypeOK, NodeTypeOK
<1>5. QED
  BY <1>2, <1>3, <1>4 DEF NodeGood, NodeInv, NodeTypeOK

LEMMA TelemetrySent ==
  ASSUME IInv, NEW n \in Node, NEW base, base \subseteq net,
         send2bor_normal(n, base)
  PROVE  OnlyHarmlessSent /\ frame_counter' \in [Node -> Count]
<1> DEFINE f == prepare2send(Gw, frame_counter[n], STATE_NORMAL, SEND_PZEM, Zero)
<1>1. frame_counter \in [Node -> Count] /\ key_normal \in [Node -> Key]
  BY DEF IInv, TypeOK, NodeTypeOK
<1>2. f \in Frame
  <2>1. Gw \in Address /\ STATE_NORMAL \in 0..2 /\ SEND_PZEM \in 0..9 /\ Zero \in Payload
    BY DEF Address, STATE_NORMAL, SEND_PZEM, Payload
  <2>2. QED
    BY <1>1, <2>1, Prepared
<1>3. Harmless(encrypt_cbc(n, Gw, key_normal[n], f))
  BY <1>1, <1>2, FromNode
<1>4. OnlyHarmlessSent
  BY <1>3, PostAdds DEF send2bor_normal, OnlyHarmlessSent
<1>5. frame_counter' \in [Node -> Count]
  BY <1>1, TickTyped DEF send2bor_normal
<1>6. QED
  BY <1>4, <1>5

\* An action that leaves what the node joined with alone.
LEMMA NotJoiningGood ==
  ASSUME IInv, UNCHANGED <<state, begin_cmd, done, key_normal, issued>>,
         payload' \in [Node -> Payload],
         \A n \in Node : state[n] = STATE_BEGIN => payload'[n] = payload[n],
         frame_counter' \in [Node -> Count],
         timer' \in [Node -> {"running", "expired", "stale"}],
         pin' \in [Node -> {0, 1}],
         OnlyHarmlessSent
  PROVE  NodeGood
  BY DEF IInv, TypeOK, NodeTypeOK, NodeGood, NodeInv, DoneTracksPhase,
     ChallengeHeld, OnlyListedJoin, KeysComeFromGateway

LEMMA NormalTimerGood ==
  ASSUME IInv, NEW n \in Node, NormalTimer(n), UNCHANGED issued
  PROVE  NodeGood
<1>1. OnlyHarmlessSent /\ frame_counter' \in [Node -> Count]
  BY TelemetrySent DEF NormalTimer, OnlyHarmlessSent, IInv, TypeOK, NodeTypeOK
<1>2. QED
  BY <1>1, NotJoiningGood DEF NormalTimer, joining, IInv, TypeOK, NodeTypeOK

LEMMA NormalStaleEventGood ==
  ASSUME IInv, NEW n \in Node, NormalStaleEvent(n), UNCHANGED issued
  PROVE  NodeGood
<1>1. OnlyHarmlessSent
  BY DEF NormalStaleEvent, OnlyHarmlessSent
<1>2. QED
  BY <1>1, NotJoiningGood DEF NormalStaleEvent, joining, IInv, TypeOK, NodeTypeOK

LEMMA NormalOverrunGood ==
  ASSUME IInv, NEW n \in Node, NEW m \in net, NormalOverrun(n, m),
         UNCHANGED issued
  PROVE  NodeGood
<1>1. PICK base \in Delivered(m) :
        \/ send2bor_normal(n, base)
        \/ net' = base /\ UNCHANGED frame_counter
  BY DEF NormalOverrun
<1>2. OnlyHarmlessSent /\ frame_counter' \in [Node -> Count]
  BY <1>1, TelemetrySent, DeliveredAdds DEF OnlyHarmlessSent, IInv, TypeOK, NodeTypeOK
<1>3. QED
  BY <1>2, NotJoiningGood DEF NormalOverrun, joining, IInv, TypeOK, NodeTypeOK

LEMMA NormalReceiveGood ==
  ASSUME IInv, NEW n \in Node, NEW m \in net, NormalReceive(n, m),
         UNCHANGED issued
  PROVE  NodeGood
<1>1. \A cmd \in {REPLY_LED_ON, REPLY_LED_OFF} : Harmless(RelayReply(n, cmd))
  <2>1. TAKE cmd \in {REPLY_LED_ON, REPLY_LED_OFF}
  <2>2. /\ Gw \in Address /\ 0 \in Count /\ STATE_NORMAL \in 0..2
        /\ cmd \in 0..9 /\ Zero \in Payload
    BY Constants DEF Address, STATE_NORMAL, REPLY_LED_ON, REPLY_LED_OFF, Payload
  <2>3. prepare2send(Gw, 0, STATE_NORMAL, cmd, Zero) \in Frame
    BY <2>2, Prepared
  <2>4. QED
    BY <2>3, FromNode DEF RelayReply
<1>2. PICK base \in Delivered(m) :
        IF Opens(m, "cbc", KeyBegin)
        THEN /\ payload' = [payload EXCEPT ![n] = m.frame.data]
             /\ \/ relay_on(n) /\ net' = Post(base, RelayReply(n, REPLY_LED_ON))
                \/ relay_off(n) /\ net' = Post(base, RelayReply(n, REPLY_LED_OFF))
        ELSE net' = base /\ UNCHANGED <<payload, pin>>
  BY DEF NormalReceive
<1>3. OnlyHarmlessSent
  BY <1>1, <1>2, PostAdds, DeliveredAdds DEF OnlyHarmlessSent
<1>4. m.frame.data \in Payload
  BY DEF IInv, TypeOK, Datagram, Frame
<1>5. payload' \in [Node -> Payload] /\ pin' \in [Node -> {0, 1}]
  BY <1>2, <1>4 DEF IInv, TypeOK, NodeTypeOK, relay_on, relay_off, my_leds_on,
     my_leds_off
<1>6. \A i \in Node : state[i] = STATE_BEGIN => payload'[i] = payload[i]
  BY <1>2 DEF NormalReceive, IInv, TypeOK, NodeTypeOK, STATE_BEGIN, STATE_NORMAL
<1>7. QED
  BY <1>3, <1>5, <1>6, NotJoiningGood DEF NormalReceive, IInv, TypeOK, NodeTypeOK

LEMMA RebootGood ==
  ASSUME IInv, NEW n \in Node, Reboot(n), UNCHANGED issued
  PROVE  NodeGood
<1>1. BeginFrame(REQUEST_JOIN, Zero, 0) \in Frame
  BY Constants, BeginFrameTyped DEF REQUEST_JOIN, REPLY_HASH
<1>2. Harmless(ecb_encrypt(n, Gw, BeginFrame(REQUEST_JOIN, Zero, 0)))
  BY <1>1, FromNode
<1>3. OnlyHarmlessSent
  BY <1>2, PostAdds DEF Reboot, OnlyHarmlessSent
<1>4. NodeTypeOK'
  BY Constants DEF Reboot, IInv, TypeOK, NodeTypeOK, Payload
<1>5. (DoneTracksPhase /\ ChallengeHeld /\ OnlyListedJoin /\ KeysComeFromGateway)'
  BY DEF Reboot, IInv, TypeOK, NodeTypeOK, DoneTracksPhase, ChallengeHeld,
     OnlyListedJoin, KeysComeFromGateway, REQUEST_JOIN, REPLY_HASH, STATE_BEGIN,
     STATE_NORMAL
<1>6. QED
  BY <1>3, <1>4, <1>5 DEF NodeGood, NodeInv

\* A step of the nodes keeps the whole invariant.
LEMMA NodeStepGood ==
  ASSUME IInv, NodeStep
  PROVE  IInv'
<1>1. UNCHANGED <<my_device, send_device, addrlen, issued, cli>>
  BY DEF NodeStep, gatewayVars
<1>2. NodeGood
  <2>1. PICK n \in Node : \/ TimerExpires(n)
                          \/ NodeTimer(n)
                          \/ \E m \in net : NodeReceive(n, m)
                          \/ Reboot(n)
    BY DEF NodeStep
  <2>2. CASE TimerExpires(n)
    BY <1>1, <2>2, TimerExpiresGood
  <2>3. CASE NodeTimer(n)
    BY <1>1, <2>3, BeginTimerGood, BeginStaleEventGood, NormalTimerGood,
       NormalStaleEventGood DEF NodeTimer
  <2>4. CASE \E m \in net : NodeReceive(n, m)
    BY <1>1, <2>4, BeginReceiveGood, BeginOverrunGood, NormalReceiveGood,
       NormalOverrunGood DEF NodeReceive
  <2>5. CASE Reboot(n)
    BY <1>1, <2>5, RebootGood
  <2>6. QED
    BY <2>1, <2>2, <2>3, <2>4, <2>5
<1>3. Provenance' /\ net' \subseteq Datagram
  BY <1>1, <1>2, HarmlessStep DEF NodeGood, IInv, TypeOK
<1>4. GatewayTypeOK' /\ CliTypeOK'
  BY <1>1 DEF IInv, TypeOK, GatewayTypeOK, CliTypeOK
<1>5. QED
  BY <1>2, <1>3, <1>4 DEF IInv, TypeOK, NodeGood, NodeInv

-----------------------------------------------------------------------------
\* The gateway only ever adds to what it has issued.
LEMMA GenuineStays ==
  ASSUME NEW f, Genuine(f), issued \subseteq issued'
  PROVE  Genuine(f)'
  BY DEF Genuine

\* What a gateway action must establish.
GatewayGood ==
  GatewayTypeOK' /\ Provenance' /\ net' \subseteq Datagram /\ issued \subseteq issued'

\* An answer built in send_device and stored in the sender's record.
LEMMA AnswerGood ==
  ASSUME IInv, NEW m \in net, checklist_my_device(m),
         NEW f \in Frame, Genuine(f)', Answer(m, f),
         issued \subseteq issued', issued' \subseteq Device \X Key,
         NEW r \in DeviceRecord, r.last_data_send = f,
         my_device' = [my_device EXCEPT ![m.from] = r]
  PROVE  GatewayGood
<1>1. m.from \in Device /\ m.from \in Node
  BY Constants DEF checklist_my_device
<1>2. my_device \in [Device -> DeviceRecord]
  BY DEF IInv, TypeOK, GatewayTypeOK
<1>3. GatewayTypeOK'
  BY <1>1, <1>2 DEF GatewayTypeOK, Answer
<1>4. /\ ecb_encrypt(Gw, m.from, f) \in Datagram
      /\ GenuineDatagram(ecb_encrypt(Gw, m.from, f))'
  BY <1>1, Constants, SMT DEF ecb_encrypt, Datagram, GenuineDatagram
<1>5. \A x \in net' : x \in net \/ x = ecb_encrypt(Gw, m.from, f)
  BY PostAdds, DeliveredAdds DEF Answer
<1>6. net' \subseteq Datagram
  BY <1>4, <1>5 DEF IInv, TypeOK
<1>7. \A x \in net' : GenuineDatagram(x)'
  BY <1>4, <1>5, GenuineStays DEF IInv, Provenance, GenuineDatagram
<1>8. \A d \in Device : (Genuine(my_device[d].last_data_send))'
  <2>1. TAKE d \in Device
  <2>2. CASE d = m.from
    BY <1>2, <2>2
  <2>3. CASE d # m.from
    <3>1. my_device'[d] = my_device[d]
      BY <1>2, <2>3
    <3>2. QED
      BY <3>1, GenuineStays DEF IInv, Provenance
  <2>4. QED
    BY <2>2, <2>3
<1>9. (Genuine(send_device))'
  BY DEF Answer
<1>10. QED
  BY <1>3, <1>6, <1>7, <1>8, <1>9 DEF GatewayGood, Provenance

\* A frame prepared here with a challenge or an issued key is genuine.
LEMMA PreparedGenuine ==
  ASSUME NEW dst, NEW seq, NEW cmd \in {REQUEST_HASH, JOIN_SUCCESS}, NEW data,
         cmd = REQUEST_HASH => data \in Challenge,
         cmd = JOIN_SUCCESS => \E d \in Device : <<d, data>> \in issued'
  PROVE  Genuine(prepare2send(dst, seq, STATE_BEGIN, cmd, data))'
  BY SMT DEF Genuine, prepare2send

LEMMA RecordsTyped ==
  ASSUME NEW f \in Frame, NEW k \in Key, NEW c \in Challenge, NEW seq \in Count,
         NEW r \in DeviceRecord
  PROVE  /\ NewDevice \in DeviceRecord
         /\ Challenged(c, f) \in DeviceRecord
         /\ Challenged(c, f).last_data_send = f
         /\ Replied(r, seq, f, k) \in DeviceRecord
         /\ Replied(r, seq, f, k).last_data_send = f
         /\ Counted(r, seq) \in DeviceRecord
         /\ Counted(r, seq).last_data_send = r.last_data_send
<1>1. Blank \in Frame
  BY Constants, SMT DEF Blank, Frame, Payload, Address
<1>2. NewDevice \in DeviceRecord
  BY <1>1, Constants, SMT DEF NewDevice, DeviceRecord
<1>3. Challenged(c, f) \in DeviceRecord /\ Challenged(c, f).last_data_send = f
  BY Constants, SMT DEF Challenged, DeviceRecord
<1>4. Tick(r.num_send) \in Count /\ Tick(r.num_receive) \in Count
  BY TickTyped DEF DeviceRecord
<1>5. /\ Replied(r, seq, f, k) \in DeviceRecord
      /\ Replied(r, seq, f, k).last_data_send = f
  BY <1>4, SMT DEF Replied, DeviceRecord
<1>6. /\ Counted(r, seq) \in DeviceRecord
      /\ Counted(r, seq).last_data_send = r.last_data_send
  BY <1>4, SMT DEF Counted, DeviceRecord
<1>7. QED
  BY <1>2, <1>3, <1>5, <1>6

LEMMA JoinGood ==
  ASSUME IInv, NEW m \in net, Join(m)
  PROVE  GatewayGood
<1>1. PICK c \in Challenge :
        LET f == prepare2send(m.from, 0, STATE_BEGIN, REQUEST_HASH, c)
        IN  /\ my_device' = [my_device EXCEPT ![m.from] = Challenged(c, f)]
            /\ Answer(m, f)
  BY DEF Join, copy_node2node
<1> DEFINE f == prepare2send(m.from, 0, STATE_BEGIN, REQUEST_HASH, c)
<1>2. checklist_my_device(m) /\ m.from \in Address
  BY Constants DEF Join, Parses, checklist_my_device, Address
<1>3. f \in Frame
  BY <1>2, Constants, Prepared DEF Payload, STATE_BEGIN, REQUEST_HASH
<1>4. Genuine(f)'
  BY PreparedGenuine DEF REQUEST_HASH, JOIN_SUCCESS
<1>5. my_device' = [my_device EXCEPT ![m.from] = Challenged(c, f)] /\ Answer(m, f)
  BY <1>1
<1> HIDE DEF f
<1>6. \E r \in DeviceRecord : TRUE
  BY <1>2 DEF IInv, TypeOK, GatewayTypeOK, checklist_my_device
<1>7. Challenged(c, f) \in DeviceRecord /\ Challenged(c, f).last_data_send = f
  BY <1>3, <1>6, Constants, RecordsTyped
<1>8. issued' = issued /\ issued \subseteq Device \X Key
  BY DEF Join, IInv, TypeOK, GatewayTypeOK
<1>9. QED
  BY <1>2, <1>3, <1>4, <1>5, <1>7, <1>8, AnswerGood

\* The three ways to answer a REPLY_HASH share their last steps.
LEMMA ReplyGood ==
  ASSUME IInv, NEW m \in net, Parses(m), NEW f \in Frame, Genuine(f)',
         NEW k \in Key, ReplyWith(m, f, k),
         issued \subseteq issued', issued' \subseteq Device \X Key
  PROVE  GatewayGood
<1> DEFINE r == Replied(my_device[m.from], m.frame.seq, f, k)
<1>1. checklist_my_device(m) /\ m.from \in Device
  BY DEF Parses, checklist_my_device
<1>2. my_device[m.from] \in DeviceRecord
  BY <1>1 DEF IInv, TypeOK, GatewayTypeOK
<1>3. m.frame.seq \in Count
  BY DEF IInv, TypeOK, Datagram, Frame
<1>4. r \in DeviceRecord /\ r.last_data_send = f
  BY <1>2, <1>3, Constants, RecordsTyped
<1>5. my_device' = [my_device EXCEPT ![m.from] = r] /\ Answer(m, f)
  BY DEF ReplyWith, copy_node2node
<1> HIDE DEF r
<1>6. QED
  BY <1>1, <1>4, <1>5, AnswerGood

LEMMA ReplyMatchGood ==
  ASSUME IInv, NEW m \in net, ReplyMatch(m)
  PROVE  GatewayGood
<1>1. PICK k \in Key :
        /\ ReplyWith(m, prepare2send(m.from, my_device[m.from].num_send,
                                     STATE_BEGIN, JOIN_SUCCESS, k), k)
        /\ issued' = issued \cup {<<m.from, k>>}
  BY DEF ReplyMatch
<1>2. Parses(m) /\ m.from \in Device /\ m.from \in Address
  BY Constants DEF ReplyMatch, Parses, checklist_my_device, Address
<1>3. my_device[m.from].num_send \in Count
  BY <1>2 DEF IInv, TypeOK, GatewayTypeOK, DeviceRecord
<1>4. PICK seq \in Count : seq = my_device[m.from].num_send
  BY <1>3
<1>5. prepare2send(m.from, seq, STATE_BEGIN, JOIN_SUCCESS, k) \in Frame
  BY <1>2, Prepared DEF Payload, STATE_BEGIN, JOIN_SUCCESS
<1>6. PICK f \in Frame :
        f = prepare2send(m.from, seq, STATE_BEGIN, JOIN_SUCCESS, k)
  BY <1>5
<1>7. f.cmd = JOIN_SUCCESS /\ f.data = k /\ <<m.from, k>> \in issued'
  BY <1>1, <1>6 DEF prepare2send
<1>8. Genuine(f)'
  BY <1>2, <1>7 DEF Genuine, REQUEST_HASH, JOIN_SUCCESS
<1>9. issued \subseteq issued' /\ issued' \subseteq Device \X Key
  BY <1>1, <1>2 DEF IInv, TypeOK, GatewayTypeOK
<1>10. ReplyWith(m, f, k)
  BY <1>1, <1>4, <1>6
<1>11. QED
  BY <1>2, <1>6, <1>8, <1>9, <1>10, ReplyGood

LEMMA ReplyMismatchGood ==
  ASSUME IInv, NEW m \in net, ReplyMismatch(m)
  PROVE  GatewayGood
<1>1. Parses(m) /\ m.from \in Device
  BY DEF ReplyMismatch, Parses, checklist_my_device
<1>2. send_device \in Frame /\ my_device[m.from].key \in Key
  BY <1>1 DEF IInv, TypeOK, GatewayTypeOK, DeviceRecord
<1>3. issued' = issued /\ issued \subseteq Device \X Key
  BY DEF ReplyMismatch, IInv, TypeOK, GatewayTypeOK
<1>4. PICK f \in Frame : f = send_device
  BY <1>2
<1>5. PICK k \in Key : k = my_device[m.from].key
  BY <1>2
<1>6. Genuine(f)
  BY <1>4 DEF IInv, Provenance
<1>7. ReplyWith(m, f, k)
  BY <1>4, <1>5 DEF ReplyMismatch
<1>8. QED
  BY <1>1, <1>3, <1>6, <1>7, GenuineStays, ReplyGood

\* Renumbering touches neither the command nor what it carries.
LEMMA RenumberedGenuine ==
  ASSUME IInv, NEW d \in Device
  PROVE  Renumbered(d) \in Frame /\ Genuine(Renumbered(d))
<1> DEFINE g == my_device[d].last_data_send
<1>1. g \in Frame /\ my_device[d].num_send \in Count
  BY DEF IInv, TypeOK, GatewayTypeOK, DeviceRecord
<1>2. Genuine(g)
  BY DEF IInv, Provenance
<1>3. Renumbered(d) = [g EXCEPT !.seq = my_device[d].num_send]
  BY DEF Renumbered
<1> HIDE DEF g
<1>4. /\ Renumbered(d) \in Frame
      /\ Renumbered(d).crc = g.crc /\ Renumbered(d).cmd = g.cmd
      /\ Renumbered(d).data = g.data
  BY <1>1, <1>3, SMT DEF Frame
<1>5. QED
  BY <1>2, <1>4 DEF Genuine

LEMMA ReplyDuplicateGood ==
  ASSUME IInv, NEW m \in net, ReplyDuplicate(m)
  PROVE  GatewayGood
<1>1. Parses(m) /\ m.from \in Device
  BY DEF ReplyDuplicate, Parses, checklist_my_device
<1>2. my_device[m.from].key \in Key
  BY <1>1 DEF IInv, TypeOK, GatewayTypeOK, DeviceRecord
<1>3. issued' = issued /\ issued \subseteq Device \X Key
  BY DEF ReplyDuplicate, IInv, TypeOK, GatewayTypeOK
<1>4. PICK f \in Frame : f = Renumbered(m.from)
  BY <1>1, RenumberedGenuine
<1>5. PICK k \in Key : k = my_device[m.from].key
  BY <1>2
<1>6. Genuine(f)
  BY <1>1, <1>4, RenumberedGenuine
<1>7. ReplyWith(m, f, k)
  BY <1>4, <1>5 DEF ReplyDuplicate
<1>8. QED
  BY <1>1, <1>3, <1>6, <1>7, GenuineStays, ReplyGood

\* Steps of the gateway that answer nothing.
LEMMA SilentGood ==
  ASSUME IInv, net' \subseteq net, UNCHANGED <<send_device, issued>>,
         addrlen' \in {0, 28}, my_device' \in [Device -> DeviceRecord],
         \A d \in Device : Genuine(my_device'[d].last_data_send)
  PROVE  GatewayGood
<1>1. GatewayTypeOK' /\ net' \subseteq Datagram /\ issued \subseteq issued'
  BY DEF IInv, TypeOK, GatewayTypeOK
<1>2. Provenance'
  BY DEF IInv, Provenance, GenuineDatagram, Genuine
<1>3. QED
  BY <1>1, <1>2 DEF GatewayGood

LEMMA NormalGood ==
  ASSUME IInv, NEW m \in net, process_normal(m)
  PROVE  GatewayGood
<1> DEFINE r == Counted(my_device[m.from], m.frame.seq)
<1>1. m.from \in Device
  BY DEF process_normal, Parses, checklist_my_device
<1>2. my_device[m.from] \in DeviceRecord /\ m.frame.seq \in Count
  BY <1>1 DEF IInv, TypeOK, GatewayTypeOK, Datagram, Frame
<1>3. Blank \in Frame
  BY Constants, SMT DEF Blank, Frame, Payload, Address
<1>4. /\ r \in DeviceRecord
      /\ r.last_data_send = my_device[m.from].last_data_send
  BY <1>2, <1>3, Constants, RecordsTyped
<1>5. my_device' = [my_device EXCEPT ![m.from] = r]
  BY DEF process_normal, copy_node2node
<1> HIDE DEF r
<1>6. /\ my_device' \in [Device -> DeviceRecord]
      /\ \A d \in Device :
           my_device'[d].last_data_send = my_device[d].last_data_send
  BY <1>1, <1>4, <1>5 DEF IInv, TypeOK, GatewayTypeOK
<1>7. \A d \in Device : Genuine(my_device'[d].last_data_send)
  BY <1>6 DEF IInv, Provenance
<1>8. net' \subseteq net /\ addrlen' \in {0, 28} /\ UNCHANGED <<send_device, issued>>
  BY DeliveredAdds DEF process_normal, IInv, TypeOK, GatewayTypeOK
<1>9. QED
  BY <1>6, <1>7, <1>8, SilentGood

LEMMA IgnoreGood ==
  ASSUME IInv, NEW m \in net, Ignore(m)
  PROVE  GatewayGood
<1>1. /\ net' \subseteq net /\ addrlen' \in {0, 28}
      /\ UNCHANGED <<my_device, send_device, issued>>
  BY DeliveredAdds DEF Ignore
<1>2. /\ my_device' \in [Device -> DeviceRecord]
      /\ \A d \in Device : Genuine(my_device'[d].last_data_send)
  BY <1>1 DEF IInv, TypeOK, GatewayTypeOK, Provenance
<1>3. QED
  BY <1>1, <1>2, SilentGood

\* The zeroed frame carries nothing a node would take.
LEMMA BlankGood == Blank \in Frame /\ Genuine(Blank) /\ Genuine(Blank)'
<1>1. Blank \in Frame
  BY Constants, SMT DEF Blank, Frame, Payload, Address
<1>2. Genuine(Blank) /\ Genuine(Blank)'
  BY SMT DEF Genuine, Blank, REQUEST_HASH, JOIN_SUCCESS
<1>3. QED
  BY <1>1, <1>2

LEMMA RestartGood ==
  ASSUME IInv, Restart
  PROVE  GatewayGood
<1>1. NewDevice \in DeviceRecord /\ NewDevice.last_data_send = Blank
  BY BlankGood, Constants, SMT DEF NewDevice, DeviceRecord
<1>2. GatewayTypeOK'
  BY <1>1, BlankGood DEF Restart, init_main, IInv, TypeOK, GatewayTypeOK
<1>3. net' = net /\ issued' = issued
  BY DEF Restart
<1>4. (Genuine(send_device))'
  BY BlankGood DEF Restart
<1>5. \A d \in Device : (Genuine(my_device[d].last_data_send))'
  BY <1>1, BlankGood DEF Restart, init_main
<1>6. \A x \in net' : GenuineDatagram(x)'
  BY <1>3 DEF IInv, Provenance, GenuineDatagram, Genuine
<1>7. QED
  BY <1>2, <1>3, <1>4, <1>5, <1>6 DEF GatewayGood, Provenance, IInv, TypeOK

\* A step of the gateway keeps the whole invariant.
LEMMA GatewayStepGood ==
  ASSUME IInv, GatewayStep
  PROVE  IInv'
<1>1. GatewayGood
  BY JoinGood, ReplyMatchGood, ReplyMismatchGood, ReplyDuplicateGood,
     NormalGood, IgnoreGood, RestartGood DEF GatewayStep, GatewayReceive
<1>2. UNCHANGED <<state, begin_cmd, done, payload, key_normal, frame_counter,
                  timer, pin, cli>>
  BY DEF GatewayStep, nodeVars, joining
<1>3. NodeTypeOK' /\ CliTypeOK'
  BY <1>2 DEF IInv, TypeOK, NodeTypeOK, CliTypeOK
<1>4. DoneTracksPhase' /\ ChallengeHeld' /\ OnlyListedJoin'
  BY <1>2 DEF IInv, DoneTracksPhase, ChallengeHeld, OnlyListedJoin
<1>5. KeysComeFromGateway'
  BY <1>1, <1>2 DEF IInv, KeysComeFromGateway, GatewayGood
<1>6. QED
  BY <1>1, <1>3, <1>4, <1>5 DEF IInv, TypeOK, GatewayGood

-----------------------------------------------------------------------------
\* What a run of the relay tool sends cannot pass for a frame of the gateway.
LEMMA CliStepGood ==
  ASSUME IInv, CliStep
  PROVE  IInv'
<1>1. UNCHANGED <<state, begin_cmd, done, payload, key_normal, frame_counter,
                  timer, pin, my_device, send_device, addrlen, issued>>
  BY DEF CliStep, nodeVars, joining, gatewayVars
<1>2. OnlyHarmlessSent /\ CliTypeOK'
  <2>1. CASE \E n \in CliTargets, cmd \in {REQUEST_LED_ON, REQUEST_LED_OFF} :
               MayAct(n) /\ CliRun(n, cmd)
    <3>1. PICK n \in CliTargets, cmd \in {REQUEST_LED_ON, REQUEST_LED_OFF} :
                 CliRun(n, cmd)
      BY <2>1
    <3>2. /\ NoAddr \in Address /\ 0 \in Count /\ STATE_NORMAL \in 0..2
          /\ cmd \in 0..9 /\ Zero \in Payload /\ n \in Node
      BY Constants DEF Address, STATE_NORMAL, REQUEST_LED_ON, REQUEST_LED_OFF,
         Payload
    <3>3. prepare2send(NoAddr, 0, STATE_NORMAL, cmd, Zero) \in Frame
      BY <3>2, Prepared
    <3>4. Harmless(encrypt_cbc(Cli, n, KeyBegin,
                     prepare2send(NoAddr, 0, STATE_NORMAL, cmd, Zero)))
      BY <3>2, <3>3, FromNode
    <3>5. OnlyHarmlessSent
      BY <3>1, <3>4, PostAdds DEF CliRun, OnlyHarmlessSent
    <3>6. CliTypeOK'
      BY <3>1, <3>2 DEF CliRun, CliTypeOK, CliRecord
    <3>7. QED
      BY <3>5, <3>6
  <2>2. CASE \E m \in net : CliReceive(m) \/ CliUnbound(m)
    <3>1. OnlyHarmlessSent
      BY <2>2, DeliveredAdds DEF CliReceive, CliUnbound, OnlyHarmlessSent
    <3>2. CliTypeOK'
      <4>1. PICK m \in net : CliReceive(m) \/ CliUnbound(m)
        BY <2>2
      <4>2. Report(m) \in {"nothing", "on", "off"}
        BY DEF Report
      <4>3. CASE CliReceive(m)
        BY <4>2, <4>3 DEF CliReceive, Exits, IInv, TypeOK, CliTypeOK, CliRecord
      <4>4. CASE CliUnbound(m)
        BY <4>4 DEF CliUnbound, IInv, TypeOK, CliTypeOK
      <4>5. QED
        BY <4>1, <4>3, <4>4
    <3>3. QED
      BY <3>1, <3>2
  <2>3. CASE CliTimeout
    BY <2>3 DEF CliTimeout, Exits, OnlyHarmlessSent, IInv, TypeOK, CliTypeOK,
       CliRecord
  <2>4. QED
    BY <2>1, <2>2, <2>3 DEF CliStep
<1>3. Provenance' /\ net' \subseteq Datagram
  BY <1>1, <1>2, HarmlessStep DEF IInv, TypeOK
<1>4. NodeTypeOK' /\ GatewayTypeOK'
  BY <1>1 DEF IInv, TypeOK, NodeTypeOK, GatewayTypeOK
<1>5. DoneTracksPhase' /\ ChallengeHeld' /\ OnlyListedJoin' /\ KeysComeFromGateway'
  BY <1>1 DEF IInv, DoneTracksPhase, ChallengeHeld, OnlyListedJoin,
     KeysComeFromGateway
<1>6. QED
  BY <1>2, <1>3, <1>4, <1>5 DEF IInv, TypeOK

\* Losing a datagram, or standing still, takes nothing from the invariant.
LEMMA NetworkStepGood ==
  ASSUME IInv, NetworkStep \/ UNCHANGED vars
  PROVE  IInv'
<1>1. /\ UNCHANGED <<state, begin_cmd, done, payload, key_normal, frame_counter,
                     timer, pin, my_device, send_device, addrlen, issued, cli>>
      /\ net' \subseteq net
  BY DEF NetworkStep, Lose, vars, nodeVars, joining, gatewayVars
<1>2. TypeOK'
  BY <1>1 DEF IInv, TypeOK, NodeTypeOK, GatewayTypeOK, CliTypeOK
<1>3. DoneTracksPhase' /\ ChallengeHeld' /\ OnlyListedJoin' /\ KeysComeFromGateway'
  BY <1>1 DEF IInv, DoneTracksPhase, ChallengeHeld, OnlyListedJoin,
     KeysComeFromGateway
<1>4. Provenance'
  BY <1>1 DEF IInv, Provenance, GenuineDatagram, Genuine
<1>5. QED
  BY <1>2, <1>3, <1>4 DEF IInv

-----------------------------------------------------------------------------
LEMMA InitGood == Init => IInv
<1> SUFFICES ASSUME Init PROVE IInv
  OBVIOUS
<1>1. \A n \in Node :
        LET m == ecb_encrypt(n, Gw, BeginFrame(REQUEST_JOIN, Zero, 0))
        IN  m \in Datagram /\ GenuineDatagram(m)
  <2>1. TAKE n \in Node
  <2>2. BeginFrame(REQUEST_JOIN, Zero, 0) \in Frame
    BY Constants, BeginFrameTyped DEF REQUEST_JOIN, REPLY_HASH
  <2>3. QED
    BY <2>2, Constants, SMT DEF ecb_encrypt, Datagram, GenuineDatagram
<1>2. NodeTypeOK
  BY Constants DEF Init, NodeInit, NodeTypeOK, Payload
<1>3. NewDevice \in DeviceRecord /\ NewDevice.last_data_send = Blank
  BY BlankGood, Constants, SMT DEF NewDevice, DeviceRecord
<1>4. GatewayTypeOK
  BY <1>3, BlankGood DEF Init, GatewayInit, init_main, GatewayTypeOK
<1>5. CliTypeOK
  BY SMT DEF Init, CliInit, CliTypeOK, CliRecord
<1>6. net \subseteq Datagram /\ Provenance
  BY <1>1, <1>3, BlankGood DEF Init, NodeInit, GatewayInit, init_main, Provenance
<1>7. DoneTracksPhase /\ ChallengeHeld /\ OnlyListedJoin /\ KeysComeFromGateway
  BY Constants DEF Init, NodeInit, DoneTracksPhase, ChallengeHeld,
     OnlyListedJoin, KeysComeFromGateway, STATE_BEGIN, STATE_NORMAL,
     REQUEST_JOIN, REPLY_HASH
<1>8. QED
  BY <1>2, <1>4, <1>5, <1>6, <1>7 DEF IInv, TypeOK

\* The inductive invariant holds in every reachable state, whatever faults
\* the environment shows.
THEOREM Invariance == Spec => []IInv
<1>1. Init => IInv
  BY InitGood
<1>2. IInv /\ [Next]_vars => IInv'
  BY NodeStepGood, GatewayStepGood, CliStepGood, NetworkStepGood DEF Next
<1>3. QED
  BY <1>1, <1>2, PTL DEF Spec

\* Every variable keeps its range.
THEOREM TypeCorrect == Spec => []TypeOK
<1>1. IInv => TypeOK
  BY DEF IInv
<1>2. QED
  BY <1>1, Invariance, PTL

\* A session key is always one the gateway generated (server.c:340-345,
\* test.c:213-236).
THEOREM KeyProvenance == Spec => []KeysComeFromGateway
<1>1. IInv => KeysComeFromGateway
  BY DEF IInv
<1>2. QED
  BY <1>1, Invariance, PTL

\* A joining node never loses the flag that makes it resend
\* (server.c:484-518).
THEOREM RetryFlag == Spec => []DoneTracksPhase
<1>1. IInv => DoneTracksPhase
  BY DEF IInv
<1>2. QED
  BY <1>1, Invariance, PTL

\* Only nodes of device.txt ever leave STATE_BEGIN (test.c:379).
THEOREM ListedOnly == Spec => []OnlyListedJoin
<1>1. IInv => OnlyListedJoin
  BY DEF IInv
<1>2. QED
  BY <1>1, Invariance, PTL

-----------------------------------------------------------------------------
(* The system implements SessionKeys *)

\* The mapped initial state is the abstract one.
LEMMA KeysInit == Init => Keys!Init
  BY DEF Init, NodeInit, GatewayInit, Keys!Init, SessionOf, STATE_BEGIN, STATE_NORMAL

\* A step that touches neither a state, a session key nor the grants.
LEMMA KeysStutter ==
  ASSUME UNCHANGED <<state, key_normal, issued>>
  PROVE  UNCHANGED <<SessionOf, issued>>
  BY DEF SessionOf

\* Opening a JOIN_SUCCESS takes up a granted key; every other datagram leaves
\* the session as it was.
LEMMA KeysBeginReceive ==
  ASSUME IInv, NEW n \in Node, NEW m \in net, BeginReceive(n, m), UNCHANGED issued
  PROVE  (Keys!TakeUp(n) /\ n \in Device) \/ UNCHANGED <<SessionOf, issued>>
<1>1. CASE Opens(m, "ecb", KeyBegin) /\ m.frame.cmd = JOIN_SUCCESS
  <2>1. /\ key_normal' = [key_normal EXCEPT ![n] = m.frame.data]
        /\ state' = [state EXCEPT ![n] = STATE_NORMAL]
        /\ state[n] = STATE_BEGIN
    BY <1>1 DEF BeginReceive, tcpip_begin_handler, REQUEST_HASH, JOIN_SUCCESS
  <2>2. n \in Device
    BY <1>1, OpenedInBegin DEF BeginReceive
  <2>3. PICK d \in Device : <<d, m.frame.data>> \in issued
    BY <1>1, OpenedInBegin DEF BeginReceive
  <2>4. PICK g \in issued : g[2] = m.frame.data
    BY <2>3
  <2>5. state \in [Node -> {STATE_BEGIN, STATE_NORMAL}] /\ key_normal \in [Node -> Key]
    BY DEF IInv, TypeOK, NodeTypeOK
  <2>6. SessionOf[n] = {}
    BY <2>1 DEF SessionOf, STATE_BEGIN, STATE_NORMAL
  <2>7. SessionOf' = [SessionOf EXCEPT ![n] = {g[2]}]
    BY <2>1, <2>4, <2>5 DEF SessionOf
  <2>8. QED
    BY <2>2, <2>6, <2>7 DEF Keys!TakeUp
<1>2. CASE ~(Opens(m, "ecb", KeyBegin) /\ m.frame.cmd = JOIN_SUCCESS)
  BY <1>2, KeysStutter DEF BeginReceive, tcpip_begin_handler, joining
<1>3. QED
  BY <1>1, <1>2

\* Among the other actions of a node only a reboot touches the session.
LEMMA KeysNodeStep ==
  ASSUME IInv, NodeStep
  PROVE  [Keys!Next]_<<SessionOf, issued>>
<1>1. UNCHANGED issued
  BY DEF NodeStep, gatewayVars
<1>2. PICK n \in Node : \/ TimerExpires(n)
                        \/ NodeTimer(n)
                        \/ \E m \in net : NodeReceive(n, m)
                        \/ Reboot(n)
  BY DEF NodeStep
<1>3. CASE TimerExpires(n) \/ NodeTimer(n)
  BY <1>1, <1>3, KeysStutter DEF TimerExpires, NodeTimer, BeginTimer, RearmAndFlag,
     BeginStaleEvent, NormalTimer, NormalStaleEvent, joining
<1>4. CASE \E m \in net : NodeReceive(n, m)
  <2>1. PICK m \in net : NodeReceive(n, m)
    BY <1>4
  <2>2. CASE BeginReceive(n, m)
    BY <1>1, <2>2, KeysBeginReceive DEF Keys!Next
  <2>3. CASE BeginOverrun(n, m) \/ NormalReceive(n, m) \/ NormalOverrun(n, m)
    BY <1>1, <2>3, KeysStutter DEF BeginOverrun, RearmAndFlag, NormalReceive,
       NormalOverrun, joining
  <2>4. QED
    BY <2>1, <2>2, <2>3 DEF NodeReceive
<1>5. CASE Reboot(n)
  <2>1. /\ state' = [state EXCEPT ![n] = STATE_BEGIN]
        /\ key_normal' = [key_normal EXCEPT ![n] = ZeroKey]
    BY <1>5 DEF Reboot
  <2>2. state \in [Node -> {STATE_BEGIN, STATE_NORMAL}] /\ key_normal \in [Node -> Key]
    BY DEF IInv, TypeOK, NodeTypeOK
  <2>3. SessionOf' = [SessionOf EXCEPT ![n] = {}]
    <3>1. STATE_BEGIN # STATE_NORMAL
      BY DEF STATE_BEGIN, STATE_NORMAL
    <3>2. QED
      BY <2>1, <2>2, <3>1 DEF SessionOf
  <2>4. Keys!Forget(n)
    BY <1>1, <2>3 DEF Keys!Forget
  <2>5. QED
    BY <2>4 DEF Keys!Next
<1>6. QED
  BY <1>2, <1>3, <1>4, <1>5

\* The gateway grants a key when a hash matches, and only then.
LEMMA KeysGatewayStep ==
  ASSUME IInv, GatewayStep
  PROVE  [Keys!Next]_<<SessionOf, issued>>
<1>1. UNCHANGED <<state, key_normal>> /\ UNCHANGED SessionOf
  BY DEF GatewayStep, nodeVars, joining, SessionOf
<1>2. CASE \E m \in net : ReplyMatch(m)
  <2>1. PICK m \in net, k \in Key : issued' = issued \cup {<<m.from, k>>} /\ m.from \in Device
    BY <1>2 DEF ReplyMatch, Parses, checklist_my_device
  <2>2. Keys!Grant(m.from, k)
    BY <1>1, <2>1 DEF Keys!Grant
  <2>3. QED
    BY <2>1, <2>2 DEF Keys!Next
<1>3. CASE ~\E m \in net : ReplyMatch(m)
  BY <1>1, <1>3 DEF GatewayStep, GatewayReceive, Join, ReplyMismatch, ReplyDuplicate,
     process_normal, Ignore, Restart
<1>4. QED
  BY <1>2, <1>3

\* Whatever is lost, late, duplicated, rebooted or restarted, nodes and gateway
\* implement SessionKeys: a node takes up a key the gateway granted, and keeps
\* it until it reboots (server.c:340-345, test.c:213-238).
THEOREM KeysImplemented == Spec => KeysAsPromised
<1>1. Init => Keys!Init
  BY KeysInit
<1>2. IInv /\ [Next]_vars => [Keys!Next]_<<SessionOf, issued>>
  <2> SUFFICES ASSUME IInv, [Next]_vars PROVE [Keys!Next]_<<SessionOf, issued>>
    OBVIOUS
  <2>1. CASE NodeStep
    BY <2>1, KeysNodeStep
  <2>2. CASE GatewayStep
    BY <2>2, KeysGatewayStep
  <2>3. CASE CliStep \/ NetworkStep \/ UNCHANGED vars
    BY <2>3, KeysStutter DEF CliStep, NetworkStep, vars, nodeVars, joining, gatewayVars
  <2>4. QED
    BY <2>1, <2>2, <2>3 DEF Next
<1>3. QED
  BY <1>1, <1>2, Invariance, PTL DEF Spec, KeysAsPromised, Keys!Spec
=============================================================================
