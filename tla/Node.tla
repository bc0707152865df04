-------------------------------- MODULE Node --------------------------------
(***************************************************************************)
(* The node firmware (udp-server/server.c): one Contiki protothread that   *)
(* joins the gateway and then reports its meter and obeys relay commands.  *)
(*                                                                         *)
(* The thread runs from one PROCESS_YIELD to the next; each action below   *)
(* is one such run: the event that wakes it, its handler, and whatever the *)
(* loop sends before it yields again.                                      *)
(***************************************************************************)
EXTENDS Network

VARIABLES
  state,          \* STATE_BEGIN or STATE_NORMAL
  begin_cmd,      \* what the joining node sends: REQUEST_JOIN or REPLY_HASH
  done,           \* the retransmission flag
  payload,        \* receive.payload_data
  key_normal,     \* the session key
  frame_counter,
  timer,          \* "running"; "expired" with its event still queued; "stale":
                  \* set again while the event of the last expiry is queued
  pin             \* level of the RELAY_1 pin; the relay is closed at 0

joining == <<state, begin_cmd, done, payload, key_normal>>
nodeVars == <<joining, frame_counter, timer, pin>>

NodeTypeOK ==
  /\ state \in [Node -> {STATE_BEGIN, STATE_NORMAL}]
  /\ begin_cmd \in [Node -> {REQUEST_JOIN, REPLY_HASH}]
  /\ done \in [Node -> {0, 1}]
  /\ payload \in [Node -> Payload]
  /\ key_normal \in [Node -> Key]
  /\ frame_counter \in [Node -> Count]
  /\ timer \in [Node -> {"running", "expired", "stale"}]
  /\ pin \in [Node -> {0, 1}]

\* Nothing of n's is under way: outside "late" the environment acts only now.
Quiet(n) == Idle(n) /\ timer[n] = "running"

MayAct(n) == Quiet(n) \/ "late" \in Faults

my_leds_on(n) == pin' = [pin EXCEPT ![n] = 1]
my_leds_off(n) == pin' = [pin EXCEPT ![n] = 0]
\* Mutant: the relay taken for active-high.
RelayOnActiveHigh(n) == my_leds_on(n)

relay_on(n) == my_leds_off(n)
relay_off(n) == my_leds_on(n)

\* The frame of send2bor_begin; the reply hashes the challenge last parsed.
BeginFrame(cmd, data, seq) ==
  prepare2send(Gw, seq, STATE_BEGIN, cmd,
               IF cmd = REPLY_HASH THEN Hash[data] ELSE Zero)

send2bor_begin(n, cmd, data, base) ==
  /\ net' = Post(base, ecb_encrypt(n, Gw, BeginFrame(cmd, data, frame_counter[n])))
  /\ frame_counter' = [frame_counter EXCEPT ![n] = Tick(@)]

\* The rest of the BEGIN loop up to its next yield: it sends if the flag has
\* the value its phase tests for, and it leaves the loop in STATE_NORMAL.
SendsOnResume(n) ==
  /\ state'[n] = STATE_BEGIN
  /\ done'[n] = IF begin_cmd'[n] = REQUEST_JOIN THEN 0 ELSE 1

Resume(n, base) ==
  IF SendsOnResume(n)
  THEN send2bor_begin(n, begin_cmd'[n], payload'[n], base)
  ELSE net' = base /\ UNCHANGED frame_counter

-----------------------------------------------------------------------------
\* The level of the pin after power-up is set outside this code.
NodeInit ==
  /\ state = [n \in Node |-> STATE_BEGIN]
  /\ begin_cmd = [n \in Node |-> REQUEST_JOIN]
  /\ done = [n \in Node |-> 0]
  /\ payload = [n \in Node |-> Zero]
  /\ key_normal = [n \in Node |-> ZeroKey]
  /\ frame_counter = [n \in Node |-> 1]
  /\ timer = [n \in Node |-> "running"]
  /\ pin = [n \in Node |-> 1]
  /\ net = {ecb_encrypt(n, Gw, BeginFrame(REQUEST_JOIN, Zero, 0)) : n \in Node}

TimerExpires(n) ==
  /\ timer[n] = "running"
  /\ MayAct(n)
  /\ timer' = [timer EXCEPT ![n] = "expired"]
  /\ UNCHANGED <<joining, frame_counter, pin, net>>

\* Mutant: the two phases' values of the flag exchanged.
RearmWithOtherFlag(n, t) ==
  /\ timer' = [timer EXCEPT ![n] = t]
  /\ done' = [done EXCEPT ![n] = IF begin_cmd[n] = REQUEST_JOIN THEN 1 ELSE 0]
  /\ UNCHANGED <<state, begin_cmd, payload, key_normal, pin>>

\* if(etimer_expired(&et)) in the BEGIN loop: re-arm, and ask for a resend.
RearmAndFlag(n, t) ==
  /\ timer' = [timer EXCEPT ![n] = t]
  /\ done' = [done EXCEPT ![n] = IF begin_cmd[n] = REQUEST_JOIN THEN 0 ELSE 1]
  /\ UNCHANGED <<state, begin_cmd, payload, key_normal, pin>>

BeginTimer(n) ==
  /\ state[n] = STATE_BEGIN
  /\ timer[n] = "expired"
  /\ RearmAndFlag(n, "running")
  /\ Resume(n, net)

\* The queued event of an expiry already dealt with: neither branch runs.
BeginStaleEvent(n) ==
  /\ state[n] = STATE_BEGIN
  /\ timer[n] = "stale"
  /\ timer' = [timer EXCEPT ![n] = "running"]
  /\ UNCHANGED <<joining, pin>>
  /\ Resume(n, net)

\* A packet that arrives between the expiry and its event takes the timer
\* branch and is not read.
BeginOverrun(n, m) ==
  /\ m.to = n
  /\ state[n] = STATE_BEGIN
  /\ timer[n] = "expired"
  /\ RearmAndFlag(n, "stale")
  /\ \E base \in Delivered(m) : Resume(n, base)

\* Mutant: the case of REQUEST_HASH has no break and runs into JOIN_SUCCESS.
HandlerFallsThrough(n, m) ==
  IF Opens(m, "ecb", KeyBegin) /\ m.frame.cmd \in {REQUEST_HASH, JOIN_SUCCESS}
  THEN /\ payload' = [payload EXCEPT ![n] = m.frame.data]
       /\ begin_cmd' = [begin_cmd EXCEPT ![n] =
                          IF m.frame.cmd = REQUEST_HASH THEN REPLY_HASH ELSE @]
       /\ key_normal' = [key_normal EXCEPT ![n] = m.frame.data]
       /\ state' = [state EXCEPT ![n] = STATE_NORMAL]
       /\ done' = [done EXCEPT ![n] = 0]
  ELSE UNCHANGED joining

\* Mutant: a challenge changes the phase and leaves the flag of the old one.
HandlerKeepsFlag(n, m) ==
  IF Opens(m, "ecb", KeyBegin) /\ m.frame.cmd = REQUEST_HASH
  THEN /\ payload' = [payload EXCEPT ![n] = m.frame.data]
       /\ begin_cmd' = [begin_cmd EXCEPT ![n] = REPLY_HASH]
       /\ UNCHANGED <<state, done, key_normal>>
  ELSE UNCHANGED joining

\* Mutant: the handler has no case for JOIN_SUCCESS.
HandlerWithoutKey(n, m) ==
  IF Opens(m, "ecb", KeyBegin) /\ m.frame.cmd = REQUEST_HASH
  THEN /\ payload' = [payload EXCEPT ![n] = m.frame.data]
       /\ begin_cmd' = [begin_cmd EXCEPT ![n] = REPLY_HASH]
       /\ done' = [done EXCEPT ![n] = 1]
       /\ UNCHANGED <<state, key_normal>>
  ELSE UNCHANGED joining

\* tcpip_begin_handler and the rest of the loop.
tcpip_begin_handler(n, m) ==
  IF Opens(m, "ecb", KeyBegin)
  THEN /\ payload' = [payload EXCEPT ![n] = m.frame.data]
       /\ CASE m.frame.cmd = REQUEST_HASH ->
                 /\ begin_cmd' = [begin_cmd EXCEPT ![n] = REPLY_HASH]
                 /\ done' = [done EXCEPT ![n] = 1]
                 /\ UNCHANGED <<state, key_normal>>
            [] m.frame.cmd = JOIN_SUCCESS ->
                 /\ key_normal' = [key_normal EXCEPT ![n] = m.frame.data]
                 /\ state' = [state EXCEPT ![n] = STATE_NORMAL]
                 /\ done' = [done EXCEPT ![n] = 0]
                 /\ UNCHANGED begin_cmd
            [] OTHER -> UNCHANGED <<state, begin_cmd, done, key_normal>>
  ELSE UNCHANGED joining

BeginReceive(n, m) ==
  /\ m.to = n
  /\ state[n] = STATE_BEGIN
  /\ timer[n] # "expired"
  /\ tcpip_begin_handler(n, m)
  /\ UNCHANGED <<timer, pin>>
  /\ \E base \in Delivered(m) : Resume(n, base)

-----------------------------------------------------------------------------
\* Mutant: a report leaves the frame counter as it was.
ReportWithoutCount(n, base) ==
  /\ net' = Post(base, encrypt_cbc(n, Gw, key_normal[n],
                   prepare2send(Gw, frame_counter[n], STATE_NORMAL, SEND_PZEM, Zero)))
  /\ UNCHANGED frame_counter

send2bor_normal(n, base) ==
  /\ net' = Post(base, encrypt_cbc(n, Gw, key_normal[n],
                   prepare2send(Gw, frame_counter[n], STATE_NORMAL, SEND_PZEM, Zero)))
  /\ frame_counter' = [frame_counter EXCEPT ![n] = Tick(@)]

\* timeout_normal_handler polls the meter; one run in seven sends a report,
\* unless the meter was silent.  Which one is left open here.
NormalTimer(n) ==
  /\ state[n] = STATE_NORMAL
  /\ timer[n] = "expired"
  /\ timer' = [timer EXCEPT ![n] = "running"]
  /\ \/ send2bor_normal(n, net)
     \/ UNCHANGED <<net, frame_counter>>
  /\ UNCHANGED <<joining, pin>>

NormalStaleEvent(n) ==
  /\ state[n] = STATE_NORMAL
  /\ timer[n] = "stale"
  /\ timer' = [timer EXCEPT ![n] = "running"]
  /\ UNCHANGED <<joining, frame_counter, pin, net>>

NormalOverrun(n, m) ==
  /\ m.to = n
  /\ state[n] = STATE_NORMAL
  /\ timer[n] = "expired"
  /\ timer' = [timer EXCEPT ![n] = "stale"]
  /\ \E base \in Delivered(m) :
       \/ send2bor_normal(n, base)
       \/ net' = base /\ UNCHANGED frame_counter
  /\ UNCHANGED <<joining, pin>>

\* Mutant: the reply enciphered with the session key, which the tool lacks.
RelayReplyWithSessionKey(n, cmd) ==
  encrypt_cbc(n, Cli, key_normal[n], prepare2send(Gw, 0, STATE_NORMAL, cmd, Zero))

RelayReply(n, cmd) ==
  encrypt_cbc(n, Cli, KeyBegin, prepare2send(Gw, 0, STATE_NORMAL, cmd, Zero))

\* Mutant: a command that asks for what the relay does already gets no reply.
NormalReceiveChange(n, m) ==
  /\ m.to = n
  /\ state[n] = STATE_NORMAL
  /\ timer[n] # "expired"
  /\ \E base \in Delivered(m) :
       IF Opens(m, "cbc", KeyBegin) /\ (m.frame.cmd = REQUEST_LED_ON) # (pin[n] = 0)
       THEN /\ payload' = [payload EXCEPT ![n] = m.frame.data]
            /\ \/ /\ m.frame.cmd = REQUEST_LED_ON
                  /\ relay_on(n)
                  /\ net' = Post(base, RelayReply(n, REPLY_LED_ON))
               \/ /\ m.frame.cmd # REQUEST_LED_ON
                  /\ relay_off(n)
                  /\ net' = Post(base, RelayReply(n, REPLY_LED_OFF))
       ELSE net' = base /\ UNCHANGED <<payload, pin>>
  /\ UNCHANGED <<state, begin_cmd, done, key_normal, frame_counter, timer>>

\* tcpip_normal_handler: every frame that opens is taken for a relay command,
\* and whatever is not REQUEST_LED_ON opens the relay.
NormalReceive(n, m) ==
  /\ m.to = n
  /\ state[n] = STATE_NORMAL
  /\ timer[n] # "expired"
  /\ \E base \in Delivered(m) :
       IF Opens(m, "cbc", KeyBegin)
       THEN /\ payload' = [payload EXCEPT ![n] = m.frame.data]
            /\ \/ /\ m.frame.cmd = REQUEST_LED_ON
                  /\ relay_on(n)
                  /\ net' = Post(base, RelayReply(n, REPLY_LED_ON))
               \/ /\ m.frame.cmd # REQUEST_LED_ON
                  /\ relay_off(n)
                  /\ net' = Post(base, RelayReply(n, REPLY_LED_OFF))
       ELSE net' = base /\ UNCHANGED <<payload, pin>>
  /\ UNCHANGED <<state, begin_cmd, done, key_normal, frame_counter, timer>>

-----------------------------------------------------------------------------
\* start_up and the first pass of the loop.
Reboot(n) ==
  /\ "reboot" \in Faults
  /\ MayAct(n)
  /\ state' = [state EXCEPT ![n] = STATE_BEGIN]
  /\ begin_cmd' = [begin_cmd EXCEPT ![n] = REQUEST_JOIN]
  /\ done' = [done EXCEPT ![n] = 0]
  /\ payload' = [payload EXCEPT ![n] = Zero]
  /\ key_normal' = [key_normal EXCEPT ![n] = ZeroKey]
  /\ frame_counter' = [frame_counter EXCEPT ![n] = 1]
  /\ timer' = [timer EXCEPT ![n] = "running"]
  /\ \E level \in {0, 1} : pin' = [pin EXCEPT ![n] = level]
  /\ net' = Post(net, ecb_encrypt(n, Gw, BeginFrame(REQUEST_JOIN, Zero, 0)))

NodeReceive(n, m) ==
  \/ BeginReceive(n, m)
  \/ BeginOverrun(n, m)
  \/ NormalReceive(n, m)
  \/ NormalOverrun(n, m)

NodeTimer(n) ==
  \/ BeginTimer(n)
  \/ BeginStaleEvent(n)
  \/ NormalTimer(n)
  \/ NormalStaleEvent(n)
=============================================================================
