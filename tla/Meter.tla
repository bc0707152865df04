------------------------------- MODULE Meter --------------------------------
(***************************************************************************)
(* The node's side of the PZEM-004T meter: the poll cycle that the NORMAL  *)
(* loop runs at every TIMEOUT_NORMAL (timeout_normal_handler), the UART    *)
(* interrupt that assembles the answers byte by byte (uart1_callback), the *)
(* parser, and the packing of a report.  The interrupt may come between    *)
(* any two steps of the process, also while it packs PZEM_data_t.          *)
(*                                                                         *)
(* Bytes are bytes: the framing and the 8-bit checksum depend on them.     *)
(***************************************************************************)
EXTENDS Naturals, Sequences

CONSTANTS
  Sample,        \* Sample[k]: the value bytes <<1, 2, 3>> the meter may answer
  NoiseByte,     \* bytes a disturbed line may produce
  Disturbances,  \* what may happen: "no_answer", "lost_byte", "noise"
  MaxGlitches    \* bound: disturbances in a behaviour

RESP_VOLTAGE == 160      \* 0xA0
RESP_CURRENT == 161
RESP_POWER == 162
RESP_ENERGY == 163
RESP_SET_ADDRESS == 164
RESP_POWER_ALARM == 165

Response == 160..165
Value == {RESP_VOLTAGE, RESP_CURRENT, RESP_POWER, RESP_ENERGY}
Byte == 0..255
LEN_PZEM_RESP == 7
Field == {n \in Nat : n < 16777216}  \* no value takes more than three bytes
Word == {n \in Nat : n < 65536}

ASSUME MeterAssumption ==
  /\ Sample \in [Response -> SUBSET (Byte \X Byte \X Byte)]
  /\ NoiseByte \subseteq Byte
  /\ MaxGlitches \in Nat \ {0}

VARIABLES
  count,        \* the step of the poll cycle
  rx_count,     \* answers accepted in this cycle
  rx,           \* the bytes of the answer being assembled, rx[0..i-1]
  PZEM_data_t,  \* the decoded values
  packing,      \* the process is inside pack_data_PZEM
  report,       \* the values packed so far
  outcome,      \* how the last cycle ended
  wire,         \* bytes the meter has sent and the UART has not received
  asked,        \* the command the meter has still to answer, or 0
  measured,     \* history: what the meter answered in this cycle
  glitches      \* disturbances so far

process == <<count, packing, report, outcome>>
driver == <<rx_count, rx, PZEM_data_t>>
meter == <<wire, asked, measured, glitches>>
vars == <<process, driver, meter>>

Silent == <<>>
Nothing == [k \in Value |-> 0]
Unmeasured == [k \in Response |-> Silent]

-----------------------------------------------------------------------------
\* The meter (external): its answer to a command, value bytes v.
Answer(k, v) ==
  <<k, v[1], v[2], v[3], 0, 0, (k + v[1] + v[2] + v[3]) % 256>>

crc_PZEM(b) == (b[1] + b[2] + b[3] + b[4] + b[5] + b[6]) % 256 = b[7]

is_PZEM_1st_byte(c) == c \in Response

\* What parse_PZEM makes of an answer, in the width of its field.
Decode(b) ==
  CASE b[1] = RESP_VOLTAGE -> ((b[2] * 256 + b[3]) * 10 + b[4]) % 65536
    [] b[1] = RESP_CURRENT -> b[3] * 100 + b[4]
    [] b[1] = RESP_POWER -> b[2] * 256 + b[3]
    [] b[1] = RESP_ENERGY -> b[2] * 65536 + b[3] * 256 + b[4]

parse_PZEM(b) ==
  PZEM_data_t' = IF b[1] \in Value THEN [PZEM_data_t EXCEPT ![b[1]] = Decode(b)]
                                   ELSE PZEM_data_t

\* A byte that does not complete an answer: the first one must be a code.
Collect(c) ==
  /\ rx' = IF rx # <<>> \/ is_PZEM_1st_byte(c) THEN Append(rx, c) ELSE rx
  /\ UNCHANGED <<PZEM_data_t, rx_count>>

Accept(b) == parse_PZEM(b) /\ rx_count' = (rx_count + 1) % 65536

recv_from_PZEM(b) ==
  IF crc_PZEM(b) THEN Accept(b) ELSE UNCHANGED <<PZEM_data_t, rx_count>>

\* Mutant: the index runs one past the buffer.
CallbackOverruns(c) ==
  \/ /\ Len(rx) = LEN_PZEM_RESP
     /\ rx' = <<>>
     /\ recv_from_PZEM(rx)
  \/ /\ Len(rx) < LEN_PZEM_RESP
     /\ Collect(c)

\* Mutant: a rejected answer leaves the index where it was.
CallbackKeepsIndex(c) ==
  \/ /\ Len(rx) = LEN_PZEM_RESP - 1
     /\ rx' = IF crc_PZEM(Append(rx, c)) THEN <<>> ELSE rx
     /\ recv_from_PZEM(Append(rx, c))
  \/ /\ Len(rx) < LEN_PZEM_RESP - 1
     /\ Collect(c)

\* The receive interrupt.  It has no timeout: an answer cut short is completed
\* with the first bytes of the next one.
uart1_callback(c) ==
  \/ /\ Len(rx) = LEN_PZEM_RESP - 1
     /\ rx' = <<>>
     /\ recv_from_PZEM(Append(rx, c))
  \/ /\ Len(rx) < LEN_PZEM_RESP - 1
     /\ Collect(c)

-----------------------------------------------------------------------------
\* One command per step of the cycle; the answer has the code 16 below.
Polled ==
  <<RESP_SET_ADDRESS, RESP_POWER_ALARM, RESP_VOLTAGE, RESP_CURRENT, RESP_POWER,
    RESP_ENERGY>>

send_to_PZEM(k) == asked' = k

\* An answer takes milliseconds and the timer 5 s: the line is quiet again
\* when it expires.
LineQuiet == wire = <<>> /\ asked = 0

\* Mutant: the count of answers runs on from cycle to cycle.
PollWithoutReset ==
  /\ LineQuiet /\ ~packing /\ count \in 1..6
  /\ send_to_PZEM(Polled[count])
  /\ count' = count + 1
  /\ measured' = IF count = 1 THEN Unmeasured ELSE measured
  /\ UNCHANGED <<packing, report, outcome, driver, wire, glitches>>

\* timeout_normal_handler, cases 1 to 6.
Poll ==
  /\ LineQuiet /\ ~packing /\ count \in 1..6
  /\ send_to_PZEM(Polled[count])
  /\ count' = count + 1
  /\ IF count = 1 THEN rx_count' = 0 /\ measured' = Unmeasured
                  ELSE UNCHANGED <<rx_count, measured>>
  /\ UNCHANGED <<packing, report, outcome, rx, PZEM_data_t, wire, glitches>>

\* Case 7 with every answer there: pack_data_PZEM reads two fields ...
PackFirst ==
  /\ LineQuiet /\ ~packing /\ count = 7 /\ rx_count = 6
  /\ packing' = TRUE
  /\ report' = [Nothing EXCEPT ![RESP_VOLTAGE] = PZEM_data_t[RESP_VOLTAGE],
                               ![RESP_CURRENT] = PZEM_data_t[RESP_CURRENT]]
  /\ UNCHANGED <<count, outcome, driver, meter>>

\* ... and then the others, and the report is sent.
PackRest ==
  /\ packing
  /\ packing' = FALSE
  /\ report' = [report EXCEPT ![RESP_POWER] = PZEM_data_t[RESP_POWER],
                              ![RESP_ENERGY] = PZEM_data_t[RESP_ENERGY]]
  /\ outcome' = "sent"
  /\ count' = 1
  /\ UNCHANGED <<driver, meter>>

\* Case 7 otherwise: a line on the console, and nothing is sent.
send2bor_emergency ==
  /\ LineQuiet /\ ~packing /\ count = 7 /\ rx_count # 6
  /\ outcome' = "emergency"
  /\ count' = 1
  /\ UNCHANGED <<packing, report, driver, meter>>

-----------------------------------------------------------------------------
\* The meter answers; the bytes cross the line one by one.
MeterAnswers ==
  /\ asked # 0
  /\ \E v \in Sample[asked] :
       /\ wire' = Answer(asked, v)
       /\ measured' = [measured EXCEPT ![asked] = Answer(asked, v)]
  /\ asked' = 0
  /\ UNCHANGED <<process, driver, glitches>>

ReceiveByte ==
  /\ wire # <<>>
  /\ wire' = Tail(wire)
  /\ uart1_callback(Head(wire))
  /\ UNCHANGED <<process, asked, measured, glitches>>

\* Disturbances: no answer at all, a byte lost, a byte that nobody sent.
\* A byte that nobody sent takes up the whole bound: together with a lost one
\* it swaps two bytes of an answer, and a sum does not see their order.
Glitch ==
  /\ glitches < MaxGlitches
  /\ glitches' = glitches + 1

NoAnswer ==
  /\ "no_answer" \in Disturbances
  /\ Glitch
  /\ asked # 0
  /\ asked' = 0
  /\ UNCHANGED <<process, driver, wire, measured>>

LoseByte ==
  /\ "lost_byte" \in Disturbances
  /\ Glitch
  /\ wire # <<>>
  /\ wire' = Tail(wire)
  /\ UNCHANGED <<process, driver, asked, measured>>

Noise ==
  /\ "noise" \in Disturbances
  /\ glitches = 0
  /\ glitches' = MaxGlitches
  /\ \E c \in NoiseByte : uart1_callback(c)
  /\ UNCHANGED <<process, wire, asked, measured>>

-----------------------------------------------------------------------------
Init ==
  /\ count = 1 /\ rx_count = 0 /\ rx = <<>>
  /\ PZEM_data_t = Nothing
  /\ packing = FALSE /\ report = Nothing /\ outcome = "none"
  /\ wire = <<>> /\ asked = 0 /\ measured = Unmeasured /\ glitches = 0

NodeSide == Poll \/ PackFirst \/ PackRest \/ send2bor_emergency

Next == NodeSide \/ MeterAnswers \/ ReceiveByte \/ NoAnswer \/ LoseByte \/ Noise

Spec == Init /\ [][Next]_vars

\* The timer fires, a working meter answers, the UART delivers.
FairSpec ==
  Spec /\ WF_vars(NodeSide) /\ WF_vars(MeterAnswers) /\ WF_vars(ReceiveByte)

-----------------------------------------------------------------------------
(* Properties *)

\* Every variable keeps the range of its C type.
MeterTypeOK ==
  /\ count \in 1..7
  /\ rx_count \in Word
  /\ rx \in Seq(Byte) /\ Len(rx) < LEN_PZEM_RESP
  /\ \A k \in Value : PZEM_data_t[k] \in Field /\ report[k] \in Field
  /\ packing \in BOOLEAN
  /\ outcome \in {"none", "sent", "emergency"}
  /\ wire \in Seq(Byte) /\ Len(wire) <= LEN_PZEM_RESP
  /\ asked \in Response \cup {0}

\* A report that is sent carries, for each value, what the meter answered in
\* the cycle it closes: nothing stale, nothing torn by the interrupt, nothing
\* put together from two answers (server.c:448, PZEM004T.c:97-140).
ReportsWhatWasMeasured ==
  [][packing /\ ~packing' =>
       \A k \in Value : measured[k] # Silent /\ report'[k] = Decode(measured[k])]_vars

\* Disturbances end in silence for some cycles and not for ever: once they
\* stop, the assembler falls back into step with the answers by itself and
\* reports are sent again (server.c:131-157).
ReportsResume == []<>(packing)
=============================================================================
