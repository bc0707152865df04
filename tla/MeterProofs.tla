----------------------------- MODULE MeterProofs -----------------------------
(***************************************************************************)
(* Proofs about Meter, for every set of values the meter may answer, every *)
(* set of bytes a disturbed line may produce and any number of             *)
(* disturbances.                                                           *)
(***************************************************************************)
EXTENDS Meter, SequenceTheorems, TLAPS

\* The codes of the answers are bytes other than zero.
LEMMA Codes ==
  /\ Value = {RESP_VOLTAGE, RESP_CURRENT, RESP_POWER, RESP_ENERGY}
  /\ Response = Value \cup {RESP_SET_ADDRESS, RESP_POWER_ALARM}
  /\ 0 \notin Response /\ 0 \in Byte
  /\ \A k \in Response : k \in Byte
  /\ LEN_PZEM_RESP = 7
  BY SMT DEF Response, Value, Byte, LEN_PZEM_RESP, RESP_VOLTAGE, RESP_CURRENT, RESP_POWER,
     RESP_ENERGY, RESP_SET_ADDRESS, RESP_POWER_ALARM

\* Every command of the cycle expects an answer with one of the codes.
LEMMA PolledTyped == \A i \in 1..6 : Polled[i] \in Response
  BY Codes, SMT DEF Polled

-----------------------------------------------------------------------------
(* Type correctness: the buffer is never overrun, no value leaves its field *)

ProcessOK ==
  /\ count \in 1..7
  /\ report \in [Value -> Field]
  /\ packing \in BOOLEAN
  /\ outcome \in {"none", "sent", "emergency"}

DriverOK ==
  /\ rx_count \in Word
  /\ rx \in Seq(Byte) /\ Len(rx) < 7
  /\ PZEM_data_t \in [Value -> Field]

LineOK ==
  /\ wire \in Seq(Byte) /\ Len(wire) <= 7
  /\ asked \in Response \cup {0}

TypeInv == ProcessOK /\ DriverOK /\ LineOK

\* The count of answers wraps at sixteen bits.
LEMMA NextCount == ASSUME NEW n \in Word PROVE (n + 1) % 65536 \in Word
  BY SMT DEF Word

\* A byte is a number below 256.
LEMMA ByteRange == \A x : x \in Byte <=> x \in Nat /\ x < 256
  BY SMT DEF Byte

\* The formulas of parse_PZEM on bytes.
LEMMA FieldBounds ==
  ASSUME NEW x \in Byte, NEW y \in Byte, NEW z \in Byte
  PROVE  /\ ((x * 256 + y) * 10 + z) % 65536 \in Field
         /\ y * 100 + z \in Field
         /\ x * 256 + y \in Field
         /\ x * 65536 + y * 256 + z \in Field
<1>1. x \in Nat /\ y \in Nat /\ z \in Nat /\ x < 256 /\ y < 256 /\ z < 256
  BY ByteRange
<1>2. ((x * 256 + y) * 10 + z) % 65536 \in Field
  BY <1>1, SMT DEF Field
<1>3. y * 100 + z \in Field
  BY <1>1, SMT DEF Field
<1>4. x * 256 + y \in Field
  BY <1>1, SMT DEF Field
<1>5. x * 65536 + y * 256 + z \in Field
  BY <1>1, SMT DEF Field
<1>6. QED
  BY <1>2, <1>3, <1>4, <1>5

\* The sum that closes an answer.
LEMMA SumIsByte ==
  ASSUME NEW k \in Byte, NEW x \in Byte, NEW y \in Byte, NEW z \in Byte
  PROVE  (k + x + y + z) % 256 \in Byte
<1>1. k \in Nat /\ x \in Nat /\ y \in Nat /\ z \in Nat
  BY ByteRange
<1>2. PICK n : n = (k + x + y + z) % 256
  OBVIOUS
<1>3. n \in Nat /\ n < 256
  BY <1>1, <1>2, SMT
<1>4. QED
  BY <1>2, <1>3, ByteRange

\* Seven bytes decode to a value that fits its field.
LEMMA DecodeTyped ==
  ASSUME NEW b \in Seq(Byte), Len(b) = 7, b[1] \in Value
  PROVE  Decode(b) \in Field
<1>1. b[2] \in Byte /\ b[3] \in Byte /\ b[4] \in Byte
  OBVIOUS
<1>2. PICK x \in Byte, y \in Byte, z \in Byte : x = b[2] /\ y = b[3] /\ z = b[4]
  BY <1>1
<1>3. /\ ((b[2] * 256 + b[3]) * 10 + b[4]) % 65536 \in Field
      /\ b[3] * 100 + b[4] \in Field
      /\ b[2] * 256 + b[3] \in Field
      /\ b[2] * 65536 + b[3] * 256 + b[4] \in Field
  BY <1>2, FieldBounds
<1>4. b[1] = RESP_VOLTAGE \/ b[1] = RESP_CURRENT \/ b[1] = RESP_POWER \/ b[1] = RESP_ENERGY
  BY Codes
<1>5. CASE b[1] = RESP_VOLTAGE
  <2>1. Decode(b) = ((b[2] * 256 + b[3]) * 10 + b[4]) % 65536
    BY <1>5 DEF Decode, RESP_VOLTAGE, RESP_CURRENT, RESP_POWER, RESP_ENERGY
  <2>2. QED
    BY <2>1, <1>3
<1>6. CASE b[1] = RESP_CURRENT
  <2>1. Decode(b) = b[3] * 100 + b[4]
    BY <1>6 DEF Decode, RESP_VOLTAGE, RESP_CURRENT, RESP_POWER, RESP_ENERGY
  <2>2. QED
    BY <2>1, <1>3
<1>7. CASE b[1] = RESP_POWER
  <2>1. Decode(b) = b[2] * 256 + b[3]
    BY <1>7 DEF Decode, RESP_VOLTAGE, RESP_CURRENT, RESP_POWER, RESP_ENERGY
  <2>2. QED
    BY <2>1, <1>3
<1>8. CASE b[1] = RESP_ENERGY
  <2>1. Decode(b) = b[2] * 65536 + b[3] * 256 + b[4]
    BY <1>8 DEF Decode, RESP_VOLTAGE, RESP_CURRENT, RESP_POWER, RESP_ENERGY
  <2>2. QED
    BY <2>1, <1>3
<1>9. QED
  BY <1>4, <1>5, <1>6, <1>7, <1>8

\* The interrupt keeps the driver's variables in their ranges, whatever byte
\* comes.
LEMMA CallbackTyped ==
  ASSUME DriverOK, NEW c \in Byte, uart1_callback(c)
  PROVE  DriverOK'
<1>1. rx \in Seq(Byte) /\ Len(rx) < 7 /\ Len(rx) \in Nat
  BY DEF DriverOK
<1>2. CASE Len(rx) = 6
  <2>1. PICK b : b = Append(rx, c)
    OBVIOUS
  <2>2. b \in Seq(Byte) /\ Len(b) = 7
    <3>1. Append(rx, c) \in Seq(Byte) /\ Len(Append(rx, c)) = Len(rx) + 1
      BY <1>1
    <3>2. QED
      BY <1>2, <2>1, <3>1
  <2>3. rx' = <<>> /\ recv_from_PZEM(b)
    BY <1>2, <2>1 DEF uart1_callback, LEN_PZEM_RESP
  <2>4. rx_count' \in Word
    <3>1. rx_count \in Word /\ (rx_count + 1) % 65536 \in Word
      BY NextCount DEF DriverOK
    <3>2. QED
      BY <2>3, <3>1 DEF recv_from_PZEM, Accept
  <2>5. PZEM_data_t' \in [Value -> Field]
    <3>1. PZEM_data_t \in [Value -> Field]
      BY DEF DriverOK
    <3>2. b[1] \in Value => Decode(b) \in Field
      BY <2>2, DecodeTyped
    <3>3. PICK v : v = Decode(b)
      OBVIOUS
    <3>4. \/ PZEM_data_t' = PZEM_data_t
          \/ b[1] \in Value /\ PZEM_data_t' = [PZEM_data_t EXCEPT ![b[1]] = v]
      <4>1. parse_PZEM(b) \/ PZEM_data_t' = PZEM_data_t
        <5>1. CASE crc_PZEM(b)
          BY <2>3, <5>1 DEF recv_from_PZEM, Accept
        <5>2. CASE ~crc_PZEM(b)
          BY <2>3, <5>2 DEF recv_from_PZEM
        <5>3. QED
          BY <5>1, <5>2
      <4>2. QED
        BY <3>3, <4>1, Zenon DEF parse_PZEM
    <3>5. QED
      BY <3>1, <3>2, <3>3, <3>4
  <2>6. QED
    BY <2>3, <2>4, <2>5 DEF DriverOK
<1>3. CASE Len(rx) < 6
  <2>0. Len(rx) # LEN_PZEM_RESP - 1
    BY <1>3 DEF LEN_PZEM_RESP
  <2>1. Collect(c)
    BY <2>0, Zenon DEF uart1_callback
  <2>2. rx' = rx \/ rx' = Append(rx, c)
    BY <2>1 DEF Collect
  <2>3. rx' \in Seq(Byte) /\ Len(rx') < 7
    BY <1>1, <1>3, <2>2
  <2>4. QED
    BY <2>1, <2>3 DEF Collect, DriverOK
<1>4. QED
  BY <1>1, <1>2, <1>3

\* An answer is seven bytes.
LEMMA AnswerTyped ==
  ASSUME NEW k \in Response, NEW v \in Byte \X Byte \X Byte
  PROVE  Answer(k, v) \in Seq(Byte) /\ Len(Answer(k, v)) = 7
<1>1. PICK x \in Byte, y \in Byte, z \in Byte : x = v[1] /\ y = v[2] /\ z = v[3]
  OBVIOUS
<1>2. k \in Byte /\ (k + x + y + z) % 256 \in Byte /\ 0 \in Byte
  BY Codes, SumIsByte
<1>3. PICK s \in Byte : s = (k + x + y + z) % 256
  BY <1>2
<1>4. Answer(k, v) = <<k, x, y, z, 0, 0, s>>
  BY <1>1, <1>3 DEF Answer
<1>5. QED
  BY <1>2, <1>4

\* Every step keeps the types.
LEMMA TypeStep ==
  ASSUME TypeInv, [Next]_vars
  PROVE  TypeInv'
<1>0. ProcessOK /\ DriverOK /\ LineOK
  BY DEF TypeInv
<1>1. CASE Poll
  <2>1. asked' \in Response /\ count' \in 1..7
    BY <1>0, <1>1, PolledTyped DEF Poll, send_to_PZEM
  <2>2. ProcessOK'
    BY <1>0, <1>1, <2>1 DEF Poll, ProcessOK
  <2>3. DriverOK'
    <3>1. rx_count' = 0 \/ rx_count' = rx_count
      BY <1>1 DEF Poll
    <3>2. rx_count' \in Word
      BY <1>0, <3>1 DEF DriverOK, Word
    <3>3. QED
      BY <1>0, <1>1, <3>2 DEF Poll, DriverOK
  <2>4. LineOK'
    BY <1>0, <1>1, <2>1 DEF Poll, LineOK
  <2>5. QED
    BY <2>2, <2>3, <2>4 DEF TypeInv
<1>2. CASE PackFirst
  <2>1. PZEM_data_t[RESP_VOLTAGE] \in Field /\ PZEM_data_t[RESP_CURRENT] \in Field
    BY <1>0, Codes DEF DriverOK
  <2>2. Nothing \in [Value -> Field]
    BY SMT DEF Nothing, Field
  <2>3. ProcessOK'
    BY <1>0, <1>2, <2>1, <2>2 DEF PackFirst, ProcessOK
  <2>4. DriverOK' /\ LineOK'
    BY <1>0, <1>2 DEF PackFirst, driver, meter, DriverOK, LineOK
  <2>5. QED
    BY <2>3, <2>4 DEF TypeInv
<1>3. CASE PackRest
  <2>1. PZEM_data_t[RESP_POWER] \in Field /\ PZEM_data_t[RESP_ENERGY] \in Field
    BY <1>0, Codes DEF DriverOK
  <2>2. ProcessOK'
    <3>1. report' \in [Value -> Field]
      BY <1>0, <1>3, <2>1 DEF PackRest, ProcessOK
    <3>2. count' \in 1..7
      BY <1>3 DEF PackRest
    <3>3. packing' \in BOOLEAN /\ outcome' \in {"none", "sent", "emergency"}
      BY <1>3 DEF PackRest
    <3>4. QED
      BY <3>1, <3>2, <3>3, Zenon DEF ProcessOK
  <2>3. DriverOK' /\ LineOK'
    BY <1>0, <1>3 DEF PackRest, driver, meter, DriverOK, LineOK
  <2>4. QED
    BY <2>2, <2>3 DEF TypeInv
<1>4. CASE send2bor_emergency
  BY <1>0, <1>4 DEF send2bor_emergency, driver, meter, TypeInv, ProcessOK, DriverOK, LineOK
<1>5. CASE MeterAnswers
  <2>1. asked \in Response
    BY <1>0, <1>5 DEF MeterAnswers, LineOK
  <2>2. PICK v \in Byte \X Byte \X Byte : wire' = Answer(asked, v)
    BY <1>5, <2>1, MeterAssumption DEF MeterAnswers
  <2>3. wire' \in Seq(Byte) /\ Len(wire') <= 7 /\ asked' = 0
    <3>1. Answer(asked, v) \in Seq(Byte) /\ Len(Answer(asked, v)) = 7
      BY <2>1, AnswerTyped
    <3>2. QED
      BY <1>5, <2>2, <3>1 DEF MeterAnswers
  <2>4. QED
    BY <1>0, <1>5, <2>3 DEF MeterAnswers, process, driver, TypeInv, ProcessOK, DriverOK, LineOK
<1>6. CASE ReceiveByte
  <2>1. Head(wire) \in Byte /\ Tail(wire) \in Seq(Byte) /\ Len(Tail(wire)) <= 7
    BY <1>0, <1>6 DEF ReceiveByte, LineOK
  <2>2. DriverOK'
    BY <1>0, <1>6, <2>1, CallbackTyped DEF ReceiveByte
  <2>3. ProcessOK' /\ LineOK'
    BY <1>0, <1>6, <2>1 DEF ReceiveByte, process, ProcessOK, LineOK
  <2>4. QED
    BY <2>2, <2>3 DEF TypeInv
<1>7. CASE NoAnswer
  BY <1>0, <1>7 DEF NoAnswer, process, driver, TypeInv, ProcessOK, DriverOK, LineOK
<1>8. CASE LoseByte
  <2>1. Tail(wire) \in Seq(Byte) /\ Len(Tail(wire)) <= 7
    BY <1>0, <1>8 DEF LoseByte, LineOK
  <2>2. QED
    BY <1>0, <1>8, <2>1 DEF LoseByte, process, driver, TypeInv, ProcessOK, DriverOK, LineOK
<1>9. CASE Noise
  <2>1. DriverOK'
    BY <1>0, <1>9, CallbackTyped, MeterAssumption DEF Noise
  <2>2. ProcessOK' /\ LineOK'
    BY <1>0, <1>9 DEF Noise, process, ProcessOK, LineOK
  <2>3. QED
    BY <2>1, <2>2 DEF TypeInv
<1>10. CASE UNCHANGED vars
  BY <1>0, <1>10 DEF vars, process, driver, meter, TypeInv, ProcessOK, DriverOK, LineOK
<1>11. QED
  BY <1>1, <1>2, <1>3, <1>4, <1>5, <1>6, <1>7, <1>8, <1>9, <1>10 DEF Next, NodeSide

\* They hold at power-on.
LEMMA TypeInit == Init => TypeInv
<1> SUFFICES ASSUME Init PROVE TypeInv
  OBVIOUS
<1>1. Nothing \in [Value -> Field]
  BY SMT DEF Nothing, Field
<1>2. QED
  <2>1. 0 \in Word /\ <<>> \in Seq(Byte) /\ Len(<<>>) = 0
    BY DEF Word
  <2>2. DriverOK
    BY <1>1, <2>1 DEF Init, DriverOK
  <2>3. ProcessOK
    <3>1. count \in 1..7
      BY DEF Init
    <3>2. packing \in BOOLEAN /\ outcome \in {"none", "sent", "emergency"}
      BY DEF Init
    <3>3. report \in [Value -> Field]
      BY <1>1 DEF Init
    <3>4. QED
      BY <3>1, <3>2, <3>3, Zenon DEF ProcessOK
  <2>4. LineOK
    BY <2>1 DEF Init, LineOK
  <2>5. QED
    BY <2>2, <2>3, <2>4 DEF TypeInv

\* The ranges of the variables, with those of the fields of both records
\* (server.c:131-157, PZEM004T.c:97-140).
THEOREM TypeInvariance == Spec => []TypeInv
<1>1. Init => TypeInv
  BY TypeInit
<1>2. TypeInv /\ [Next]_vars => TypeInv'
  BY TypeStep
<1>3. QED
  BY <1>1, <1>2, PTL DEF Spec

\* The buffer of seven bytes is never overrun and no value leaves its field,
\* whatever bytes the line brings (server.c:131-157, PZEM004T.c:97-140).
THEOREM TypeCorrect == Spec => []MeterTypeOK
<1>1. TypeInv => MeterTypeOK
  BY Codes DEF TypeInv, ProcessOK, DriverOK, LineOK, MeterTypeOK
<1>2. QED
  BY <1>1, TypeInvariance, PTL

-----------------------------------------------------------------------------
(* A line that loses no byte and adds none: every report is a measurement. *)

\* The commands of this cycle whose answer has been dealt with, or will not
\* come any more.
Settled == IF LineQuiet THEN count - 1 ELSE count - 2

Asked == Polled[count - 1]

MeasuredOK == measured \in [Response -> Seq(Byte)]

Whole(k) == \E v \in Byte \X Byte \X Byte : measured[k] = Answer(k, v)

\* The assembler holds the first bytes of the answer, the line the others.
Assembling ==
  /\ wire = <<>> => rx = <<>>
  /\ asked # 0 => count \in 2..7 /\ asked = Asked /\ wire = <<>> /\ measured[Asked] = Silent
  /\ wire # <<>> =>
       /\ asked = 0 /\ count \in 2..7 /\ Whole(Asked)
       /\ Len(rx) + Len(wire) = 7
       /\ \A i \in 1..Len(rx) : rx[i] = measured[Asked][i]
       /\ \A i \in 1..Len(wire) : wire[i] = measured[Asked][Len(rx) + i]

Taken(k) == k \in Value /\ measured[k] # Silent => PZEM_data_t[k] = Decode(measured[k])

\* As many answers were accepted as commands settled only if none is missing.
Counted ==
  count # 1 =>
    /\ rx_count <= Settled
    /\ rx_count = Settled => \A i \in 1..Settled : measured[Polled[i]] # Silent
    /\ \A i \in 1..Settled : Taken(Polled[i])
    /\ \A i \in 1..6 : i >= count => measured[Polled[i]] = Silent

Packing ==
  packing =>
    /\ LineQuiet /\ count = 7
    /\ \A k \in Value : measured[k] # Silent /\ PZEM_data_t[k] = Decode(measured[k])
    /\ \A k \in {RESP_VOLTAGE, RESP_CURRENT} : report[k] = Decode(measured[k])

CycleInv == TypeInv /\ MeasuredOK /\ Assembling /\ Counted /\ Packing

\* Six different commands, among them one for each value.
LEMMA PolledFacts ==
  /\ \A i \in 1..6 : Polled[i] \in Response
  /\ \A i, j \in 1..6 : Polled[i] = Polled[j] => i = j
  /\ \A k \in Value : \E i \in 1..6 : Polled[i] = k
<1>1. \A i, j \in 1..6 : Polled[i] = Polled[j] => i = j
  BY SMT DEF Polled, RESP_VOLTAGE, RESP_CURRENT, RESP_POWER, RESP_ENERGY, RESP_SET_ADDRESS,
     RESP_POWER_ALARM
<1>2. /\ Polled[3] = RESP_VOLTAGE /\ Polled[4] = RESP_CURRENT /\ Polled[5] = RESP_POWER
      /\ Polled[6] = RESP_ENERGY
  BY SMT DEF Polled
<1>3. \A k \in Value : \E i \in 1..6 : Polled[i] = k
  BY <1>2, Codes
<1>4. QED
  BY <1>1, <1>3, PolledTyped

\* An answer passes its own check.
LEMMA AnswerFacts ==
  ASSUME NEW k \in Response, NEW v \in Byte \X Byte \X Byte
  PROVE  /\ Answer(k, v) \in Seq(Byte) /\ Len(Answer(k, v)) = 7
         /\ Answer(k, v)[1] = k
         /\ crc_PZEM(Answer(k, v))
<1>1. Answer(k, v) \in Seq(Byte) /\ Len(Answer(k, v)) = 7
  BY AnswerTyped
<1>2. PICK x \in Byte, y \in Byte, z \in Byte : x = v[1] /\ y = v[2] /\ z = v[3]
  OBVIOUS
<1>3. k \in Nat /\ x \in Nat /\ y \in Nat /\ z \in Nat
  BY Codes, ByteRange
<1>4. k + x + y + z + 0 + 0 = k + x + y + z
  BY <1>3
<1>5. PICK s : s = (k + x + y + z) % 256
  OBVIOUS
<1>6. Answer(k, v) = <<k, x, y, z, 0, 0, s>>
  BY <1>2, <1>5 DEF Answer
<1>7. Answer(k, v)[1] = k
  BY <1>6
<1>8. PICK a : a = Answer(k, v)
  OBVIOUS
<1>9. a[1] = k /\ a[2] = x /\ a[3] = y /\ a[4] = z /\ a[5] = 0 /\ a[6] = 0 /\ a[7] = s
  BY <1>6, <1>8
<1>10. (a[1] + a[2] + a[3] + a[4] + a[5] + a[6]) % 256 = a[7]
  BY <1>4, <1>5, <1>9
<1>11. QED
  BY <1>1, <1>7, <1>8, <1>10 DEF crc_PZEM

\* The timer finds the line quiet; the next command is one whose answer has
\* not been seen in this cycle.
LEMMA PollKeeps ==
  ASSUME CycleInv, Poll
  PROVE  MeasuredOK' /\ Assembling' /\ Counted' /\ Packing'
<1>1. /\ LineQuiet /\ ~packing /\ count \in 1..6 /\ wire = <<>> /\ asked = 0 /\ rx = <<>>
      /\ Settled = count - 1
  BY DEF Poll, CycleInv, Assembling, LineQuiet, Settled
<1>2. /\ count' = count + 1 /\ asked' = Polled[count] /\ wire' = <<>> /\ rx' = <<>>
      /\ PZEM_data_t' = PZEM_data_t /\ packing' = packing
  BY <1>1 DEF Poll, send_to_PZEM
<1>3. asked' # 0 /\ asked' \in Response
  BY <1>1, <1>2, PolledFacts, Codes
<1>4. /\ Settled' = count - 1 /\ Asked' = Polled[count]
  BY <1>1, <1>2, <1>3 DEF Settled, Asked, LineQuiet
<1>5. CASE count = 1
  <2>1. measured' = Unmeasured /\ rx_count' = 0
    BY <1>5 DEF Poll
  <2>2. measured' \in [Response -> Seq(Byte)] /\ \A k \in Response : measured'[k] = Silent
    BY <2>1 DEF Unmeasured, Silent
  <2>3. \A i \in 1..6 : measured'[Polled[i]] = Silent
    BY <2>2, PolledFacts
  <2>4. Assembling'
    BY <1>1, <1>2, <1>4, <2>3 DEF Assembling
  <2>5. Counted'
    BY <1>2, <1>4, <1>5, <2>1, <2>3 DEF Counted
  <2>6. QED
    BY <1>1, <1>2, <2>2, <2>4, <2>5 DEF MeasuredOK, Packing
<1>6. CASE count # 1
  <2>1. measured' = measured /\ rx_count' = rx_count
    BY <1>6 DEF Poll
  <2>2. MeasuredOK'
    BY <2>1 DEF CycleInv, MeasuredOK
  <2>3. /\ rx_count <= count - 1
        /\ rx_count = count - 1 => \A i \in 1..(count - 1) : measured[Polled[i]] # Silent
        /\ \A i \in 1..(count - 1) : Taken(Polled[i])
        /\ \A i \in 1..6 : i >= count => measured[Polled[i]] = Silent
    BY <1>1, <1>6 DEF CycleInv, Counted
  <2>4. Assembling'
    BY <1>1, <1>2, <1>4, <2>1, <2>3 DEF Assembling
  <2>5. \A i \in 1..(count - 1) : Taken(Polled[i])'
    BY <1>1, <1>2, <2>1, <2>3 DEF Taken
  <2>6. Counted'
    BY <1>1, <1>2, <1>4, <2>1, <2>3, <2>5 DEF Counted
  <2>7. QED
    BY <1>1, <1>2, <2>2, <2>4, <2>6 DEF Packing
<1>7. QED
  BY <1>5, <1>6

\* Six answers to six commands: nothing is missing.
LEMMA PackFirstKeeps ==
  ASSUME CycleInv, PackFirst
  PROVE  MeasuredOK' /\ Assembling' /\ Counted' /\ Packing'
<1>1. /\ LineQuiet /\ count = 7 /\ rx_count = 6 /\ Settled = 6
  BY DEF PackFirst, Settled
<1>2. /\ count' = count /\ rx_count' = rx_count /\ rx' = rx /\ PZEM_data_t' = PZEM_data_t
      /\ wire' = wire /\ asked' = asked /\ measured' = measured
  BY DEF PackFirst, driver, meter
<1>3. \A i \in 1..6 : measured[Polled[i]] # Silent /\ Taken(Polled[i])
  BY <1>1 DEF CycleInv, Counted
<1>4. \A k \in Value : measured[k] # Silent /\ PZEM_data_t[k] = Decode(measured[k])
  BY <1>3, PolledFacts DEF Taken
<1>5. /\ report'[RESP_VOLTAGE] = PZEM_data_t[RESP_VOLTAGE]
      /\ report'[RESP_CURRENT] = PZEM_data_t[RESP_CURRENT]
  <2>1. RESP_VOLTAGE \in Value /\ RESP_CURRENT \in Value /\ RESP_VOLTAGE # RESP_CURRENT
    BY Codes DEF RESP_VOLTAGE, RESP_CURRENT
  <2>2. QED
    BY <2>1 DEF PackFirst, Nothing
<1>6. Packing'
  BY <1>1, <1>2, <1>4, <1>5, Codes DEF Packing, LineQuiet
<1>7. MeasuredOK' /\ Assembling'
  BY <1>2 DEF CycleInv, MeasuredOK, Assembling, Asked, Whole
<1>8. Counted'
  BY <1>1, <1>2, <1>3 DEF CycleInv, Counted, Settled, LineQuiet, Taken
<1>9. QED
  BY <1>6, <1>7, <1>8

\* The end of a cycle, with or without a report.
LEMMA CycleEnds ==
  ASSUME CycleInv, PackRest \/ send2bor_emergency
  PROVE  MeasuredOK' /\ Assembling' /\ Counted' /\ Packing'
<1>1. LineQuiet /\ wire = <<>> /\ asked = 0 /\ rx = <<>>
  BY DEF PackRest, send2bor_emergency, CycleInv, Packing, Assembling, LineQuiet
<1>2. /\ count' = 1 /\ ~packing'
      /\ rx' = rx /\ wire' = wire /\ asked' = asked /\ measured' = measured
  BY DEF PackRest, send2bor_emergency, driver, meter
<1>3. QED
  BY <1>1, <1>2 DEF CycleInv, MeasuredOK, Assembling, Counted, Packing

\* The meter answers the command of the last step.
LEMMA AnswerKeeps ==
  ASSUME CycleInv, MeterAnswers
  PROVE  MeasuredOK' /\ Assembling' /\ Counted' /\ Packing'
<1>1. /\ asked # 0 /\ count \in 2..7 /\ asked = Asked /\ wire = <<>> /\ rx = <<>>
      /\ ~LineQuiet /\ ~packing /\ Settled = count - 2
  BY DEF MeterAnswers, CycleInv, Assembling, LineQuiet, Packing, Settled
<1>2. asked \in Response
  BY <1>1 DEF CycleInv, TypeInv, LineOK
<1>3. PICK v \in Byte \X Byte \X Byte :
        /\ wire' = Answer(asked, v)
        /\ measured' = [measured EXCEPT ![asked] = Answer(asked, v)]
  BY <1>2, MeterAssumption DEF MeterAnswers
<1>4. PICK a : a = Answer(asked, v)
  OBVIOUS
<1>5. a \in Seq(Byte) /\ Len(a) = 7 /\ a # <<>>
  BY <1>2, <1>4, AnswerFacts
<1>6. /\ asked' = 0 /\ count' = count /\ rx_count' = rx_count /\ rx' = rx
      /\ PZEM_data_t' = PZEM_data_t /\ packing' = packing
  BY DEF MeterAnswers, process, driver
<1>7. /\ measured' \in [Response -> Seq(Byte)]
      /\ measured'[asked] = a
      /\ \A k \in Response : k # asked => measured'[k] = measured[k]
  BY <1>2, <1>3, <1>4, <1>5 DEF CycleInv, MeasuredOK
<1>8. Asked' = Asked /\ Settled' = count - 2
  BY <1>1, <1>3, <1>4, <1>5, <1>6 DEF Asked, Settled, LineQuiet
<1>9. \A i \in 1..6 : i # count - 1 => measured'[Polled[i]] = measured[Polled[i]]
  BY <1>1, <1>7, PolledFacts DEF Asked
<1>10. Assembling'
  <2>1. Whole(Asked)'
    BY <1>1, <1>3, <1>4, <1>7, <1>8, Zenon DEF Whole
  <2>2. wire' = a /\ Len(rx') = 0 /\ Len(rx') + Len(wire') = 7
    BY <1>1, <1>3, <1>4, <1>5, <1>6
  <2>3. \A i \in 1..Len(wire') : wire'[i] = measured'[Asked'][Len(rx') + i]
    BY <1>1, <1>5, <1>7, <1>8, <2>2
  <2>4. QED
    BY <1>1, <1>5, <1>6, <2>1, <2>2, <2>3 DEF Assembling
<1>11. Counted'
  <2>1. /\ rx_count <= count - 2
        /\ rx_count = count - 2 => \A i \in 1..(count - 2) : measured[Polled[i]] # Silent
        /\ \A i \in 1..(count - 2) : Taken(Polled[i])
        /\ \A i \in 1..6 : i >= count => measured[Polled[i]] = Silent
    BY <1>1 DEF CycleInv, Counted
  <2>2. \A i \in 1..(count - 2) : Taken(Polled[i])'
    BY <1>1, <1>6, <1>9, <2>1 DEF Taken
  <2>3. QED
    BY <1>1, <1>6, <1>8, <1>9, <2>1, <2>2 DEF Counted
<1>12. QED
  BY <1>1, <1>6, <1>7, <1>10, <1>11 DEF MeasuredOK, Packing

\* A command that is not answered leaves its value unmeasured.
LEMMA NoAnswerKeeps ==
  ASSUME CycleInv, NoAnswer
  PROVE  MeasuredOK' /\ Assembling' /\ Counted' /\ Packing'
<1>1. /\ asked # 0 /\ count \in 2..7 /\ asked = Asked /\ wire = <<>> /\ rx = <<>>
      /\ measured[Asked] = Silent
      /\ ~LineQuiet /\ ~packing /\ Settled = count - 2
  BY DEF NoAnswer, CycleInv, Assembling, LineQuiet, Packing, Settled
<1>2. /\ asked' = 0 /\ wire' = wire /\ measured' = measured /\ count' = count
      /\ rx_count' = rx_count /\ rx' = rx /\ PZEM_data_t' = PZEM_data_t /\ packing' = packing
  BY DEF NoAnswer, process, driver
<1>3. Settled' = count - 1
  BY <1>1, <1>2 DEF Settled, LineQuiet
<1>4. Counted'
  <2>1. rx_count \in Nat
    BY DEF CycleInv, TypeInv, DriverOK, Word
  <2>2. /\ rx_count <= count - 2
        /\ \A i \in 1..(count - 2) : Taken(Polled[i])
        /\ \A i \in 1..6 : i >= count => measured[Polled[i]] = Silent
    BY <1>1 DEF CycleInv, Counted
  <2>3. Taken(Polled[count - 1])
    BY <1>1 DEF Taken, Asked
  <2>4. \A i \in 1..(count - 1) : Taken(Polled[i])'
    BY <1>1, <1>2, <2>2, <2>3 DEF Taken
  <2>5. rx_count < count - 1
    BY <1>1, <2>1, <2>2
  <2>6. QED
    <3>1. rx_count' <= count - 1 /\ rx_count' # count - 1
      BY <1>1, <1>2, <2>1, <2>5
    <3>2. QED
      BY <1>1, <1>2, <1>3, <2>2, <2>4, <3>1 DEF Counted
<1>5. QED
  BY <1>1, <1>2, <1>4 DEF CycleInv, MeasuredOK, Assembling, Packing

\* A byte of the answer arrives: it joins the others, and with the seventh the
\* whole answer is accepted.
LEMMA ReceiveKeeps ==
  ASSUME CycleInv, ReceiveByte
  PROVE  MeasuredOK' /\ Assembling' /\ Counted' /\ Packing'
<1> DEFINE k == Asked
           a == measured[Asked]
           c == Head(wire)
<1>1. /\ wire # <<>> /\ asked = 0 /\ count \in 2..7 /\ Len(rx) + Len(wire) = 7
      /\ ~LineQuiet /\ ~packing /\ Settled = count - 2
  BY DEF ReceiveByte, CycleInv, Assembling, LineQuiet, Packing, Settled
<1>2. /\ wire' = Tail(wire) /\ uart1_callback(Head(wire)) /\ asked' = asked
      /\ measured' = measured /\ count' = count /\ packing' = packing
  BY DEF ReceiveByte, process
<1>3. rx \in Seq(Byte) /\ wire \in Seq(Byte) /\ rx_count \in Nat /\ rx_count < 65536
      /\ PZEM_data_t \in [Value -> Field]
  BY DEF CycleInv, TypeInv, DriverOK, LineOK, Word
<1>4. k \in Response
  BY <1>1, PolledFacts DEF Asked
<1>5. PICK v \in Byte \X Byte \X Byte : a = Answer(k, v)
  BY <1>1 DEF CycleInv, Assembling, Whole
<1>6. a \in Seq(Byte) /\ Len(a) = 7 /\ a[1] = k /\ crc_PZEM(a)
  BY <1>4, <1>5, AnswerFacts
<1>7. /\ \A i \in 1..Len(rx) : rx[i] = a[i]
      /\ \A i \in 1..Len(wire) : wire[i] = a[Len(rx) + i]
  BY <1>1 DEF CycleInv, Assembling
<1>8. /\ Len(wire) \in Nat \ {0} /\ Len(rx) \in Nat
      /\ c = wire[1] /\ c \in Byte
      /\ Tail(wire) \in Seq(Byte) /\ Len(Tail(wire)) = Len(wire) - 1
      /\ \A i \in 1..Len(Tail(wire)) : Tail(wire)[i] = wire[i + 1]
  BY <1>1, <1>3
<1>9. c = a[Len(rx) + 1]
  BY <1>7, <1>8
<1>10. /\ Append(rx, c) \in Seq(Byte) /\ Len(Append(rx, c)) = Len(rx) + 1
       /\ \A i \in 1..(Len(rx) + 1) : Append(rx, c)[i] = a[i]
  BY <1>3, <1>7, <1>8, <1>9
<1>11. /\ rx_count <= count - 2
       /\ rx_count = count - 2 => \A i \in 1..(count - 2) : measured[Polled[i]] # Silent
       /\ \A i \in 1..(count - 2) : Taken(Polled[i])
       /\ \A i \in 1..6 : i >= count => measured[Polled[i]] = Silent
  BY <1>1 DEF CycleInv, Counted
<1>12. MeasuredOK' /\ Packing'
  BY <1>1, <1>2 DEF CycleInv, MeasuredOK, Packing
<1>13. Asked' = Asked
  BY <1>2 DEF Asked
<1>14. /\ Len(rx) = 6 \/ Len(rx) < 6
       /\ Len(rx) < 6 => Len(rx) # LEN_PZEM_RESP - 1
  <2>1. Len(rx) \in Nat
    BY <1>3
  <2>2. PICK n \in Nat : n = Len(rx)
    BY <2>1
  <2>3. n < 7
    BY <2>2 DEF CycleInv, TypeInv, DriverOK
  <2>4. (n = 6 \/ n < 6) /\ (n < 6 => n # LEN_PZEM_RESP - 1)
    BY <2>3 DEF LEN_PZEM_RESP
  <2>5. QED
    BY <2>2, <2>4
<1> HIDE DEF k, a, c
<1>15. CASE Len(rx) = 6
  <2>1. Append(rx, c) = a
    BY <1>6, <1>10, <1>15, SeqEqual
  <2>2. Len(wire) = 1 /\ wire' = <<>>
    BY <1>1, <1>2, <1>8, <1>15
  <2>3. rx' = <<>> /\ recv_from_PZEM(a)
    <3>1. Len(rx) = LEN_PZEM_RESP - 1
      BY <1>15 DEF LEN_PZEM_RESP
    <3>2. ~(Len(rx) < LEN_PZEM_RESP - 1)
      BY <1>15 DEF LEN_PZEM_RESP
    <3>3. QED
      BY <1>2, <2>1, <3>1, <3>2, Zenon DEF uart1_callback, c
  <2>4. parse_PZEM(a) /\ rx_count' = (rx_count + 1) % 65536
    BY <1>6, <2>3 DEF recv_from_PZEM, Accept
  <2>5. rx_count' = rx_count + 1
    BY <1>1, <1>3, <1>11, <2>4
  <2>6. /\ k \in Value => PZEM_data_t'[k] = Decode(a)
        /\ \A j \in Value : j # k => PZEM_data_t'[j] = PZEM_data_t[j]
    <3>1. PICK d : d = Decode(a)
      OBVIOUS
    <3>2. PZEM_data_t' = IF k \in Value THEN [PZEM_data_t EXCEPT ![k] = d] ELSE PZEM_data_t
      <4>1. PZEM_data_t' =
              IF a[1] \in Value THEN [PZEM_data_t EXCEPT ![a[1]] = Decode(a)] ELSE PZEM_data_t
        BY <2>4 DEF parse_PZEM
      <4>2. QED
        BY <1>6, <3>1, <4>1, Zenon
    <3>3. QED
      BY <1>3, <3>1, <3>2
  <2>7. Assembling'
    BY <1>1, <1>2, <2>2, <2>3 DEF Assembling
  <2>8. Settled' = count - 1
    BY <1>1, <1>2, <2>2 DEF Settled, LineQuiet
  <2>9. Polled[count - 1] = k /\ measured[k] = a /\ a # Silent
    BY <1>6 DEF k, a, Asked, Silent
  <2>10. \A i \in 1..(count - 2) : Polled[i] # k
    BY <1>1, <2>9, PolledFacts
  <2>11. \A i \in 1..(count - 1) : Taken(Polled[i])'
    <3> SUFFICES ASSUME NEW i \in 1..(count - 1) PROVE Taken(Polled[i])'
      OBVIOUS
    <3>1. CASE i = count - 1
      BY <1>2, <2>6, <2>9, <3>1 DEF Taken
    <3>2. CASE i # count - 1
      <4>1. i \in 1..(count - 2)
        BY <1>1, <3>2
      <4>2. QED
        BY <1>2, <1>11, <2>6, <2>10, <4>1 DEF Taken
    <3>3. QED
      BY <3>1, <3>2
  <2>12. rx_count' = count - 1 => \A i \in 1..(count - 1) : measured[Polled[i]] # Silent
    <3> SUFFICES ASSUME rx_count' = count - 1, NEW i \in 1..(count - 1)
                 PROVE  measured[Polled[i]] # Silent
      OBVIOUS
    <3>1. rx_count = count - 2
      BY <1>1, <1>3, <2>5
    <3>2. i = count - 1 \/ i \in 1..(count - 2)
      BY <1>1
    <3>3. QED
      BY <1>11, <2>9, <3>1, <3>2
  <2>13. rx_count' <= count - 1
    BY <1>1, <1>3, <1>11, <2>5
  <2>14. Counted'
    BY <1>1, <1>2, <1>11, <2>8, <2>11, <2>12, <2>13 DEF Counted
  <2>15. QED
    BY <1>12, <2>7, <2>14
<1>16. CASE Len(rx) < 6
  <2>1. Collect(c)
    <3>1. Len(rx) # LEN_PZEM_RESP - 1
      BY <1>14, <1>16, Zenon
    <3>2. QED
      BY <1>2, <3>1, Zenon DEF uart1_callback, c
  <2>2. rx # <<>> \/ is_PZEM_1st_byte(c)
    BY <1>3, <1>4, <1>6, <1>8, <1>9 DEF is_PZEM_1st_byte
  <2>3. rx' = Append(rx, c) /\ PZEM_data_t' = PZEM_data_t /\ rx_count' = rx_count
    BY <2>1, <2>2 DEF Collect
  <2>4. wire' # <<>>
    <3>1. Len(wire') > 0
      BY <1>1, <1>2, <1>8, <1>16
    <3>2. QED
      BY <3>1
  <2>5. Settled' = count - 2
    BY <1>1, <1>2, <2>4 DEF Settled, LineQuiet
  <2>6. Whole(Asked)'
    BY <1>2, <1>5, <1>13, Zenon DEF Whole, a, k
  <2>7. Len(rx') + Len(wire') = 7
    BY <1>1, <1>2, <1>8, <1>10, <2>3
  <2>8. measured'[Asked'] = a
    BY <1>2, <1>13 DEF a
  <2>9. \A i \in 1..Len(rx') : rx'[i] = a[i]
    BY <1>10, <2>3
  <2>10. \A i \in 1..Len(wire') : wire'[i] = a[Len(rx') + i]
    <3> SUFFICES ASSUME NEW i \in 1..Len(wire') PROVE wire'[i] = a[Len(rx') + i]
      OBVIOUS
    <3>1. i + 1 \in 1..Len(wire) /\ wire'[i] = wire[i + 1]
      BY <1>2, <1>8
    <3>2. wire[i + 1] = a[Len(rx) + (i + 1)]
      BY <1>7, <3>1
    <3>3. Len(rx) + (i + 1) = Len(rx') + i
      BY <1>2, <1>8, <1>10, <2>3
    <3>4. QED
      BY <3>1, <3>2, <3>3
  <2>11. Assembling'
    BY <1>1, <1>2, <2>4, <2>6, <2>7, <2>8, <2>9, <2>10 DEF Assembling
  <2>12. \A i \in 1..(count - 2) : Taken(Polled[i])'
    BY <1>2, <1>11, <2>3 DEF Taken
  <2>13. Counted'
    BY <1>1, <1>2, <1>11, <2>3, <2>5, <2>12 DEF Counted
  <2>14. QED
    BY <1>12, <2>11, <2>13
<1>17. QED
  BY <1>14, <1>15, <1>16, Zenon

\* Every step keeps the invariant as long as the line loses no byte and adds
\* none.
LEMMA CycleStep ==
  ASSUME Disturbances \subseteq {"no_answer"}, CycleInv, [Next]_vars
  PROVE  CycleInv'
<1>1. TypeInv'
  BY TypeStep DEF CycleInv
<1>2. ~LoseByte /\ ~Noise
  BY DEF LoseByte, Noise
<1>3. MeasuredOK' /\ Assembling' /\ Counted' /\ Packing'
  <2>1. CASE UNCHANGED vars
    BY <2>1 DEF vars, process, driver, meter, CycleInv, MeasuredOK, Assembling, Counted, Packing,
       Settled, LineQuiet, Asked, Whole, Taken
  <2>2. QED
    BY <1>2, <2>1, PollKeeps, PackFirstKeeps, CycleEnds, AnswerKeeps, NoAnswerKeeps, ReceiveKeeps
       DEF Next, NodeSide
<1>4. QED
  BY <1>1, <1>3 DEF CycleInv

\* A cycle starts with nothing measured.
LEMMA CycleInit == Init => CycleInv
<1> SUFFICES ASSUME Init PROVE CycleInv
  OBVIOUS
<1>1. MeasuredOK
  BY DEF Init, MeasuredOK, Unmeasured, Silent
<1>2. Assembling /\ Counted /\ Packing
  BY DEF Init, Assembling, Counted, Packing
<1>3. QED
  BY <1>1, <1>2, TypeInit DEF CycleInv

\* While the line loses no byte and adds none, the assembler and the line hold
\* the answer to the last command between them, and as many answers have been
\* accepted as commands settled only if each was answered and taken
\* (server.c:131-159, 402-457).
THEOREM CycleInvariance ==
  ASSUME Disturbances \subseteq {"no_answer"}
  PROVE  Spec => []CycleInv
<1>1. Init => CycleInv
  BY CycleInit
<1>2. CycleInv /\ [Next]_vars => CycleInv'
  BY CycleStep
<1>3. QED
  BY <1>1, <1>2, PTL DEF Spec

\* On such a line every report carries what the meter measured in its cycle,
\* whatever it measures and however many commands it leaves unanswered
\* (server.c:448, PZEM004T.c:97-140).
THEOREM ReportsAreMeasured ==
  ASSUME Disturbances \subseteq {"no_answer"}
  PROVE  Spec => ReportsWhatWasMeasured
<1> DEFINE Step == packing /\ ~packing' =>
             \A k \in Value : measured[k] # Silent /\ report'[k] = Decode(measured[k])
<1>1. CycleInv /\ [Next]_vars => [Step]_vars
  <2> SUFFICES ASSUME CycleInv, [Next]_vars, packing, ~packing' PROVE Step
    OBVIOUS
  <2>1. PackRest
    BY DEF Next, NodeSide, Poll, PackFirst, send2bor_emergency, MeterAnswers, ReceiveByte, NoAnswer,
       LoseByte, Noise, process, vars
  <2>2. /\ \A k \in Value : measured[k] # Silent /\ PZEM_data_t[k] = Decode(measured[k])
        /\ \A k \in {RESP_VOLTAGE, RESP_CURRENT} : report[k] = Decode(measured[k])
    BY DEF CycleInv, Packing
  <2>3. /\ report'[RESP_POWER] = PZEM_data_t[RESP_POWER]
        /\ report'[RESP_ENERGY] = PZEM_data_t[RESP_ENERGY]
        /\ report'[RESP_VOLTAGE] = report[RESP_VOLTAGE]
        /\ report'[RESP_CURRENT] = report[RESP_CURRENT]
    <3>1. report \in [Value -> Field]
      BY DEF CycleInv, TypeInv, ProcessOK
    <3>2. QED
      BY <2>1, <3>1 DEF PackRest, Value, RESP_VOLTAGE, RESP_CURRENT, RESP_POWER, RESP_ENERGY
  <2>4. QED
    BY <2>2, <2>3, Codes
<1>2. QED
  BY <1>1, CycleInvariance, PTL DEF Spec, ReportsWhatWasMeasured
=============================================================================
