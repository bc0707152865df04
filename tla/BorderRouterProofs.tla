------------------------- MODULE BorderRouterProofs -------------------------
(***************************************************************************)
(* Proofs about BorderRouter, for every set of prefixes, nodes and hosts   *)
(* that keeps PrefixAssumption, and every bound of the line.               *)
(***************************************************************************)
EXTENDS BorderRouter, SequenceTheorems, TLAPS

-----------------------------------------------------------------------------
(* What lies on the line *)

Line == <<END, CR, Text, NL, END>>
Sent(f) == <<END, f, END>>

\* What the router may write: its own frames, but no packet of a host.
Outgoing == {AskPrefix, Mac} \cup {Packet(a) : a \in (Two \X Rest) \ Host}

\* Every token stands beside the ones its line or frame requires.
Framed(s) ==
  /\ s # <<>> => s[Len(s)] = END
  /\ \A k \in 1..Len(s) :
       /\ s[k] = CR => /\ k + 3 \in 1..Len(s) /\ s[k + 1] = Text
                       /\ s[k + 2] = NL /\ s[k + 3] = END
       /\ s[k] \in ToHost => k + 1 \in 1..Len(s) /\ s[k + 1] = END
       /\ s[k] = Text => k - 1 \in 1..Len(s) /\ s[k - 1] = CR
       /\ s[k] = NL => k - 1 \in 1..Len(s) /\ s[k - 1] = Text

\* No line is open, and no packet of a host is on the way back.
Clean(t) ==
  /\ t \in [out : Seq(Token), debug_frame : {FALSE}]
  /\ Framed(t.out)
  /\ \A k \in 1..Len(t.out) : \A h \in Host : t.out[k] # Packet(h)

LEMMA TokensDiffer ==
  /\ END # CR /\ END # Text /\ END # NL /\ CR # Text /\ CR # NL /\ Text # NL
  /\ \A f \in ToHost : f # END /\ f # CR /\ f # Text /\ f # NL
  BY SMT DEF END, CR, Text, NL, ToHost, AskPrefix, Mac, Packet

LEMMA OutgoingNotBounced ==
  /\ Outgoing \subseteq ToHost
  /\ \A h \in Host : /\ Packet(h) \notin Outgoing
                     /\ Packet(h) # END /\ Packet(h) # CR
                     /\ Packet(h) # Text /\ Packet(h) # NL
<1>1. Outgoing \subseteq ToHost
  BY DEF Outgoing, ToHost
<1>2. ASSUME NEW h \in Host PROVE Packet(h) \notin Outgoing
  BY SMT DEF Outgoing, Packet, AskPrefix, Mac
<1>3. ASSUME NEW h \in Host
      PROVE Packet(h) # END /\ Packet(h) # CR /\ Packet(h) # Text /\ Packet(h) # NL
  BY SMT DEF Packet, END, CR, Text, NL
<1>4. QED
  BY <1>1, <1>2, <1>3

\* One line of output, when none is open.
LEMMA PrintLineIs ==
  ASSUME NEW t, t \in [out : Seq(Token), debug_frame : {FALSE}]
  PROVE  PrintLine(t) = [out |-> t.out \o Line, debug_frame |-> FALSE]
<1> DEFINE one == putchar(t, Text)
<1>1. one = [out |-> t.out \o <<END, CR>> \o <<Text>>, debug_frame |-> TRUE]
  BY TokensDiffer DEF putchar
<1>2. one.out = t.out \o <<END, CR>> \o <<Text>> /\ one.debug_frame
  BY <1>1
<1>3. putchar(one, NL)
      = [out |-> one.out \o <<>> \o <<NL, END>>, debug_frame |-> FALSE]
  BY <1>2 DEF putchar
<1>4. PrintLine(t) = putchar(one, NL)
  BY DEF PrintLine
<1>5. t.out \o <<END, CR>> \o <<Text>> \o <<>> \o <<NL, END>> = t.out \o Line
  BY SMT DEF Line, Token
<1>6. QED
  BY <1>2, <1>3, <1>4, <1>5

\* What is framed stays so when more is written behind it.
LEMMA FramedJoin ==
  ASSUME NEW s \in Seq(Token), NEW x \in Seq(Token), Framed(s), Framed(x)
  PROVE  s \o x \in Seq(Token) /\ Framed(s \o x)
<1> DEFINE w == s \o x
           n == Len(s)
<1>1. w \in Seq(Token) /\ Len(w) = n + Len(x) /\ n \in Nat /\ Len(x) \in Nat
  OBVIOUS
<1>2. /\ \A k \in 1..n : w[k] = s[k]
      /\ \A k \in 1..Len(x) : w[n + k] = x[k]
  OBVIOUS
<1>3. w # <<>> => w[Len(w)] = END
  <2>1. CASE x = <<>>
    BY <2>1, <1>1, <1>2, SMT DEF Framed
  <2>2. CASE x # <<>>
    <3>1. Len(x) \in 1..Len(x)
      BY <2>2, SMT
    <3>2. QED
      BY <2>2, <3>1, <1>1, <1>2 DEF Framed
  <2>3. QED
    BY <2>1, <2>2
<1>4. ASSUME NEW k \in 1..Len(w)
      PROVE  /\ w[k] = CR => /\ k + 3 \in 1..Len(w) /\ w[k + 1] = Text
                             /\ w[k + 2] = NL /\ w[k + 3] = END
             /\ w[k] \in ToHost => k + 1 \in 1..Len(w) /\ w[k + 1] = END
             /\ w[k] = Text => k - 1 \in 1..Len(w) /\ w[k - 1] = CR
             /\ w[k] = NL => k - 1 \in 1..Len(w) /\ w[k - 1] = Text
  <2>1. CASE k \in 1..n
    BY <2>1, <1>1, <1>2, SMT DEF Framed
  <2>2. CASE k \notin 1..n
    <3>1. PICK i \in 1..Len(x) : k = n + i
      <4>1. k - n \in 1..Len(x) /\ k = n + (k - n)
        BY <2>2, <1>1, SMT
      <4>2. QED
        BY <4>1
    <3>2. w[k] = x[i]
      BY <3>1, <1>2
    <3>3. \A d \in {1, 2, 3} : i + d \in 1..Len(x) =>
            k + d \in 1..Len(w) /\ w[k + d] = x[i + d]
      <4>1. \A d \in {1, 2, 3} : k + d = n + (i + d)
        BY <3>1, <1>1, SMT
      <4>2. QED
        BY <4>1, <1>1, <1>2, SMT
    <3>4. i - 1 \in 1..Len(x) => k - 1 \in 1..Len(w) /\ w[k - 1] = x[i - 1]
      <4>1. k - 1 = n + (i - 1)
        BY <3>1, <1>1, SMT
      <4>2. QED
        BY <4>1, <1>1, <1>2, SMT
    <3>5. /\ x[i] = CR => /\ i + 3 \in 1..Len(x) /\ x[i + 1] = Text
                          /\ x[i + 2] = NL /\ x[i + 3] = END
          /\ x[i] \in ToHost => i + 1 \in 1..Len(x) /\ x[i + 1] = END
          /\ x[i] = Text => i - 1 \in 1..Len(x) /\ x[i - 1] = CR
          /\ x[i] = NL => i - 1 \in 1..Len(x) /\ x[i - 1] = Text
      BY DEF Framed
    <3>6. i + 3 \in 1..Len(x) => i + 1 \in 1..Len(x) /\ i + 2 \in 1..Len(x)
      BY SMT
    <3>7. QED
      BY <3>2, <3>3, <3>4, <3>5, <3>6
  <2>3. QED
    BY <2>1, <2>2
<1>5. QED
  BY <1>1, <1>3, <1>4 DEF Framed

LEMMA LineFramed == Line \in Seq(Token) /\ Framed(Line)
<1>1. /\ Line \in Seq(Token) /\ Len(Line) = 5
      /\ Line[1] = END /\ Line[2] = CR /\ Line[3] = Text
      /\ Line[4] = NL /\ Line[5] = END
  BY SMT DEF Line, Token
<1>2. \A k \in 1..5 : k = 1 \/ k = 2 \/ k = 3 \/ k = 4 \/ k = 5
  BY SMT
<1>3. QED
  BY <1>1, <1>2, TokensDiffer, SMT DEF Framed

LEMMA SentFramed ==
  ASSUME NEW f \in ToHost
  PROVE  Sent(f) \in Seq(Token) /\ Framed(Sent(f))
<1>1. /\ Sent(f) \in Seq(Token) /\ Len(Sent(f)) = 3
      /\ Sent(f)[1] = END /\ Sent(f)[2] = f /\ Sent(f)[3] = END
  BY SMT DEF Sent, Token
<1>2. \A k \in 1..3 : k = 1 \/ k = 2 \/ k = 3
  BY SMT
<1>3. QED
  BY <1>1, <1>2, TokensDiffer, SMT DEF Framed

\* What is left when a frame has been taken off, and that frame.
LEMMA FrameTaken ==
  ASSUME NEW s \in Seq(Token), Framed(s), NEW k \in 1..Len(s),
         s[k] = END, \A j \in 1..(k - 1) : s[j] # END
  PROVE  /\ SubSeq(s, k + 1, Len(s)) \in Seq(Token)
         /\ Framed(SubSeq(s, k + 1, Len(s)))
         /\ SubSeq(s, 1, k - 1) \in
              {<<>>, <<CR, Text, NL>>} \cup {<<f>> : f \in ToHost}
<1> DEFINE r == SubSeq(s, k + 1, Len(s))
           f == SubSeq(s, 1, k - 1)
<1>1. /\ r \in Seq(Token) /\ Len(r) = Len(s) - k
      /\ \A i \in 1..Len(r) : r[i] = s[k + i] /\ k + i \in 1..Len(s)
  BY SMT
<1>2. Framed(r)
  <2>1. ASSUME r # <<>> PROVE r[Len(r)] = END
    <3>1. Len(r) \in 1..Len(r)
      BY <2>1, <1>1, SMT
    <3>2. r[Len(r)] = s[k + Len(r)]
      BY <3>1, <1>1
    <3>3. k + Len(r) = Len(s)
      BY <1>1, SMT
    <3>4. s # <<>>
      BY SMT
    <3>5. QED
      BY <3>2, <3>3, <3>4 DEF Framed
  <2>2. ASSUME NEW i \in 1..Len(r)
        PROVE  /\ r[i] = CR => /\ i + 3 \in 1..Len(r) /\ r[i + 1] = Text
                               /\ r[i + 2] = NL /\ r[i + 3] = END
               /\ r[i] \in ToHost => i + 1 \in 1..Len(r) /\ r[i + 1] = END
               /\ r[i] = Text => i - 1 \in 1..Len(r) /\ r[i - 1] = CR
               /\ r[i] = NL => i - 1 \in 1..Len(r) /\ r[i - 1] = Text
    <3>1. r[i] = s[k + i] /\ k + i \in 1..Len(s)
      BY <1>1
    <3>2. /\ s[k + i] = CR => /\ (k + i) + 3 \in 1..Len(s) /\ s[(k + i) + 1] = Text
                              /\ s[(k + i) + 2] = NL /\ s[(k + i) + 3] = END
          /\ s[k + i] \in ToHost => (k + i) + 1 \in 1..Len(s) /\ s[(k + i) + 1] = END
          /\ s[k + i] = Text => (k + i) - 1 \in 1..Len(s) /\ s[(k + i) - 1] = CR
          /\ s[k + i] = NL => (k + i) - 1 \in 1..Len(s) /\ s[(k + i) - 1] = Text
      BY <3>1 DEF Framed
    <3>3. \A d \in {1, 2, 3} : (k + i) + d \in 1..Len(s) =>
            i + d \in 1..Len(r) /\ r[i + d] = s[(k + i) + d]
      <4>1. \A d \in {1, 2, 3} : (k + i) + d = k + (i + d)
        BY SMT
      <4>2. QED
        BY <4>1, <1>1, SMT
    <3>4. i > 1 => i - 1 \in 1..Len(r) /\ r[i - 1] = s[(k + i) - 1]
      <4>1. (k + i) - 1 = k + (i - 1)
        BY SMT
      <4>2. i > 1 => i - 1 \in 1..Len(r)
        BY SMT
      <4>3. QED
        BY <4>1, <4>2, <1>1
    <3>5. CASE i = 1
      <4>1. (k + i) - 1 = k /\ s[(k + i) - 1] # CR /\ s[(k + i) - 1] # Text
        BY <3>5, TokensDiffer, SMT
      <4>2. (k + i) + 3 \in 1..Len(s) =>
              (k + i) + 1 \in 1..Len(s) /\ (k + i) + 2 \in 1..Len(s)
        BY SMT
      <4>3. QED
        BY <4>1, <4>2, <3>1, <3>2, <3>3
    <3>6. CASE i # 1
      <4>1. i > 1
        BY <3>6, SMT
      <4>2. (k + i) + 3 \in 1..Len(s) =>
              (k + i) + 1 \in 1..Len(s) /\ (k + i) + 2 \in 1..Len(s)
        BY SMT
      <4>3. QED
        BY <4>1, <4>2, <3>1, <3>2, <3>3, <3>4
    <3>7. QED
      BY <3>5, <3>6
  <2>3. QED
    BY <2>1, <2>2 DEF Framed
<1>3. f \in {<<>>, <<CR, Text, NL>>} \cup {<<g>> : g \in ToHost}
  <2>1. 1 \in 1..Len(s) /\ k \in Nat
    BY SMT
  <2>2. s[1] \in Token
    BY <2>1
  <2>3. CASE s[1] = END
    <3>1. k = 1
      BY <2>1, <2>3, SMT
    <3>2. f = <<>>
      BY <3>1, SMT
    <3>3. QED
      BY <3>2
  <2>4. CASE s[1] = CR
    <3>1. s[2] = Text /\ s[3] = NL /\ s[4] = END /\ 4 \in 1..Len(s)
      BY <2>1, <2>4, SMT DEF Framed
    <3>2. k = 4
      BY <2>4, <3>1, TokensDiffer, SMT
    <3>3. f = <<s[1], s[2], s[3]>>
      <4>1. k - 1 = 3 /\ f \in Seq(Token)
        BY <3>2, SMT
      <4>2. Len(f) = 3 /\ f[1] = s[1] /\ f[2] = s[2] /\ f[3] = s[3]
        BY <3>1, <4>1, SMT
      <4> DEFINE t == <<s[1], s[2], s[3]>>
      <4>3. t \in Seq(Token) /\ Len(t) = 3
        BY <3>1, SMT
      <4>4. \A i \in 1..Len(f) : f[i] = t[i]
        BY <4>2, SMT
      <4>5. QED
        BY <4>1, <4>2, <4>3, <4>4, SeqEqual
    <3>4. QED
      BY <2>4, <3>1, <3>3
  <2>5. CASE s[1] \in ToHost
    <3>1. s[2] = END /\ 2 \in 1..Len(s)
      BY <2>1, <2>5, SMT DEF Framed
    <3>2. k = 2
      BY <2>5, <3>1, TokensDiffer, SMT
    <3>3. f = <<s[1]>>
      <4>1. k - 1 = 1 /\ f \in Seq(Token)
        BY <3>2, SMT
      <4>2. Len(f) = 1 /\ f[1] = s[1]
        BY <3>1, <4>1, SMT
      <4> DEFINE t == <<s[1]>>
      <4>3. t \in Seq(Token) /\ Len(t) = 1
        BY <2>2, SMT
      <4>4. \A i \in 1..Len(f) : f[i] = t[i]
        BY <4>2, SMT
      <4>5. QED
        BY <4>1, <4>2, <4>3, <4>4, SeqEqual
    <3>4. QED
      BY <2>5, <3>3
  <2>6. s[1] # Text /\ s[1] # NL
    BY <2>1, SMT DEF Framed
  <2>7. QED
    BY <2>2, <2>3, <2>4, <2>5, <2>6 DEF Token
<1>4. QED
  BY <1>1, <1>2, <1>3

LEMMA Joined ==
  ASSUME NEW t, Clean(t), NEW x \in Seq(Token), Framed(x),
         \A k \in 1..Len(x) : \A h \in Host : x[k] # Packet(h)
  PROVE  Clean([out |-> t.out \o x, debug_frame |-> FALSE])
<1> DEFINE w == t.out \o x
<1>1. t.out \in Seq(Token) /\ Framed(t.out)
  BY DEF Clean
<1>2. w \in Seq(Token) /\ Framed(w)
  BY <1>1, FramedJoin
<1>3. ASSUME NEW k \in 1..Len(w), NEW h \in Host PROVE w[k] # Packet(h)
  <2>1. Len(w) = Len(t.out) + Len(x) /\ Len(t.out) \in Nat /\ Len(x) \in Nat
    BY <1>1
  <2>2. CASE k \in 1..Len(t.out)
    BY <2>2, <1>1 DEF Clean
  <2>3. CASE k \notin 1..Len(t.out)
    <3>1. k - Len(t.out) \in 1..Len(x)
      BY <2>1, <2>3, SMT
    <3>2. w[k] = x[k - Len(t.out)]
      BY <1>1, <2>1, <2>3, <3>1, SMT
    <3>3. QED
      BY <3>1, <3>2
  <2>4. QED
    BY <2>2, <2>3
<1>4. QED
  BY <1>2, <1>3 DEF Clean

LEMMA PrintKeeps == ASSUME NEW t, Clean(t) PROVE Clean(PrintLine(t))
<1>1. PrintLine(t) = [out |-> t.out \o Line, debug_frame |-> FALSE]
  BY PrintLineIs DEF Clean
<1>2. \A k \in 1..Len(Line) : \A h \in Host : Line[k] # Packet(h)
  <2>1. Len(Line) = 5 /\ \A k \in 1..5 : Line[k] \in {END, CR, Text, NL}
    BY SMT DEF Line
  <2>2. QED
    BY <2>1, OutgoingNotBounced
<1>3. QED
  BY <1>1, <1>2, LineFramed, Joined

LEMMA SendKeeps ==
  ASSUME NEW t, Clean(t), NEW f \in Outgoing PROVE Clean(slip_send(t, f))
<1>1. slip_send(t, f) = [out |-> t.out \o Sent(f), debug_frame |-> FALSE]
  <2>1. t.debug_frame = FALSE
    BY DEF Clean
  <2>2. QED
    BY <2>1 DEF slip_send, Sent
<1>2. \A k \in 1..Len(Sent(f)) : \A h \in Host : Sent(f)[k] # Packet(h)
  <2>1. Len(Sent(f)) = 3 /\ \A k \in 1..3 : Sent(f)[k] \in {END, f}
    BY SMT DEF Sent
  <2>2. QED
    BY <2>1, OutgoingNotBounced
<1>3. Sent(f) \in Seq(Token) /\ Framed(Sent(f))
  BY SentFramed, OutgoingNotBounced
<1>4. QED
  BY <1>1, <1>2, <1>3, Joined

-----------------------------------------------------------------------------
(* The invariant *)

\* Every answer on the way carries a prefix the host gave out.
AnswersGiven ==
  \A k \in 1..Len(toRouter) : \A p \in Prefix :
    toRouter[k] = Config(p) => p \in given

IInv ==
  /\ TypeOK /\ Clean(tx) /\ FramesIntact
  /\ RadioOnlyAsRoot /\ (prefix_set => dag # None)
  /\ RootOnHostsPrefix /\ AnswersGiven
  /\ last_sender \notin Node

LEMMA InitGood == Init => IInv
<1> SUFFICES ASSUME Init PROVE IInv
  OBVIOUS
<1>1. tx.out = <<>> /\ tx \in [out : Seq(Token), debug_frame : {FALSE}]
  BY DEF Init
<1>2. Clean(tx)
  <2>1. Len(tx.out) = 0 /\ 1..Len(tx.out) = {}
    BY <1>1, SMT
  <2>2. Framed(tx.out)
    BY <1>1, <2>1 DEF Framed
  <2>3. QED
    BY <1>1, <2>1, <2>2 DEF Clean
<1>3. TypeOK
  <2>1. Zero \in Two /\ Zero \in Six /\ Zero \in Rest
    BY AddressAssumption
  <2>2. /\ thread \in {"paused", "asking", "up"}
        /\ timer \in {"none", "running", "expired"}
        /\ prefix_set \in BOOLEAN /\ radio \in BOOLEAN
        /\ addrs \subseteq Prefix /\ dag \in Prefix \cup {None}
        /\ given \subseteq Prefix
    BY DEF Init
  <2>3. prefix \in Six \X Two /\ uip_buf \in Six \X Two \X Rest
        /\ last_sender \in Two \X Rest
    BY <2>1 DEF Init
  <2>4. toRouter \in Seq(FromHost) /\ seen \in Seq(Token)
        /\ tx \in [out : Seq(Token), debug_frame : BOOLEAN]
    BY <1>1, EmptySeq DEF Init
  <2>5. QED
    BY <2>2, <2>3, <2>4 DEF TypeOK
<1>4. last_sender \notin Node
  BY PrefixAssumption, SMT DEF Init
<1>5. FramesIntact /\ RadioOnlyAsRoot /\ RootOnHostsPrefix /\ AnswersGiven
      /\ (prefix_set => dag # None)
  BY SMT DEF Init, FramesIntact, RadioOnlyAsRoot, RootOnHostsPrefix, AnswersGiven
<1>6. QED
  BY <1>2, <1>3, <1>4, <1>5 DEF IInv

LEMMA ContinueGood == IInv /\ Continue => IInv'
<1> SUFFICES ASSUME IInv, Continue PROVE IInv'
  OBVIOUS
<1>1. UNCHANGED <<prefix_set, prefix, addrs, dag, uip_buf, last_sender,
                  toRouter, seen, given>>
  BY DEF Continue, host
<1>2. Clean(tx')
  BY PrintKeeps, SendKeeps DEF IInv, Continue, AskOrComeUp, Ask, ComeUp, Outgoing
<1>3. thread' \in {"asking", "up"} /\ timer' \in {"none", "running"}
      /\ radio' \in BOOLEAN /\ (radio' => prefix_set \/ radio)
  BY DEF IInv, TypeOK, Continue, AskOrComeUp, Ask, ComeUp
<1>4. TypeOK'
  BY <1>1, <1>2, <1>3 DEF IInv, TypeOK, Clean
<1>5. QED
  BY <1>1, <1>2, <1>3, <1>4 DEF IInv, FramesIntact, RadioOnlyAsRoot,
     RootOnHostsPrefix, AnswersGiven

LEMMA TimerGood == IInv /\ TimerExpires => IInv'
<1> SUFFICES ASSUME IInv, TimerExpires PROVE IInv'
  OBVIOUS
<1>1. /\ timer' = "expired"
      /\ UNCHANGED <<thread, prefix_set, prefix, radio, addrs, dag, uip_buf,
                     last_sender, tx, toRouter, seen, given>>
  BY DEF TimerExpires, bridge, host
<1>2. QED
  BY <1>1 DEF IInv, TypeOK, FramesIntact, RadioOnlyAsRoot, RootOnHostsPrefix,
     AnswersGiven

\* A frame is taken off the line to the router: the others keep their places.
LEMMA InputTaken ==
  ASSUME TypeOK, AnswersGiven, toRouter # <<>>, toRouter' = Tail(toRouter),
         given' = given
  PROVE  toRouter' \in Seq(FromHost) /\ AnswersGiven'
<1>1. /\ toRouter' \in Seq(FromHost) /\ Len(toRouter') = Len(toRouter) - 1
      /\ \A i \in 1..Len(toRouter') : toRouter'[i] = toRouter[i + 1]
  BY HeadTailProperties DEF TypeOK
<1>2. \A i \in 1..Len(toRouter') : i + 1 \in 1..Len(toRouter)
  BY <1>1, SMT DEF TypeOK
<1>3. QED
  BY <1>1, <1>2 DEF AnswersGiven

LEMMA LineLosesGood == IInv /\ LineLoses => IInv'
<1> SUFFICES ASSUME IInv, LineLoses PROVE IInv'
  OBVIOUS
<1>1. UNCHANGED <<thread, timer, prefix_set, prefix, radio, addrs, dag, uip_buf,
                  last_sender, tx, seen, given>>
  BY DEF LineLoses, router, bridge
<1>2. toRouter' \in Seq(FromHost) /\ AnswersGiven'
  BY <1>1, InputTaken DEF IInv, LineLoses
<1>3. QED
  BY <1>1, <1>2 DEF IInv, TypeOK, FramesIntact, RadioOnlyAsRoot, RootOnHostsPrefix

\* The parts of IInv that only router, tx and given touch.
RouterPart ==
  /\ thread \in {"paused", "asking", "up"}
  /\ timer \in {"none", "running", "expired"}
  /\ prefix_set \in BOOLEAN /\ prefix \in Six \X Two
  /\ radio \in BOOLEAN
  /\ addrs \subseteq Prefix /\ dag \in Prefix \cup {None}
  /\ RadioOnlyAsRoot /\ (prefix_set => dag # None) /\ RootOnHostsPrefix

LEMMA SlipInputGood == IInv /\ SlipInput => IInv'
<1> SUFFICES ASSUME IInv, SlipInput PROVE IInv'
  OBVIOUS
<1>1. seen' = seen /\ given' = given
  BY DEF SlipInput
<1>2. toRouter' \in Seq(FromHost) /\ AnswersGiven'
  BY <1>1, InputTaken DEF IInv, SlipInput
<1>3. Head(toRouter) = toRouter[1] /\ 1 \in 1..Len(toRouter)
  <2>1. Len(toRouter) \in Nat \ {0}
    BY EmptySeq DEF IInv, TypeOK, SlipInput
  <2>2. QED
    BY <2>1, SMT DEF IInv, TypeOK
<1>4. ASSUME NEW p \in Prefix, Head(toRouter) = Config(p), Configure(p)
      PROVE  /\ RouterPart' /\ Clean(tx')
             /\ uip_buf' \in Six \X Two \X Rest
             /\ SrcIpAddr(uip_buf') \in (Two \X Rest) \ Node
  <2>1. p \in Six \X Two /\ p = <<p[1], p[2]>> /\ p # None
    BY AddressAssumption
  <2>2. p \in given
    BY <1>3, <1>4 DEF IInv, AnswersGiven
  <2>3. uip_buf[3] \in Rest
    BY DEF IInv, TypeOK
  <2>4. uip_buf' = <<p[1], p[2], uip_buf[3]>> /\ uip_buf' \in Six \X Two \X Rest
    BY <1>4, <2>1, <2>3 DEF Configure
  <2>5. <<uip_buf'[1], uip_buf'[2]>> = p
    BY <2>1, <2>4
  <2>6. set_prefix_64(p)
    BY <1>4, <2>5 DEF Configure
  <2>7. SrcIpAddr(uip_buf') = <<p[2], uip_buf[3]>>
    BY <2>4 DEF SrcIpAddr
  <2>8. SrcIpAddr(uip_buf') \notin Node
    BY <2>7, PrefixAssumption
  <2>9. Clean(tx')
    BY <1>4, PrintKeeps DEF IInv, Configure
  <2>10. RouterPart'
    BY <1>1, <2>1, <2>2, <2>6 DEF IInv, TypeOK, RouterPart, set_prefix_64,
       RadioOnlyAsRoot, RootOnHostsPrefix
  <2>11. QED
    BY <2>1, <2>3, <2>4, <2>7, <2>8, <2>9, <2>10
<1>5. ASSUME UNCHANGED router PROVE RouterPart'
  BY <1>1, <1>5 DEF router, IInv, TypeOK, RouterPart, RadioOnlyAsRoot,
     RootOnHostsPrefix
<1>6. ASSUME AnswerMac
      PROVE  /\ RouterPart' /\ Clean(tx')
             /\ uip_buf' \in Six \X Two \X Rest
             /\ SrcIpAddr(uip_buf') \in (Two \X Rest) \ Node
  <2>1. uip_buf' = <<Hex, Hex, Hex>> /\ Hex \in Six /\ Hex \in Two /\ Hex \in Rest
    BY <1>6, AddressAssumption DEF AnswerMac
  <2>2. SrcIpAddr(uip_buf') = <<Hex, Hex>>
    BY <2>1 DEF SrcIpAddr
  <2>3. <<Hex, Hex>> \notin Node
    BY PrefixAssumption, SMT
  <2>4. Clean(tx')
    BY <1>6, PrintKeeps, SendKeeps DEF IInv, AnswerMac, Outgoing
  <2>5. QED
    BY <1>5, <1>6, <2>1, <2>2, <2>3, <2>4 DEF AnswerMac
<1>7. ASSUME NEW h \in Host, Route(h)
      PROVE  /\ RouterPart' /\ Clean(tx')
             /\ uip_buf' \in Six \X Two \X Rest
             /\ SrcIpAddr(uip_buf') \in (Two \X Rest) \ Node
  <2>1. h \in Two \X Rest /\ h \notin Node /\ h = <<h[1], h[2]>>
    BY AddressAssumption, PrefixAssumption
  <2>2. uip_buf' = <<Zero, h[1], h[2]>> /\ Zero \in Six
    BY <1>7, AddressAssumption DEF Route
  <2>3. SrcIpAddr(uip_buf') = h
    BY <2>1, <2>2 DEF SrcIpAddr
  <2>4. output(tx, uip_buf', SavedSender(uip_buf, uip_buf')) = PrintLine(tx)
    BY DEF output, SavedSender
  <2>5. Clean(tx')
    BY <1>7, <2>4, PrintKeeps DEF IInv, Route
  <2>6. QED
    BY <1>5, <1>7, <2>1, <2>2, <2>3, <2>5 DEF Route
<1>8. /\ RouterPart' /\ Clean(tx')
      /\ uip_buf' \in Six \X Two \X Rest
      /\ SrcIpAddr(uip_buf') \in (Two \X Rest) \ Node
  BY <1>4, <1>6, <1>7 DEF SlipInput
<1>9. last_sender' = SrcIpAddr(uip_buf')
  BY DEF SlipInput, SavedSender
<1>10. FramesIntact' /\ seen' \in Seq(Token) /\ given' \subseteq Prefix
  BY <1>1 DEF IInv, TypeOK, FramesIntact
<1>11. QED
  BY <1>2, <1>8, <1>9, <1>10 DEF IInv, RouterPart, TypeOK, Clean

LEMMA MeshPacketGood ==
  ASSUME IInv, NEW n \in Node, MeshPacket(n)
  PROVE  IInv' /\ tx' = slip_send(tx, Packet(n))
<1>1. n \in Two \X Rest /\ n \notin Host /\ n = <<n[1], n[2]>>
  BY AddressAssumption, PrefixAssumption
<1>2. uip_buf' = <<Zero, n[1], n[2]>> /\ Zero \in Six
  BY AddressAssumption DEF MeshPacket
<1>3. SrcIpAddr(uip_buf') = n
  BY <1>1, <1>2 DEF SrcIpAddr
<1>4. last_sender # n
  BY DEF IInv
<1>5. tx' = slip_send(tx, Packet(n))
  BY <1>3, <1>4 DEF MeshPacket, output
<1>6. Clean(tx')
  BY <1>1, <1>5, SendKeeps DEF IInv, Outgoing
<1>7. UNCHANGED <<thread, timer, prefix_set, prefix, radio, addrs, dag,
                  last_sender, toRouter, seen, given>>
  BY DEF MeshPacket, router, host
<1>8. uip_buf' \in Six \X Two \X Rest
  BY <1>1, <1>2
<1>9. QED
  BY <1>5, <1>6, <1>7, <1>8 DEF IInv, TypeOK, Clean, FramesIntact,
     RadioOnlyAsRoot, RootOnHostsPrefix, AnswersGiven

LEMMA RebootGood == IInv /\ Reboot => IInv'
<1> SUFFICES ASSUME IInv, Reboot PROVE IInv'
  OBVIOUS
<1>1. UNCHANGED <<toRouter, seen, given>>
  BY DEF Reboot, host
<1>2. tx' = tx
  BY DEF IInv, Clean, Reboot
<1>3. Zero \in Two /\ Zero \in Six /\ Zero \in Rest
  BY AddressAssumption
<1>4. prefix' \in Six \X Two /\ uip_buf' \in Six \X Two \X Rest
      /\ last_sender' \in Two \X Rest
  BY <1>3 DEF Reboot
<1>5. last_sender' \notin Node
  BY PrefixAssumption, SMT DEF Reboot
<1>6. RouterPart'
  BY <1>4 DEF Reboot, RouterPart, RadioOnlyAsRoot, RootOnHostsPrefix
<1>7. QED
  BY <1>1, <1>2, <1>4, <1>5, <1>6 DEF IInv, RouterPart, TypeOK, Clean,
     FramesIntact, AnswersGiven

\* What the host reads is whole, and what it leaves is clean.
LEMMA ReadGood ==
  ASSUME IInv, ReadFrame
  PROVE  Clean(tx') /\ FramesIntact' /\ seen' \in Seq(Token)
<1>1. PICK k \in 1..Len(tx.out) :
        /\ tx.out[k] = END /\ \A j \in 1..(k - 1) : tx.out[j] # END
        /\ seen' = SubSeq(tx.out, 1, k - 1)
        /\ tx' = [tx EXCEPT !.out = SubSeq(@, k + 1, Len(@))]
  BY DEF ReadFrame
<1> DEFINE r == SubSeq(tx.out, k + 1, Len(tx.out))
<1>2. tx.out \in Seq(Token) /\ Framed(tx.out) /\ tx \in [out : Seq(Token), debug_frame : {FALSE}]
  BY DEF IInv, Clean
<1>3. /\ r \in Seq(Token) /\ Framed(r)
      /\ seen' \in {<<>>, <<CR, Text, NL>>} \cup {<<f>> : f \in ToHost}
  BY <1>1, <1>2, FrameTaken
<1>4. tx'.out = r /\ tx' \in [out : Seq(Token), debug_frame : {FALSE}]
  BY <1>1, <1>2, <1>3
<1>5. ASSUME NEW i \in 1..Len(r), NEW h \in Host PROVE r[i] # Packet(h)
  <2>1. r[i] = tx.out[k + i] /\ k + i \in 1..Len(tx.out)
    BY <1>2, SMT
  <2>2. QED
    BY <2>1 DEF IInv, Clean
<1>6. Clean(tx')
  BY <1>3, <1>4, <1>5 DEF Clean
<1>7. FramesIntact' /\ seen' \in Seq(Token)
  <2>1. CASE seen' = <<>>
    BY <2>1, EmptySeq DEF FramesIntact
  <2>2. CASE seen' = <<CR, Text, NL>>
    <3>1. CR \in Token /\ Text \in Token /\ NL \in Token
      BY DEF Token
    <3>2. QED
      BY <2>2, <3>1, SMT DEF FramesIntact
  <2>3. CASE \E f \in ToHost : seen' = <<f>>
    <3>1. PICK f \in ToHost : seen' = <<f>>
      BY <2>3
    <3>2. f \in Token
      BY DEF Token
    <3>3. Len(seen') = 1 /\ seen'[1] = f /\ seen' \in Seq(Token)
      BY <3>1, <3>2, SMT
    <3>4. QED
      BY <3>3 DEF FramesIntact
  <2>4. QED
    BY <1>3, <2>1, <2>2, <2>3
<1>8. QED
  BY <1>6, <1>7

LEMMA HostReadsGood == IInv /\ HostReads => IInv'
<1> SUFFICES ASSUME IInv, HostReads PROVE IInv'
  OBVIOUS
<1>1. UNCHANGED <<thread, timer, prefix_set, prefix, radio, addrs, dag, uip_buf,
                  last_sender, toRouter, given>>
  BY DEF HostReads, router
<1>2. Clean(tx') /\ FramesIntact' /\ seen' \in Seq(Token)
  BY ReadGood DEF HostReads
<1>3. QED
  BY <1>1, <1>2 DEF IInv, TypeOK, Clean, RadioOnlyAsRoot, RootOnHostsPrefix,
     AnswersGiven

\* A frame is put on the line to the router; an answer's prefix is given out.
LEMMA FrameReaches ==
  ASSUME TypeOK, AnswersGiven, NEW f \in FromHost, Reach(f),
         given \subseteq given', \A p \in Prefix : f = Config(p) => p \in given'
  PROVE  toRouter' \in Seq(FromHost) /\ AnswersGiven'
<1>1. CASE toRouter' = toRouter
  BY <1>1 DEF TypeOK, AnswersGiven
<1>2. CASE toRouter' = Append(toRouter, f)
  <2>1. /\ toRouter' \in Seq(FromHost) /\ Len(toRouter') = Len(toRouter) + 1
        /\ \A i \in 1..Len(toRouter') :
             \/ i \in 1..Len(toRouter) /\ toRouter'[i] = toRouter[i]
             \/ toRouter'[i] = f
    BY <1>2, SMT DEF TypeOK
  <2>2. QED
    BY <2>1 DEF AnswersGiven
<1>3. QED
  BY <1>1, <1>2 DEF Reach

LEMMA HostAnswersGood == IInv /\ HostAnswers => IInv'
<1> SUFFICES ASSUME IInv, HostAnswers PROVE IInv'
  OBVIOUS
<1>1. UNCHANGED <<thread, timer, prefix_set, prefix, radio, addrs, dag, uip_buf,
                  last_sender>>
  BY DEF HostAnswers, router
<1>2. Clean(tx') /\ FramesIntact' /\ seen' \in Seq(Token)
  BY ReadGood DEF HostAnswers
<1>3. PICK p \in Prefix : Reach(Config(p)) /\ given' = given \cup {p}
  BY DEF HostAnswers
<1>4. Config(p) \in FromHost /\ \A q \in Prefix : Config(p) = Config(q) => p = q
  BY SMT DEF FromHost, Config
<1>5. toRouter' \in Seq(FromHost) /\ AnswersGiven'
  BY <1>3, <1>4, FrameReaches DEF IInv
<1>6. QED
  BY <1>1, <1>2, <1>3, <1>5 DEF IInv, TypeOK, Clean, RadioOnlyAsRoot,
     RootOnHostsPrefix

LEMMA HostSendsGood == IInv /\ HostSends => IInv'
<1> SUFFICES ASSUME IInv, HostSends PROVE IInv'
  OBVIOUS
<1>1. UNCHANGED <<thread, timer, prefix_set, prefix, radio, addrs, dag, uip_buf,
                  last_sender, tx, seen, given>>
  BY DEF HostSends, router, bridge
<1>2. PICK f \in FromHost : Reach(f) /\ \A p \in Prefix : f # Config(p)
  <2>1. AskMac \in FromHost /\ \A h \in Host : Packet(h) \in FromHost
    BY DEF FromHost
  <2>2. \A p \in Prefix : AskMac # Config(p) /\ \A h \in Host : Packet(h) # Config(p)
    BY SMT DEF AskMac, Config, Packet
  <2>3. QED
    BY <2>1, <2>2 DEF HostSends
<1>3. toRouter' \in Seq(FromHost) /\ AnswersGiven'
  BY <1>1, <1>2, FrameReaches DEF IInv
<1>4. QED
  BY <1>1, <1>3 DEF IInv, TypeOK, FramesIntact, RadioOnlyAsRoot, RootOnHostsPrefix

LEMMA StutterGood == IInv /\ UNCHANGED vars => IInv'
  BY DEF vars, router, bridge, host, IInv, TypeOK, FramesIntact,
     RadioOnlyAsRoot, RootOnHostsPrefix, AnswersGiven

-----------------------------------------------------------------------------
(* The theorems *)

\* The inductive invariant holds, whatever is lost and however often the
\* router reboots.
THEOREM RouterInvariance == Spec => []IInv
<1>1. IInv /\ [Next]_vars => IInv'
  BY ContinueGood, TimerGood, SlipInputGood, MeshPacketGood, RebootGood,
     HostReadsGood, HostAnswersGood, HostSendsGood, LineLosesGood, StutterGood
     DEF Next
<1>2. QED
  BY <1>1, InitGood, PTL DEF Spec

\* The variables keep their types.
THEOREM TypeCorrect == Spec => []TypeOK
<1>1. IInv => TypeOK
  BY DEF IInv
<1>2. QED
  BY <1>1, RouterInvariance, PTL

\* The radio is on only while the router has a prefix and is root of a DAG
\* (border-router.c:406-441).
THEOREM RadioSafe == Spec => []RadioOnlyAsRoot
<1>1. IInv => RadioOnlyAsRoot
  BY DEF IInv
<1>2. QED
  BY <1>1, RouterInvariance, PTL

\* The prefix and the DAG are ones the host gave out, and the router has an
\* address under each (border-router.c:382-398).
THEOREM RootGiven == Spec => []RootOnHostsPrefix
<1>1. IInv => RootOnHostsPrefix
  BY DEF IInv
<1>2. QED
  BY <1>1, RouterInvariance, PTL

\* No packet that came over the line goes back over it (slip-bridge.c:107).
THEOREM NeverBounced == Spec => []NoBounce
<1>1. IInv => NoBounce
  BY DEF IInv, Clean, NoBounce
<1>2. QED
  BY <1>1, RouterInvariance, PTL

\* The host finds whole lines and whole frames only (slip-bridge.c:125-149).
THEOREM LineIntact == Spec => []FramesIntact
<1>1. IInv => FramesIntact
  BY DEF IInv
<1>2. QED
  BY <1>1, RouterInvariance, PTL

\* Every packet from the mesh is passed to the host (slip-bridge.c:103-119).
THEOREM MeshPass == Spec => MeshPacketsPass
<1>1. IInv => \A n \in Node : MeshPacket(n) => tx' = slip_send(tx, Packet(n))
  BY MeshPacketGood
<1>2. IInv /\ [Next]_vars =>
        [\A n \in Node : MeshPacket(n) => tx' = slip_send(tx, Packet(n))]_vars
  BY <1>1
<1>3. QED
  BY <1>2, RouterInvariance, PTL DEF Spec, MeshPacketsPass
=============================================================================
