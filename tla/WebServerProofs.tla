-------------------------- MODULE WebServerProofs ---------------------------
(***************************************************************************)
(* Proofs about WebServer, for any number of connections and blocks, any   *)
(* size of the buffer and of a segment, and any two tables whose lines     *)
(* keep WebAssumption.                                                     *)
(***************************************************************************)
EXTENDS WebServer, Recursion, SequenceTheorems, TLAPS

-----------------------------------------------------------------------------
(* The inductive invariant behind TypeOK, BufferFits, SendsWithinBuf and    *)
(* PoolSound.                                                               *)

\* Each live connection has a block of the pool to itself, and no other block
\* is given out: PoolSound, entry by entry.
Owns ==
  /\ \A c \in Client : Live(c) => appstate[c] \in used
  /\ \A b \in used : \E c \in Client : Live(c) /\ appstate[c] = b
  /\ \A c, d \in Client : Live(c) /\ Live(d) /\ appstate[c] = appstate[d] => c = d

\* A handler runs for an open connection that has nothing in flight, and at
\* the head of a loop it finds room for a line.
RunsWithRoom ==
  running # None =>
    /\ conn[running] = "open" /\ unacked[running] = {}
    /\ pc[appstate[running]] = "nbrs" => blen <= BufSize - Margin
    /\ pc[appstate[running]] = "routes" => blen = 0

\* A thread that waits does so in a send, not at the head of a loop.
WaitsInSend ==
  \A c \in Client : conn[c] = "open" /\ c # running =>
    pc[appstate[c]] \notin {"nbrs", "routes"}

IInv ==
  /\ TypeOK
  /\ BufferFits
  /\ SendsWithinBuf
  /\ Owns
  /\ RunsWithRoom
  /\ WaitsInSend

-----------------------------------------------------------------------------
(* The inductive invariant behind PageOfOnlyConnection                      *)

\* How much of the page a client has when the thread of its connection, which
\* has the server for itself, continues at label.
Upto(label) ==
  CASE label = "header" -> <<Text("status")>>
    [] label = "type" -> <<Text("status"), Text("type")>>
    [] label = "top" -> <<Text("status"), Text("type"), Text("TOP")>>
    [] label = "nbrs" -> NeighborPart(IF nbr = 0 THEN NbrMax ELSE nbr - 1)
    [] label = "nbrsent" -> NeighborPart(nbr)
    [] label = "heading" -> RoutePart(0)
    [] label = "routes" -> RoutePart(IF r = 0 THEN RouteMax ELSE r - 1)
    [] label = "route" -> RoutePart(r)
    [] label = "end" -> RoutePart(RouteMax) \o <<Text("end")>>
    [] label = "bottom" -> Page

\* The n cells of buf behind the first p.
Part(p, n) == [i \in 1..n |-> buf[p + i]]

\* What lies between what the client of block b has and that: what is still to be
\* acknowledged, or in the first loop what is not sent yet.
Pending(b, waits) ==
  IF ~waits THEN Part(0, IF pc[b] = "nbrs" THEN blen ELSE 0)
  ELSE IF pc[b] \in DOMAIN Constant THEN <<Text(Constant[pc[b]])>>
  ELSE Part(sendptr[b], sendlen[b])

\* Whatever is transmitted again is what was transmitted first.
InFlight(b) ==
  IF pc[b] \in DOMAIN Constant THEN <<Text(Constant[pc[b]])>>
  ELSE Part(sendptr[b], IF sendlen[b] > Mss THEN Mss ELSE sendlen[b])

\* A client has nothing before its request is read, then the page up to where
\* the thread is but for what is pending, and all of it when the thread is done.
HasPage(c) ==
  LET b == appstate[c]
  IN  /\ stable /\ \A d \in Client : Live(d) => d = c
      /\ ~Live(c) => got[c] = SubSeq(Page, 1, Len(got[c]))
      /\ Live(c) /\ state[b] # "OUTPUT" =>
           got[c] = <<>> /\ unacked[c] = {} /\ running # c
      /\ conn[c] = "closing" /\ state[b] = "OUTPUT" => got[c] = Page
      /\ conn[c] = "open" /\ state[b] = "OUTPUT" =>
           /\ got[c] \o Pending(b, running # c) = Upto(pc[b])
           /\ pc[b] = "nbrsent" => nbr # 0
           /\ pc[b] = "route" => r # 0
           /\ pc[b] \in DOMAIN Constant => sendlen[b] <= 1
           /\ running # c => unacked[c] = {InFlight(b)}

PageSoFar ==
  /\ \A c \in Client : conn[c] = "closed" => unacked[c] = {}
  /\ \A c \in clean : HasPage(c)

-----------------------------------------------------------------------------
(* Facts about the operators *)

\* The assumptions on the constants, one by one.
LEMMA Constants ==
  /\ DOMAIN Constant = {"header", "type", "top", "bottom"}
  /\ \A l \in DOMAIN Constant : Text(Constant[l]) \in Cell
<1>1. DOMAIN Constant = {"header", "type", "top", "bottom"}
  BY DEF Constant
<1>2. \A x \in Texts : Text(x) \in Cell
  BY DEF Cell
<1>3. \A l \in DOMAIN Constant : Constant[l] \in Texts
  BY <1>1 DEF Constant, Texts
<1>4. QED
  BY <1>1, <1>2, <1>3

\* What fits the buffer and its margin.
LEMMA Sizes ==
  /\ BufSize \in Nat /\ Margin \in Nat /\ Mss \in Nat \ {0} /\ BufSize > Margin /\ Margin > 1
  /\ NbrMax \in Nat /\ RouteMax \in Nat
  /\ \A i \in 1..NbrMax : NbrLine[i] \in Nat \ {0} /\ NbrLine[i] < Margin
  /\ \A i \in 1..RouteMax : RouteLine[i] \in Nat \ {0} /\ RouteLine[i] < BufSize
<1>1. BufSize \in Nat /\ Margin \in Nat /\ Mss \in Nat \ {0} /\ BufSize > Margin /\ Margin > 1
  BY WebAssumption DEF WebAssumption
<1>2. NbrMax \in Nat /\ \A i \in 1..NbrMax : NbrLine[i] \in 1..(Margin - 1)
  BY WebAssumption DEF WebAssumption, NbrMax
<1>3. RouteMax \in Nat /\ \A i \in 1..RouteMax : RouteLine[i] \in 1..(BufSize - 1)
  BY WebAssumption DEF WebAssumption, RouteMax
<1>4. QED
  BY <1>1, <1>2, <1>3, SMT

\* The buffer as the linker leaves it.
LEMMA JunkType == Junk \in [1..BufSize -> Cell]
<1>1. Nul \in Cell
  BY DEF Nul, Cell, Texts
<1>2. QED
  BY <1>1 DEF Junk

\* ADD keeps the buffer a buffer.
LEMMA WrittenType ==
  ASSUME TypeOK, NEW x \in Cell, NEW n \in Nat, NEW from \in Nat
  PROVE  Written(x, n, from) \in [1..BufSize -> Cell]
<1>1. Nul \in Cell
  BY DEF Nul, Cell, Texts
<1>2. QED
  BY <1>1, JunkType DEF Written, TypeOK

\* What is transmitted are cells, as long as it lies within the buffer.
LEMMA TransmittedType ==
  ASSUME buf' \in [1..BufSize -> Cell], NEW c \in Client, NEW l \in Label,
         NEW p \in Nat, NEW n \in Nat,
         l \notin DOMAIN Constant => p + n < BufSize
  PROVE  Transmitted(c, l, p, n) \in Seq(Cell)
<1>1. <<>> \in Seq(Cell)
  OBVIOUS
<1>2. CASE l \in DOMAIN Constant
  <2>1. <<Text(Constant[l])>> \in Seq(Cell)
    BY <1>2, Constants
  <2>2. QED
    BY <2>1, <1>1, <1>2 DEF Transmitted, Segment
<1>3. CASE l \notin DOMAIN Constant
  <2> DEFINE k == IF n > Mss THEN Mss ELSE n
  <2>1. k \in Nat /\ k <= n
    BY Sizes, SMT
  <2>2. \A i \in 1..k : p + i \in 1..BufSize
    BY <2>1, <1>3, Sizes, SMT
  <2>3. [i \in 1..k |-> buf'[p + i]] \in [1..k -> Cell]
    BY <2>2
  <2>4. [1..k -> Cell] \subseteq Seq(Cell)
    <3> HIDE DEF k
    <3>1. \A f \in [1..k -> Cell] : f \in UNION {[1..m -> Cell] : m \in Nat}
      BY <2>1
    <3>2. QED
      BY <3>1, SeqDef
  <2>5. QED
    BY <2>3, <2>4, <1>1, <1>3 DEF Transmitted, Segment
<1>4. QED
  BY <1>2, <1>3

\* Entry by entry or as a set, the claim on the pool is the same.
LEMMA OwnsIsSound == Owns => PoolSound
  BY DEF Owns, PoolSound

\* The invariant holds at the start.
LEMMA InitGood == Init => IInv
<1> SUFFICES ASSUME Init PROVE IInv
  OBVIOUS
<1>1. TypeOK
  BY JunkType, Sizes DEF Init, TypeOK, Label, Texts
<1>2. BufferFits /\ SendsWithinBuf
  BY Sizes DEF Init, BufferFits, SendsWithinBuf
<1>3. Owns /\ RunsWithRoom /\ WaitsInSend
  BY DEF Init, Owns, RunsWithRoom, WaitsInSend, Live
<1>4. QED
  BY <1>1, <1>2, <1>3 DEF IInv

-----------------------------------------------------------------------------
(* One lemma for each action *)

\* No block is left: nothing changes.
LEMMA RefuseGood ==
  ASSUME IInv, NEW c \in Client, Refuse(c) PROVE IInv'
  BY DEF Refuse, vars, pool, psock, page, history, IInv, TypeOK, BufferFits,
         SendsWithinBuf, Owns, RunsWithRoom, WaitsInSend, Live

\* The block an open connection has.
LEMMA BlockOf ==
  ASSUME IInv, NEW c \in Client, Live(c)
  PROVE  /\ appstate[c] \in CONNS /\ appstate[c] \in used
         /\ \A d \in Client : Live(d) /\ appstate[d] = appstate[c] => d = c
  BY DEF IInv, TypeOK, Owns

\* An open connection is a live one.
LEMMA OpenIsLive == \A c \in Client : conn[c] = "open" => Live(c)
  BY DEF Live

\* None is neither a client nor a block.
LEMMA NoneIsNobody == None \notin Client /\ None \notin CONNS
  BY WebAssumption DEF WebAssumption

\* Each step of the request's thread, of the connection and of the timer keeps the
\* invariant.
LEMMA ReadMethodGood ==
  ASSUME IInv, NEW c \in Client, ReadMethod(c) PROVE IInv'
<1> USE DEF pool, psock, page, history
<1>1. appstate[c] \in CONNS
  BY BlockOf, OpenIsLive DEF ReadMethod, Event
<1>2. TypeOK'
  BY <1>1 DEF ReadMethod, timer_restart, IInv, TypeOK
<1>3. BufferFits' /\ SendsWithinBuf' /\ Owns' /\ RunsWithRoom' /\ WaitsInSend'
  BY DEF ReadMethod, IInv, BufferFits, SendsWithinBuf, Owns, RunsWithRoom, WaitsInSend, Live
<1>4. QED
  BY <1>2, <1>3 DEF IInv

LEMMA ReadOnGood ==
  ASSUME IInv, NEW c \in Client, ReadOn(c) PROVE IInv'
<1> USE DEF pool, psock, page, history
<1>1. appstate[c] \in CONNS
  BY BlockOf, OpenIsLive DEF ReadOn, Event
<1>2. TypeOK'
  BY <1>1 DEF ReadOn, timer_restart, IInv, TypeOK
<1>3. BufferFits' /\ SendsWithinBuf' /\ Owns' /\ RunsWithRoom' /\ WaitsInSend'
  BY DEF ReadOn, IInv, BufferFits, SendsWithinBuf, Owns, RunsWithRoom, WaitsInSend, Live
<1>4. QED
  BY <1>2, <1>3 DEF IInv

LEMMA RejectGood ==
  ASSUME IInv, NEW c \in Client, Reject(c) PROVE IInv'
<1> USE DEF pool, psock, page, history
<1>1. appstate[c] \in CONNS
  BY BlockOf, OpenIsLive DEF Reject, Event
<1>2. TypeOK'
  BY <1>1 DEF Reject, timer_restart, uip_close, IInv, TypeOK
<1>3. BufferFits' /\ SendsWithinBuf' /\ WaitsInSend'
  BY DEF Reject, uip_close, IInv, TypeOK, BufferFits, SendsWithinBuf, WaitsInSend
<1>4. Owns'
  BY DEF Reject, Event, uip_close, IInv, TypeOK, Owns, Live
<1>5. RunsWithRoom'
  BY DEF Reject, Event, uip_close, IInv, RunsWithRoom
<1>6. QED
  BY <1>2, <1>3, <1>4, <1>5 DEF IInv

LEMMA TimerExpiresGood ==
  ASSUME IInv, NEW b \in CONNS, TimerExpires(b) PROVE IInv'
<1> USE DEF pool, psock, page, history
<1>1. TypeOK'
  BY DEF TimerExpires, IInv, TypeOK
<1>2. BufferFits' /\ SendsWithinBuf' /\ Owns' /\ RunsWithRoom' /\ WaitsInSend'
  BY DEF TimerExpires, IInv, BufferFits, SendsWithinBuf, Owns, RunsWithRoom, WaitsInSend, Live
<1>3. QED
  BY <1>1, <1>2 DEF IInv

\* A step whose thread sends and waits keeps all but the types.
LEMMA SendGood ==
  ASSUME IInv, NEW c \in Client, conn[c] = "open", running \in {None, c},
         NEW l \in Label, NEW n \in Nat, PSOCK_SEND(c, l, n),
         l \notin {"nbrs", "routes"}, l \notin DOMAIN Constant => n < BufSize,
         blen' < BufSize, UNCHANGED <<conn, appstate, used>>
  PROVE  BufferFits' /\ SendsWithinBuf' /\ Owns' /\ RunsWithRoom' /\ WaitsInSend'
<1> DEFINE b == appstate[c]
<1>1. /\ b \in CONNS
      /\ \A d \in Client : conn[d] = "open" /\ appstate[d] = b => d = c
  BY BlockOf, OpenIsLive
<1>2. /\ \A d \in Client : conn[d] = "open" => appstate[d] \in CONNS
      /\ \A d \in Client : conn[d] = "open" /\ d # c => appstate[d] # b
  BY <1>1, BlockOf, OpenIsLive
<1>3. /\ pc'[b] = l /\ sendptr'[b] = 0 /\ sendlen'[b] = n
      /\ \A x \in CONNS \ {b} : /\ pc'[x] = pc[x] /\ sendptr'[x] = sendptr[x]
                                /\ sendlen'[x] = sendlen[x]
      /\ \A d \in Client \ {c} : unacked'[d] = unacked[d]
  BY <1>1 DEF PSOCK_SEND, IInv, TypeOK
<1>4. BufferFits'
  BY DEF BufferFits
<1>5. SendsWithinBuf'
  <2> SUFFICES ASSUME NEW d \in Client, conn[d] = "open", unacked'[d] # {},
                      pc'[appstate[d]] \notin DOMAIN Constant
               PROVE  sendptr'[appstate[d]] + sendlen'[appstate[d]] < BufSize
    BY DEF SendsWithinBuf
  <2>1. CASE d = c
    BY <2>1, <1>3, SMT
  <2>2. CASE d # c
    BY <2>2, <1>2, <1>3 DEF IInv, SendsWithinBuf
  <2>3. QED
    BY <2>1, <2>2
<1>6. Owns'
  BY DEF IInv, Owns, Live
<1>7. RunsWithRoom'
  BY DEF PSOCK_SEND, RunsWithRoom
<1>8. WaitsInSend'
  <2> SUFFICES ASSUME NEW d \in Client, conn[d] = "open"
               PROVE  pc'[appstate[d]] \notin {"nbrs", "routes"}
    BY DEF WaitsInSend
  <2>1. CASE d = c
    BY <2>1, <1>3
  <2>2. CASE d # c
    <3>1. running # d
      BY <2>2, NoneIsNobody
    <3>2. QED
      BY <2>2, <3>1, <1>2, <1>3 DEF IInv, WaitsInSend
  <2>3. QED
    BY <2>1, <2>2
<1>9. QED
  BY <1>4, <1>5, <1>6, <1>7, <1>8

\* A step whose thread goes on keeps all but the types, if it leaves room.
LEMMA ContinueGood ==
  ASSUME IInv, NEW c \in Client, running = c, NEW l \in Label, Continue(c, l),
         blen' < BufSize, UNCHANGED <<conn, appstate, used>>,
         l = "nbrs" => blen' <= BufSize - Margin, l = "routes" => blen' = 0
  PROVE  BufferFits' /\ SendsWithinBuf' /\ Owns' /\ RunsWithRoom' /\ WaitsInSend'
<1> DEFINE b == appstate[c]
<1>0. conn[c] = "open" /\ unacked[c] = {}
  BY NoneIsNobody DEF IInv, RunsWithRoom
<1>1. /\ b \in CONNS
      /\ \A d \in Client : conn[d] = "open" => appstate[d] \in CONNS
      /\ \A d \in Client : conn[d] = "open" /\ d # c => appstate[d] # b
  BY <1>0, BlockOf, OpenIsLive
<1>2. /\ pc'[b] = l
      /\ \A x \in CONNS \ {b} : pc'[x] = pc[x]
      /\ UNCHANGED <<sendptr, sendlen, unacked, running>>
  BY <1>1 DEF Continue, IInv, TypeOK
<1>3. BufferFits'
  BY DEF BufferFits
<1>4. SendsWithinBuf'
  BY <1>0, <1>1, <1>2 DEF IInv, SendsWithinBuf
<1>5. Owns'
  BY DEF IInv, Owns, Live
<1>6. RunsWithRoom'
  BY <1>0, <1>2 DEF RunsWithRoom
<1>7. WaitsInSend'
  BY <1>1, <1>2 DEF IInv, WaitsInSend
<1>8. QED
  BY <1>3, <1>4, <1>5, <1>6, <1>7

LEMMA ReadPathGood ==
  ASSUME IInv, NEW c \in Client, ReadPath(c) PROVE IInv'
<1> USE DEF pool, psock, page, history
<1>1. appstate[c] \in CONNS
  BY BlockOf, OpenIsLive DEF ReadPath, Event
<1>2. buf' \in [1..BufSize -> Cell]
  BY DEF ReadPath, IInv, TypeOK
<1>3. Transmitted(c, "header", 0, 1) \in Seq(Cell)
  BY <1>2, TransmittedType, Constants DEF Label
<1>4. TypeOK'
  BY <1>1, <1>3 DEF ReadPath, PSOCK_SEND, timer_restart, IInv, TypeOK, Label
<1>5. BufferFits' /\ SendsWithinBuf' /\ Owns' /\ RunsWithRoom' /\ WaitsInSend'
  BY SendGood, Constants DEF ReadPath, Event, Label, IInv, BufferFits
<1>6. QED
  BY <1>4, <1>5 DEF IInv

\* ADD leaves types and, with room for the line, the length below the end.
LEMMA AddType ==
  ASSUME IInv, NEW x \in Cell, NEW n \in Nat, NEW from \in Nat, ADD(x, n, from)
  PROVE  buf' \in [1..BufSize -> Cell] /\ blen' \in Nat /\ blen' = from + n
  BY WrittenType DEF ADD, IInv

\* An iterator stands at an entry of its table or past the end.
LEMMA Entries ==
  ASSUME TypeOK
  PROVE  /\ FirstEntry(NbrMax) \subseteq 0..NbrMax
         /\ FirstEntry(RouteMax) \subseteq 0..RouteMax
         /\ NextEntry(nbr, NbrMax) \subseteq 0..NbrMax
         /\ NextEntry(r, RouteMax) \subseteq 0..RouteMax
<1>1. \A m \in Nat : FirstEntry(m) \subseteq 0..m
  BY SMT DEF FirstEntry
<1>2. \A m \in Nat : \A i \in 0..m : NextEntry(i, m) \subseteq 0..m
  <2> SUFFICES ASSUME NEW m \in Nat, NEW i \in 0..m, NEW j \in NextEntry(i, m)
               PROVE  j \in 0..m
    OBVIOUS
  <2>1. CASE i = 0
    BY <2>1, SMT DEF NextEntry
  <2>2. CASE i # 0 /\ stable
    BY <2>2, SMT DEF NextEntry
  <2>3. CASE i # 0 /\ ~stable
    BY <2>3, SMT DEF NextEntry
  <2>4. QED
    BY <2>1, <2>2, <2>3
<1>3. QED
  BY <1>1, <1>2, Sizes DEF TypeOK

\* The block of the connection whose handler runs.
LEMMA Running ==
  ASSUME IInv, NEW c \in Client, running = c
  PROVE  appstate[c] \in CONNS /\ conn[c] = "open"
  BY NoneIsNobody, BlockOf, OpenIsLive DEF IInv, RunsWithRoom

\* Each step of the answer's thread keeps the invariant.
LEMMA SendConstantGood ==
  ASSUME IInv, NEW c \in Client, NEW at, NEW l \in {"type", "top", "bottom"},
         SendConstant(c, at, l)
  PROVE  IInv'
<1> USE DEF pool, psock, page, history, Outside
<1>1. appstate[c] \in CONNS /\ conn[c] = "open" /\ running = c
  BY Running DEF SendConstant, At
<1>2. buf' \in [1..BufSize -> Cell] /\ l \in Label /\ l \in DOMAIN Constant
  BY Constants DEF SendConstant, IInv, TypeOK, Label
<1>3. Transmitted(c, l, 0, 1) \in Seq(Cell)
  BY <1>2, TransmittedType
<1>4. TypeOK'
  BY <1>1, <1>2, <1>3 DEF SendConstant, PSOCK_SEND, IInv, TypeOK
<1>5. BufferFits' /\ SendsWithinBuf' /\ Owns' /\ RunsWithRoom' /\ WaitsInSend'
  BY <1>1, <1>2, SendGood DEF SendConstant, IInv, BufferFits
<1>6. QED
  BY <1>4, <1>5 DEF IInv

\* A step of the script that writes to buf and sends it.
LEMMA SendBufGood ==
  ASSUME IInv, NEW c \in Client, running = c,
         NEW l \in {"nbrsent", "heading", "route", "end"},
         NEW x \in Cell, NEW n \in Nat, ADD(x, n, blen), PSOCK_SEND(c, l, blen'),
         blen + n < BufSize, UNCHANGED <<Outside, nbr, r>>
  PROVE  IInv'
<1> USE DEF pool, psock, page, history, Outside
<1>1. appstate[c] \in CONNS /\ conn[c] = "open"
  BY Running
<1>2. buf' \in [1..BufSize -> Cell] /\ blen' \in Nat /\ blen' = blen + n
  BY AddType DEF IInv, TypeOK
<1>3. l \in Label /\ l \notin DOMAIN Constant /\ l \notin {"nbrs", "routes"}
  BY Constants DEF Label
<1>4. Transmitted(c, l, 0, blen') \in Seq(Cell)
  BY <1>2, <1>3, TransmittedType
<1>5. TypeOK'
  BY <1>1, <1>2, <1>3, <1>4 DEF PSOCK_SEND, IInv, TypeOK
<1>6. BufferFits' /\ SendsWithinBuf' /\ Owns' /\ RunsWithRoom' /\ WaitsInSend'
  BY <1>1, <1>2, <1>3, SendGood
<1>7. QED
  BY <1>5, <1>6 DEF IInv

LEMMA TopGood ==
  ASSUME IInv, NEW c \in Client, Top(c) PROVE IInv'
<1> USE DEF pool, psock, page, history, Outside
<1>1. appstate[c] \in CONNS /\ running = c
  BY Running DEF Top, At
<1>2. Text("Neighbors") \in Cell
  BY DEF Cell, Texts
<1>3. buf' \in [1..BufSize -> Cell] /\ blen' = 1
  BY <1>2, AddType, SMT DEF Top
<1>4. nbr' \in 0..NbrMax
  BY Entries DEF Top, IInv
<1>5. TypeOK'
  BY <1>1, <1>3, <1>4 DEF Top, Continue, IInv, TypeOK, Label
<1>6. 1 < BufSize /\ 1 <= BufSize - Margin
  BY Sizes, SMT
<1>7. BufferFits' /\ SendsWithinBuf' /\ Owns' /\ RunsWithRoom' /\ WaitsInSend'
  BY <1>1, <1>3, <1>6, ContinueGood DEF Top, Label
<1>8. QED
  BY <1>5, <1>7 DEF IInv

LEMMA NeighborGood ==
  ASSUME IInv, NEW c \in Client, Neighbor(c) PROVE IInv'
<1> USE DEF pool, psock, page, history, Outside
<1>1. appstate[c] \in CONNS /\ running = c /\ pc[appstate[c]] = "nbrs"
  BY Running DEF Neighbor, At
<1>2. nbr \in 1..NbrMax
  BY Sizes, SMT DEF Neighbor, IInv, TypeOK
<1>3. <<"nbr", nbr>> \in Cell
  BY <1>2 DEF Cell
<1>4. NbrLine[nbr] \in Nat /\ NbrLine[nbr] < Margin
  BY <1>2, Sizes
<1>5. blen \in Nat /\ blen <= BufSize - Margin
  BY <1>1, NoneIsNobody DEF IInv, TypeOK, RunsWithRoom
<1>6. blen + NbrLine[nbr] < BufSize
  BY <1>4, <1>5, Sizes, SMT
<1>7. CASE blen' > BufSize - Margin
  BY <1>1, <1>3, <1>4, <1>6, <1>7, SendBufGood DEF Neighbor
<1>8. CASE ~(blen' > BufSize - Margin)
  <2>1. ADD(<<"nbr", nbr>>, NbrLine[nbr], blen)
    BY DEF Neighbor
  <2>2. /\ buf' \in [1..BufSize -> Cell] /\ blen' \in Nat
        /\ blen' = blen + NbrLine[nbr]
    BY <2>1, <1>3, <1>4, <1>5, AddType
  <2>3. nbr' \in 0..NbrMax /\ Continue(c, "nbrs")
    BY <1>8, Entries DEF Neighbor, IInv
  <2>4. TypeOK'
    BY <1>1, <2>2, <2>3 DEF Neighbor, Continue, IInv, TypeOK, Label
  <2>5. blen' < BufSize /\ blen' <= BufSize - Margin
    BY <1>6, <1>8, <2>2, Sizes, SMT
  <2>6. BufferFits' /\ SendsWithinBuf' /\ Owns' /\ RunsWithRoom' /\ WaitsInSend'
    BY <1>1, <2>3, <2>5, ContinueGood DEF Neighbor, Label
  <2>7. QED
    BY <2>4, <2>6 DEF IInv
<1>9. QED
  BY <1>7, <1>8

LEMMA RoutesHeadingGood ==
  ASSUME IInv, NEW c \in Client, RoutesHeading(c) PROVE IInv'
<1>1. running = c /\ pc[appstate[c]] = "nbrs"
  BY DEF RoutesHeading, At
<1>2. blen \in Nat /\ blen <= BufSize - Margin
  BY <1>1, NoneIsNobody DEF IInv, TypeOK, RunsWithRoom
<1>3. Text("Routes") \in Cell /\ blen + 1 < BufSize
  BY <1>2, Sizes, SMT DEF Cell, Texts
<1>4. QED
  BY <1>1, <1>3, SendBufGood DEF RoutesHeading

LEMMA RouteGood ==
  ASSUME IInv, NEW c \in Client, Route(c) PROVE IInv'
<1>1. running = c /\ pc[appstate[c]] = "routes"
  BY DEF Route, At
<1>2. blen = 0
  BY <1>1, NoneIsNobody DEF IInv, RunsWithRoom
<1>3. r \in 1..RouteMax
  BY Sizes, SMT DEF Route, IInv, TypeOK
<1>4. <<"route", r>> \in Cell
  BY <1>3 DEF Cell
<1>5. RouteLine[r] \in Nat /\ blen + RouteLine[r] < BufSize
  BY <1>2, <1>3, Sizes, SMT
<1>6. QED
  BY <1>1, <1>4, <1>5, SendBufGood DEF Route

LEMMA RoutesEndGood ==
  ASSUME IInv, NEW c \in Client, RoutesEnd(c) PROVE IInv'
<1>1. running = c /\ pc[appstate[c]] = "routes"
  BY DEF RoutesEnd, At
<1>2. blen = 0
  BY <1>1, NoneIsNobody DEF IInv, RunsWithRoom
<1>3. Text("end") \in Cell /\ blen + 1 < BufSize
  BY <1>2, Sizes, SMT DEF Cell, Texts
<1>4. QED
  BY <1>1, <1>3, SendBufGood DEF RoutesEnd

\* A step of the script that only resets blen and moves an iterator.
LEMMA ResumeGood ==
  ASSUME IInv, NEW c \in Client, running = c, NEW l \in {"nbrs", "routes"},
         blen' = 0, nbr' \in 0..NbrMax, r' \in 0..RouteMax,
         UNCHANGED <<Outside, buf>>, Continue(c, l)
  PROVE  IInv'
<1> USE DEF pool, psock, page, history, Outside
<1>1. appstate[c] \in CONNS /\ l \in Label
  BY Running DEF Label
<1>2. TypeOK'
  BY <1>1 DEF Continue, IInv, TypeOK
<1>3. 0 < BufSize /\ 0 <= BufSize - Margin
  BY Sizes, SMT
<1>4. BufferFits' /\ SendsWithinBuf' /\ Owns' /\ RunsWithRoom' /\ WaitsInSend'
  BY <1>1, <1>3, ContinueGood
<1>5. QED
  BY <1>2, <1>4 DEF IInv

LEMMA IteratorsGood ==
  ASSUME IInv, NEW c \in Client, NeighborSent(c) \/ FirstRoute(c) \/ RouteSent(c)
  PROVE  IInv'
<1>1. CASE NeighborSent(c)
  BY <1>1, Entries, ResumeGood DEF NeighborSent, At, IInv, TypeOK
<1>2. CASE FirstRoute(c)
  BY <1>2, Entries, ResumeGood DEF FirstRoute, At, IInv, TypeOK
<1>3. CASE RouteSent(c)
  BY <1>3, Entries, ResumeGood DEF RouteSent, At, IInv, TypeOK
<1>4. QED
  BY <1>1, <1>2, <1>3

LEMMA DoneGood ==
  ASSUME IInv, NEW c \in Client, Done(c) PROVE IInv'
<1> USE DEF pool, psock, page, history
<1>1. running = c /\ conn[c] = "open" /\ pc[appstate[c]] = "bottom"
  BY Running DEF Done, At
<1>2. TypeOK'
  BY DEF Done, uip_close, IInv, TypeOK
<1>3. BufferFits' /\ SendsWithinBuf' /\ RunsWithRoom'
  BY DEF Done, uip_close, IInv, TypeOK, BufferFits, SendsWithinBuf, RunsWithRoom
<1>4. Owns'
  BY <1>1 DEF Done, uip_close, IInv, TypeOK, Owns, Live
<1>5. WaitsInSend'
  BY <1>1 DEF Done, uip_close, IInv, TypeOK, WaitsInSend
<1>6. QED
  BY <1>2, <1>3, <1>4, <1>5 DEF IInv

LEMMA ScriptGood ==
  ASSUME IInv, NEW c \in Client, Script(c) PROVE IInv'
  BY SendConstantGood, TopGood, NeighborGood, IteratorsGood, RoutesHeadingGood,
     RouteGood, RoutesEndGood, DoneGood
     DEF Script, send_headers, SendTop, SendBottom

\* What is sent again is still within the buffer.
LEMMA RetransmitGood ==
  ASSUME IInv, NEW c \in Client, Retransmit(c) PROVE IInv'
<1> USE DEF pool, psock, page, history
<1> DEFINE b == appstate[c]
           x == Transmitted(c, pc[b], sendptr[b], sendlen[b])
<1>1. b \in CONNS /\ conn[c] = "open" /\ unacked[c] # {}
  BY BlockOf, OpenIsLive DEF Retransmit, Event
<1>2. pc[b] \notin DOMAIN Constant => sendptr[b] + sendlen[b] < BufSize
  BY <1>1 DEF IInv, SendsWithinBuf
<1>3. x \in Seq(Cell)
  <2>1. buf' \in [1..BufSize -> Cell]
    BY DEF Retransmit, IInv, TypeOK
  <2>2. pc[b] \in Label /\ sendptr[b] \in Nat /\ sendlen[b] \in Nat
    BY <1>1 DEF IInv, TypeOK
  <2>3. QED
    BY <2>1, <2>2, <1>2, TransmittedType
<1>4. unacked' = [unacked EXCEPT ![c] = @ \cup {x}]
  BY DEF Retransmit
<1> HIDE DEF x
<1>5. TypeOK'
  BY <1>1, <1>3, <1>4 DEF Retransmit, timer_restart, IInv, TypeOK
<1>6. \A d \in Client : unacked'[d] # {} => unacked[d] # {}
  BY <1>1, <1>4 DEF IInv, TypeOK
<1>7. BufferFits' /\ SendsWithinBuf'
  BY <1>6 DEF Retransmit, IInv, BufferFits, SendsWithinBuf
<1>8. Owns' /\ RunsWithRoom' /\ WaitsInSend'
  BY DEF Retransmit, Event, IInv, Owns, RunsWithRoom, WaitsInSend, Live
<1>9. QED
  BY <1>5, <1>7, <1>8 DEF IInv

\* What a client has received stays a sequence of cells.
LEMMA ReceivesType ==
  ASSUME TypeOK, NEW c \in Client, Receives(c)
  PROVE  got' \in [Client -> Seq(Cell)] /\ stable' \in BOOLEAN /\ clean' \in SUBSET Client
<1>1. PICK x \in unacked[c] : got' = IF c \in clean THEN [got EXCEPT ![c] = @ \o x] ELSE got
  BY DEF Receives
<1>2. x \in Seq(Cell) /\ got[c] \in Seq(Cell)
  BY DEF TypeOK
<1>3. got[c] \o x \in Seq(Cell)
  BY <1>2
<1>4. QED
  BY <1>1, <1>3 DEF Receives, TypeOK

\* An acknowledgement keeps the invariant.
LEMMA AckedGood ==
  ASSUME IInv, NEW c \in Client, Acked(c) PROVE IInv'
<1> USE DEF pool, psock, page
<1> DEFINE b == appstate[c]
<1>1. /\ b \in CONNS /\ conn[c] = "open" /\ unacked[c] # {} /\ running = None
      /\ \A d \in Client : conn[d] = "open" => appstate[d] \in CONNS
      /\ \A d \in Client : conn[d] = "open" /\ d # c => appstate[d] # b
  BY BlockOf, OpenIsLive DEF Acked, Event
<1>2. /\ pc[b] \in Label /\ sendptr[b] \in Nat /\ sendlen[b] \in Nat
      /\ pc[b] \notin DOMAIN Constant => sendptr[b] + sendlen[b] < BufSize
  BY <1>1 DEF IInv, TypeOK, SendsWithinBuf
<1>3. /\ got' \in [Client -> Seq(Cell)] /\ stable' \in BOOLEAN /\ clean' \in SUBSET Client
      /\ expired' \in [CONNS -> BOOLEAN]
  BY <1>1, ReceivesType DEF Acked, timer_restart, IInv, TypeOK
<1>4. UNCHANGED <<conn, appstate, used, state, pc, buf, blen, nbr, r>>
  BY DEF Acked
<1>5. pc[b] \notin {"nbrs", "routes"}
  BY <1>1, NoneIsNobody DEF IInv, WaitsInSend
<1>6. CASE sendlen[b] > Mss
  <2> DEFINE x == Transmitted(c, pc[b], sendptr'[b], sendlen'[b])
  <2>1. /\ sendptr' = [sendptr EXCEPT ![b] = @ + Mss]
        /\ sendlen' = [sendlen EXCEPT ![b] = @ - Mss]
        /\ unacked' = [unacked EXCEPT ![c] = {x}]
        /\ running' = None
    BY <1>6 DEF Acked
  <2>2. /\ sendptr'[b] = sendptr[b] + Mss /\ sendlen'[b] = sendlen[b] - Mss
        /\ \A y \in CONNS \ {b} : sendptr'[y] = sendptr[y] /\ sendlen'[y] = sendlen[y]
    BY <2>1, <1>1 DEF IInv, TypeOK
  <2>3. /\ sendptr'[b] \in Nat /\ sendlen'[b] \in Nat
        /\ sendptr'[b] + sendlen'[b] = sendptr[b] + sendlen[b]
    BY <2>2, <1>2, <1>6, Sizes, SMT
  <2>4. x \in Seq(Cell)
    <3>1. buf' \in [1..BufSize -> Cell]
      BY <1>4 DEF IInv, TypeOK
    <3>2. pc[b] \notin DOMAIN Constant => sendptr'[b] + sendlen'[b] < BufSize
      BY <1>2, <2>3
    <3>3. QED
      BY <3>1, <3>2, <1>2, <2>3, TransmittedType
  <2> HIDE DEF x
  <2>5. sendptr' \in [CONNS -> Nat] /\ sendlen' \in [CONNS -> Nat]
    BY <2>1, <2>2, <2>3, <1>1 DEF IInv, TypeOK
  <2>6. TypeOK'
    BY <2>1, <2>4, <2>5, <1>3, <1>4 DEF IInv, TypeOK
  <2>7. SendsWithinBuf'
    <3> SUFFICES ASSUME NEW d \in Client, conn[d] = "open", unacked'[d] # {},
                        pc[appstate[d]] \notin DOMAIN Constant
                 PROVE  sendptr'[appstate[d]] + sendlen'[appstate[d]] < BufSize
      BY <1>4 DEF SendsWithinBuf
    <3>1. CASE d = c
      BY <3>1, <1>2, <2>3
    <3>2. CASE d # c
      BY <3>2, <2>1, <2>2, <1>1 DEF IInv, TypeOK, SendsWithinBuf
    <3>3. QED
      BY <3>1, <3>2
  <2>8. BufferFits' /\ Owns' /\ RunsWithRoom' /\ WaitsInSend'
    BY <1>1, <1>4, <1>5, <2>1 DEF IInv, BufferFits, Owns, RunsWithRoom, WaitsInSend, Live
  <2>9. QED
    BY <2>6, <2>7, <2>8 DEF IInv
<1>7. CASE ~(sendlen[b] > Mss)
  <2>1. /\ sendptr' = [sendptr EXCEPT ![b] = @ + sendlen[b]]
        /\ sendlen' = [sendlen EXCEPT ![b] = 0]
        /\ unacked' = [unacked EXCEPT ![c] = {}]
        /\ running' = c
    BY <1>7 DEF Acked
  <2>2. sendptr[b] + sendlen[b] \in Nat
    BY <1>2, SMT
  <2>3. TypeOK'
    BY <2>1, <2>2, <1>3, <1>4 DEF IInv, TypeOK
  <2>4. SendsWithinBuf'
    BY <2>1, <1>1, <1>4 DEF IInv, TypeOK, SendsWithinBuf
  <2>5. RunsWithRoom'
    BY <2>1, <1>1, <1>4, <1>5 DEF IInv, TypeOK, RunsWithRoom
  <2>6. BufferFits' /\ Owns' /\ WaitsInSend'
    BY <1>1, <1>4, <1>5, <2>1, NoneIsNobody DEF IInv, BufferFits, Owns, WaitsInSend, Live
  <2>7. QED
    BY <2>3, <2>4, <2>5, <2>6 DEF IInv
<1>8. QED
  BY <1>6, <1>7

\* What Forget leaves is a subset of what there was, and typed.
LEMMA ForgetType ==
  ASSUME TypeOK, Forget
  PROVE  /\ unacked' \in [Client -> SUBSET Seq(Cell)] /\ got' \in [Client -> Seq(Cell)]
         /\ buf' \in [1..BufSize -> Cell]
         /\ \A d \in Client : unacked'[d] # {} => unacked[d] # {}
<1>1. <<>> \in Seq(Cell)
  OBVIOUS
<1>2. QED
  BY <1>1, JunkType DEF Forget, TypeOK

\* The tables may change under the iterators.
LEMMA TablesChangeGood ==
  ASSUME IInv, TablesChange PROVE IInv'
<1> USE DEF pool, psock
<1>1. TypeOK'
  BY ForgetType DEF TablesChange, IInv, TypeOK
<1>2. BufferFits' /\ SendsWithinBuf'
  BY ForgetType DEF TablesChange, IInv, BufferFits, SendsWithinBuf
<1>3. \A d \in Client : unacked[d] = {} => unacked'[d] = {}
  BY DEF TablesChange, Forget
<1>4. RunsWithRoom'
  BY <1>3, NoneIsNobody DEF TablesChange, IInv, TypeOK, RunsWithRoom
<1>5. Owns' /\ WaitsInSend'
  BY DEF TablesChange, IInv, Owns, WaitsInSend, Live
<1>6. QED
  BY <1>1, <1>2, <1>4, <1>5 DEF IInv

\* A block for a new connection: nobody else has it.
LEMMA ConnectGood ==
  ASSUME IInv, NEW c \in Client, Connect(c) PROVE IInv'
<1> DEFINE b == CHOOSE x \in CONNS \ used : TRUE
<1>1. /\ b \in CONNS /\ b \notin used
      /\ conn[c] = "closed" /\ running = None
  BY DEF Connect, IInv, TypeOK
<1>2. /\ used' = used \cup {b}
      /\ appstate' = [appstate EXCEPT ![c] = b]
      /\ httpd_state_reset(b)
      /\ conn' = [conn EXCEPT ![c] = "open"]
      /\ Forget
      /\ clean' \in SUBSET Client
      /\ UNCHANGED <<blen, nbr, r, running, stable>>
  BY DEF Connect
<1> HIDE DEF b
<1>3. TypeOK'
  BY <1>1, <1>2, ForgetType DEF httpd_state_reset, IInv, TypeOK, Label
<1>4. /\ conn'[c] = "open" /\ appstate'[c] = b
      /\ \A d \in Client \ {c} : conn'[d] = conn[d] /\ appstate'[d] = appstate[d]
      /\ \A d \in Client \ {c} : conn[d] = "open" =>
           appstate[d] \in CONNS /\ appstate[d] # b
  BY <1>1, <1>2, BlockOf, OpenIsLive DEF IInv, TypeOK
<1>5. /\ pc'[b] = "header" /\ sendptr'[b] = 0 /\ sendlen'[b] = 0
      /\ \A x \in CONNS \ {b} : /\ pc'[x] = pc[x] /\ sendptr'[x] = sendptr[x]
                                /\ sendlen'[x] = sendlen[x]
  BY <1>1, <1>2 DEF httpd_state_reset, IInv, TypeOK
<1>6. BufferFits' /\ RunsWithRoom'
  BY <1>1, <1>2 DEF IInv, BufferFits, RunsWithRoom
<1>7. SendsWithinBuf'
  <2>1. 0 + 0 < BufSize
    BY Sizes, SMT
  <2>2. \A d \in Client : unacked'[d] # {} => unacked[d] # {}
    BY <1>2, ForgetType DEF IInv
  <2>3. SUFFICES ASSUME NEW d \in Client, conn'[d] = "open", unacked'[d] # {},
                        pc'[appstate'[d]] \notin DOMAIN Constant
                 PROVE  sendptr'[appstate'[d]] + sendlen'[appstate'[d]] < BufSize
    BY DEF SendsWithinBuf
  <2>4. CASE d = c
    BY <2>4, <2>1, <1>4, <1>5
  <2>5. CASE d # c
    BY <2>5, <2>2, <2>3, <1>4, <1>5 DEF IInv, SendsWithinBuf
  <2>6. QED
    BY <2>4, <2>5
<1>8. Owns'
  <2>1. \A d \in Client \ {c} : Live(d)' <=> Live(d)
    BY <1>4 DEF Live
  <2>2. \A d \in Client : Live(d) => d # c /\ appstate[d] # b /\ appstate[d] \in used
    BY <1>1 DEF Live, IInv, Owns
  <2>3. Live(c)'
    BY <1>4 DEF Live
  <2>4. \A d \in Client : Live(d)' => appstate'[d] \in used'
    BY <2>1, <2>2, <1>2, <1>4
  <2>5. \A x \in used' : \E d \in Client : Live(d)' /\ appstate'[d] = x
    <3> SUFFICES ASSUME NEW x \in used'
                 PROVE  \E d \in Client : Live(d)' /\ appstate'[d] = x
      OBVIOUS
    <3>1. CASE x = b
      BY <3>1, <2>3, <1>4
    <3>2. CASE x \in used
      <4>1. PICK d \in Client : Live(d) /\ appstate[d] = x
        BY <3>2 DEF IInv, Owns
      <4>2. d # c
        BY <4>1, <2>2
      <4>3. QED
        BY <4>1, <4>2, <2>1, <1>4
    <3>3. QED
      BY <3>1, <3>2, <1>2
  <2>6. \A d, e \in Client : Live(d)' /\ Live(e)' /\ appstate'[d] = appstate'[e] => d = e
    <3> SUFFICES ASSUME NEW d \in Client, NEW e \in Client, Live(d)', Live(e)',
                        appstate'[d] = appstate'[e]
                 PROVE  d = e
      OBVIOUS
    <3>1. CASE d = c \/ e = c
      BY <3>1, <2>1, <2>2, <1>4
    <3>2. CASE d # c /\ e # c
      BY <3>2, <2>1, <1>4 DEF IInv, Owns
    <3>3. QED
      BY <3>1, <3>2
  <2>7. QED
    BY <2>4, <2>5, <2>6 DEF Owns
<1>9. WaitsInSend'
  <2>1. SUFFICES ASSUME NEW d \in Client, conn'[d] = "open", d # running'
                 PROVE  pc'[appstate'[d]] \notin {"nbrs", "routes"}
    BY DEF WaitsInSend
  <2>2. CASE d = c
    BY <2>2, <1>4, <1>5
  <2>3. CASE d # c
    BY <2>1, <2>3, <1>2, <1>4, <1>5 DEF IInv, WaitsInSend
  <2>4. QED
    BY <2>2, <2>3
<1>10. QED
  BY <1>3, <1>6, <1>7, <1>8, <1>9 DEF IInv

\* A connection that ends gives its own block back, and no other.
LEMMA LeaveGood ==
  ASSUME IInv, NEW c \in Client, Live(c), running = None, Gone(c), memb_free(c),
         UNCHANGED <<page, running, history>>
  PROVE  IInv'
<1> USE DEF page, history
<1> DEFINE b == appstate[c]
<1>1. /\ b \in CONNS /\ b \in used
      /\ \A d \in Client : Live(d) /\ d # c =>
           appstate[d] \in CONNS /\ appstate[d] # b /\ appstate[d] \in used
  BY BlockOf
<1>2. TypeOK'
  BY <1>1 DEF Gone, memb_free, httpd_state_reset, IInv, TypeOK, Label
<1>3. /\ ~ Live(c)'
      /\ unacked'[c] = {}
      /\ \A d \in Client \ {c} : /\ conn'[d] = conn[d] /\ appstate'[d] = appstate[d]
                                 /\ unacked'[d] = unacked[d]
      /\ conn'[c] = "closed"
  BY DEF Gone, memb_free, Live, IInv, TypeOK
<1>4. \A x \in CONNS \ {b} : /\ pc'[x] = pc[x] /\ sendptr'[x] = sendptr[x]
                             /\ sendlen'[x] = sendlen[x]
  BY DEF memb_free, httpd_state_reset, IInv, TypeOK
<1>5. \A d \in Client : Live(d)' => d # c /\ Live(d)
  BY <1>3 DEF Live
<1>6. BufferFits' /\ RunsWithRoom'
  BY DEF IInv, BufferFits, RunsWithRoom
<1>7. SendsWithinBuf'
  <2>1. \A d \in Client : conn'[d] = "open" => Live(d)' /\ conn[d] = "open"
    BY <1>3 DEF Live
  <2>2. SUFFICES ASSUME NEW d \in Client, conn'[d] = "open", unacked'[d] # {},
                        pc'[appstate'[d]] \notin DOMAIN Constant
                 PROVE  sendptr'[appstate'[d]] + sendlen'[appstate'[d]] < BufSize
    BY DEF SendsWithinBuf
  <2>3. d # c /\ Live(d) /\ conn[d] = "open"
    BY <2>1, <2>2, <1>5
  <2>4. QED
    BY <2>2, <2>3, <1>1, <1>3, <1>4 DEF IInv, SendsWithinBuf
<1>8. Owns'
  <2>0. used' = used \ {b}
    BY DEF memb_free
  <2>1. \A d \in Client \ {c} : Live(d)' <=> Live(d)
    BY <1>3 DEF Live
  <2>2. \A d \in Client : Live(d)' => appstate'[d] \in used'
    BY <2>0, <1>1, <1>3, <1>5
  <2>3. \A x \in used' : \E d \in Client : Live(d)' /\ appstate'[d] = x
    <3> SUFFICES ASSUME NEW x \in used'
                 PROVE  \E d \in Client : Live(d)' /\ appstate'[d] = x
      OBVIOUS
    <3>1. x \in used /\ x # b
      BY <2>0
    <3>2. PICK d \in Client : Live(d) /\ appstate[d] = x
      BY <3>1 DEF IInv, Owns
    <3>3. QED
      BY <3>1, <3>2, <2>1, <1>3
  <2>4. \A d, e \in Client : Live(d)' /\ Live(e)' /\ appstate'[d] = appstate'[e] => d = e
    BY <1>3, <1>5 DEF IInv, Owns
  <2>5. QED
    BY <2>2, <2>3, <2>4 DEF Owns
<1>9. WaitsInSend'
  <2>1. SUFFICES ASSUME NEW d \in Client, conn'[d] = "open", d # running'
                 PROVE  pc'[appstate'[d]] \notin {"nbrs", "routes"}
    BY DEF WaitsInSend
  <2>2. d # c /\ conn[d] = "open" /\ Live(d) /\ d # running
    BY <2>1, <1>3 DEF Live
  <2>3. QED
    BY <2>2, <1>1, <1>3, <1>4 DEF IInv, WaitsInSend
<1>10. QED
  BY <1>2, <1>6, <1>7, <1>8, <1>9 DEF IInv

\* The two ways to leave.
LEMMA PollEndGood ==
  ASSUME IInv, NEW c \in Client, Poll(c) \/ End(c) PROVE IInv'
<1>1. CASE Poll(c)
  BY <1>1, OpenIsLive, LeaveGood DEF Poll, Event
<1>2. CASE End(c)
  BY <1>2, LeaveGood DEF End
<1>3. QED
  BY <1>1, <1>2

\* Every step keeps the invariant.
LEMMA NextGood == IInv /\ [Next]_vars => IInv'
<1> SUFFICES ASSUME IInv, [Next]_vars PROVE IInv'
  OBVIOUS
<1>1. CASE UNCHANGED vars
  BY <1>1 DEF vars, pool, psock, page, history, IInv, TypeOK, BufferFits,
              SendsWithinBuf, Owns, RunsWithRoom, WaitsInSend, Live
<1>2. ASSUME NEW c \in Client, httpd_appcall(c) PROVE IInv'
  BY <1>2, RefuseGood, ConnectGood, ReadMethodGood, ReadPathGood, RejectGood,
     ReadOnGood, AckedGood, RetransmitGood, PollEndGood DEF httpd_appcall
<1>3. ASSUME NEW c \in Client, Script(c) PROVE IInv'
  BY <1>3, ScriptGood
<1>4. ASSUME NEW b \in CONNS, TimerExpires(b) PROVE IInv'
  BY <1>4, TimerExpiresGood
<1>5. CASE TablesChange
  BY <1>5, TablesChangeGood
<1>6. QED
  BY <1>1, <1>2, <1>3, <1>4, <1>5 DEF Next

-----------------------------------------------------------------------------
(* The page and its parts *)

\* The same cell several times.
LEMMA RepeatIsSeq ==
  ASSUME NEW x, NEW S, x \in S, NEW n \in Nat
  PROVE  [k \in 1..n |-> x] \in Seq(S)
  OBVIOUS

\* The function that Lines chooses exists.
LEMMA LinesStep ==
  ASSUME NEW kind \in {"nbr", "route"}, NEW widths \in Seq(Nat)
  PROVE  /\ Lines(kind, widths, 0) = <<>>
         /\ \A i \in 1..Len(widths) :
              Lines(kind, widths, i) =
                Lines(kind, widths, i - 1) \o [k \in 1..widths[i] |-> <<kind, i>>]
         /\ \A i \in 0..Len(widths) : Lines(kind, widths, i) \in Seq({kind} \X (1..Len(widths)))
<1> DEFINE n == Len(widths)
           S == Seq({kind} \X (1..Len(widths)))
           G == [p \in (1..n) \X S |-> p[2] \o [k \in 1..widths[p[1]] |-> <<kind, p[1]>>]]
           upto == CHOOSE f : f = [i \in 0..n |->
                     IF i = 0 THEN <<>>
                     ELSE f[i - 1] \o [k \in 1..widths[i] |-> <<kind, i>>]]
<1>1. \A i : Lines(kind, widths, i) = upto[i]
  BY DEF Lines
<1>2. n \in Nat /\ <<>> \in S
  OBVIOUS
<1>3. G \in [(1..n) \X S -> S]
  <2>1. ASSUME NEW p \in (1..n) \X S
        PROVE  p[2] \o [k \in 1..widths[p[1]] |-> <<kind, p[1]>>] \in S
    <3>1. p[1] \in 1..n /\ p[2] \in S
      OBVIOUS
    <3>2. widths[p[1]] \in Nat /\ <<kind, p[1]>> \in {kind} \X (1..Len(widths))
      BY <3>1
    <3>3. [k \in 1..widths[p[1]] |-> <<kind, p[1]>>] \in S
      BY <3>2, RepeatIsSeq
    <3>4. QED
      BY <3>1, <3>3
  <2>2. QED
    BY <2>1
<1>4. PICK f \in [0..n -> S] : Iterates(f, <<>>, G, n)
  <2> HIDE DEF G, S, n
  <2> QED BY <1>2, <1>3, IterationExists
<1>5. f = [i \in 0..n |-> IF i = 0 THEN <<>>
                          ELSE f[i - 1] \o [k \in 1..widths[i] |-> <<kind, i>>]]
  <2>1. ASSUME NEW i \in 0..n
        PROVE  f[i] = IF i = 0 THEN <<>>
                          ELSE f[i - 1] \o [k \in 1..widths[i] |-> <<kind, i>>]
    <3>1. f[i] = IF i = 0 THEN <<>> ELSE G[<<i, f[i - 1]>>]
      BY <1>4 DEF Iterates
    <3>2. CASE i # 0
      <4>1. i \in 1..n /\ i - 1 \in 0..n
        BY <3>2
      <4>2. f[i - 1] \in S
        BY <4>1
      <4>3. <<i, f[i - 1]>> \in (1..n) \X S
        BY <4>1, <4>2
      <4>4. QED
        BY <3>1, <3>2, <4>3
    <3>3. QED
      BY <3>1, <3>2
  <2>2. QED
    BY <2>1
<1>6. upto = [i \in 0..n |-> IF i = 0 THEN <<>>
                          ELSE upto[i - 1] \o [k \in 1..widths[i] |-> <<kind, i>>]]
  <2> HIDE DEF n
  <2> QED BY <1>5
<1>7. \A i \in 0..n : f[i] = upto[i]
  <2>1. f[0] = upto[0] /\ \A i \in 1..n : f[i - 1] = upto[i - 1] => f[i] = upto[i]
    <3> HIDE DEF upto
    <3>1. f[0] = <<>> /\ upto[0] = <<>>
      <4>1. 0 \in 0..n
        BY <1>2
      <4> HIDE DEF n
      <4>2. QED
        BY <1>5, <1>6, <4>1
    <3>2. \A i \in 1..n : i \in 0..n /\ i # 0
      BY <1>2
    <3> HIDE DEF n
    <3>3. QED
      BY <1>5, <1>6, <3>1, <3>2
  <2>2. n \in Nat
    BY <1>2
  <2> HIDE DEF upto, n, G, S
  <2>3. \A i \in 0..n : f[i] = upto[i]
    BY <2>1, <2>2, SameIteration
  <2>4. QED
    BY <2>3
<1>8. \A i \in 0..n : upto[i] \in S
  <2> HIDE DEF S, upto
  <2> QED BY <1>4, <1>7
<1>9. \A i \in 0..n : upto[i] = IF i = 0 THEN <<>>
                          ELSE upto[i - 1] \o [k \in 1..widths[i] |-> <<kind, i>>]
  <2> HIDE DEF upto
  <2> QED BY <1>6
<1>10. QED
  <2> HIDE DEF upto, S
  <2>1. \A i \in 1..n : i \in 0..n /\ i # 0
    BY <1>2
  <2>2. 0 \in 0..n
    BY <1>2
  <2>3. upto[0] = <<>>
    BY <1>9, <2>2
  <2> HIDE DEF n
  <2>4. \A i \in 1..n : upto[i] = upto[i - 1] \o [k \in 1..widths[i] |-> <<kind, i>>]
    BY <1>9, <2>1
  <2>5. QED
    BY <1>1, <1>8, <2>3, <2>4 DEF n, S

\* A sequence with one element behind it, element by element.
LEMMA OneMore ==
  ASSUME NEW S, NEW s \in Seq(S), NEW t \in Seq(S), NEW e \in S,
         Len(t) = Len(s) + 1, \A i \in 1..Len(s) : t[i] = s[i], t[Len(s) + 1] = e
  PROVE  s \o <<e>> = t
<1>1. <<e>> \in Seq(S) /\ Len(<<e>>) = 1 /\ <<e>>[1] = e
  OBVIOUS
<1>2. PICK n \in Nat : n = Len(s)
  OBVIOUS
<1> DEFINE u == s \o <<e>>
<1>3. /\ u \in Seq(S) /\ Len(u) = n + 1
      /\ \A i \in 1..(n + 1) : u[i] = IF i <= n THEN s[i] ELSE <<e>>[i - n]
  BY <1>1, <1>2, ConcatProperties
<1> HIDE DEF u
<1>4. \A i \in 1..(n + 1) : u[i] = t[i]
  <2>1. \A i \in 1..n : u[i] = t[i]
    BY <1>2, <1>3
  <2>2. (n + 1) - n = 1 /\ ~(n + 1 <= n) /\ n + 1 \in 1..(n + 1)
    OBVIOUS
  <2>3. u[n + 1] = e /\ t[n + 1] = e
    BY <1>1, <1>2, <1>3, <2>2
  <2>4. \A i \in 1..(n + 1) : i \in 1..n \/ i = n + 1
    OBVIOUS
  <2>5. QED
    BY <2>1, <2>3, <2>4
<1>5. u = t
  BY <1>2, <1>3, <1>4, SeqEqual
<1>6. QED
  BY <1>5 DEF u

\* The constants of the page, one behind the other.
LEMMA TwoJoined ==
  ASSUME NEW a, NEW b
  PROVE  <<a>> \o <<b>> = <<a, b>>
<1> DEFINE S == {a, b}
           s == <<a>>
           t == <<a, b>>
<1>1. /\ b \in S /\ s \in Seq(S) /\ t \in Seq(S)
      /\ Len(s) = 1 /\ Len(t) = Len(s) + 1 /\ t[Len(s) + 1] = b
  OBVIOUS
<1>2. t[1] = s[1]
  OBVIOUS
<1> HIDE DEF S, s, t
<1>3. \A i \in 1..Len(s) : t[i] = s[i]
  BY <1>1, <1>2
<1>4. s \o <<b>> = t
  BY <1>1, <1>3, OneMore
<1>5. QED
  BY <1>4 DEF s, t

LEMMA ThreeJoined ==
  ASSUME NEW a, NEW b, NEW c
  PROVE  <<a, b>> \o <<c>> = <<a, b, c>>
<1> DEFINE S == {a, b, c}
           s == <<a, b>>
           t == <<a, b, c>>
<1>1. /\ c \in S /\ s \in Seq(S) /\ t \in Seq(S)
      /\ Len(s) = 2 /\ Len(t) = Len(s) + 1 /\ t[Len(s) + 1] = c
  OBVIOUS
<1>2. t[1] = s[1] /\ t[2] = s[2]
  OBVIOUS
<1> HIDE DEF S, s, t
<1>3. \A i \in 1..Len(s) : t[i] = s[i]
  BY <1>1, <1>2
<1>4. s \o <<c>> = t
  BY <1>1, <1>3, OneMore
<1>5. QED
  BY <1>4 DEF s, t

LEMMA FourJoined ==
  ASSUME NEW a, NEW b, NEW c, NEW d
  PROVE  <<a, b, c>> \o <<d>> = <<a, b, c, d>>
<1> DEFINE S == {a, b, c, d}
           s == <<a, b, c>>
           t == <<a, b, c, d>>
<1>1. /\ d \in S /\ s \in Seq(S) /\ t \in Seq(S)
      /\ Len(s) = 3 /\ Len(t) = Len(s) + 1 /\ t[Len(s) + 1] = d
  OBVIOUS
<1>2. t[1] = s[1] /\ t[2] = s[2] /\ t[3] = s[3]
  OBVIOUS
<1> HIDE DEF S, s, t
<1>3. \A i \in 1..Len(s) : t[i] = s[i]
  BY <1>1, <1>2
<1>4. s \o <<d>> = t
  BY <1>1, <1>3, OneMore
<1>5. QED
  BY <1>4 DEF s, t

\* Joining sequences.
LEMMA Joined ==
  ASSUME NEW S, NEW s \in Seq(S), NEW t \in Seq(S), NEW u \in Seq(S)
  PROVE  s \o t \in Seq(S) /\ (s \o t) \o u = s \o (t \o u)
  OBVIOUS

LEMMA JoinedWithNothing ==
  ASSUME NEW S, NEW s \in Seq(S)
  PROVE  s \o <<>> = s /\ <<>> \o s = s
  OBVIOUS

\* The parts of the page, entry by entry.
LEMMA PageParts ==
  /\ NeighborPart(0) = <<Text("status"), Text("type"), Text("TOP"), Text("Neighbors")>>
  /\ \A i \in 1..NbrMax :
       NeighborPart(i) = NeighborPart(i - 1) \o [k \in 1..NbrLine[i] |-> <<"nbr", i>>]
  /\ RoutePart(0) = NeighborPart(NbrMax) \o <<Text("Routes")>>
  /\ \A j \in 1..RouteMax :
       RoutePart(j) = RoutePart(j - 1) \o [k \in 1..RouteLine[j] |-> <<"route", j>>]
  /\ \A i \in 0..NbrMax : NeighborPart(i) \in Seq(Cell)
  /\ \A j \in 0..RouteMax : RoutePart(j) \in Seq(Cell)
<1> DEFINE Heads == <<Text("status"), Text("type"), Text("TOP"), Text("Neighbors")>>
           A(i) == [k \in 1..NbrLine[i] |-> <<"nbr", i>>]
           B(j) == [k \in 1..RouteLine[j] |-> <<"route", j>>]
<1>1. /\ NbrLine \in Seq(Nat) /\ RouteLine \in Seq(Nat)
      /\ NbrMax = Len(NbrLine) /\ RouteMax = Len(RouteLine)
      /\ NbrMax \in Nat /\ RouteMax \in Nat
  BY WebAssumption DEF WebAssumption, NbrMax, RouteMax
<1>2. Heads \in Seq(Cell) /\ <<Text("Routes")>> \in Seq(Cell)
  <2>1. \A x \in Texts : Text(x) \in Cell
    BY DEF Cell
  <2>2. QED
    BY <2>1 DEF Texts
<1>3. \A i \in 1..NbrMax : A(i) \in Seq(Cell)
  <2>1. \A i \in 1..NbrMax : <<"nbr", i>> \in Cell /\ NbrLine[i] \in Nat
    BY Sizes DEF Cell
  <2>2. QED
    BY <2>1, RepeatIsSeq
<1>4. \A j \in 1..RouteMax : B(j) \in Seq(Cell)
  <2>1. \A j \in 1..RouteMax : <<"route", j>> \in Cell /\ RouteLine[j] \in Nat
    BY Sizes DEF Cell
  <2>2. QED
    BY <2>1, RepeatIsSeq
<1> HIDE DEF A, B, Heads
<1>5. /\ Lines("nbr", NbrLine, 0) = <<>>
      /\ \A i \in 1..NbrMax : Lines("nbr", NbrLine, i) = Lines("nbr", NbrLine, i - 1) \o A(i)
      /\ \A i \in 0..NbrMax : Lines("nbr", NbrLine, i) \in Seq({"nbr"} \X (1..NbrMax))
  BY <1>1, LinesStep DEF A
<1>6. /\ Lines("route", RouteLine, 0) = <<>>
      /\ \A j \in 1..RouteMax : Lines("route", RouteLine, j) = Lines("route", RouteLine, j - 1) \o B(j)
      /\ \A j \in 0..RouteMax : Lines("route", RouteLine, j) \in Seq({"route"} \X (1..RouteMax))
  BY <1>1, LinesStep DEF B
<1>7. /\ \A i \in 0..NbrMax : Lines("nbr", NbrLine, i) \in Seq(Cell)
      /\ \A j \in 0..RouteMax : Lines("route", RouteLine, j) \in Seq(Cell)
  <2>1. {"nbr"} \X (1..NbrMax) \subseteq Cell /\ {"route"} \X (1..RouteMax) \subseteq Cell
    BY DEF Cell
  <2>2. \A S, T : S \subseteq T => Seq(S) \subseteq Seq(T)
    OBVIOUS
  <2>3. /\ Seq({"nbr"} \X (1..NbrMax)) \subseteq Seq(Cell)
        /\ Seq({"route"} \X (1..RouteMax)) \subseteq Seq(Cell)
    BY <2>1, <2>2
  <2>4. QED
    BY <1>5, <1>6, <2>3
<1>8. \A i \in 0..NbrMax : NeighborPart(i) = Heads \o Lines("nbr", NbrLine, i) /\ NeighborPart(i) \in Seq(Cell)
  BY <1>2, <1>7 DEF NeighborPart, Heads
<1>9. NeighborPart(0) = Heads
  <2>1. 0 \in 0..NbrMax
    BY <1>1
  <2>2. NeighborPart(0) = Heads \o <<>>
    BY <1>5, <1>8, <2>1, Zenon
  <2>3. QED
    BY <1>2, <2>2, JoinedWithNothing
<1>10. ASSUME NEW i \in 1..NbrMax PROVE NeighborPart(i) = NeighborPart(i - 1) \o A(i)
  <2>1. i \in 0..NbrMax /\ i - 1 \in 0..NbrMax
    BY <1>1
  <2>2. NeighborPart(i) = Heads \o (Lines("nbr", NbrLine, i - 1) \o A(i))
    BY <1>5, <1>8, <2>1
  <2>3. NeighborPart(i - 1) = Heads \o Lines("nbr", NbrLine, i - 1)
    BY <1>8, <2>1
  <2>4. Lines("nbr", NbrLine, i - 1) \in Seq(Cell) /\ A(i) \in Seq(Cell)
    BY <1>3, <1>7, <2>1
  <2>5. (Heads \o Lines("nbr", NbrLine, i - 1)) \o A(i)
          = Heads \o (Lines("nbr", NbrLine, i - 1) \o A(i))
    BY <1>2, <2>4, Joined
  <2>6. QED
    BY <2>2, <2>3, <2>5, Zenon
<1> DEFINE M == NeighborPart(NbrMax) \o <<Text("Routes")>>
<1>11. M \in Seq(Cell)
  BY <1>1, <1>2, <1>8
<1> HIDE DEF M
<1>12. \A j \in 0..RouteMax : RoutePart(j) = M \o Lines("route", RouteLine, j) /\ RoutePart(j) \in Seq(Cell)
  BY <1>7, <1>11 DEF RoutePart, M
<1>13. RoutePart(0) = M
  <2>1. 0 \in 0..RouteMax
    BY <1>1
  <2>2. RoutePart(0) = M \o <<>>
    BY <1>6, <1>12, <2>1, Zenon
  <2>3. QED
    BY <1>11, <2>2, JoinedWithNothing
<1>14. ASSUME NEW j \in 1..RouteMax PROVE RoutePart(j) = RoutePart(j - 1) \o B(j)
  <2>1. j \in 0..RouteMax /\ j - 1 \in 0..RouteMax
    BY <1>1
  <2>2. RoutePart(j) = M \o (Lines("route", RouteLine, j - 1) \o B(j))
    BY <1>6, <1>12, <2>1
  <2>3. RoutePart(j - 1) = M \o Lines("route", RouteLine, j - 1)
    BY <1>12, <2>1
  <2>4. Lines("route", RouteLine, j - 1) \in Seq(Cell) /\ B(j) \in Seq(Cell)
    BY <1>4, <1>7, <2>1
  <2>5. (M \o Lines("route", RouteLine, j - 1)) \o B(j)
          = M \o (Lines("route", RouteLine, j - 1) \o B(j))
    BY <1>11, <2>4, Joined
  <2>6. QED
    BY <2>2, <2>3, <2>5, Zenon
<1>15. QED
  BY <1>8, <1>9, <1>10, <1>12, <1>13, <1>14 DEF A, B, M, Heads

\* Each of the sequences continues the one before it.
Grow(f, n, S) == \A i \in 1..n : \E u \in Seq(S) : f[i] = f[i - 1] \o u

\* The last of them begins with each.
Begin(f, n, S) == \A i \in 0..n : \E u \in Seq(S) : f[n] = f[i] \o u

\* Of sequences each of which continues the one before, the last continues all.
LEMMA Prefixes ==
  ASSUME NEW S, NEW n \in Nat, NEW f \in [0..n -> Seq(S)], Grow(f, n, S)
  PROVE  Begin(f, n, S)
<1> DEFINE Begins(i) == \E u \in Seq(S) : f[n] = f[i] \o u
           T == {k \in 0..n : ~Begins(n - k)}
<1>1. Begins(n)
  <2>1. f[n] \in Seq(S) /\ <<>> \in Seq(S)
    OBVIOUS
  <2>2. f[n] = f[n] \o <<>>
    BY <2>1, JoinedWithNothing
  <2>3. QED
    BY <2>1, <2>2
<1>2. ASSUME NEW i \in 1..n, Begins(i) PROVE Begins(i - 1)
  <2>1. PICK u \in Seq(S) : f[n] = f[i] \o u
    BY <1>2
  <2>2. PICK v \in Seq(S) : f[i] = f[i - 1] \o v
    BY DEF Grow
  <2>3. PICK s \in Seq(S) : s = f[i - 1]
    OBVIOUS
  <2>4. (s \o v) \o u = s \o (v \o u) /\ v \o u \in Seq(S)
    BY Joined
  <2>5. f[n] = f[i - 1] \o (v \o u)
    BY <2>1, <2>2, <2>3, <2>4, Zenon
  <2>6. QED
    BY <2>4, <2>5
<1>3. T = {}
  <2> SUFFICES ASSUME T # {} PROVE FALSE
    OBVIOUS
  <2>1. PICK k \in T : \A j \in T : k <= j
    <3>1. T \subseteq Nat
      OBVIOUS
    <3> HIDE DEF T
    <3> QED BY <3>1, LeastNatural
  <2> HIDE DEF Begins
  <2>2. k \in 1..n
    <3>1. n - 0 = n
      OBVIOUS
    <3>2. k # 0
      BY <1>1, <3>1
    <3>3. QED
      BY <3>2
  <2>3. k - 1 \in 0..n /\ ~(k <= k - 1) /\ n - (k - 1) \in 1..n /\ (n - (k - 1)) - 1 = n - k
    BY <2>2
  <2>4. Begins(n - (k - 1))
    BY <2>1, <2>3
  <2>5. QED
    BY <1>2, <2>3, <2>4
<1>4. ASSUME NEW i \in 0..n PROVE Begins(i)
  <2> HIDE DEF Begins
  <2>1. n - i \in 0..n /\ n - (n - i) = i
    OBVIOUS
  <2>2. QED
    BY <1>3, <2>1
<1>5. QED
  BY <1>4 DEF Begin

\* The neighbours' part begins with each of its parts, and so does the page.
LEMMA PartsBegin ==
  /\ \A i \in 0..NbrMax : \E u \in Seq(Cell) : NeighborPart(NbrMax) = NeighborPart(i) \o u
  /\ \A j \in 0..RouteMax : \E u \in Seq(Cell) : RoutePart(RouteMax) = RoutePart(j) \o u
<1> DEFINE A(i) == [k \in 1..NbrLine[i] |-> <<"nbr", i>>]
           B(j) == [k \in 1..RouteLine[j] |-> <<"route", j>>]
           f == [i \in 0..NbrMax |-> NeighborPart(i)]
           g == [j \in 0..RouteMax |-> RoutePart(j)]
<1>1. NbrMax \in Nat /\ RouteMax \in Nat
  BY Sizes
<1>2. \A i \in 1..NbrMax : A(i) \in Seq(Cell)
  <2>1. \A i \in 1..NbrMax : <<"nbr", i>> \in Cell /\ NbrLine[i] \in Nat
    BY Sizes DEF Cell
  <2>2. QED
    BY <2>1, RepeatIsSeq
<1>3. \A j \in 1..RouteMax : B(j) \in Seq(Cell)
  <2>1. \A j \in 1..RouteMax : <<"route", j>> \in Cell /\ RouteLine[j] \in Nat
    BY Sizes DEF Cell
  <2>2. QED
    BY <2>1, RepeatIsSeq
<1>4. f \in [0..NbrMax -> Seq(Cell)] /\ g \in [0..RouteMax -> Seq(Cell)]
  BY PageParts
<1>5. \A i \in 1..NbrMax : NeighborPart(i) = NeighborPart(i - 1) \o A(i)
  BY PageParts
<1>6. \A j \in 1..RouteMax : RoutePart(j) = RoutePart(j - 1) \o B(j)
  BY PageParts
<1> HIDE DEF A, B
<1>7. Grow(f, NbrMax, Cell)
  <2>1. \A i \in 1..NbrMax : i \in 0..NbrMax /\ i - 1 \in 0..NbrMax
    BY <1>1
  <2>2. QED
    BY <1>2, <1>5, <2>1 DEF Grow
<1>8. Grow(g, RouteMax, Cell)
  <2>1. \A j \in 1..RouteMax : j \in 0..RouteMax /\ j - 1 \in 0..RouteMax
    BY <1>1
  <2>2. QED
    BY <1>3, <1>6, <2>1 DEF Grow
<1>9. NbrMax \in 0..NbrMax /\ RouteMax \in 0..RouteMax
  BY <1>1
<1>10. Begin(f, NbrMax, Cell)
  <2> HIDE DEF f
  <2> QED BY <1>1, <1>4, <1>7, Prefixes
<1>11. Begin(g, RouteMax, Cell)
  <2> HIDE DEF g
  <2> QED BY <1>1, <1>4, <1>8, Prefixes
<1>12. QED
  BY <1>9, <1>10, <1>11 DEF Begin

\* The last two cells.
LEMMA PageEnds ==
  /\ RoutePart(RouteMax) \o <<Text("end")>> \in Seq(Cell)
  /\ (RoutePart(RouteMax) \o <<Text("end")>>) \o <<Text("BOTTOM")>> = Page
<1>1. RoutePart(RouteMax) \in Seq(Cell)
  BY Sizes, PageParts
<1>2. /\ <<Text("end")>> \in Seq(Cell) /\ <<Text("BOTTOM")>> \in Seq(Cell)
      /\ <<Text("end")>> \o <<Text("BOTTOM")>> = <<Text("end"), Text("BOTTOM")>>
  <2>1. Text("end") \in Cell /\ Text("BOTTOM") \in Cell
    BY DEF Cell, Texts
  <2>2. QED
    BY <2>1, TwoJoined
<1>3. (RoutePart(RouteMax) \o <<Text("end")>>) \o <<Text("BOTTOM")>>
        = RoutePart(RouteMax) \o (<<Text("end")>> \o <<Text("BOTTOM")>>)
  BY <1>1, <1>2, Joined
<1>4. (RoutePart(RouteMax) \o <<Text("end")>>) \o <<Text("BOTTOM")>> = Page
  BY <1>2, <1>3, Zenon DEF Page
<1>5. QED
  BY <1>1, <1>2, <1>4

\* Wherever the thread is, the client has been sent the beginning of the page.
LEMMA UptoBegins ==
  ASSUME nbr \in 0..NbrMax, r \in 0..RouteMax, NEW label \in Label
  PROVE  /\ Upto(label) \in Seq(Cell)
         /\ \E u \in Seq(Cell) : Page = Upto(label) \o u
<1> DEFINE Begins(s) == s \in Seq(Cell) /\ \E u \in Seq(Cell) : Page = s \o u
<1>1. Text("status") \in Cell /\ Text("type") \in Cell /\ Text("TOP") \in Cell
      /\ Text("Neighbors") \in Cell /\ Text("Routes") \in Cell
      /\ Text("end") \in Cell /\ Text("BOTTOM") \in Cell
  <2>1. \A x \in Texts : Text(x) \in Cell
    BY DEF Cell
  <2>2. QED
    BY <2>1 DEF Texts
<1>2. ASSUME NEW s \in Seq(Cell), NEW t \in Seq(Cell), Begins(s \o t) PROVE Begins(s)
  <2>1. PICK u \in Seq(Cell) : Page = (s \o t) \o u
    BY <1>2
  <2>2. (s \o t) \o u = s \o (t \o u) /\ t \o u \in Seq(Cell)
    BY Joined
  <2>3. Page = s \o (t \o u)
    BY <2>1, <2>2, Zenon
  <2>4. QED
    BY <2>2, <2>3
<1>3. \A j \in 0..RouteMax : RoutePart(j) \in Seq(Cell)
  BY PageParts
<1>4. 0 \in 0..RouteMax /\ RouteMax \in 0..RouteMax /\ 0 \in 0..NbrMax /\ NbrMax \in 0..NbrMax
  BY Sizes
<1>5. Begins(Page)
  <2>1. Page \in Seq(Cell)
    <3> HIDE DEF Text
    <3> QED BY <1>1, <1>3, <1>4 DEF Page
  <2>2. Page = Page \o <<>> /\ <<>> \in Seq(Cell)
    BY <2>1, JoinedWithNothing
  <2>3. QED
    BY <2>1, <2>2
<1>6. Begins(RoutePart(RouteMax) \o <<Text("end")>>) /\ Begins(RoutePart(RouteMax))
  <2>1. RoutePart(RouteMax) \in Seq(Cell)
    BY <1>3, <1>4
  <2>2. <<Text("end")>> \in Seq(Cell) /\ <<Text("BOTTOM")>> \in Seq(Cell)
    BY <1>1
  <2>3. /\ (RoutePart(RouteMax) \o <<Text("end")>>) \o <<Text("BOTTOM")>> = Page
        /\ RoutePart(RouteMax) \o <<Text("end")>> \in Seq(Cell)
    BY PageEnds
  <2> HIDE DEF Begins
  <2>4. Begins(RoutePart(RouteMax) \o <<Text("end")>>)
    BY <1>2, <1>5, <2>2, <2>3
  <2>5. QED
    BY <1>2, <2>1, <2>2, <2>4
<1>7. \A j \in 0..RouteMax : Begins(RoutePart(j))
  <2> HIDE DEF Begins
  <2>1. \A j \in 0..RouteMax : \E u \in Seq(Cell) : RoutePart(RouteMax) = RoutePart(j) \o u
    BY PartsBegin
  <2>2. QED
    BY <1>2, <1>3, <1>6, <2>1
<1>8. \A i \in 0..NbrMax : Begins(NeighborPart(i))
  <2> HIDE DEF Begins
  <2>1. \A i \in 0..NbrMax : NeighborPart(i) \in Seq(Cell)
    BY PageParts
  <2>2. <<Text("Routes")>> \in Seq(Cell)
    BY <1>1
  <2>3. Begins(NeighborPart(NbrMax))
    BY <1>2, <1>4, <1>7, <2>1, <2>2, PageParts
  <2>4. \A i \in 0..NbrMax : \E u \in Seq(Cell) : NeighborPart(NbrMax) = NeighborPart(i) \o u
    BY PartsBegin
  <2>5. QED
    BY <1>2, <2>1, <2>3, <2>4
<1> DEFINE H3 == <<Text("status"), Text("type"), Text("TOP")>>
           H2 == <<Text("status"), Text("type")>>
           H1 == <<Text("status")>>
<1>9. Begins(H3) /\ Begins(H2) /\ Begins(H1)
  <2>1. /\ H3 \in Seq(Cell) /\ H2 \in Seq(Cell) /\ H1 \in Seq(Cell)
        /\ <<Text("Neighbors")>> \in Seq(Cell) /\ <<Text("TOP")>> \in Seq(Cell)
        /\ <<Text("type")>> \in Seq(Cell)
    BY <1>1
  <2>2. NeighborPart(0) = H3 \o <<Text("Neighbors")>>
    <3>1. H3 \o <<Text("Neighbors")>> =
            <<Text("status"), Text("type"), Text("TOP"), Text("Neighbors")>>
      BY FourJoined
    <3>2. QED
      BY <3>1, PageParts, Zenon
  <2>3. H3 = H2 \o <<Text("TOP")>> /\ H2 = H1 \o <<Text("type")>>
    BY TwoJoined, ThreeJoined
  <2> HIDE DEF Begins, H1, H2, H3
  <2>4. Begins(H3)
    BY <1>2, <1>4, <1>8, <2>1, <2>2
  <2>5. Begins(H2)
    BY <1>2, <2>1, <2>3, <2>4
  <2>6. QED
    BY <1>2, <2>1, <2>3, <2>4, <2>5
<1>10. Begins(Upto(label))
  <2>1. /\ (IF nbr = 0 THEN NbrMax ELSE nbr - 1) \in 0..NbrMax
        /\ (IF r = 0 THEN RouteMax ELSE r - 1) \in 0..RouteMax
    BY Sizes
  <2> HIDE DEF Begins
  <2>2. QED
    BY <1>4, <1>5, <1>6, <1>7, <1>8, <1>9, <2>1 DEF Upto, Label
<1>11. QED
  BY <1>10

-----------------------------------------------------------------------------
(* The page of the only connection *)

\* A part of the buffer.
LEMMA PartType ==
  ASSUME NEW f \in [1..BufSize -> Cell], NEW p \in Nat, NEW n \in Nat, p + n <= BufSize
  PROVE  /\ [i \in 1..n |-> f[p + i]] \in Seq(Cell)
         /\ Len([i \in 1..n |-> f[p + i]]) = n
<1>1. \A i \in 1..n : p + i \in 1..BufSize
  BY Sizes
<1> DEFINE s == [i \in 1..n |-> f[p + i]]
<1>2. s \in [1..n -> Cell]
  BY <1>1
<1>3. s \in Seq(Cell)
  <2> HIDE DEF s
  <2>1. s \in UNION {[1..m -> Cell] : m \in Nat}
    BY <1>2
  <2>2. QED
    BY <2>1, SeqDef
<1>4. Len(s) = n
  <2>1. DOMAIN s = 1..n
    OBVIOUS
  <2> HIDE DEF s
  <2>2. QED
    BY <1>3, <2>1, LenProperties
<1>5. QED
  BY <1>3, <1>4

\* A part of the buffer is its beginning and the part behind that.
LEMMA PartSplit ==
  ASSUME NEW f \in [1..BufSize -> Cell], NEW p \in Nat, NEW m \in Nat, NEW n \in Nat,
         p + m + n <= BufSize
  PROVE  [i \in 1..(m + n) |-> f[p + i]]
           = [i \in 1..m |-> f[p + i]] \o [i \in 1..n |-> f[(p + m) + i]]
<1> DEFINE s == [i \in 1..m |-> f[p + i]]
           u == [i \in 1..n |-> f[(p + m) + i]]
           t == [i \in 1..(m + n) |-> f[p + i]]
<1>1. /\ p + m <= BufSize /\ p + (m + n) <= BufSize
      /\ m + n \in Nat /\ p + m \in Nat /\ (p + m) + n <= BufSize
  BY Sizes
<1>2. /\ s \in Seq(Cell) /\ Len(s) = m
      /\ u \in Seq(Cell) /\ Len(u) = n
      /\ t \in Seq(Cell) /\ Len(t) = m + n
  <2>1. s \in Seq(Cell) /\ Len(s) = m
    BY <1>1, PartType
  <2>2. u \in Seq(Cell) /\ Len(u) = n
    BY <1>1, PartType
  <2>3. t \in Seq(Cell) /\ Len(t) = m + n
    BY <1>1, PartType
  <2>4. QED
    BY <2>1, <2>2, <2>3
<1>3. \A i \in 1..(m + n) : t[i] = IF i <= m THEN s[i] ELSE u[i - m]
  <2> SUFFICES ASSUME NEW i \in 1..(m + n)
               PROVE  t[i] = IF i <= m THEN s[i] ELSE u[i - m]
    OBVIOUS
  <2>1. CASE i <= m
    BY <2>1
  <2>2. CASE ~(i <= m)
    <3>1. i - m \in 1..n /\ (p + m) + (i - m) = p + i
      BY <2>2
    <3>2. QED
      BY <2>2, <3>1
  <2>3. QED
    BY <2>1, <2>2
<1> HIDE DEF s, t, u
<1>4. /\ s \o u \in Seq(Cell) /\ Len(s \o u) = m + n
      /\ \A i \in 1..(m + n) : (s \o u)[i] = IF i <= m THEN s[i] ELSE u[i - m]
  BY <1>2, ConcatProperties
<1>5. t = s \o u
  BY <1>2, <1>3, <1>4, SeqEqual
<1>6. QED
  BY <1>5 DEF s, t, u

\* What ADD leaves in the buffer: what lay there, and the cells of the line.
LEMMA AddedPart ==
  ASSUME IInv, NEW c \in clean, NEW x \in Cell, NEW n \in Nat, NEW from \in Nat,
         from + n < BufSize, ADD(x, n, from)
  PROVE  [i \in 1..blen' |-> buf'[0 + i]] = Part(0, from) \o [k \in 1..n |-> x]
<1>1. buf' \in [1..BufSize -> Cell] /\ blen' = from + n
  BY AddType
<1>2. /\ \A i \in 1..from : buf'[i] = buf[i]
      /\ \A i \in 1..n : buf'[from + i] = x
  <2>1. buf' = [i \in 1..BufSize |-> IF i > from /\ i <= from + n THEN x
                        ELSE IF i = from + n + 1 THEN Nul ELSE buf[i]]
    BY DEF ADD, Written
  <2>2. \A i \in 1..from : i \in 1..BufSize /\ ~(i > from) /\ i # from + n + 1
    BY Sizes
  <2>3. \A i \in 1..n : from + i \in 1..BufSize /\ from + i > from /\ from + i <= from + n
    BY Sizes
  <2>4. \A i \in 1..from : buf'[i] = buf[i]
    BY <2>1, <2>2
  <2>5. \A i \in 1..n : buf'[from + i] = x
    BY <2>1, <2>3
  <2>6. QED
    BY <2>4, <2>5
<1>3. [i \in 1..(from + n) |-> buf'[0 + i]]
        = [i \in 1..from |-> buf'[0 + i]] \o [i \in 1..n |-> buf'[(0 + from) + i]]
  <2>1. 0 \in Nat /\ 0 + from + n <= BufSize
    BY Sizes
  <2>2. QED
    BY <1>1, <2>1, PartSplit
<1>4. [i \in 1..from |-> buf'[0 + i]] = Part(0, from)
  BY <1>2 DEF Part
<1>5. [i \in 1..n |-> buf'[(0 + from) + i]] = [k \in 1..n |-> x]
  BY <1>2
<1>6. QED
  BY <1>1, <1>3, <1>4, <1>5

\* What a clean connection's thread transmits is what it has in flight then.
LEMMA SegmentInFlight ==
  ASSUME NEW c \in clean, NEW b, NEW l, NEW p, NEW n,
         pc'[b] = l, sendptr'[b] = p, sendlen'[b] = n
  PROVE  Transmitted(c, l, p, n) = InFlight(b)'
  BY DEF Transmitted, Segment, InFlight, Part

\* No part of the buffer.
LEMMA NoPart == \A f, p : [i \in 1..0 |-> f[p + i]] = <<>>
  OBVIOUS

\* What is pending are cells.
LEMMA PendingType ==
  ASSUME IInv, NEW c \in clean, HasPage(c), conn[c] = "open", state[appstate[c]] = "OUTPUT"
  PROVE  /\ Pending(appstate[c], running # c) \in Seq(Cell)
         /\ Upto(pc[appstate[c]]) \in Seq(Cell)
         /\ \E u \in Seq(Cell) : Page = Upto(pc[appstate[c]]) \o u
<1> DEFINE b == appstate[c]
<1>1. c \in Client /\ b \in CONNS
  BY OpenIsLive, BlockOf DEF IInv, TypeOK
<1>2. /\ pc[b] \in Label /\ sendptr[b] \in Nat /\ sendlen[b] \in Nat
      /\ buf \in [1..BufSize -> Cell] /\ blen \in Nat /\ blen < BufSize
      /\ nbr \in 0..NbrMax /\ r \in 0..RouteMax
  BY <1>1 DEF IInv, TypeOK, BufferFits
<1>3. CASE running = c
  <2> DEFINE n == IF pc[b] = "nbrs" THEN blen ELSE 0
  <2>1. n \in Nat /\ 0 \in Nat /\ 0 + n <= BufSize
    BY <1>2, Sizes
  <2> HIDE DEF n
  <2>2. Part(0, n) \in Seq(Cell)
    BY <1>2, <2>1, PartType DEF Part
  <2>3. Pending(b, running # c) \in Seq(Cell)
    BY <1>3, <2>2 DEF Pending, n
  <2>4. QED
    BY <1>2, <2>3, UptoBegins
<1>4. CASE running # c
  <2>1. CASE pc[b] \in DOMAIN Constant
    <3>1. <<Text(Constant[pc[b]])>> \in Seq(Cell)
      BY <2>1, Constants
    <3>2. Pending(b, running # c) \in Seq(Cell)
      BY <1>4, <2>1, <3>1 DEF Pending
    <3>3. QED
      BY <1>2, <3>2, UptoBegins
  <2>2. CASE pc[b] \notin DOMAIN Constant
    <3>1. unacked[c] # {}
      BY <1>4 DEF HasPage
    <3>2. sendptr[b] + sendlen[b] <= BufSize
      <4>1. sendptr[b] + sendlen[b] < BufSize
        BY <1>1, <2>2, <3>1 DEF IInv, SendsWithinBuf
      <4>2. QED
        BY <1>2, <4>1, Sizes
    <3>3. Part(sendptr[b], sendlen[b]) \in Seq(Cell)
      BY <1>2, <3>2, PartType DEF Part
    <3>4. Pending(b, running # c) \in Seq(Cell)
      BY <1>4, <2>2, <3>3 DEF Pending
    <3>5. QED
      BY <1>2, <3>4, UptoBegins
  <2>3. QED
    BY <2>1, <2>2
<1>5. QED
  BY <1>3, <1>4

\* A sequence is the beginning of all that it continues to.
LEMMA BeginsWith ==
  ASSUME NEW S, NEW s \in Seq(S), NEW u \in Seq(S)
  PROVE  s = SubSeq(s \o u, 1, Len(s))
<1>1. CASE s = <<>>
  <2>1. Len(s) = 0
    BY <1>1
  <2>2. SubSeq(s \o u, 1, 0) = <<>>
    BY SubSeqEmpty
  <2>3. QED
    BY <1>1, <2>1, <2>2
<1>2. CASE s # <<>>
  <2>1. 1 \in 1..Len(s) /\ Len(s) \in 1..Len(s)
    BY <1>2, EmptySeq
  <2>2. SubSeq(s \o u, 1, Len(s)) = SubSeq(s, 1, Len(s))
    BY <2>1, SubSeqOfConcat1
  <2>3. QED
    BY <2>2, SubSeqFull
<1>3. QED
  BY <1>1, <1>2

\* At any time the only client has the beginning of the page.
LEMMA GotBegins ==
  ASSUME IInv, NEW c \in clean, HasPage(c)
  PROVE  got[c] = SubSeq(Page, 1, Len(got[c]))
<1> DEFINE b == appstate[c]
<1>1. c \in Client /\ got[c] \in Seq(Cell) /\ conn[c] \in {"open", "closing", "closed"}
  BY DEF IInv, TypeOK
<1>2. CASE ~Live(c)
  BY <1>2 DEF HasPage
<1>3. CASE Live(c) /\ state[b] # "OUTPUT"
  <2>1. got[c] = <<>> /\ Len(<<>>) = 0
    BY <1>3 DEF HasPage
  <2>2. SubSeq(Page, 1, 0) = <<>>
    BY SubSeqEmpty
  <2>3. QED
    BY <2>1, <2>2
<1>4. CASE conn[c] = "closing" /\ state[b] = "OUTPUT"
  <2>1. got[c] = Page
    BY <1>4 DEF HasPage
  <2>2. QED
    BY <1>1, <2>1, SubSeqFull
<1>5. CASE conn[c] = "open" /\ state[b] = "OUTPUT"
  <2>1. PICK p \in Seq(Cell) : got[c] \o p = Upto(pc[b])
    BY <1>5, PendingType DEF HasPage
  <2>2. PICK u \in Seq(Cell) : Page = Upto(pc[b]) \o u
    BY <1>5, PendingType
  <2>3. PICK s \in Seq(Cell) : s = got[c]
    BY <1>1
  <2>4. (s \o p) \o u = s \o (p \o u) /\ p \o u \in Seq(Cell)
    BY Joined
  <2>5. Page = s \o (p \o u)
    BY <2>1, <2>2, <2>3, <2>4, Zenon
  <2>6. s = SubSeq(s \o (p \o u), 1, Len(s))
    <3> HIDE DEF b
    <3>1. PICK w \in Seq(Cell) : w = p \o u
      BY <2>4
    <3>2. s = SubSeq(s \o w, 1, Len(s))
      BY BeginsWith
    <3>3. QED
      BY <3>1, <3>2, Zenon
  <2>7. QED
    BY <2>3, <2>5, <2>6, Zenon
<1>6. QED
  BY <1>1, <1>2, <1>3, <1>4, <1>5 DEF Live

\* A thread that sends the next string and waits.
LEMMA SendsOn ==
  ASSUME IInv, NEW c \in clean, HasPage(c), conn[c] = "open",
         NEW l \in Label, NEW n \in Nat, PSOCK_SEND(c, l, n),
         UNCHANGED <<conn, appstate, stable, clean, got>>,
         state'[appstate[c]] = "OUTPUT",
         l = "nbrsent" => nbr' # 0, l = "route" => r' # 0, l \in DOMAIN Constant => n <= 1,
         got[c] \o (IF l \in DOMAIN Constant THEN <<Text(Constant[l])>>
                                           ELSE [i \in 1..n |-> buf'[0 + i]]) = Upto(l)'
  PROVE  HasPage(c)'
<1> DEFINE b == appstate[c]
<1>1. c \in Client /\ b \in CONNS /\ c # None
  BY OpenIsLive, BlockOf, NoneIsNobody DEF IInv, TypeOK
<1>2. /\ pc'[b] = l /\ sendptr'[b] = 0 /\ sendlen'[b] = n /\ running' = None
      /\ unacked'[c] = {Transmitted(c, l, 0, n)}
  BY <1>1 DEF PSOCK_SEND, IInv, TypeOK
<1>3. unacked'[c] = {InFlight(b)'}
  BY <1>2, SegmentInFlight
<1>4. (IF l \in DOMAIN Constant THEN <<Text(Constant[l])>>
                                  ELSE [i \in 1..n |-> buf'[0 + i]]) = Pending(b, TRUE)'
  BY <1>2 DEF Pending, Part
<1>5. stable' /\ (\A d \in Client : Live(d)' => d = c) /\ Live(c)' /\ running' # c
  BY <1>1, <1>2, OpenIsLive DEF HasPage, Live
<1>6. HasPage(c)'
  BY <1>1, <1>2, <1>3, <1>4, <1>5 DEF HasPage
<1>7. QED
  BY <1>6

\* A thread that goes on, to the head of a loop or from one place to the next.
LEMMA GoesOn ==
  ASSUME IInv, NEW c \in clean, HasPage(c), running = c, conn[c] = "open",
         NEW l \in {"nbrs", "routes"}, Continue(c, l),
         UNCHANGED <<conn, appstate, stable, clean, got>>,
         state'[appstate[c]] = "OUTPUT",
         got[c] \o [i \in 1..(IF l = "nbrs" THEN blen' ELSE 0) |-> buf'[0 + i]] = Upto(l)'
  PROVE  HasPage(c)'
<1> DEFINE b == appstate[c]
<1>1. c \in Client /\ b \in CONNS
  BY OpenIsLive, BlockOf DEF IInv, TypeOK
<1>2. pc'[b] = l /\ running' = c
  BY <1>1 DEF Continue, IInv, TypeOK
<1>3. l \notin DOMAIN Constant
  BY Constants
<1>4. [i \in 1..(IF l = "nbrs" THEN blen' ELSE 0) |-> buf'[0 + i]] = Pending(b, FALSE)'
  BY <1>2 DEF Pending, Part
<1>5. stable' /\ (\A d \in Client : Live(d)' => d = c) /\ Live(c)'
  BY <1>1, <1>2, OpenIsLive DEF HasPage, Live
<1>6. QED
  BY <1>1, <1>2, <1>3, <1>4, <1>5 DEF HasPage

\* What the only client has when its thread runs.
LEMMA WhatIsThere ==
  ASSUME IInv, NEW c \in clean, HasPage(c), running = c
  PROVE  /\ c \in Client /\ appstate[c] \in CONNS /\ conn[c] = "open"
         /\ state[appstate[c]] = "OUTPUT" /\ stable
         /\ got[c] \in Seq(Cell)
         /\ pc[appstate[c]] = "nbrs" => got[c] \o Part(0, blen) = Upto("nbrs")
         /\ pc[appstate[c]] # "nbrs" => got[c] = Upto(pc[appstate[c]])
<1> DEFINE b == appstate[c]
<1>1. c \in Client /\ got[c] \in Seq(Cell)
  BY DEF IInv, TypeOK
<1>2. b \in CONNS /\ conn[c] = "open"
  BY <1>1, Running
<1>3. Live(c)
  BY <1>1, <1>2, OpenIsLive
<1>4. state[b] = "OUTPUT" /\ stable /\ got[c] \o Pending(b, FALSE) = Upto(pc[b])
  BY <1>2, <1>3 DEF HasPage
<1>5. pc[b] = "nbrs" => Pending(b, FALSE) = Part(0, blen)
  BY DEF Pending
<1>6. pc[b] # "nbrs" => Pending(b, FALSE) = <<>>
  BY NoPart DEF Pending, Part
<1>7. got[c] \o <<>> = got[c]
  BY <1>1, JoinedWithNothing
<1>8. QED
  BY <1>1, <1>2, <1>4, <1>5, <1>6, <1>7

\* The steps that send a constant: the content type, the top and the bottom.
LEMMA SendConstantHasPage ==
  ASSUME IInv, NEW c \in clean, HasPage(c), send_headers(c) \/ SendTop(c) \/ SendBottom(c)
  PROVE  HasPage(c)'
<1> USE DEF pool, psock, page, history, Outside
<1> DEFINE b == appstate[c]
<1>1. PICK at \in Label, l \in {"type", "top", "bottom"} :
        /\ SendConstant(c, at, l)
        /\ << at, l >> \in {<<"header", "type">>, <<"type", "top">>, <<"end", "bottom">>}
  BY DEF send_headers, SendTop, SendBottom, Label
<1>2. running = c /\ pc[b] = at
  BY <1>1 DEF SendConstant, At
<1>3. conn[c] = "open" /\ state[b] = "OUTPUT" /\ got[c] \in Seq(Cell) /\ got[c] = Upto(at)
  BY <1>1, <1>2, WhatIsThere
<1>4. l \in Label /\ l \in DOMAIN Constant
  BY Constants DEF Label
<1>5. got[c] \o <<Text(Constant[l])>> = Upto(l)
  <2>1. CASE at = "header"
    <3>1. l = "type" /\ Constant[l] = "type"
      BY <1>1, <2>1 DEF Constant
    <3>2. QED
      BY <1>3, <2>1, <3>1, TwoJoined DEF Upto
  <2>2. CASE at = "type"
    <3>1. l = "top" /\ Constant[l] = "TOP"
      BY <1>1, <2>2 DEF Constant
    <3>2. QED
      BY <1>3, <2>2, <3>1, ThreeJoined DEF Upto
  <2>3. CASE at = "end"
    <3>1. l = "bottom" /\ Constant[l] = "BOTTOM"
      BY <1>1, <2>3 DEF Constant
    <3>2. got[c] = RoutePart(RouteMax) \o <<Text("end")>> /\ Upto(l) = Page
      BY <1>3, <2>3, <3>1 DEF Upto
    <3>3. QED
      BY <3>1, <3>2, PageEnds, Zenon
  <2>4. QED
    BY <1>1, <2>1, <2>2, <2>3
<1>6. Upto(l)' = Upto(l)
  BY <1>1 DEF SendConstant, Upto
<1>7. PSOCK_SEND(c, l, 1) /\ UNCHANGED <<conn, appstate, stable, clean, got, state>>
  BY <1>1 DEF SendConstant
<1>8. 1 \in Nat /\ 1 <= 1 /\ l # "nbrsent" /\ l # "route"
  OBVIOUS
<1>9. QED
  BY <1>3, <1>4, <1>5, <1>6, <1>7, <1>8, SendsOn

\* The line that is added continues what the client has and what lies in the buffer.
LEMMA AddedLine ==
  ASSUME IInv, NEW c \in clean, NEW x \in Cell, NEW n \in Nat, NEW from \in Nat,
         from + n < BufSize, ADD(x, n, from),
         NEW s \in Seq(Cell)
  PROVE  s \o [i \in 1..blen' |-> buf'[0 + i]] = (s \o Part(0, from)) \o [k \in 1..n |-> x]
<1>1. [i \in 1..blen' |-> buf'[0 + i]] = Part(0, from) \o [k \in 1..n |-> x]
  BY AddedPart
<1>2. from <= BufSize /\ 0 + from <= BufSize /\ 0 \in Nat
  BY Sizes
<1>3. PICK p \in Seq(Cell) : p = Part(0, from)
  BY <1>2, PartType DEF Part, IInv, TypeOK
<1>4. PICK t \in Seq(Cell) : t = [k \in 1..n |-> x]
  BY RepeatIsSeq
<1>5. (s \o p) \o t = s \o (p \o t)
  BY Joined
<1>6. QED
  BY <1>1, <1>3, <1>4, <1>5, Zenon

\* One cell.
LEMMA OneCell == \A x : [k \in 1..1 |-> x] = <<x>>
<1> SUFFICES ASSUME NEW x PROVE [k \in 1..1 |-> x] = <<x>>
  OBVIOUS
<1>1. [k \in 1..1 |-> x] \in Seq({x}) /\ Len([k \in 1..1 |-> x]) = 1
  OBVIOUS
<1>2. <<x>> \in Seq({x}) /\ Len(<<x>>) = 1 /\ <<x>>[1] = x
  OBVIOUS
<1>3. \A i \in 1..1 : [k \in 1..1 |-> x][i] = <<x>>[i]
  BY <1>2
<1>4. QED
  BY <1>1, <1>2, <1>3, SeqEqual

\* Where the iterators of a table that does not change go next.
LEMMA NextIs ==
  ASSUME stable
  PROVE  /\ \A m \in Nat : \A i \in 1..m : \A j \in NextEntry(i, m) :
              (IF j = 0 THEN m ELSE j - 1) = i
         /\ \A m \in Nat : \A j \in FirstEntry(m) : (IF j = 0 THEN m ELSE j - 1) = 0
  BY DEF NextEntry, FirstEntry

\* The first heading.
LEMMA TopHasPage ==
  ASSUME IInv, NEW c \in clean, HasPage(c), Top(c) PROVE HasPage(c)'
<1> USE DEF pool, psock, page, history, Outside
<1>1. running = c /\ pc[appstate[c]] = "top"
  BY DEF Top, At
<1>2. /\ conn[c] = "open" /\ state[appstate[c]] = "OUTPUT" /\ stable
      /\ got[c] \in Seq(Cell) /\ got[c] = Upto("top")
  BY <1>1, WhatIsThere
<1>3. got[c] = <<Text("status"), Text("type"), Text("TOP")>>
  BY <1>2 DEF Upto
<1>4. Text("Neighbors") \in Cell /\ ADD(Text("Neighbors"), 1, 0) /\ 0 + 1 < BufSize
      /\ 0 \in Nat /\ 1 \in Nat
  BY Sizes DEF Top, Cell, Texts
<1>5. got[c] \o [i \in 1..blen' |-> buf'[0 + i]]
        = (got[c] \o Part(0, 0)) \o [k \in 1..1 |-> Text("Neighbors")]
  BY <1>2, <1>4, AddedLine
<1>6. got[c] \o Part(0, 0) = got[c]
  BY <1>2, NoPart, JoinedWithNothing DEF Part
<1>7. got[c] \o [i \in 1..blen' |-> buf'[0 + i]] = NeighborPart(0)
  <2>1. <<Text("status"), Text("type"), Text("TOP")>> \o <<Text("Neighbors")>> = NeighborPart(0)
    <3>1. <<Text("status"), Text("type"), Text("TOP")>> \o <<Text("Neighbors")>>
            = <<Text("status"), Text("type"), Text("TOP"), Text("Neighbors")>>
      BY FourJoined
    <3>2. QED
      BY <3>1, PageParts, Zenon
  <2>2. [k \in 1..1 |-> Text("Neighbors")] = <<Text("Neighbors")>>
    BY OneCell
  <2>3. QED
    BY <1>3, <1>5, <1>6, <2>1, <2>2, Zenon
<1>8. NbrMax \in Nat /\ nbr' \in FirstEntry(NbrMax)
  BY Sizes DEF Top
<1>9. (IF nbr' = 0 THEN NbrMax ELSE nbr' - 1) = 0
  BY <1>2, <1>8, NextIs
<1>10. Upto("nbrs")' = NeighborPart(0)
  BY <1>9 DEF Upto
<1>11. Continue(c, "nbrs") /\ UNCHANGED <<conn, appstate, stable, clean, got, state>>
  BY DEF Top
<1>12. QED
  BY <1>1, <1>2, <1>7, <1>10, <1>11, GoesOn

\* A step of the loops that writes a line and sends the buffer.
LEMMA SendBufHasPage ==
  ASSUME IInv, NEW c \in clean, HasPage(c), running = c,
         NEW l \in {"nbrsent", "heading", "route", "end"},
         NEW x \in Cell, NEW n \in Nat, ADD(x, n, blen), PSOCK_SEND(c, l, blen'),
         blen + n < BufSize, UNCHANGED <<Outside, nbr, r>>,
         l = "nbrsent" => nbr # 0, l = "route" => r # 0,
         (got[c] \o Part(0, blen)) \o [k \in 1..n |-> x] = Upto(l)
  PROVE  HasPage(c)'
<1> USE DEF pool, history, Outside
<1>1. conn[c] = "open" /\ state[appstate[c]] = "OUTPUT" /\ got[c] \in Seq(Cell)
  BY WhatIsThere
<1>2. blen \in Nat /\ blen' \in Nat
  BY AddType DEF IInv, TypeOK
<1>3. got[c] \o [i \in 1..blen' |-> buf'[0 + i]]
        = (got[c] \o Part(0, blen)) \o [k \in 1..n |-> x]
  BY <1>1, <1>2, AddedLine
<1>4. Upto(l)' = Upto(l)
  BY DEF Upto
<1>5. l \in Label /\ l \notin DOMAIN Constant
  BY Constants DEF Label
<1>6. got[c] \o [i \in 1..blen' |-> buf'[0 + i]] = Upto(l)'
  BY <1>3, <1>4, Zenon
<1>7. UNCHANGED <<conn, appstate, stable, clean, got, state, nbr, r>>
  OBVIOUS
<1>8. QED
  BY <1>1, <1>2, <1>5, <1>6, <1>7, SendsOn

\* A step of the loops that has nothing in the buffer and goes to the next entry.
LEMMA NextHasPage ==
  ASSUME IInv, NEW c \in clean, HasPage(c), running = c,
         NEW l \in {"nbrs", "routes"}, Continue(c, l), blen' = 0,
         UNCHANGED Outside, got[c] = Upto(l)'
  PROVE  HasPage(c)'
<1> USE DEF pool, history, Outside
<1>1. conn[c] = "open" /\ state[appstate[c]] = "OUTPUT" /\ got[c] \in Seq(Cell)
  BY WhatIsThere
<1>2. [i \in 1..(IF l = "nbrs" THEN blen' ELSE 0) |-> buf'[0 + i]] = <<>>
  BY NoPart
<1>3. got[c] \o <<>> = got[c]
  BY <1>1, JoinedWithNothing
<1>4. got[c] \o [i \in 1..(IF l = "nbrs" THEN blen' ELSE 0) |-> buf'[0 + i]] = Upto(l)'
  BY <1>2, <1>3, Zenon
<1>5. UNCHANGED <<conn, appstate, stable, clean, got, state>>
  OBVIOUS
<1>6. QED
  BY <1>1, <1>4, <1>5, GoesOn

\* The line of a neighbour.
LEMMA NeighborHasPage ==
  ASSUME IInv, NEW c \in clean, HasPage(c), Neighbor(c) PROVE HasPage(c)'
<1> USE DEF pool, psock, page, history, Outside
<1> DEFINE x == <<"nbr", nbr>>
           n == NbrLine[nbr]
<1>1. running = c /\ pc[appstate[c]] = "nbrs" /\ nbr # 0 /\ ADD(x, n, blen)
  BY DEF Neighbor, At
<1>2. /\ conn[c] = "open" /\ state[appstate[c]] = "OUTPUT" /\ stable
      /\ got[c] \in Seq(Cell) /\ got[c] \o Part(0, blen) = Upto("nbrs")
  BY <1>1, WhatIsThere
<1>3. nbr \in 1..NbrMax /\ NbrMax \in Nat
  BY <1>1, Sizes DEF IInv, TypeOK
<1>4. n \in Nat /\ x \in Cell /\ blen \in Nat /\ blen + n < BufSize
  <2>1. x \in Cell
    BY <1>3 DEF Cell
  <2>2. n \in Nat /\ n < Margin
    BY <1>3, Sizes
  <2>3. blen \in Nat /\ blen <= BufSize - Margin
    BY <1>1, NoneIsNobody, WhatIsThere DEF IInv, TypeOK, RunsWithRoom
  <2>4. QED
    BY <2>1, <2>2, <2>3, Sizes
<1>5. (got[c] \o Part(0, blen)) \o [k \in 1..n |-> x] = NeighborPart(nbr)
  <2>1. Upto("nbrs") = NeighborPart(nbr - 1)
    BY <1>1 DEF Upto
  <2>2. NeighborPart(nbr) = NeighborPart(nbr - 1) \o [k \in 1..NbrLine[nbr] |-> <<"nbr", nbr>>]
    BY <1>3, PageParts
  <2>3. QED
    BY <1>2, <2>1, <2>2, Zenon
<1>6. CASE blen' > BufSize - Margin
  <2>1. PSOCK_SEND(c, "nbrsent", blen') /\ UNCHANGED <<Outside, nbr, r>>
    BY <1>6 DEF Neighbor
  <2>2. Upto("nbrsent") = NeighborPart(nbr)
    BY DEF Upto
  <2>3. (got[c] \o Part(0, blen)) \o [k \in 1..n |-> x] = Upto("nbrsent")
    BY <1>5, <2>2, Zenon
  <2> HIDE DEF x, n
  <2>4. QED
    BY <1>1, <1>4, <2>1, <2>3, SendBufHasPage
<1>7. CASE ~(blen' > BufSize - Margin)
  <2>1. Continue(c, "nbrs") /\ nbr' \in NextEntry(nbr, NbrMax)
    BY <1>7 DEF Neighbor
  <2>2. (IF nbr' = 0 THEN NbrMax ELSE nbr' - 1) = nbr
    BY <1>2, <1>3, <2>1, NextIs
  <2>3. Upto("nbrs")' = NeighborPart(nbr)
    BY <2>2 DEF Upto
  <2>4. got[c] \o [i \in 1..blen' |-> buf'[0 + i]]
          = (got[c] \o Part(0, blen)) \o [k \in 1..n |-> x]
    <3> HIDE DEF x, n
    <3> QED BY <1>1, <1>2, <1>4, AddedLine
  <2>5. got[c] \o [i \in 1..blen' |-> buf'[0 + i]] = Upto("nbrs")'
    BY <1>5, <2>3, <2>4, Zenon
  <2>6. UNCHANGED <<conn, appstate, stable, clean, got, state>>
    BY DEF Neighbor
  <2>7. QED
    BY <1>1, <1>2, <2>1, <2>5, <2>6, GoesOn
<1>8. QED
  BY <1>6, <1>7

\* The flushed lines of neighbours have arrived.
LEMMA NeighborSentHasPage ==
  ASSUME IInv, NEW c \in clean, HasPage(c), NeighborSent(c) PROVE HasPage(c)'
<1> USE DEF pool, psock, page, history, Outside
<1>1. /\ running = c /\ pc[appstate[c]] = "nbrsent" /\ blen' = 0
      /\ nbr' \in NextEntry(nbr, NbrMax) /\ Continue(c, "nbrs") /\ UNCHANGED Outside
  BY DEF NeighborSent, At
<1>2. stable /\ got[c] = NeighborPart(nbr) /\ conn[c] = "open" /\ state[appstate[c]] = "OUTPUT"
  BY <1>1, WhatIsThere DEF Upto
<1>3. nbr \in 1..NbrMax /\ NbrMax \in Nat
  BY <1>1, <1>2, Sizes DEF IInv, TypeOK, HasPage
<1>4. (IF nbr' = 0 THEN NbrMax ELSE nbr' - 1) = nbr
  BY <1>1, <1>2, <1>3, NextIs
<1>5. got[c] = Upto("nbrs")'
  BY <1>2, <1>4 DEF Upto
<1>6. QED
  BY <1>1, <1>5, NextHasPage

\* The second heading, behind the lines that are not sent yet.
LEMMA RoutesHeadingHasPage ==
  ASSUME IInv, NEW c \in clean, HasPage(c), RoutesHeading(c) PROVE HasPage(c)'
<1> USE DEF pool, psock, page, history, Outside
<1> DEFINE x == Text("Routes")
<1>1. /\ running = c /\ pc[appstate[c]] = "nbrs" /\ nbr = 0 /\ ADD(x, 1, blen)
      /\ PSOCK_SEND(c, "heading", blen') /\ UNCHANGED <<Outside, nbr, r>>
  BY DEF RoutesHeading, At
<1>2. conn[c] = "open" /\ got[c] \o Part(0, blen) = NeighborPart(NbrMax)
  BY <1>1, WhatIsThere DEF Upto
<1>3. x \in Cell /\ 1 \in Nat /\ blen + 1 < BufSize
  <2>1. blen \in Nat /\ blen <= BufSize - Margin
    BY <1>1, NoneIsNobody, WhatIsThere DEF IInv, TypeOK, RunsWithRoom
  <2>2. QED
    BY <2>1, Sizes DEF Cell, Texts
<1>4. (got[c] \o Part(0, blen)) \o [k \in 1..1 |-> x] = Upto("heading")
  BY <1>2, OneCell, PageParts, Zenon DEF Upto
<1> HIDE DEF x
<1>5. QED
  BY <1>1, <1>3, <1>4, SendBufHasPage

\* The second heading has arrived.
LEMMA FirstRouteHasPage ==
  ASSUME IInv, NEW c \in clean, HasPage(c), FirstRoute(c) PROVE HasPage(c)'
<1> USE DEF pool, psock, page, history, Outside
<1>1. /\ running = c /\ pc[appstate[c]] = "heading" /\ blen' = 0
      /\ r' \in FirstEntry(RouteMax) /\ Continue(c, "routes") /\ UNCHANGED Outside
  BY DEF FirstRoute, At
<1>2. stable /\ got[c] = RoutePart(0) /\ RouteMax \in Nat
  BY <1>1, WhatIsThere, Sizes DEF Upto
<1>3. (IF r' = 0 THEN RouteMax ELSE r' - 1) = 0
  BY <1>1, <1>2, NextIs
<1>4. got[c] = Upto("routes")'
  BY <1>2, <1>3 DEF Upto
<1>5. QED
  BY <1>1, <1>4, NextHasPage

\* At the head of the second loop the buffer is empty.
LEMMA NothingWritten ==
  ASSUME IInv, NEW c \in clean, HasPage(c), running = c, pc[appstate[c]] = "routes"
  PROVE  /\ blen = 0
         /\ got[c] \o Part(0, blen) = RoutePart(IF r = 0 THEN RouteMax ELSE r - 1)
<1>1. got[c] \in Seq(Cell) /\ c \in Client
      /\ got[c] = RoutePart(IF r = 0 THEN RouteMax ELSE r - 1)
  BY WhatIsThere DEF Upto
<1>2. blen = 0
  BY <1>1, NoneIsNobody DEF IInv, RunsWithRoom
<1>3. Part(0, blen) = <<>>
  BY <1>2, NoPart DEF Part
<1>4. got[c] \o <<>> = got[c]
  BY <1>1, JoinedWithNothing
<1>5. QED
  BY <1>1, <1>2, <1>3, <1>4, Zenon

\* The line of a route.
LEMMA RouteHasPage ==
  ASSUME IInv, NEW c \in clean, HasPage(c), Route(c) PROVE HasPage(c)'
<1> USE DEF pool, psock, page, history, Outside
<1> DEFINE x == <<"route", r>>
           n == RouteLine[r]
<1>1. /\ running = c /\ pc[appstate[c]] = "routes" /\ r # 0 /\ ADD(x, n, blen)
      /\ PSOCK_SEND(c, "route", blen') /\ UNCHANGED <<Outside, nbr, r>>
  BY DEF Route, At
<1>2. blen = 0 /\ got[c] \o Part(0, blen) = RoutePart(r - 1)
  BY <1>1, NothingWritten
<1>3. r \in 1..RouteMax /\ RouteMax \in Nat
  BY <1>1, Sizes DEF IInv, TypeOK
<1>4. x \in Cell /\ n \in Nat /\ blen + n < BufSize
  <2>1. x \in Cell
    BY <1>3 DEF Cell
  <2>2. n \in Nat /\ n < BufSize /\ 0 + n = n
    BY <1>3, Sizes
  <2>3. QED
    BY <1>2, <2>1, <2>2
<1>5. RoutePart(r) = RoutePart(r - 1) \o [k \in 1..RouteLine[r] |-> <<"route", r>>]
  BY <1>3, PageParts
<1>6. (got[c] \o Part(0, blen)) \o [k \in 1..n |-> x] = Upto("route")
  BY <1>2, <1>5, Zenon DEF Upto
<1> HIDE DEF x, n
<1>7. QED
  BY <1>1, <1>4, <1>6, SendBufHasPage

\* The line of a route has arrived.
LEMMA RouteSentHasPage ==
  ASSUME IInv, NEW c \in clean, HasPage(c), RouteSent(c) PROVE HasPage(c)'
<1> USE DEF pool, psock, page, history, Outside
<1>1. /\ running = c /\ pc[appstate[c]] = "route" /\ blen' = 0
      /\ r' \in NextEntry(r, RouteMax) /\ Continue(c, "routes") /\ UNCHANGED Outside
  BY DEF RouteSent, At
<1>2. stable /\ got[c] = RoutePart(r) /\ conn[c] = "open" /\ state[appstate[c]] = "OUTPUT"
  BY <1>1, WhatIsThere DEF Upto
<1>3. r \in 1..RouteMax /\ RouteMax \in Nat
  BY <1>1, <1>2, Sizes DEF IInv, TypeOK, HasPage
<1>4. (IF r' = 0 THEN RouteMax ELSE r' - 1) = r
  BY <1>1, <1>2, <1>3, NextIs
<1>5. got[c] = Upto("routes")'
  BY <1>2, <1>4 DEF Upto
<1>6. QED
  BY <1>1, <1>5, NextHasPage

\* The end of the list.
LEMMA RoutesEndHasPage ==
  ASSUME IInv, NEW c \in clean, HasPage(c), RoutesEnd(c) PROVE HasPage(c)'
<1> USE DEF pool, psock, page, history, Outside
<1> DEFINE x == Text("end")
<1>1. /\ running = c /\ pc[appstate[c]] = "routes" /\ r = 0 /\ ADD(x, 1, blen)
      /\ PSOCK_SEND(c, "end", blen') /\ UNCHANGED <<Outside, nbr, r>>
  BY DEF RoutesEnd, At
<1>2. blen = 0 /\ got[c] \o Part(0, blen) = RoutePart(RouteMax)
  BY <1>1, NothingWritten
<1>3. x \in Cell /\ 1 \in Nat /\ blen + 1 < BufSize
  BY <1>2, Sizes DEF Cell, Texts
<1>4. (got[c] \o Part(0, blen)) \o [k \in 1..1 |-> x] = Upto("end")
  BY <1>2, OneCell, Zenon DEF Upto
<1> HIDE DEF x
<1>5. QED
  BY <1>1, <1>3, <1>4, SendBufHasPage

\* The script is done: the client has the page.
LEMMA DoneHasPage ==
  ASSUME IInv, NEW c \in clean, HasPage(c), Done(c) PROVE HasPage(c)'
<1> USE DEF pool, psock, page, history
<1>1. running = c /\ pc[appstate[c]] = "bottom" /\ c \in Client
  BY DEF Done, At, IInv, TypeOK
<1>2. got[c] = Page /\ conn[c] = "open" /\ state[appstate[c]] = "OUTPUT"
  BY <1>1, WhatIsThere DEF Upto
<1>3. /\ conn' = [conn EXCEPT ![c] = "closing"] /\ UNCHANGED <<appstate, state, stable, got>>
  BY DEF Done, uip_close
<1>4. conn'[c] = "closing" /\ \A d \in Client : Live(d)' => Live(d)
  BY <1>1, <1>2, <1>3 DEF IInv, TypeOK, Live
<1>5. QED
  BY <1>1, <1>2, <1>3, <1>4 DEF HasPage, Live

\* The server is the only client's: any event is one of its connection.
LEMMA OnlyClient ==
  ASSUME IInv, NEW c \in Client, Live(c), NEW e \in clean, HasPage(e)
  PROVE  e = c
  BY DEF HasPage

\* The request is being read, and nothing is sent.
LEMMA ReadHasPage ==
  ASSUME IInv, NEW c \in clean, HasPage(c), ReadMethod(c) \/ Reject(c)
  PROVE  HasPage(c)'
<1> USE DEF pool, psock, page, history
<1> DEFINE b == appstate[c]
<1>1. c \in Client /\ conn[c] = "open" /\ running = None /\ state[b] # "OUTPUT" /\ Live(c)
  BY DEF ReadMethod, Reject, Event, IInv, TypeOK, Live
<1>2. b \in CONNS /\ c # None
  BY <1>1, BlockOf, NoneIsNobody
<1>3. got[c] = <<>> /\ unacked[c] = {}
  BY <1>1 DEF HasPage
<1>4. /\ UNCHANGED <<appstate, unacked, running, stable, got>>
      /\ conn'[c] \in {"open", "closing"} /\ state'[b] # "OUTPUT"
      /\ \A d \in Client : Live(d)' => Live(d)
  <2>1. CASE ReadMethod(c)
    BY <1>1, <1>2, <2>1 DEF ReadMethod, Live, IInv, TypeOK
  <2>2. CASE Reject(c)
    BY <1>1, <1>2, <2>2 DEF Reject, uip_close, Live, IInv, TypeOK
  <2>3. QED
    BY <2>1, <2>2
<1>5. QED
  BY <1>1, <1>2, <1>3, <1>4 DEF HasPage, Live

\* A step that leaves all but timers alone.
LEMMA TimersHasPage ==
  ASSUME NEW c \in clean, HasPage(c),
         UNCHANGED <<conn, pool, state, psock, page, running, unacked, history>>
  PROVE  HasPage(c)'
<1> USE DEF pool, psock, page, history
<1>1. /\ Pending(appstate[c], running # c)' = Pending(appstate[c], running # c)
      /\ InFlight(appstate[c])' = InFlight(appstate[c])
  BY DEF Pending, InFlight, Part
<1>2. Upto(pc[appstate[c]])' = Upto(pc[appstate[c]])
  BY DEF Upto
<1>3. QED
  BY <1>1, <1>2 DEF HasPage, Live

\* The request is complete: the status line is sent.
LEMMA ReadPathHasPage ==
  ASSUME IInv, NEW c \in clean, HasPage(c), ReadPath(c) PROVE HasPage(c)'
<1> USE DEF pool, psock, page, history
<1> DEFINE b == appstate[c]
<1>1. c \in Client /\ conn[c] = "open" /\ state[b] # "OUTPUT" /\ Live(c)
  BY DEF ReadPath, Event, IInv, TypeOK, Live
<1>2. b \in CONNS
  BY <1>1, BlockOf
<1>3. got[c] = <<>>
  BY <1>1 DEF HasPage
<1>4. /\ PSOCK_SEND(c, "header", 1) /\ state'[b] = "OUTPUT"
      /\ UNCHANGED <<conn, appstate, stable, clean, got>>
  BY <1>2 DEF ReadPath, IInv, TypeOK
<1>5. "header" \in Label /\ "header" \in DOMAIN Constant /\ Constant["header"] = "status"
      /\ 1 \in Nat /\ 1 <= 1
  BY DEF Label, Constant
<1>6. <<>> \o <<Text("status")>> = <<Text("status")>>
  OBVIOUS
<1>7. got[c] \o <<Text(Constant["header"])>> = Upto("header")'
  BY <1>3, <1>5, <1>6, Zenon DEF Upto
<1>8. QED
  BY <1>1, <1>4, <1>5, <1>7, SendsOn

\* What is transmitted again is what was transmitted first.
LEMMA RetransmitHasPage ==
  ASSUME IInv, NEW c \in clean, HasPage(c), Retransmit(c) PROVE HasPage(c)'
<1> USE DEF pool, psock, page, history
<1> DEFINE b == appstate[c]
<1>1. /\ c \in Client /\ conn[c] = "open" /\ running = None /\ unacked[c] # {} /\ Live(c)
      /\ UNCHANGED <<conn, appstate, state, pc, sendptr, sendlen, buf, blen, nbr, r,
                     running, stable, clean, got>>
  BY DEF Retransmit, Event, IInv, TypeOK, Live
<1>2. state[b] = "OUTPUT" /\ running # c
  BY <1>1, NoneIsNobody DEF HasPage
<1>3. unacked[c] = {InFlight(b)}
  BY <1>1, <1>2 DEF HasPage
<1>4. InFlight(b)' = InFlight(b) /\ Transmitted(c, pc[b], sendptr[b], sendlen[b]) = InFlight(b)'
  <2>1. InFlight(b)' = InFlight(b)
    BY <1>1 DEF InFlight, Part
  <2>2. pc'[b] = pc[b] /\ sendptr'[b] = sendptr[b] /\ sendlen'[b] = sendlen[b] /\ appstate' = appstate
    BY <1>1
  <2>3. Transmitted(c, pc[b], sendptr[b], sendlen[b]) = InFlight(b)'
    BY <2>2, SegmentInFlight
  <2>4. QED
    BY <2>1, <2>3
<1>5. unacked' = [unacked EXCEPT ![c] = @ \cup {Transmitted(c, pc[b], sendptr[b], sendlen[b])}]
  BY DEF Retransmit
<1>6. unacked'[c] = {InFlight(b)'}
  <2>1. unacked'[c] = unacked[c] \cup {Transmitted(c, pc[b], sendptr[b], sendlen[b])}
    BY <1>1, <1>5 DEF IInv, TypeOK
  <2>2. QED
    BY <1>3, <1>4, <2>1
<1>7. Pending(b, running # c)' = Pending(b, running # c) /\ Upto(pc[b])' = Upto(pc[b])
  BY <1>1 DEF Pending, Part, Upto
<1>8. QED
  BY <1>1, <1>2, <1>6, <1>7 DEF HasPage, Live

\* What is acknowledged is the first part of what is pending.
LEMMA AckedHasPage ==
  ASSUME IInv, NEW c \in clean, HasPage(c), Acked(c) PROVE HasPage(c)'
<1> USE DEF pool, psock, page, history
<1> DEFINE b == appstate[c]
           p == sendptr[b]
           n == sendlen[b]
<1>1. /\ c \in Client /\ conn[c] = "open" /\ running = None /\ unacked[c] # {} /\ Live(c)
      /\ UNCHANGED <<conn, appstate, state, pc, buf, blen, nbr, r, stable, clean>>
  BY DEF Acked, Receives, Event, IInv, TypeOK, Live
<1>2. b \in CONNS /\ running # c
  BY <1>1, BlockOf, NoneIsNobody
<1>3. /\ state[b] = "OUTPUT" /\ unacked[c] = {InFlight(b)}
      /\ got[c] \o Pending(b, TRUE) = Upto(pc[b])
      /\ pc[b] = "nbrsent" => nbr # 0
      /\ pc[b] = "route" => r # 0
      /\ pc[b] \in DOMAIN Constant => n <= 1
  BY <1>1, <1>2 DEF HasPage
<1>4. got'[c] = got[c] \o InFlight(b)
  <2>1. PICK x \in unacked[c] : got' = [got EXCEPT ![c] = @ \o x]
    BY DEF Acked, Receives
  <2>2. x = InFlight(b)
    BY <1>3, <2>1
  <2>3. QED
    BY <1>1, <2>1, <2>2 DEF IInv, TypeOK
<1>5. pc[b] \notin {"nbrs", "routes"}
  BY <1>1, <1>2 DEF IInv, WaitsInSend
<1>6. /\ p \in Nat /\ n \in Nat /\ buf \in [1..BufSize -> Cell] /\ got[c] \in Seq(Cell)
      /\ pc[b] \notin DOMAIN Constant => p + n < BufSize
  BY <1>1, <1>2 DEF IInv, TypeOK, SendsWithinBuf
<1>7. Upto(pc[b])' = Upto(pc[b])
  BY <1>1 DEF Upto
<1>8. CASE n > Mss
  <2>1. pc[b] \notin DOMAIN Constant
    BY <1>3, <1>6, <1>8, Sizes
  <2>2. /\ sendptr'[b] = p + Mss /\ sendlen'[b] = n - Mss /\ running' = None
        /\ unacked'[c] = {Transmitted(c, pc[b], sendptr'[b], sendlen'[b])}
    BY <1>1, <1>2, <1>8 DEF Acked, IInv, TypeOK
  <2>3. unacked'[c] = {InFlight(b)'}
    <3>1. pc'[b] = pc[b] /\ appstate' = appstate
      BY <1>1
    <3>2. Transmitted(c, pc[b], sendptr'[b], sendlen'[b]) = InFlight(b)'
      BY <3>1, SegmentInFlight
    <3>3. QED
      BY <2>2, <3>2
  <2>4. /\ Mss \in Nat /\ n - Mss \in Nat /\ Mss + (n - Mss) = n
        /\ p + Mss + (n - Mss) <= BufSize /\ p + Mss \in Nat
        /\ (p + Mss) + (n - Mss) <= BufSize /\ p + Mss <= BufSize
    BY <1>6, <1>8, <2>1, Sizes
  <2>5. Part(p, n) = Part(p, Mss) \o Part(p + Mss, n - Mss)
    <3> HIDE DEF b, p, n
    <3>1. PICK k \in Nat : k = n - Mss
      BY <2>4
    <3>2. p + Mss + k <= BufSize /\ Mss + k = n
      BY <2>4, <3>1
    <3>3. [i \in 1..(Mss + k) |-> buf[p + i]]
            = [i \in 1..Mss |-> buf[p + i]] \o [i \in 1..k |-> buf[(p + Mss) + i]]
      BY <1>6, <2>4, <3>2, PartSplit
    <3>4. QED
      BY <3>1, <3>2, <3>3 DEF Part
  <2>6. InFlight(b) = Part(p, Mss) /\ Pending(b, TRUE) = Part(p, n)
    BY <1>8, <2>1 DEF InFlight, Pending
  <2>7. Pending(b, TRUE)' = Part(p + Mss, n - Mss)
    BY <1>1, <2>1, <2>2 DEF Pending, Part
  <2>8. PICK x \in Seq(Cell) : x = Part(p, Mss)
    BY <1>6, <2>4, PartType DEF Part
  <2>9. PICK y \in Seq(Cell) : y = Part(p + Mss, n - Mss)
    BY <1>6, <2>4, PartType DEF Part
  <2>10. PICK s \in Seq(Cell) : s = got[c]
    BY <1>6
  <2>11. (s \o x) \o y = s \o (x \o y)
    BY Joined
  <2>12. got'[c] \o Pending(b, TRUE)' = Upto(pc[b])'
    BY <1>3, <1>4, <1>7, <2>5, <2>6, <2>7, <2>8, <2>9, <2>10, <2>11, Zenon
  <2>13. running' # c
    BY <1>1, <2>2, NoneIsNobody
  <2>14. QED
    BY <1>1, <1>3, <2>1, <2>3, <2>12, <2>13 DEF HasPage, Live
<1>9. CASE ~(n > Mss)
  <2>1. sendlen'[b] = 0 /\ running' = c /\ unacked'[c] = {}
    BY <1>1, <1>2, <1>9 DEF Acked, IInv, TypeOK
  <2>2. InFlight(b) = Pending(b, TRUE)
    BY <1>9 DEF InFlight, Pending
  <2>3. got'[c] = Upto(pc[b])'
    BY <1>3, <1>4, <1>7, <2>2, Zenon
  <2>4. Pending(b, FALSE)' = <<>>
    BY <1>1, <1>5, NoPart DEF Pending, Part
  <2>5. got'[c] \in Seq(Cell)
    BY <1>1, AckedGood DEF IInv, TypeOK
  <2>6. got'[c] \o Pending(b, FALSE)' = Upto(pc[b])'
    <3>1. got'[c] \o <<>> = got'[c]
      BY <2>5, JoinedWithNothing
    <3>2. QED
      BY <2>3, <2>4, <3>1, Zenon
  <2>7. 0 <= 1
    OBVIOUS
  <2>8. QED
    BY <1>1, <1>3, <2>1, <2>6, <2>7 DEF HasPage, Live
<1>10. QED
  BY <1>8, <1>9

\* The connection ends, and the client keeps what it has.
LEMMA LeaveHasPage ==
  ASSUME IInv, NEW c \in clean, HasPage(c), Poll(c) \/ End(c) PROVE HasPage(c)'
<1> USE DEF page, history
<1>1. c \in Client /\ got[c] = SubSeq(Page, 1, Len(got[c]))
  BY GotBegins DEF IInv, TypeOK
<1>2. conn' = [conn EXCEPT ![c] = "closed"] /\ UNCHANGED <<stable, got>>
  BY DEF Poll, End, Gone
<1>3. ~Live(c)' /\ \A d \in Client : Live(d)' => Live(d)
  BY <1>1, <1>2 DEF Live, IInv, TypeOK
<1>4. Live(c) /\ \A d \in Client : Live(d) => d = c
  BY <1>1 DEF Poll, End, Event, Live, HasPage
<1>5. QED
  BY <1>1, <1>2, <1>3, <1>4 DEF HasPage, Live

\* A connection that finds the server idle begins with nothing.
LEMMA ConnectHasPage ==
  ASSUME IInv, PageSoFar, NEW c \in Client, Connect(c), NEW e \in clean'
  PROVE  HasPage(e)'
<1>1. /\ stable /\ \A d \in Client : conn[d] = "closed" /\ e = c
  BY DEF Connect
<1> DEFINE b == CHOOSE x \in CONNS \ used : TRUE
<1>2. b \in CONNS
  BY DEF Connect, IInv, TypeOK
<1>3. /\ conn' = [conn EXCEPT ![c] = "open"] /\ appstate' = [appstate EXCEPT ![c] = b]
      /\ httpd_state_reset(b) /\ Forget /\ stable' = stable /\ running' = None
  BY DEF Connect
<1> HIDE DEF b
<1>4. appstate'[c] = b /\ state'[b] = "method" /\ conn'[c] = "open" /\ Live(c)'
      /\ \A d \in Client : Live(d)' => d = c
  BY <1>1, <1>2, <1>3 DEF httpd_state_reset, IInv, TypeOK, Live
<1>5. got'[c] = <<>>
  BY <1>3 DEF Forget
<1>6. unacked'[c] = {} /\ running' # c
  <2>1. unacked[c] = {}
    BY <1>1 DEF PageSoFar
  <2>2. QED
    BY <1>3, <2>1, NoneIsNobody DEF Forget
<1>7. QED
  BY <1>1, <1>3, <1>4, <1>5, <1>6 DEF HasPage

\* A step of the connection of c is no other connection's.
OwnStep(c) ==
  /\ Live(c) /\ clean' = clean
  /\ conn'[c] = "closed" => unacked'[c] = {}
  /\ \A d \in Client \ {c} : conn'[d] = conn[d] /\ unacked'[d] = unacked[d]

LEMMA EventIsOwn ==
  ASSUME IInv, NEW c \in Client,
         \/ ReadMethod(c) \/ ReadPath(c) \/ Reject(c) \/ ReadOn(c)
         \/ Acked(c) \/ Retransmit(c) \/ Poll(c) \/ End(c)
  PROVE  OwnStep(c)
<1> USE DEF history, OwnStep
<1>1. conn \in [Client -> {"open", "closing", "closed"}] /\ unacked \in [Client -> SUBSET Seq(Cell)]
  BY DEF IInv, TypeOK
<1>2. CASE ReadMethod(c) \/ ReadOn(c)
  BY <1>1, <1>2 DEF ReadMethod, ReadOn, Event, Live
<1>3. CASE ReadPath(c)
  BY <1>1, <1>3 DEF ReadPath, PSOCK_SEND, Event, Live
<1>4. CASE Reject(c)
  BY <1>1, <1>4 DEF Reject, uip_close, Event, Live
<1>5. CASE Acked(c)
  <2>1. UNCHANGED <<conn, clean>> /\ \E u : unacked' = [unacked EXCEPT ![c] = u]
    BY <1>5 DEF Acked, Receives
  <2>2. conn[c] = "open"
    BY <1>5 DEF Acked, Event
  <2>3. QED
    BY <1>1, <2>1, <2>2 DEF Live
<1>6. CASE Retransmit(c)
  BY <1>1, <1>6 DEF Retransmit, Event, Live
<1>7. CASE Poll(c) \/ End(c)
  BY <1>1, <1>7 DEF Poll, End, Gone, Event, Live
<1>8. QED
  BY <1>2, <1>3, <1>4, <1>5, <1>6, <1>7

LEMMA ScriptIsOwn ==
  ASSUME IInv, NEW c \in Client, Script(c) PROVE OwnStep(c)
<1> USE DEF history, Outside
<1>1. conn \in [Client -> {"open", "closing", "closed"}] /\ unacked \in [Client -> SUBSET Seq(Cell)]
  BY DEF IInv, TypeOK
<1>2. running = c
  BY DEF Script, send_headers, SendTop, SendBottom, SendConstant, Top, Neighbor, NeighborSent,
         RoutesHeading, FirstRoute, Route, RouteSent, RoutesEnd, Done, At
<1>3. conn[c] = "open" /\ Live(c)
  BY <1>2, Running DEF Live
<1>4. ASSUME NEW l, NEW n, PSOCK_SEND(c, l, n), UNCHANGED <<conn, clean>> PROVE OwnStep(c)
  BY <1>1, <1>3, <1>4 DEF PSOCK_SEND, OwnStep
<1>5. ASSUME NEW l, Continue(c, l), UNCHANGED <<conn, clean>> PROVE OwnStep(c)
  BY <1>1, <1>3, <1>5 DEF Continue, OwnStep
<1>6. CASE send_headers(c) \/ SendTop(c) \/ SendBottom(c)
  BY <1>4, <1>6 DEF send_headers, SendTop, SendBottom, SendConstant
<1>7. CASE Top(c) \/ NeighborSent(c) \/ FirstRoute(c) \/ RouteSent(c)
  BY <1>5, <1>7 DEF Top, NeighborSent, FirstRoute, RouteSent
<1>8. CASE Neighbor(c)
  BY <1>4, <1>5, <1>8 DEF Neighbor
<1>9. CASE RoutesHeading(c) \/ Route(c) \/ RoutesEnd(c)
  BY <1>4, <1>9 DEF RoutesHeading, Route, RoutesEnd
<1>10. CASE Done(c)
  BY <1>1, <1>3, <1>10 DEF Done, uip_close, OwnStep
<1>11. QED
  BY <1>6, <1>7, <1>8, <1>9, <1>10 DEF Script

\* Every step keeps what the clients of a server of their own have.
LEMMA PageStep == IInv /\ PageSoFar /\ [Next]_vars => PageSoFar'
<1> SUFFICES ASSUME IInv, PageSoFar, [Next]_vars PROVE PageSoFar'
  OBVIOUS
<1>1. CASE UNCHANGED vars
  <2>1. UNCHANGED <<conn, pool, state, psock, page, running, unacked, history>>
    BY <1>1 DEF vars
  <2>2. \A c \in clean : HasPage(c)'
    BY <2>1, TimersHasPage DEF PageSoFar
  <2>3. QED
    BY <2>1, <2>2 DEF PageSoFar, history
<1>2. ASSUME NEW c \in Client, OwnStep(c), ASSUME c \in clean, HasPage(c) PROVE HasPage(c)'
      PROVE  PageSoFar'
  <2>1. \A d \in Client : conn'[d] = "closed" => unacked'[d] = {}
    BY <1>2 DEF OwnStep, PageSoFar
  <2>2. \A e \in clean' : e = c /\ c \in clean /\ HasPage(c)
    BY <1>2, OnlyClient DEF OwnStep, PageSoFar
  <2>3. QED
    BY <1>2, <2>1, <2>2 DEF PageSoFar
<1>3. ASSUME NEW c \in Client, httpd_appcall(c) PROVE PageSoFar'
  <2>1. CASE Refuse(c)
    BY <1>1, <2>1 DEF Refuse
  <2>2. CASE Connect(c)
    <3>1. \A e \in clean' : HasPage(e)'
      BY <2>2, ConnectHasPage
    <3>2. \A d \in Client : conn'[d] = "closed" => unacked'[d] = {}
      BY <2>2 DEF Connect, Forget, PageSoFar, IInv, TypeOK
    <3>3. QED
      BY <3>1, <3>2 DEF PageSoFar
  <2>3. CASE ReadMethod(c) \/ Reject(c)
    BY <2>3, <1>2, EventIsOwn, ReadHasPage
  <2>4. CASE ReadPath(c)
    BY <2>4, <1>2, EventIsOwn, ReadPathHasPage
  <2>5. CASE ReadOn(c)
    BY <2>5, <1>2, EventIsOwn, TimersHasPage DEF ReadOn
  <2>6. CASE Acked(c)
    BY <2>6, <1>2, EventIsOwn, AckedHasPage
  <2>7. CASE Retransmit(c)
    BY <2>7, <1>2, EventIsOwn, RetransmitHasPage
  <2>8. CASE Poll(c) \/ End(c)
    BY <2>8, <1>2, EventIsOwn, LeaveHasPage
  <2>9. QED
    BY <1>3, <2>1, <2>2, <2>3, <2>4, <2>5, <2>6, <2>7, <2>8 DEF httpd_appcall
<1>4. ASSUME NEW c \in Client, Script(c) PROVE PageSoFar'
  <2>1. ASSUME c \in clean, HasPage(c) PROVE HasPage(c)'
    BY <1>4, <2>1, SendConstantHasPage, TopHasPage, NeighborHasPage, NeighborSentHasPage,
       RoutesHeadingHasPage, FirstRouteHasPage, RouteHasPage, RouteSentHasPage,
       RoutesEndHasPage, DoneHasPage DEF Script
  <2>2. QED
    BY <1>2, <1>4, <2>1, ScriptIsOwn
<1>5. ASSUME NEW b \in CONNS, TimerExpires(b) PROVE PageSoFar'
  <2>1. \A c \in clean : HasPage(c)'
    BY <1>5, TimersHasPage DEF TimerExpires, PageSoFar
  <2>2. QED
    BY <1>5, <2>1 DEF TimerExpires, PageSoFar, history
<1>6. CASE TablesChange
  BY <1>6 DEF TablesChange, Forget, PageSoFar
<1>7. QED
  BY <1>1, <1>3, <1>4, <1>5, <1>6 DEF Next

\* What the clients of a server of their own have is the page.
LEMMA PageSoFarIsPage == IInv /\ PageSoFar => PageOfOnlyConnection
  BY GotBegins DEF PageSoFar, PageOfOnlyConnection, HasPage

-----------------------------------------------------------------------------
(* Theorems *)

\* The inductive invariant: types, the block of each connection, the room that
\* a thread finds at the head of a loop, and the extent of every send.
THEOREM Invariance == Spec => []IInv
<1>1. Init => IInv
  BY InitGood
<1>2. IInv /\ [Next]_vars => IInv'
  BY NextGood
<1>3. QED
  BY <1>1, <1>2, PTL DEF Spec

\* Every variable of the web server keeps its range.
THEOREM TypeCorrect == Spec => []TypeOK
<1>1. IInv => TypeOK
  BY DEF IInv
<1>2. QED
  BY <1>1, Invariance, PTL

\* No ADD of generate_routes runs over the static buffer, for any number of
\* connections and any tables whose lines are shorter than the margin.
THEOREM NeverOverruns == Spec => []BufferFits
<1>1. IInv => BufferFits
  BY DEF IInv
<1>2. QED
  BY <1>1, Invariance, PTL

\* No send reads beyond the static buffer, whatever is acknowledged or
\* transmitted again.
THEOREM SendsInside == Spec => []SendsWithinBuf
<1>1. IInv => SendsWithinBuf
  BY DEF IInv
<1>2. QED
  BY <1>1, Invariance, PTL

\* The blocks of the pool conns that are given out are those of the live
\* connections, one each, however connections end.
THEOREM PoolKept == Spec => []PoolSound
<1>1. IInv => PoolSound
  BY OwnsIsSound DEF IInv
<1>2. QED
  BY <1>1, Invariance, PTL

\* At any time a client that has the server for itself has, in its hands, in
\* flight and in the buffer, exactly the page up to where its thread is.
THEOREM PageInvariance == Spec => []PageSoFar
<1>1. Init => PageSoFar
  BY DEF Init, PageSoFar
<1>2. QED
  BY <1>1, Invariance, PageStep, PTL DEF Spec

\* A client that has the server for itself receives the page and nothing else,
\* whatever is lost and transmitted again and whatever earlier connections left
\* in the static variables: for any tables, buffer and segment size.
THEOREM PageReceived == Spec => []PageOfOnlyConnection
<1>1. QED
  BY Invariance, PageInvariance, PageSoFarIsPage, PTL
=============================================================================
