----------------------------- MODULE WebServer ------------------------------
(***************************************************************************)
(* The web page of the border router (httpd-simple.c and generate_routes   *)
(* in border-router.c, built with WITH_WEBSERVER=1): one page that lists   *)
(* neighbours and routes, for several TCP connections at once.             *)
(*                                                                         *)
(* Each connection has a block of the pool conns with its two psock        *)
(* threads, but buf, blen and the iterators nbr and r are static: the      *)
(* threads of all connections share them.  uIP calls httpd_appcall with    *)
(* one event at a time, and running is the connection whose event is being *)
(* handled: its thread takes the steps below until it waits again.         *)
(*                                                                         *)
(* The page is made of cells.  A string constant and a heading is one      *)
(* cell, the line of a neighbour or a route is as many equal cells as the  *)
(* line is wide.                                                           *)
(***************************************************************************)
EXTENDS Integers, Sequences, FiniteSets

CONSTANTS
  Client,                 \* the connections that are opened
  CONNS,                  \* the blocks of the pool
  None,
  BufSize, Margin, Mss,   \* in cells: sizeof(buf), the 45 below it, uip_mss()
  NbrLine, RouteLine      \* in cells: how wide the line of each table entry is

ASSUME WebAssumption ==
  /\ None \notin Client \cup CONNS
  /\ {BufSize, Margin, Mss} \subseteq Nat \ {0}
  /\ 1 < Margin /\ Margin < BufSize
  /\ NbrLine \in Seq(1..(Margin - 1))      \* at most 39 characters and a newline
  /\ RouteLine \in Seq(1..(BufSize - 1))   \* at most 102 characters

NbrMax == Len(NbrLine)
RouteMax == Len(RouteLine)

VARIABLES
  conn,     \* state of each connection: "open", "closing" or "closed"
  appstate, \* its block, or None
  used,     \* the blocks that memb_alloc has given out
  state,    \* in each block: how far the request was read, or "OUTPUT"
  expired,  \* in each block: the timer of 10 s has run out
  pc,       \* in each block: where the thread of the answer continues
  sendptr, sendlen,  \* in each block: the part of the string it has still to send
  buf, blen,
  nbr, r,   \* the static iterators, 0 for NULL
  running,
  unacked,  \* what was transmitted as the segment that awaits its ACK
  stable,   \* history: the tables have not changed
  clean,    \* history: the clients that had the server for themselves so far
  got       \* history: what each of them has received

psock == <<pc, sendptr, sendlen>>
page == <<buf, blen, nbr, r>>
pool == <<appstate, used>>
history == <<stable, clean, got>>
vars == <<conn, pool, state, expired, psock, page, running, unacked, history>>

Text(x) == <<x, 0>>
Nul == Text("nul")
Junk == [i \in 1..BufSize |-> Nul]
Texts == {"nul", "status", "type", "TOP", "Neighbors", "Routes", "end", "BOTTOM"}
Cell == {Text(x) : x \in Texts}
        \cup ({"nbr"} \X (1..NbrMax)) \cup ({"route"} \X (1..RouteMax))

\* Where a thread continues once all it sends is acknowledged.  It waits in
\* all these places but "nbrs" and "routes", the heads of the two loops, and
\* sends one of the constants or buf.
Label == {"header", "type", "top", "nbrs", "nbrsent", "heading", "routes", "route",
          "end", "bottom"}
Constant == [header |-> "status", type |-> "type", top |-> "TOP", bottom |-> "BOTTOM"]

TypeOK ==
  /\ conn \in [Client -> {"open", "closing", "closed"}]
  /\ appstate \in [Client -> CONNS \cup {None}]
  /\ used \in SUBSET CONNS
  /\ state \in [CONNS -> {"method", "path", "OUTPUT"}]
  /\ expired \in [CONNS -> BOOLEAN]
  /\ pc \in [CONNS -> Label]
  /\ sendptr \in [CONNS -> Nat]
  /\ sendlen \in [CONNS -> Nat]
  /\ buf \in [1..BufSize -> Cell]
  /\ blen \in Nat
  /\ nbr \in 0..NbrMax
  /\ r \in 0..RouteMax
  /\ running \in Client \cup {None}
  /\ unacked \in [Client -> SUBSET Seq(Cell)]
  /\ stable \in BOOLEAN
  /\ clean \in SUBSET Client
  /\ got \in [Client -> Seq(Cell)]

Live(c) == conn[c] \in {"open", "closing"}

\* uIP delivers an event of c while no handler runs.
Event(c) == conn[c] = "open" /\ running = None

-----------------------------------------------------------------------------
(* PSOCK_SEND *)

\* What uip_send transmits of the string for the thread to continue at label:
\* buf is read when uip_send is called, not when PSOCK_SEND was.
Segment(label, ptr, len) ==
  IF label \in DOMAIN Constant THEN <<Text(Constant[label])>>
  ELSE [i \in 1..(IF len > Mss THEN Mss ELSE len) |-> buf'[ptr + i]]

\* Only what a clean connection transmits is kept, of others that it does.
Transmitted(c, label, ptr, len) ==
  IF c \in clean THEN Segment(label, ptr, len) ELSE <<>>

\* Transmit the first part of the string, and wait to continue at label.
PSOCK_SEND(c, label, len) ==
  LET b == appstate[c] IN
  /\ sendptr' = [sendptr EXCEPT ![b] = 0]
  /\ sendlen' = [sendlen EXCEPT ![b] = len]
  /\ pc' = [pc EXCEPT ![b] = label]
  /\ unacked' = [unacked EXCEPT ![c] = {Transmitted(c, label, 0, len)}]
  /\ running' = None

Continue(c, label) ==
  /\ pc' = [pc EXCEPT ![appstate[c]] = label]
  /\ UNCHANGED <<sendptr, sendlen, unacked, running>>

\* n cells x behind the first from, and a terminator.  While several threads
\* write there the content is not kept: it is junk to whoever reads it.
Written(x, n, from) ==
  IF clean = {} THEN Junk ELSE
  [i \in 1..BufSize |-> IF i > from /\ i <= from + n THEN x
                        ELSE IF i = from + n + 1 THEN Nul ELSE buf[i]]

\* snprintf at buf[from]
ADD(x, n, from) ==
  /\ buf' = Written(x, n, from)
  /\ blen' = from + n

-----------------------------------------------------------------------------
Init ==
  /\ conn = [c \in Client |-> "closed"]
  /\ appstate = [c \in Client |-> None]
  /\ used = {}
  /\ state = [b \in CONNS |-> "method"]
  /\ expired = [b \in CONNS |-> FALSE]
  /\ pc = [b \in CONNS |-> "header"]
  /\ sendptr = [b \in CONNS |-> 0]
  /\ sendlen = [b \in CONNS |-> 0]
  /\ buf = Junk
  /\ blen = 0
  /\ nbr = 0 /\ r = 0
  /\ running = None
  /\ unacked = [c \in Client |-> {}]
  /\ stable = TRUE
  /\ clean = {}
  /\ got = [c \in Client |-> <<>>]

-----------------------------------------------------------------------------
(* Events that uIP reports to httpd_appcall *)

\* The contents that no clean connection needs any more.
Forget ==
  /\ unacked' = [d \in Client |-> IF unacked[d] = {} THEN {} ELSE {<<>>}]
  /\ got' = [d \in Client |-> <<>>]
  /\ buf' = Junk

\* Nobody reads a free block before Connect initialises it: it is kept as
\* Connect would leave it.
httpd_state_reset(b) ==
  /\ state' = [state EXCEPT ![b] = "method"]
  /\ expired' = [expired EXCEPT ![b] = FALSE]
  /\ pc' = [pc EXCEPT ![b] = "header"]
  /\ sendptr' = [sendptr EXCEPT ![b] = 0]
  /\ sendlen' = [sendlen EXCEPT ![b] = 0]

memb_free(c) ==
  /\ used' = used \ {appstate[c]}
  /\ appstate' = [appstate EXCEPT ![c] = None]
  /\ httpd_state_reset(appstate[c])

\* uip_connected with no block left: uip_abort, and nothing changes.
Refuse(c) ==
  /\ conn[c] = "closed" /\ running = None /\ used = CONNS
  /\ UNCHANGED vars

\* uip_connected.  Another connection ends what was clean.
Connect(c) ==
  /\ conn[c] = "closed" /\ running = None /\ used # CONNS
  /\ LET b == CHOOSE x \in CONNS \ used : TRUE
     IN  /\ used' = used \cup {b}
         /\ appstate' = [appstate EXCEPT ![c] = b]
         /\ httpd_state_reset(b)
  /\ conn' = [conn EXCEPT ![c] = "open"]
  /\ clean' = IF stable /\ \A d \in Client : conn[d] = "closed" THEN {c} ELSE {}
  /\ Forget
  /\ UNCHANGED <<blen, nbr, r, running, stable>>

\* An event that is no poll.
timer_restart(c) == expired' = [expired EXCEPT ![appstate[c]] = FALSE]

uip_close(c) == conn' = [conn EXCEPT ![c] = "closing"]

\* "GET " was read, the path not yet.
ReadMethod(c) ==
  /\ Event(c) /\ timer_restart(c)
  /\ state[appstate[c]] = "method"
  /\ state' = [state EXCEPT ![appstate[c]] = "path"]
  /\ UNCHANGED <<conn, pool, psock, page, running, unacked, history>>

\* The path was read as well: handle_output sends the status line.
ReadPath(c) ==
  /\ Event(c) /\ timer_restart(c)
  /\ state[appstate[c]] # "OUTPUT"
  /\ state' = [state EXCEPT ![appstate[c]] = "OUTPUT"]
  /\ UNCHANGED <<conn, pool, page, history>>
  /\ PSOCK_SEND(c, "header", 1)

\* Something else was read: PSOCK_CLOSE_EXIT.
Reject(c) ==
  /\ Event(c) /\ timer_restart(c)
  /\ state[appstate[c]] # "OUTPUT"
  /\ uip_close(c)
  /\ UNCHANGED <<pool, state, psock, page, running, unacked, history>>

\* Half a word, or a header line after the path.
ReadOn(c) ==
  /\ Event(c) /\ timer_restart(c)
  /\ UNCHANGED <<conn, pool, state, psock, page, running, unacked, history>>

\* uip_rexmit
Retransmit(c) ==
  /\ Event(c) /\ timer_restart(c)
  /\ unacked[c] # {}
  /\ UNCHANGED <<conn, pool, state, psock, page, running, history>>
  /\ LET b == appstate[c]
     IN  unacked' = [unacked EXCEPT ![c] =
                       @ \cup {Transmitted(c, pc[b], sendptr[b], sendlen[b])}]

Receives(c) ==
  /\ \E x \in unacked[c] :
       got' = IF c \in clean THEN [got EXCEPT ![c] = @ \o x] ELSE got
  /\ UNCHANGED <<stable, clean>>

\* Mutant: every part counts for a whole segment.
AckCountsWholeParts(c) ==
  LET b == appstate[c] IN
  /\ Event(c) /\ timer_restart(c)
  /\ unacked[c] # {}
  /\ Receives(c)
  /\ UNCHANGED <<conn, pool, state, pc, page>>
  /\ sendptr' = [sendptr EXCEPT ![b] = @ + Mss]
  /\ sendlen' = [sendlen EXCEPT ![b] = @ - Mss]
  /\ IF sendlen[b] > Mss
     THEN /\ unacked' = [unacked EXCEPT ![c] = {Transmitted(c, pc[b], sendptr'[b], sendlen'[b])}]
          /\ running' = None
     ELSE /\ unacked' = [unacked EXCEPT ![c] = {}]
          /\ running' = c

\* Mutant: the pointer of a send goes on, and its length does not go down with it.
AckKeepsLength(c) ==
  LET b == appstate[c] IN
  /\ Event(c) /\ timer_restart(c)
  /\ unacked[c] # {}
  /\ Receives(c)
  /\ UNCHANGED <<conn, pool, state, pc, page>>
  /\ IF sendptr[b] + Mss < sendlen[b]
     THEN /\ sendptr' = [sendptr EXCEPT ![b] = @ + Mss]
          /\ UNCHANGED sendlen
          /\ unacked' = [unacked EXCEPT ![c] = {<<>>}]
          /\ running' = None
     ELSE /\ sendptr' = [sendptr EXCEPT ![b] = @ + sendlen[b]]
          /\ sendlen' = [sendlen EXCEPT ![b] = 0]
          /\ unacked' = [unacked EXCEPT ![c] = {}]
          /\ running' = c

\* uip_acked: transmit the next part, or let the thread continue.
Acked(c) ==
  LET b == appstate[c] IN
  /\ Event(c) /\ timer_restart(c)
  /\ unacked[c] # {}
  /\ Receives(c)
  /\ UNCHANGED <<conn, pool, state, pc, page>>
  /\ IF sendlen[b] > Mss
     THEN /\ sendptr' = [sendptr EXCEPT ![b] = @ + Mss]
          /\ sendlen' = [sendlen EXCEPT ![b] = @ - Mss]
          /\ unacked' = [unacked EXCEPT ![c] = {Transmitted(c, pc[b], sendptr'[b], sendlen'[b])}]
          /\ running' = None
     ELSE /\ sendptr' = [sendptr EXCEPT ![b] = @ + sendlen[b]]
          /\ sendlen' = [sendlen EXCEPT ![b] = 0]
          /\ unacked' = [unacked EXCEPT ![c] = {}]
          /\ running' = c

Gone(c) ==
  /\ conn' = [conn EXCEPT ![c] = "closed"]
  /\ unacked' = [unacked EXCEPT ![c] = {}]

\* Mutant: the connection is reset and the block stays taken.
PollKeepsBlock(c) ==
  /\ Event(c) /\ expired[appstate[c]]
  /\ Gone(c)
  /\ UNCHANGED <<pool, state, expired, psock, page, running, history>>

\* Mutant: the timer is looked at only until the request is read.
PollWhileReading(c) ==
  /\ Event(c) /\ expired[appstate[c]] /\ state[appstate[c]] # "OUTPUT"
  /\ Gone(c)
  /\ memb_free(c)
  /\ UNCHANGED <<page, running, history>>

\* uip_poll after 10 s without another event: uip_abort.  handle_connection
\* still runs, on the freed block, and finds neither data nor an ACK.
Poll(c) ==
  /\ Event(c) /\ expired[appstate[c]]
  /\ Gone(c)
  /\ memb_free(c)
  /\ UNCHANGED <<page, running, history>>

\* uip_closed, uip_aborted or uip_timedout
End(c) ==
  /\ Live(c) /\ running = None
  /\ Gone(c)
  /\ memb_free(c)
  /\ UNCHANGED <<page, running, history>>

-----------------------------------------------------------------------------
(* generate_routes *)

At(c, label) == running = c /\ pc[appstate[c]] = label

Outside == <<conn, pool, state, expired, history>>

\* The entry a table yields after i; after a change anything further on.
NextEntry(i, max) ==
  IF i = 0 THEN {0}
  ELSE IF stable THEN {IF i < max THEN i + 1 ELSE 0}
  ELSE {0} \cup (i + 1)..max

FirstEntry(max) ==
  IF stable THEN {IF max > 0 THEN 1 ELSE 0} ELSE 0..max

\* SEND_STRING of a constant, after the string before it was acknowledged.
SendConstant(c, at, label) ==
  /\ At(c, at)
  /\ UNCHANGED <<Outside, page>>
  /\ PSOCK_SEND(c, label, 1)

\* The status line is sent: the content type.
send_headers(c) == SendConstant(c, "header", "type")

SendTop(c) == SendConstant(c, "type", "top")

\* The first heading is added.
Top(c) ==
  /\ At(c, "top")
  /\ ADD(Text("Neighbors"), 1, 0)
  /\ nbr' \in FirstEntry(NbrMax)
  /\ UNCHANGED <<Outside, r>>
  /\ Continue(c, "nbrs")

\* Mutant: the buffer is flushed only when a line no longer fits.
NeighborFlushesLate(c) ==
  /\ At(c, "nbrs") /\ nbr # 0
  /\ ADD(<<"nbr", nbr>>, NbrLine[nbr], blen)
  /\ UNCHANGED <<Outside, r>>
  /\ IF blen' > BufSize - 1
     THEN UNCHANGED nbr /\ PSOCK_SEND(c, "nbrsent", blen')
     ELSE nbr' \in NextEntry(nbr, NbrMax) /\ Continue(c, "nbrs")

\* The body of the first loop.
Neighbor(c) ==
  /\ At(c, "nbrs") /\ nbr # 0
  /\ ADD(<<"nbr", nbr>>, NbrLine[nbr], blen)
  /\ UNCHANGED <<Outside, r>>
  /\ IF blen' > BufSize - Margin
     THEN UNCHANGED nbr /\ PSOCK_SEND(c, "nbrsent", blen')
     ELSE nbr' \in NextEntry(nbr, NbrMax) /\ Continue(c, "nbrs")

\* Mutant: blen is not reset after the flush.
NeighborSentKeepsLength(c) ==
  /\ At(c, "nbrsent")
  /\ nbr' \in NextEntry(nbr, NbrMax)
  /\ UNCHANGED <<Outside, buf, blen, r>>
  /\ Continue(c, "nbrs")

NeighborSent(c) ==
  /\ At(c, "nbrsent")
  /\ blen' = 0
  /\ nbr' \in NextEntry(nbr, NbrMax)
  /\ UNCHANGED <<Outside, buf, r>>
  /\ Continue(c, "nbrs")

RoutesHeading(c) ==
  /\ At(c, "nbrs") /\ nbr = 0
  /\ ADD(Text("Routes"), 1, blen)
  /\ UNCHANGED <<Outside, nbr, r>>
  /\ PSOCK_SEND(c, "heading", blen')

FirstRoute(c) ==
  /\ At(c, "heading")
  /\ blen' = 0
  /\ r' \in FirstEntry(RouteMax)
  /\ UNCHANGED <<Outside, buf, nbr>>
  /\ Continue(c, "routes")

Route(c) ==
  /\ At(c, "routes") /\ r # 0
  /\ ADD(<<"route", r>>, RouteLine[r], blen)
  /\ UNCHANGED <<Outside, nbr, r>>
  /\ PSOCK_SEND(c, "route", blen')

RouteSent(c) ==
  /\ At(c, "route")
  /\ blen' = 0
  /\ r' \in NextEntry(r, RouteMax)
  /\ UNCHANGED <<Outside, buf, nbr>>
  /\ Continue(c, "routes")

RoutesEnd(c) ==
  /\ At(c, "routes") /\ r = 0
  /\ ADD(Text("end"), 1, blen)
  /\ UNCHANGED <<Outside, nbr, r>>
  /\ PSOCK_SEND(c, "end", blen')

SendBottom(c) == SendConstant(c, "end", "bottom")

\* PSOCK_CLOSE after the script.
Done(c) ==
  /\ At(c, "bottom")
  /\ uip_close(c)
  /\ running' = None
  /\ UNCHANGED <<pool, state, expired, psock, page, unacked, history>>

Script(c) ==
  \/ send_headers(c) \/ SendTop(c)
  \/ Top(c) \/ Neighbor(c) \/ NeighborSent(c)
  \/ RoutesHeading(c) \/ FirstRoute(c) \/ Route(c) \/ RouteSent(c) \/ RoutesEnd(c)
  \/ SendBottom(c) \/ Done(c)

-----------------------------------------------------------------------------
httpd_appcall(c) ==
  \/ Refuse(c) \/ Connect(c)
  \/ ReadMethod(c) \/ ReadPath(c) \/ Reject(c) \/ ReadOn(c)
  \/ Acked(c) \/ Retransmit(c)
  \/ Poll(c) \/ End(c)

TimerExpires(b) ==
  /\ b \in used /\ ~expired[b]
  /\ expired' = [expired EXCEPT ![b] = TRUE]
  /\ UNCHANGED <<conn, pool, state, psock, page, running, unacked, history>>

\* A neighbour or a route comes, goes or moves in its table.
TablesChange ==
  /\ stable
  /\ stable' = FALSE
  /\ clean' = {}
  /\ Forget
  /\ UNCHANGED <<conn, pool, state, expired, psock, blen, nbr, r, running>>

Next ==
  \/ \E c \in Client : httpd_appcall(c) \/ Script(c)
  \/ \E b \in CONNS : TimerExpires(b)
  \/ TablesChange

Spec == Init /\ [][Next]_vars

\* A handler runs to its end, timers expire, uIP polls every connection, and
\* reports the end of one that the server has closed.
FairSpec ==
  /\ Spec
  /\ \A c \in Client : /\ WF_vars(Script(c))
                       /\ WF_vars(Poll(c))
                       /\ WF_vars(conn[c] = "closing" /\ End(c))
  /\ \A b \in CONNS : WF_vars(TimerExpires(b))

-----------------------------------------------------------------------------
(* Properties *)

\* However the threads of several connections interleave on the one static
\* buffer, no ADD runs over it: 45 bytes below its end are enough, because
\* every thread resets blen when it continues (border-router.c:153-156).
BufferFits == blen < BufSize

\* What a thread is sending lies within the buffer, however often its parts
\* are acknowledged or transmitted again.
SendsWithinBuf ==
  \A c \in Client : conn[c] = "open" /\ unacked[c] # {} =>
    LET b == appstate[c]
    IN  pc[b] \notin DOMAIN Constant => sendptr[b] + sendlen[b] < BufSize

\* The blocks that are given out are those of the live connections, one each:
\* no way to end a connection leaks a block or frees it while another
\* connection has it (httpd-simple.c:208-241).
PoolSound ==
  /\ used = {appstate[c] : c \in {d \in Client : Live(d)}}
  /\ \A c, d \in Client : Live(c) /\ Live(d) /\ appstate[c] = appstate[d] => c = d

\* The lines of the first n entries of a table.
Lines(kind, widths, n) ==
  LET upto[i \in 0..Len(widths)] ==
        IF i = 0 THEN <<>>
        ELSE upto[i - 1] \o [k \in 1..widths[i] |-> <<kind, i>>]
  IN  upto[n]

\* The page up to the i-th neighbour, and up to the j-th route.
NeighborPart(i) ==
  <<Text("status"), Text("type"), Text("TOP"), Text("Neighbors")>>
    \o Lines("nbr", NbrLine, i)
RoutePart(j) ==
  NeighborPart(NbrMax) \o <<Text("Routes")>> \o Lines("route", RouteLine, j)

Page == RoutePart(RouteMax) \o <<Text("end"), Text("BOTTOM")>>

\* A client that has the server for itself receives the page, in whatever
\* state earlier connections left the static variables, and although a
\* retransmission reads buf again (border-router.c:65 warns only of several
\* connections).
PageOfOnlyConnection ==
  \A c \in clean :
    /\ got[c] = SubSeq(Page, 1, Len(got[c]))
    /\ conn[c] = "closing" /\ state[appstate[c]] = "OUTPUT" => got[c] = Page

\* Every connection ends, also that of a client that falls silent, and the
\* server gets its block back (httpd-simple.c:232-237).  What can keep one for
\* ever is data or retransmissions without end, each of which restarts the
\* timer, or other connections without end, each of which restarts the static
\* iterator of the loop that this one is in.
ConnectionsEnd ==
  \A c \in Client :
    \/ []<>(conn[c] = "closed")
    \/ []<><<ReadOn(c) \/ Retransmit(c)>>_vars
    \/ \E d \in Client \ {c} : []<>(conn[d] = "open") /\ []<>(conn[d] = "closed")

=============================================================================
