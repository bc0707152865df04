---------------------------- MODULE LossHistory -----------------------------
(***************************************************************************)
(* What a lossy link promises.  A datagram that a handler takes and drops  *)
(* leaves the same state as one the link loses, so the properties here     *)
(* need a history: lost, to which the loss of a datagram adds and nothing  *)
(* else does.                                                              *)
(***************************************************************************)
EXTENDS MeteringSystem

VARIABLE lost  \* history: what Lose took of the keys and of the tool's present run

OfTool(m) == Cli \in {m.from, m.to}

\* A key on its way that the node would take up.
Grants(m) == m.frame.cmd = JOIN_SUCCESS /\ check_crc16(m.frame)

\* A new run of the tool begins its own history.
Remembers ==
  lost' = IF cli.phase = "exited" /\ cli'.phase = "waiting"
          THEN {m \in lost : ~OfTool(m)}
          ELSE lost

Loses ==
  /\ NetworkStep
  /\ lost' = lost \cup {m \in net \ net' : Grants(m) \/ OfTool(m)}

NextLost ==
  \/ (NodeStep \/ GatewayStep \/ CliStep) /\ Remembers
  \/ Loses

LossySpec == Init /\ lost = {} /\ [][NextLost]_<<vars, lost>> /\ Fairness

-----------------------------------------------------------------------------
\* The link lost the frame that carried d its key.
KeyLost(d) == \E m \in lost : m.to = d /\ Grants(m)

\* Every listed node ends up in STATE_NORMAL whatever else a lossy link drops,
\* unless it drops the JOIN_SUCCESS itself: the retransmission timer carries
\* both phases (server.c:485-510), a repeated JOIN_SUCCESS never verifies
\* (test.c:243), and one that arrives is taken up (server.c:340-345).
JoinCompletes == \A d \in Device : <>(state[d] = STATE_NORMAL \/ KeyLost(d))

\* The link lost the command of the present run, or the reply to it.
ExchangeLost == \E m \in lost : OfTool(m)

\* A relay command under way to a node in STATE_NORMAL is reported back to the
\* operator before the tool gives up, unless the link loses it or its reply:
\* the node answers every command, one that changes nothing included
\* (server.c:378-406), and the tool opens the answer (test_cli.c:184-210).
RelayCommandAnswered ==
  (\E m \in net : m.from = Cli /\ state[m.to] = STATE_NORMAL)
    ~> (cli.said # "nothing" \/ ExchangeLost)
=============================================================================
