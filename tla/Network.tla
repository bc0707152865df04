------------------------------ MODULE Network -------------------------------
(***************************************************************************)
(* The path between the nodes and the Linux host: 6LoWPAN radio, border    *)
(* router, SLIP line, host UDP.  None of it gives an order or a guarantee, *)
(* so what is in flight is a set of datagrams.                             *)
(*                                                                         *)
(* Faults says what the environment does in a given instance:              *)
(*   "loss"     datagrams may vanish;                                      *)
(*   "late"     a round trip may outlast the timers, so new traffic of a   *)
(*              node starts while old traffic is in flight, and the link   *)
(*              layer may deliver a datagram twice;                        *)
(*   "reboot"   nodes reboot;  "restart"  the gateway program restarts.    *)
(***************************************************************************)
EXTENDS Frames, FiniteSets

CONSTANTS Faults, QueueCap

ASSUME NetworkAssumption ==
  /\ Faults \subseteq {"loss", "late", "reboot", "restart"}
  /\ QueueCap \in Nat \ {0}

VARIABLE net

Involves(m, n) == n \in {m.from, m.to}

Peer(m) == IF m.from \in Node THEN m.from ELSE m.to

\* The queue buffers hold QueueCap datagrams of a node; one more is dropped.
Post(base, m) ==
  IF Cardinality({x \in base : Involves(x, Peer(m))}) < QueueCap
  THEN base \cup {m}
  ELSE base

\* What can be in flight after m was delivered.
Delivered(m) == {net \ {m}} \cup (IF "late" \in Faults THEN {net} ELSE {})

Idle(n) == \A m \in net : ~Involves(m, n)

Lose ==
  /\ "loss" \in Faults
  /\ \E m \in net : net' = net \ {m}
=============================================================================
