----------------------------- MODULE SessionKeys -----------------------------
(***************************************************************************)
(* What the join is for, without frames, timers or records: the gateway    *)
(* grants keys to listed devices, a node takes up a granted key, and it    *)
(* keeps that key until it forgets everything.                             *)
(***************************************************************************)
CONSTANTS Node, Device, Key

VARIABLES
  session,  \* the key each node encrypts its reports with: a set of one, or none
  granted   \* <<device, key>> of every grant so far

Init ==
  /\ session = [n \in Node |-> {}]
  /\ granted = {}

Grant(d, k) ==
  /\ granted' = granted \cup {<<d, k>>}
  /\ UNCHANGED session

TakeUp(n) ==
  /\ session[n] = {}
  /\ \E g \in granted : session' = [session EXCEPT ![n] = {g[2]}]
  /\ UNCHANGED granted

Forget(n) ==
  /\ session' = [session EXCEPT ![n] = {}]
  /\ UNCHANGED granted

Next ==
  \/ \E d \in Device, k \in Key : Grant(d, k)
  \/ \E n \in Device : TakeUp(n)
  \/ \E n \in Node : Forget(n)

Spec == Init /\ [][Next]_<<session, granted>>
=============================================================================
