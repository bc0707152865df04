----------------------------- MODULE SecureJoin ------------------------------
(***************************************************************************)
(* The join as the two programs mean it: a node asks, is challenged, and   *)
(* answers; the gateway grants a key to a device that is answering, and    *)
(* the node takes up a key that was granted to itself.                     *)
(***************************************************************************)
CONSTANTS Node, Device, Key

VARIABLES
  phase,    \* "asking", "answering" or "joined"
  session,  \* the key of a node that has joined: a set of one, or none
  granted   \* <<device, key>> of every grant so far

Init ==
  /\ phase = [n \in Node |-> "asking"]
  /\ session = [n \in Node |-> {}]
  /\ granted = {}

BeChallenged(n) ==
  /\ phase[n] = "asking"
  /\ phase' = [phase EXCEPT ![n] = "answering"]
  /\ UNCHANGED <<session, granted>>

\* Only a device that has been challenged and has not joined is given a key.
Grant(d, k) ==
  /\ phase[d] = "answering"
  /\ granted' = granted \cup {<<d, k>>}
  /\ UNCHANGED <<phase, session>>

Join(n) ==
  /\ phase[n] = "answering"
  /\ phase' = [phase EXCEPT ![n] = "joined"]
  /\ \E k \in Key :
       /\ <<n, k>> \in granted
       /\ session' = [session EXCEPT ![n] = {k}]
  /\ UNCHANGED granted

Reboot(n) ==
  /\ phase' = [phase EXCEPT ![n] = "asking"]
  /\ session' = [session EXCEPT ![n] = {}]
  /\ UNCHANGED granted

Next ==
  \/ \E d \in Device : BeChallenged(d) \/ Join(d)
  \/ \E d \in Device, k \in Key : Grant(d, k)
  \/ \E n \in Node : Reboot(n)

Spec == Init /\ [][Next]_<<phase, session, granted>>
=============================================================================
