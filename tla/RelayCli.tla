------------------------------ MODULE RelayCli ------------------------------
(***************************************************************************)
(* The relay tool (test_cli/test_cli.c).  A run sends one command to one   *)
(* node, waits at most TIMEOUT_ACK for one datagram on port 3001, reports  *)
(* what that datagram says, and exits.  Runs follow one another.           *)
(***************************************************************************)
EXTENDS Network

CONSTANT CliTargets  \* the nodes the operator sends commands to

ASSUME CliAssumption == CliTargets \subseteq Node

VARIABLE cli  \* the present or last run: its target, command and report

CliRecord == [phase : {"waiting", "exited"}, target : Node \cup {NoAddr},
              cmd : {REQUEST_LED_ON, REQUEST_LED_OFF},
              said : {"nothing", "on", "off"}]

CliTypeOK == cli \in CliRecord

CliInit == cli = [phase |-> "exited", target |-> NoAddr,
                  cmd |-> REQUEST_LED_OFF, said |-> "nothing"]

\* argv names a node and led_on or led_off.  The frame's destination field is
\* the all-zero ipv6_new_des, its sequence number always 0.
CliRun(n, cmd) ==
  /\ cli.phase = "exited"
  /\ cli' = [phase |-> "waiting", target |-> n, cmd |-> cmd, said |-> "nothing"]
  /\ net' = Post(net, encrypt_cbc(Cli, n, KeyBegin,
                        prepare2send(NoAddr, 0, STATE_NORMAL, cmd, Zero)))

\* What the run prints for the datagram it received.
Report(m) ==
  IF ~Opens(m, "cbc", KeyBegin) THEN "nothing"
  ELSE IF m.frame.cmd = REPLY_LED_ON THEN "on"
  ELSE IF m.frame.cmd = REPLY_LED_OFF THEN "off"
  ELSE "nothing"

Exits(said) ==
  cli' = [phase |-> "exited", target |-> cli.target, cmd |-> cli.cmd,
          said |-> said]

\* The first datagram on the port ends the wait, whoever sent it.
CliReceive(m) ==
  /\ m.to = Cli
  /\ cli.phase = "waiting"
  /\ Exits(Report(m))
  /\ net' \in Delivered(m)

\* No run is there to read it: the port is not bound.
CliUnbound(m) ==
  /\ m.to = Cli
  /\ cli.phase = "exited"
  /\ net' \in Delivered(m)
  /\ UNCHANGED cli

CliTimeout ==
  /\ cli.phase = "waiting"
  /\ Idle(cli.target) \/ "late" \in Faults
  /\ Exits("nothing")
  /\ UNCHANGED net
=============================================================================
