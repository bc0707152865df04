------------------------------ MODULE MCMeter -------------------------------
(***************************************************************************)
(* An instance of Meter: a mains voltage that changes between two values,  *)
(* a load that is switched off or draws 0.48 A, and an energy of 1 Wh.     *)
(* The answers with all value bytes zero end in a byte that is itself the  *)
(* code of an answer, which is what makes the assembler's task hard.       *)
(***************************************************************************)
EXTENDS Meter

MCSample ==
  [k \in Response |->
     CASE k = RESP_VOLTAGE -> {<<0, 220, 5>>, <<0, 219, 9>>}
       [] k = RESP_CURRENT -> {<<0, 0, 0>>, <<0, 0, 48>>}
       [] k = RESP_POWER -> {<<0, 0, 0>>, <<0, 105, 0>>}
       [] k = RESP_ENERGY -> {<<0, 0, 1>>}
       [] OTHER -> {<<0, 0, 0>>}]
=============================================================================
