--------------------------- MODULE MCLossHistory ----------------------------
(***************************************************************************)
(* A small instance of LossHistory for TLC.                                *)
(***************************************************************************)
EXTENDS LossHistory

CONSTANTS n1, n2, c0, h0, k0

MCHash == [c \in Challenge |-> h0]
=============================================================================
