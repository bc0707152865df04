----------------------------- MODULE MCMetering -----------------------------
(***************************************************************************)
(* Small instances of MeteringSystem for TLC: the values of the constants  *)
(* that a .cfg cannot write down, and the symmetry of the listed nodes.    *)
(***************************************************************************)
EXTENDS SingleFlight, TLC

CONSTANTS n1, n2, c0, c1, h0, h1, k0, k1

\* hash() without collision between the challenges of the instance.
MCHash == [c \in Challenge |-> IF c = c0 THEN h0 ELSE h1]

\* Interchangeable nodes: both listed, both commanded or neither.
NodeSymmetry == Permutations(Node)
=============================================================================
