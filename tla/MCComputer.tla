----------------------------- MODULE MCComputer -----------------------------
(* Instances of Computer for TLC. *)
EXTENDS Computer, TLC

CONSTANTS a1, z1, x1, o1, k1, k2

\* Sandboxes not yet made are interchangeable.
MCComputerSymmetry == Permutations(Boxes)
=============================================================================
