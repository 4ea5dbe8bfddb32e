----------------------------- MODULE MCSteering -----------------------------
(* Instances of Steering for TLC. *)
EXTENDS Steering, TLC

CONSTANTS s1, s2, s3, s4, s5, p1

\* Ordinary runs are interchangeable.
MCRunSymmetry == Permutations({s1, s2, s3, s4, s5} \cap Runs)
=============================================================================
