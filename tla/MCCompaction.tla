---------------------------- MODULE MCCompaction ----------------------------
(***************************************************************************)
(* Small instances of Compaction for TLC.                                  *)
(***************************************************************************)
EXTENDS Compaction, TLC

CONSTANTS r1, r2, c1, c2

MCSymmetry == Permutations({c1, c2})
=============================================================================
