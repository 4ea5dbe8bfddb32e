------------------------------ MODULE MCEffects -----------------------------
(***************************************************************************)
(* Small instances of Effects for TLC.                                     *)
(***************************************************************************)
EXTENDS Effects, TLC

CONSTANTS w1, w2, send, note

MCSymmetry == Permutations({w1, w2})
=============================================================================
