------------------------------ MODULE MCBriefs ------------------------------
(***************************************************************************)
(* A small instance of Briefs for TLC: one other bot of the room, one      *)
(* source run.                                                             *)
(***************************************************************************)
EXTENDS Briefs

CONSTANTS r1, s1
=============================================================================
