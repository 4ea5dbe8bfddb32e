---------------------------- MODULE MCEventFeed ----------------------------
(***************************************************************************)
(* Small instances of EventFeed for TLC.                                   *)
(***************************************************************************)
EXTENDS EventFeed, TLC

CONSTANTS m1, m2, d1, w1, w2
=============================================================================
