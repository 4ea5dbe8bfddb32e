--------------------------- MODULE MCEffectsRepeat --------------------------
(***************************************************************************)
(* Effects with an observer of the questions asked, and what the decision  *)
(* record of the restart drain says of an interrupted action.              *)
(***************************************************************************)
EXTENDS Effects

CONSTANTS w1, note

VARIABLES
    asked,      \* the calls about which a person was asked since they were performed
    repeated    \* the calls performed again with nobody asked

Performed == {c \in Calls : done'[c] # done[c]}
AskedNow == IF run.status # "waiting" /\ run'.status = "waiting" THEN Calls ELSE {}

ObservedInit == Init /\ asked = {} /\ repeated = {}

ObservedNext ==
    /\ Next
    /\ asked' = (asked \cup AskedNow) \ Performed
    /\ repeated' = repeated \cup {c \in Performed : done[c] > 0 /\ c \notin asked}

ObservedSpec == ObservedInit /\ [][ObservedNext]_<<vars, asked, repeated>>

\* No action is repeated on its own: before a call is performed a second time a person was
\* asked.  (ADR-028: an intent with no result pauses for a person to check its outcome; it
\* never automatically repeats a command or external action.)
NeverRepeatsAlone == repeated = {}
=============================================================================
