----------------------------- MODULE RunPromise -----------------------------
(***************************************************************************)
(* What the run table promises the owner of a run, without leases, fences, *)
(* jobs or processes: an admitted run stays open until it ends once, by    *)
(* completing, failing or being cancelled; it posts its final reply when   *)
(* it completes; a run that was asked to stop can only be cancelled.       *)
(***************************************************************************)
EXTENDS Naturals

CONSTANTS Runs

VARIABLES
    state,    \* absent, open, or how the run ended
    stop,     \* the owner asked it to stop
    replies   \* final replies posted

promiseVars == <<state, stop, replies>>

PromiseTypeOK ==
    /\ state \in [Runs -> {"absent", "open", "completed", "failed", "cancelled"}]
    /\ stop \in [Runs -> BOOLEAN]
    /\ replies \in [Runs -> Nat]

Init ==
    /\ state = [r \in Runs |-> "absent"]
    /\ stop = [r \in Runs |-> FALSE]
    /\ replies = [r \in Runs |-> 0]

Admit(r) ==
    /\ state[r] = "absent"
    /\ state' = [state EXCEPT ![r] = "open"]
    /\ UNCHANGED <<stop, replies>>

\* A stop reaches a run and the runs delegated from it.
AskStop(S) ==
    /\ \A r \in S : state[r] = "open"
    /\ stop' = [r \in Runs |-> stop[r] \/ r \in S]
    /\ UNCHANGED <<state, replies>>

End(r, outcome) ==
    /\ state[r] = "open"
    /\ ~stop[r]
    /\ state' = [state EXCEPT ![r] = outcome]
    /\ replies' = [replies EXCEPT ![r] = IF outcome = "completed" THEN @ + 1 ELSE @]
    /\ UNCHANGED stop

\* A confirmed stop cancels one run, clearing a thread all of its open runs.
Cancel(S) ==
    /\ \A r \in S : state[r] = "open"
    /\ state' = [r \in Runs |-> IF r \in S THEN "cancelled" ELSE state[r]]
    /\ UNCHANGED <<stop, replies>>

Next ==
    \/ \E r \in Runs : Admit(r) \/ End(r, "completed") \/ End(r, "failed")
    \/ \E S \in SUBSET Runs : AskStop(S) \/ Cancel(S)

Spec == Init /\ [][Next]_promiseVars

\* A run posts its final reply exactly when it completes: never twice, and never
\* for a run that failed, was stopped or was cleared (finalizeRun).
ReplyIffCompleted ==
    \A r \in Runs : replies[r] = (IF state[r] = "completed" THEN 1 ELSE 0)
=============================================================================
