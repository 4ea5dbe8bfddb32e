------------------------------- MODULE Effects ------------------------------
(***************************************************************************)
(* The actions of one run on the outside world.  A worker saves a receipt  *)
(* of each tool call in the run's turn checkpoint before and after it, and *)
(* the call has a row of its own, whose status decides whether it may be   *)
(* performed.  Workers crash, lose their lease and are replaced; the owner *)
(* answers cards and cancels meanwhile.                                    *)
(*                                                                         *)
(* A call is an idempotency key: the tool, its arguments and how often     *)
(* they were used in the attempt, so it is begun once in an attempt.       *)
(* Consequential calls are those that require approval by default.         *)
(* Whether a card is shown (rules, the judge) may differ between attempts  *)
(* and is left open.  A worker whose lease was taken goes on until its     *)
(* signal is aborted, and nothing at the dispatch compares the lease: the  *)
(* row of the call alone decides who performs it.                          *)
(***************************************************************************)
EXTENDS FiniteSets, Integers

CONSTANTS
    Calls,          \* effect keys
    Consequential,  \* those of tools for which requiresApprovalByDefault holds
    Workers,        \* continueRun in some process
    None,           \* nobody, nothing, no card
    MaxDone,        \* bound: how often a call is performed
    MaxOthers       \* bound: how many calls have a row, or a receipt of another worker, when
                    \* one more is begun

ASSUME CallsAssumption == Consequential \subseteq Calls /\ None \notin Calls \cup Workers
ASSUME BoundsAssumption == MaxDone \in Nat /\ MaxOthers \in Nat

VARIABLES
    run,        \* status, lease, turn checkpoint and cancelRequestedAt of the run
    effect,     \* status of each call's external_effects row
    worker,     \* the step of each worker, its call and its receipts
    card,       \* the question the run waits on: a call to approve, or "check"
    answer,     \* the card an answer's transaction has read
    done,       \* observer: how often each call was performed
    overtaken   \* observer: the calls whose claim an answer was written over

observers == <<done, overtaken>>
vars == <<run, effect, worker, card, answer, observers>>

Status == {"absent", "intended", "approved", "executing", "completed", "denied", "uncertain"}
Receipts == [Calls -> {"none", "started", "completed"}]
NoReceipts == [c \in Calls |-> "none"]
Checkpoint == [receipts: Receipts, suspended: BOOLEAN]

\* left: the recovered receipts that are not consumed yet.
Idle == [phase |-> "idle", call |-> None, seen |-> "absent", claimed |-> FALSE,
         suspended |-> FALSE, receipts |-> NoReceipts, left |-> {}]

Init ==
    /\ run = [status |-> "queued", holder |-> None, live |-> FALSE, saved |-> None,
              cancel |-> FALSE]
    /\ effect = [c \in Calls |-> "absent"]
    /\ worker = [w \in Workers |-> Idle]
    /\ card = None
    /\ answer = None
    /\ done = [c \in Calls |-> 0]
    /\ overtaken = {}

-----------------------------------------------------------------------------
(* The run and its lease.                                                   *)

Becomes(w, k) == worker' = [worker EXCEPT ![w] = k]
At(w, phase) == [worker[w] EXCEPT !.phase = phase]

\* The lease fence of every write of the turn.
Holds(w) == run.status = "running" /\ run.holder = w

\* The receipts of the saved turn, if it is resumed: after a suspension, or out of an
\* active turn.
Resumed == IF run.saved # None /\ (run.saved.suspended \/ run.status = "running")
           THEN run.saved.receipts ELSE NoReceipts

\* continueRun reads the run, its turn checkpoint included.
ReadRun(w) ==
    /\ worker[w].phase = "idle"
    /\ run.status # "done" /\ (run.cancel => run.status = "running")
    /\ Becomes(w, [Idle EXCEPT !.phase = "read", !.seen = run.status, !.receipts = Resumed,
                               !.left = {c \in Calls : Resumed[c] # "none"}])
    /\ UNCHANGED <<run, effect, card, answer, observers>>

\* The claim compares the status read; an active run's lease must have run out.
ClaimRun(w) ==
    /\ worker[w].phase = "read"
    /\ IF run.status = worker[w].seen /\ (run.status = "running" => ~run.live)
       THEN /\ run' = [run EXCEPT !.status = "running", !.holder = w, !.live = TRUE]
            /\ Becomes(w, [worker[w] EXCEPT !.phase = "setup", !.seen = "absent"])
       ELSE UNCHANGED run /\ Becomes(w, Idle)
    /\ UNCHANGED <<effect, card, answer, observers>>

\* The computer is busy or moving: the run goes back to the queue.
Requeue(w) ==
    /\ worker[w].phase = "setup"
    /\ run' = IF Holds(w) THEN [run EXCEPT !.status = "queued", !.holder = None, !.live = FALSE]
              ELSE run
    /\ Becomes(w, Idle)
    /\ UNCHANGED <<effect, card, answer, observers>>

StartTurn(w) ==
    /\ worker[w].phase = "setup"
    /\ Becomes(w, At(w, "turn"))
    /\ UNCHANGED <<run, effect, card, answer, observers>>

\* saveTurnProgress
Save(receipts, suspended) ==
    run' = [run EXCEPT !.saved = [receipts |-> receipts, suspended |-> suspended]]

\* A save of the receipts that was queued.
SaveProgress(w) ==
    /\ worker[w].phase = "turn" /\ Holds(w)
    /\ Save(worker[w].receipts, worker[w].suspended)
    /\ UNCHANGED <<effect, worker, card, answer, observers>>

\* suspendAtBoundary: a restart was requested; the turn is saved as suspended
SaveSuspended(w) ==
    /\ worker[w].phase = "turn" /\ Holds(w)
    /\ Save(worker[w].receipts, TRUE)
    /\ Becomes(w, [At(w, "suspend") EXCEPT !.suspended = TRUE])
    /\ UNCHANGED <<effect, card, answer, observers>>

\* and its lease given back, unless a stop was requested meanwhile.
SuspendTurn(w) ==
    /\ worker[w].phase = "suspend"
    /\ IF Holds(w) /\ ~run.cancel
       THEN run' = [run EXCEPT !.holder = None, !.live = FALSE] /\ Becomes(w, Idle)
       ELSE UNCHANGED run /\ Becomes(w, At(w, "turn"))
    /\ UNCHANGED <<effect, card, answer, observers>>

\* The transport is lost and the model called again: its receipts are recovered.
Recover(w) ==
    /\ worker[w].phase = "turn" /\ Holds(w)
    /\ worker[w].receipts # NoReceipts
    /\ Save(worker[w].receipts, worker[w].suspended)
    /\ Becomes(w, [worker[w] EXCEPT !.left = {c \in Calls : worker[w].receipts[c] # "none"}])
    /\ UNCHANGED <<effect, card, answer, observers>>

\* The run completes, fails or is stopped.
Finish(w) ==
    /\ worker[w].phase = "turn"
    /\ run' = IF Holds(w) THEN [run EXCEPT !.status = "done", !.holder = None, !.live = FALSE]
              ELSE run
    /\ Becomes(w, Idle)
    /\ UNCHANGED <<effect, card, answer, observers>>

\* The process dies, or the turn ends with an error or an aborted signal.
Stop(w) ==
    /\ worker[w].phase # "idle"
    /\ Becomes(w, Idle)
    /\ UNCHANGED <<run, effect, card, answer, observers>>

\* confirmDispatchStop, for a run that nobody executes.
ConfirmStop ==
    /\ run.cancel /\ run.status \in {"queued", "waiting"}
    /\ run' = [run EXCEPT !.status = "done"]
    /\ UNCHANGED <<effect, worker, card, answer, observers>>

Expire ==
    /\ run.status = "running" /\ run.live
    /\ run' = [run EXCEPT !.live = FALSE]
    /\ UNCHANGED <<effect, worker, card, answer, observers>>

-----------------------------------------------------------------------------
(* A tool call: runRecordedTool, then applyTool.                            *)

\* A completed receipt supplies the result, once.
Replay(w, c) ==
    /\ worker[w].phase = "turn"
    /\ c \in worker[w].left /\ worker[w].receipts[c] = "completed"
    /\ Becomes(w, [worker[w] EXCEPT !.left = @ \ {c}])
    /\ UNCHANGED <<run, effect, card, answer, observers>>

\* pauseRunForInput: under the lock of the thread, which an answer holds too.
Pause(w, k) ==
    /\ Holds(w) /\ answer = None
    /\ run' = [run EXCEPT !.status = "waiting", !.holder = None, !.live = FALSE, !.saved = None]
    /\ card' = k
    /\ Becomes(w, Idle)
    /\ UNCHANGED <<effect, answer, observers>>

\* A started receipt: a person is asked to check.
Check(w, c) ==
    /\ worker[w].phase = "turn"
    /\ c \in worker[w].left /\ worker[w].receipts[c] = "started"
    /\ Pause(w, "check")

\* beginEffect and its save, before anything else happens.
Begin(w, c) ==
    LET receipts == [worker[w].receipts EXCEPT ![c] = "started"] IN
    /\ worker[w].phase = "turn" /\ worker[w].receipts[c] = "none"
    /\ Holds(w)
    /\ Cardinality({d \in Calls \ {c} :
            effect[d] # "absent" \/ \E v \in Workers \ {w} : worker[v].receipts[d] # "none"})
          <= MaxOthers
    /\ Save(receipts, worker[w].suspended)
    /\ Becomes(w, [worker[w] EXCEPT !.phase = "begun", !.call = c, !.receipts = receipts])
    /\ UNCHANGED <<effect, card, answer, observers>>

\* recordEffect: the row of the call is found or made.
Record(w) ==
    LET c == worker[w].call IN
    /\ worker[w].phase = "begun"
    /\ effect' = [effect EXCEPT ![c] = IF @ = "absent" THEN "intended" ELSE @]
    /\ Becomes(w, [worker[w] EXCEPT !.phase = "gate", !.seen = effect[c]])
    /\ UNCHANGED <<run, card, answer, observers>>

\* The call is over; its receipt is completed unless the outcome is uncertain.
Over(w, certain) ==
    LET c == worker[w].call IN
    [worker[w] EXCEPT !.phase = "turn", !.call = None, !.seen = "absent", !.claimed = FALSE,
        !.receipts = IF certain THEN [@ EXCEPT ![c] = "completed"] ELSE @]

\* Mutant: a status no other code knows.
SettledFailed(s) == IF s = "executing" THEN "failed" ELSE s

\* settleUncertainEffect
Settled(s) == IF s = "executing" THEN "uncertain" ELSE s

\* resolveDuplicateEffectGate on a row that is settled, or that another execution left.
Return(w) ==
    LET c == worker[w].call IN
    /\ worker[w].phase = "gate"
    /\ \/ /\ worker[w].seen \in {"completed", "denied", "uncertain"}
          /\ UNCHANGED effect
          /\ Becomes(w, Over(w, worker[w].seen # "uncertain"))
       \/ /\ worker[w].seen = "executing"
          /\ effect' = [effect EXCEPT ![c] = Settled(@)]
          /\ Becomes(w, Over(w, effect[c] \in {"completed", "denied"}))
    /\ UNCHANGED <<run, card, answer, observers>>

\* requestApproval, for a row that is new or still intended.
RequestApproval(w) ==
    /\ worker[w].phase = "gate" /\ worker[w].seen \in {"absent", "intended"}
    /\ Pause(w, worker[w].call)

\* Mutant: an execution that was interrupted is taken up again.
ClaimFromAny(s) ==
    IF s = "absent" THEN "intended" ELSE IF s \in {"completed", "denied", "uncertain"} THEN "none" ELSE s

\* The status from which the gate lets a call be claimed.
ClaimFrom(s) ==
    IF s \in {"absent", "intended"} THEN "intended" ELSE IF s = "approved" THEN s ELSE "none"

\* claimOrReturn: an approved call, or one that needs no approval (any more), is claimed.
ClaimEffect(w) ==
    LET c == worker[w].call
        from == ClaimFrom(worker[w].seen)
    IN
    /\ worker[w].phase = "gate" /\ from # "none"
    /\ worker[w].seen = "absent" => c \in Consequential
    /\ IF effect[c] = from
       THEN /\ effect' = [effect EXCEPT ![c] = "executing"]
            /\ Becomes(w, [At(w, "ready") EXCEPT !.claimed = TRUE])
       ELSE /\ effect' = [effect EXCEPT ![c] = Settled(@)]
            /\ Becomes(w, IF effect[c] \in {"completed", "denied"} THEN Over(w, TRUE)
                          ELSE IF effect[c] \in {"uncertain", "executing"} THEN Over(w, FALSE)
                          ELSE Idle)
    /\ UNCHANGED <<run, card, answer, observers>>

\* Any other new call is performed as it is.
Allow(w) ==
    /\ worker[w].phase = "gate" /\ worker[w].seen = "absent"
    /\ worker[w].call \notin Consequential
    /\ Becomes(w, At(w, "ready"))
    /\ UNCHANGED <<run, effect, card, answer, observers>>

\* The signal is not aborted, and a read of the run finds no stop requested (Stop otherwise).
CheckStop(w) ==
    /\ worker[w].phase = "ready" /\ ~run.cancel
    /\ Becomes(w, At(w, "dispatch"))
    /\ UNCHANGED <<run, effect, card, answer, observers>>

\* The call is dispatched, whatever became of the run and of its lease since.
Perform(w) ==
    LET c == worker[w].call IN
    /\ worker[w].phase = "dispatch"
    /\ done[c] < MaxDone
    /\ done' = [done EXCEPT ![c] = @ + 1]
    /\ Becomes(w, At(w, "performed"))
    /\ UNCHANGED <<run, effect, card, answer, overtaken>>

\* completeEffect: from the status the execution left the row in.
Complete(w) ==
    LET c == worker[w].call
        expected == IF worker[w].claimed THEN "executing" ELSE "intended"
    IN
    /\ worker[w].phase = "performed"
    /\ effect' = [effect EXCEPT ![c] = IF @ = expected THEN "completed" ELSE @]
    /\ Becomes(w, Over(w, effect[c] = expected))
    /\ UNCHANGED <<run, card, answer, observers>>

\* The connector cannot tell.
Unclear(w) ==
    LET c == worker[w].call IN
    /\ worker[w].phase = "performed"
    /\ effect' = [effect EXCEPT ![c] = Settled(@)]
    /\ Becomes(w, Over(w, FALSE))
    /\ UNCHANGED <<run, card, answer, observers>>

-----------------------------------------------------------------------------
(* The owner.                                                               *)

\* commitAnswerRunInput reads the waiting run, the card and the row to approve.
ReadAnswer ==
    /\ answer = None /\ card # None
    /\ run.status = "waiting" /\ ~run.cancel
    /\ card \in Calls => effect[card] = "intended"
    /\ answer' = card
    /\ UNCHANGED <<run, effect, worker, card, observers>>

\* An execution claimed the row, and may have ended since.
Claimed(s) == s \in {"executing", "completed", "uncertain"}

\* It queues the run if it still waits, and writes the decision without comparing the row.
WriteAnswer(decision) ==
    /\ answer # None
    /\ IF run.status = "waiting"
       THEN /\ run' = [run EXCEPT !.status = "queued", !.saved = None]
            /\ effect' = IF answer \in Calls THEN [effect EXCEPT ![answer] = decision] ELSE effect
            /\ card' = None
            /\ overtaken' = overtaken \cup {c \in {answer} \cap Calls : Claimed(effect[c])}
       ELSE UNCHANGED <<run, effect, card, overtaken>>
    /\ answer' = None
    /\ UNCHANGED <<worker, done>>

\* Mutant: what is being performed is denied too.
RefusedAll(s) == IF s \in {"intended", "approved", "executing"} THEN "denied" ELSE s

Refused(s) == IF s \in {"intended", "approved"} THEN "denied" ELSE s

\* The work the run belongs to is cancelled: what was not begun is denied.
Cancel ==
    /\ ~run.cancel /\ run.status # "done"
    /\ run' = [run EXCEPT !.cancel = TRUE]
    /\ effect' = [c \in Calls |-> Refused(effect[c])]
    /\ UNCHANGED <<worker, card, answer, observers>>

-----------------------------------------------------------------------------
Turn(w) ==
    \/ ReadRun(w) \/ ClaimRun(w) \/ Requeue(w) \/ StartTurn(w) \/ SaveProgress(w)
    \/ SaveSuspended(w) \/ SuspendTurn(w) \/ Recover(w) \/ Finish(w) \/ Stop(w)

Call(w) ==
    \/ \E c \in Calls : Replay(w, c) \/ Check(w, c) \/ Begin(w, c)
    \/ Record(w) \/ Return(w) \/ RequestApproval(w) \/ ClaimEffect(w) \/ Allow(w)
    \/ CheckStop(w) \/ Perform(w) \/ Complete(w) \/ Unclear(w)

Owner ==
    \/ ReadAnswer \/ Cancel
    \/ \E decision \in {"approved", "denied"} : WriteAnswer(decision)

Next == Expire \/ ConfirmStop \/ Owner \/ \E w \in Workers : Turn(w) \/ Call(w)

Spec == Init /\ [][Next]_vars

-----------------------------------------------------------------------------
(* Properties.                                                              *)

RunStatus == {"queued", "running", "waiting", "done"}
Phases == {"idle", "read", "setup", "turn", "suspend", "begun", "gate", "ready", "dispatch",
           "performed"}

RunType == [status: RunStatus, holder: Workers \cup {None}, live: BOOLEAN,
            saved: Checkpoint \cup {None}, cancel: BOOLEAN]
WorkerType == [phase: Phases, call: Calls \cup {None}, seen: Status \cup RunStatus,
               claimed: BOOLEAN, suspended: BOOLEAN, receipts: Receipts, left: SUBSET Calls]

\* Every variable holds a value of its type.
TypeOK ==
    /\ run \in RunType
    /\ effect \in [Calls -> Status]
    /\ worker \in [Workers -> WorkerType]
    /\ card \in Calls \cup {"check", None}
    /\ answer \in Calls \cup {"check", None}
    /\ done \in [Calls -> Nat]
    /\ overtaken \subseteq Calls

\* A consequential action is performed at most once, whatever crashes, is taken over, asked
\* again or cancelled and though no dispatch compares a lease: every execution claims the row
\* first, and a claimed row can not be claimed again.  The one exception is an answer that
\* was written over a claim: the answer does not compare the row it read (events.ts), so a
\* worker whose lease was lost can claim it in between, and an approval opens it again.
AtMostOnce == \A c \in Consequential \ overtaken : done[c] <= 1

\* What was denied was not done, by the owner or by a cancellation that races the claim; but
\* for the same exception, a denial written over a claim made since the answer read the row.
DeniedIsNotDone == \A c \in Consequential \ overtaken : effect[c] = "denied" => done[c] = 0
=============================================================================
