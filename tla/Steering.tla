------------------------------ MODULE Steering ------------------------------
(***************************************************************************)
(* Messages to a busy bot.  A message sent while the bot has an active run *)
(* in the thread waits as a steering row of that run.  A turn claims the   *)
(* rows that wait, gives the model those that fit and lets the others go;  *)
(* when a run ends, what is still unanswered goes to a follow-up run.      *)
(*                                                                         *)
(* One bot in one thread.  Every action is one transaction under the       *)
(* thread lock; the lease that fences a worker's transactions is the       *)
(* subject of RunLifecycle, so a run has at most one turn here.            *)
(***************************************************************************)
EXTENDS Naturals, FiniteSets

CONSTANTS
    Runs,       \* run ids
    Peers,      \* the runs that are read-only peer runs
    NoRun,      \* runId = null
    MaxMsgs,    \* bound: messages sent
    Channel     \* the messages that come over a messaging channel

ASSUME RunsAssumption == NoRun \notin Runs /\ Peers \subseteq Runs
ASSUME MsgsAssumption == MaxMsgs \in Nat /\ Channel \subseteq 1..MaxMsgs

VARIABLES
    status,     \* of each run
    bridged,    \* the runs a channel message started (trigger "messaging")
    batch,      \* seq of the last message a follow-up was created with, or 0
    sent,       \* messages of the thread so far
    row,        \* the steering row of each message
    turn,       \* the turn a worker is carrying out for a run
    answered,   \* observer: messages a completed run had been given
    lastEnd     \* observer: how the latest run to end did

vars == <<status, bridged, batch, sent, row, turn, answered, lastEnd>>

Msgs == 1..MaxMsgs

\* A run that waits for its owner's answer or for a takeover is active, like one at work.
Active(r) == status[r] \in {"queued", "running", "waiting"}
Busy == {r \in Runs \ Peers : Active(r)}

\* The id of the next run.  Ids carry no meaning, so one of the unused stands for all.
Unused == {r \in Runs \ Peers : status[r] = "absent"}
Fresh == {r \in Unused : r = CHOOSE u \in Unused : TRUE}

NoRow == [waiting |-> FALSE, run |-> NoRun, claimed |-> FALSE, adopted |-> FALSE]
FreeRow == [NoRow EXCEPT !.waiting = TRUE]
RowOf(r) == [FreeRow EXCEPT !.run = r]

NoTurn == [phase |-> "none", took |-> {}, given |-> {}, deferred |-> {}]

Waiting(m) == row[m].waiting
HeldBy(r) == {m \in Msgs : Waiting(m) /\ row[m].run = r}
Free == HeldBy(NoRun)

Init ==
    /\ status = [r \in Runs |-> "absent"]
    /\ bridged = {}
    /\ batch = [r \in Runs |-> 0]
    /\ sent = 0
    /\ row = [m \in Msgs |-> NoRow]
    /\ turn = [r \in Runs |-> NoTurn]
    /\ answered = [r \in Runs |-> {}]
    /\ lastEnd = "none"

-----------------------------------------------------------------------------
(* Sending.                                                                 *)

\* The message gets a run of its own.
StartRunFor(m) ==
    \E r \in Fresh :
        /\ status' = [status EXCEPT ![r] = "queued"]
        /\ bridged' = IF m \in Channel THEN bridged \cup {r} ELSE bridged

\* sendUserMessage: a run of its own, or a row behind a run that is not a peer's.
Send ==
    /\ sent < MaxMsgs
    /\ sent' = sent + 1
    /\ \/ /\ Busy = {}
          /\ StartRunFor(sent + 1)
          /\ UNCHANGED row
       \/ /\ \E r \in Busy : row' = [row EXCEPT ![sent + 1] = RowOf(r)]
          /\ UNCHANGED <<status, bridged>>
    /\ UNCHANGED <<batch, turn, answered, lastEnd>>

\* A webhook or messaging bridge may ask for a run in any case (allowParallelRun).
SendParallel ==
    /\ sent < MaxMsgs
    /\ sent' = sent + 1
    /\ StartRunFor(sent + 1)
    /\ UNCHANGED <<batch, row, turn, answered, lastEnd>>

\* A read-only peer run is queued beside whatever the bot is doing.
AdmitPeer(r) ==
    /\ r \in Peers
    /\ status[r] = "absent"
    /\ status' = [status EXCEPT ![r] = "queued"]
    /\ UNCHANGED <<bridged, batch, sent, row, turn, answered, lastEnd>>

-----------------------------------------------------------------------------
(* A turn.                                                                  *)

\* The rows a run may claim: its own and those nobody has; one that a channel message
\* started takes only messages of the channel.
Claimable(r, seen) ==
    {m \in (HeldBy(r) \cup Free) \ seen : r \notin Peers /\ (r \in bridged => m \in Channel)}

\* Mutant: a row taken over keeps its earlier claim to nobody.
ClaimedRowForgets(r, m) == [row[m] EXCEPT !.claimed = TRUE]

\* What claimSteering writes to a row: the claim, and whether it was taken over.
ClaimedRow(r, m) ==
    [row[m] EXCEPT !.run = r, !.claimed = TRUE,
                   !.adopted = @ \/ row[m].run = NoRun]

claimSteering(r, ms) ==
    row' = [m \in Msgs |-> IF m \in ms THEN ClaimedRow(r, m) ELSE row[m]]

\* Mutant: a run waits for every other active run, queued ones included.
StartTurnAlone(r) ==
    LET took == Claimable(r, {}) IN
    /\ status[r] = "queued" /\ \A o \in Runs \ {r} : ~Active(o)
    /\ status' = [status EXCEPT ![r] = "running"]
    /\ claimSteering(r, took)
    /\ turn' = [turn EXCEPT ![r] = [NoTurn EXCEPT !.phase = "claimed", !.took = took]]
    /\ UNCHANGED <<bridged, batch, sent, answered, lastEnd>>

\* A worker starts the run's turn and claims what waits before calling the model.
StartTurn(r) ==
    LET took == Claimable(r, {}) IN
    /\ status[r] = "queued"
    /\ status' = [status EXCEPT ![r] = "running"]
    /\ claimSteering(r, took)
    /\ turn' = [turn EXCEPT ![r] = [NoTurn EXCEPT !.phase = "claimed", !.took = took]]
    /\ UNCHANGED <<bridged, batch, sent, answered, lastEnd>>

\* Mutant: a follow-up whose first message does not fit takes none.
FitsNoneKept(ms, keepFirst) == {inc \in SUBSET ms : \A m \in inc, n \in ms \ inc : m < n}

\* fitInitialSteering: oldest first, while they fit; a follow-up always takes one.
fitInitialSteering(ms, keepFirst) ==
    {inc \in SUBSET ms :
        /\ \A m \in inc, n \in ms \ inc : m < n
        /\ keepFirst /\ ms # {} => inc # {}}

\* releaseSteering lets the others go, and the model is called.
CallModel(r) ==
    /\ turn[r].phase = "claimed"
    /\ \E inc \in fitInitialSteering(turn[r].took, batch[r] # 0) :
          LET out == turn[r].took \ inc IN
          /\ row' = [m \in Msgs |->
                        IF m \in out /\ Waiting(m) /\ row[m].run = r THEN FreeRow ELSE row[m]]
          /\ turn' = [turn EXCEPT ![r] = [@ EXCEPT !.phase = "open", !.given = inc,
                                                   !.deferred = out]]
    /\ UNCHANGED <<status, bridged, batch, sent, answered, lastEnd>>

\* Between model calls the turn claims what arrived, except what it let go.
ClaimMore(r) ==
    LET more == Claimable(r, turn[r].given \cup turn[r].deferred) IN
    /\ turn[r].phase = "open"
    /\ more # {}
    /\ claimSteering(r, more)
    /\ turn' = [turn EXCEPT ![r].given = @ \cup more]
    /\ UNCHANGED <<status, bridged, batch, sent, answered, lastEnd>>

\* The turn is put back, or lost with its worker.
PutBack(r) ==
    /\ status[r] = "running"
    /\ status' = [status EXCEPT ![r] = "queued"]
    /\ turn' = [turn EXCEPT ![r] = NoTurn]
    /\ UNCHANGED <<bridged, batch, sent, row, answered, lastEnd>>

\* pauseRunForInput, pauseRunForTakeover: the model asks the owner, and the rows of the
\* run stay with it.
Pause(r) ==
    /\ turn[r].phase = "open"
    /\ status' = [status EXCEPT ![r] = "waiting"]
    /\ turn' = [turn EXCEPT ![r] = NoTurn]
    /\ UNCHANGED <<bridged, batch, sent, row, answered, lastEnd>>

\* The owner answers, or gives the screen back.  Nothing says that this ever happens.
Answer(r) ==
    /\ status[r] = "waiting"
    /\ status' = [status EXCEPT ![r] = "queued"]
    /\ UNCHANGED <<bridged, batch, sent, row, turn, answered, lastEnd>>

-----------------------------------------------------------------------------
(* The end of a run.                                                        *)

\* Mutant: the batch is said to end with the message after its last.
LastOfNext(ms) == 1 + CHOOSE m \in ms : \A n \in ms : n <= m

\* The newest of the waiting messages, by seq.
LastOf(ms) == CHOOSE m \in ms : \A n \in ms : n <= m

\* createSteeringContinuation, after the run's rows became rows: none while another
\* run that could answer is active, one follow-up for everything that is free.
Continue(r, rows, ended, wanted) ==
    LET free == {m \in Msgs : rows[m].waiting /\ rows[m].run = NoRun}
        others == Busy \ {r}
    IN
    IF ~wanted \/ others # {} \/ free = {}
    THEN status' = ended /\ row' = rows /\ UNCHANGED batch
    ELSE \E c \in Fresh :
            /\ status' = [ended EXCEPT ![c] = "queued"]
            /\ row' = [m \in Msgs |-> IF m \in free THEN RowOf(c) ELSE rows[m]]
            /\ batch' = [batch EXCEPT ![c] = LastOf(free)]

\* Mutant: the unclaimed rows of a completed run stay with it.
AfterCompletedKept(r) ==
    [m \in Msgs |-> IF m \in HeldBy(r) /\ row[m].claimed THEN NoRow ELSE row[m]]

\* A completed run deletes the rows it claimed and frees the others.
AfterCompleted(r) ==
    [m \in Msgs |->
        IF m \notin HeldBy(r) THEN row[m]
        ELSE IF row[m].claimed THEN NoRow ELSE [row[m] EXCEPT !.run = NoRun]]

Complete(r) ==
    /\ turn[r].phase = "open"
    /\ answered' = [answered EXCEPT ![r] = turn[r].given]
    /\ Continue(r, AfterCompleted(r), [status EXCEPT ![r] = "completed"], TRUE)
    /\ turn' = [turn EXCEPT ![r] = NoTurn]
    /\ lastEnd' = "outcome"
    /\ UNCHANGED <<bridged, sent>>

\* A failed run frees its rows; a failed follow-up keeps the batch it was made for.
AfterFailed(r) ==
    [m \in Msgs |->
        IF m \in HeldBy(r) /\ (batch[r] = 0 \/ row[m].adopted \/ m > batch[r])
        THEN FreeRow ELSE row[m]]

\* A runtime problem is the owner's to fix: no follow-up would fare better.
Fail(r, problem) ==
    /\ status[r] = "running"
    /\ Continue(r, AfterFailed(r), [status EXCEPT ![r] = "failed"], ~problem)
    /\ turn' = [turn EXCEPT ![r] = NoTurn]
    /\ lastEnd' = IF problem THEN "problem" ELSE "outcome"
    /\ UNCHANGED <<bridged, sent, answered>>

\* confirmDispatchStop ends one run and leaves its rows with it.
ConfirmStop(r) ==
    /\ Active(r)
    /\ status' = [status EXCEPT ![r] = "cancelled"]
    /\ turn' = [turn EXCEPT ![r] = NoTurn]
    /\ lastEnd' = "stop"
    /\ UNCHANGED <<bridged, batch, sent, row, answered>>

\* stopThreadRuns ends every run of the thread and drops every row.
StopThread ==
    /\ \E r \in Runs : Active(r)
    /\ status' = [r \in Runs |-> IF Active(r) THEN "cancelled" ELSE status[r]]
    /\ row' = [m \in Msgs |-> NoRow]
    /\ turn' = [r \in Runs |-> NoTurn]
    /\ lastEnd' = "stop"
    /\ UNCHANGED <<bridged, batch, sent, answered>>

-----------------------------------------------------------------------------
Step(r) ==
    \/ StartTurn(r) \/ CallModel(r) \/ ClaimMore(r) \/ PutBack(r) \/ Pause(r)
    \/ Complete(r) \/ Fail(r, TRUE) \/ Fail(r, FALSE)

Next ==
    \/ Send \/ SendParallel \/ StopThread
    \/ \E r \in Runs : AdmitPeer(r) \/ Step(r) \/ Answer(r) \/ ConfirmStop(r)

Spec == Init /\ [][Next]_vars

\* Queued runs are eventually worked on, and a turn that keeps being put back is eventually
\* carried through to an outcome or to a question to the owner: RunLifecycle's NotForgotten.
\* Nothing is assumed of the owner, who may leave a question open for ever, nor of a model
\* that may ask again after every answer.
Fairness ==
    \A r \in Runs :
        /\ WF_vars(StartTurn(r))
        /\ SF_vars(CallModel(r))
        /\ SF_vars(Complete(r) \/ Fail(r, TRUE) \/ Fail(r, FALSE) \/ Pause(r))

FairSpec == Spec /\ Fairness

-----------------------------------------------------------------------------
(* Properties.                                                              *)

\* Every variable holds a value of its type.
TypeOK ==
    /\ status \in [Runs -> {"absent", "queued", "running", "waiting",
                           "completed", "failed", "cancelled"}]
    /\ bridged \in SUBSET Runs
    /\ batch \in [Runs -> 0..MaxMsgs]
    /\ sent \in 0..MaxMsgs
    /\ row \in [Msgs -> [waiting: BOOLEAN, run: Runs \cup {NoRun}, claimed: BOOLEAN,
                         adopted: BOOLEAN]]
    /\ turn \in [Runs -> [phase: {"none", "claimed", "open"}, took: SUBSET Msgs,
                          given: SUBSET Msgs, deferred: SUBSET Msgs]]
    /\ answered \in [Runs -> SUBSET Msgs]
    /\ lastEnd \in {"none", "outcome", "problem", "stop"}

\* A message is answered once: no two completed runs were given it, and a message a
\* completed run was given waits for no other, however runs overlap, take rows over,
\* let them go and are put back.
AnsweredOnce ==
    \A m \in Msgs : \A r \in Runs : m \in answered[r] =>
        /\ ~Waiting(m)
        /\ \A o \in Runs \ {r} : m \notin answered[o]

\* No message waits alone: once the bot has no run left that could answer, what still
\* waits was kept by a failed follow-up or left by a stopped run, unless the latest run
\* to end did so by a runtime problem or a stop.
NobodyWaitsAlone ==
    Busy = {} /\ lastEnd = "outcome" =>
        \A m \in Msgs : Waiting(m) =>
            /\ row[m].run \in Runs
            /\ \/ status[row[m].run] = "cancelled"
               \/ status[row[m].run] = "failed" /\ m <= batch[row[m].run]

\* A follow-up settles a message: when it completes it was given one, when it fails it
\* keeps one, so a chain of follow-ups is never longer than the messages sent.
FollowUpSettles ==
    [][\A r \in Runs : batch[r] # 0 /\ status'[r] # status[r] =>
          /\ status'[r] = "completed" => answered'[r] # {}
          /\ status'[r] = "failed" => HeldBy(r)' # {}]_vars

\* A message is settled when it was answered or dropped, when a failed follow-up or a
\* stopped run keeps it, or when the latest run to end did so by a problem or a stop.
Settled(m) ==
    \/ ~Waiting(m)
    \/ row[m].run \in Runs /\ status[row[m].run] \in {"failed", "cancelled"}
    \/ Busy = {} /\ lastEnd # "outcome"

\* The owner's turn: the run that holds the message waits for its owner, or the message is
\* nobody's and a run that waits for its owner keeps a follow-up from being created.
UpToOwner(m) == \E r \in Busy : status[r] = "waiting" /\ row[m].run \in {r, NoRun}

\* Unless runs put questions to the owner for ever, a message that waits is eventually
\* settled, or it is the owner's turn: no chain of ends, put-backs, let-go rows and
\* follow-ups keeps it waiting.
EventuallySettled ==
    (\A r \in Runs : <>[][~Pause(r)]_vars)
        => \A m \in Msgs : Waiting(m) ~> (Settled(m) \/ UpToOwner(m))
=============================================================================
