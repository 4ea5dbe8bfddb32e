---------------------------- MODULE RunLifecycle ----------------------------
(***************************************************************************)
(* Durable bot runs: rows of the runs table, the run.continue jobs that    *)
(* carry them out, and everything else that writes those rows (the owner's *)
(* answers, stops and clears, control of the screen, brief maintenance,    *)
(* the reconciler, time).                                                  *)
(*                                                                         *)
(* A job reads the run, and later claims it with an update that compares   *)
(* the status and checkpoint it read.  What it writes afterwards compares  *)
(* status, lease owner and lease fence.  Between any two database calls of *)
(* a job every other actor may run, so each call is an action of its own.  *)
(*                                                                         *)
(* The lease owner is the id of the PROCESS (worker pid, or "api"), shared *)
(* by every job the process runs: OwnerOf maps jobs to processes.          *)
(***************************************************************************)
EXTENDS Naturals, FiniteSets

CONSTANTS
    Runs,         \* rows of the runs table
    Jobs,         \* run.continue jobs in flight, over all processes
    Owners,       \* worker processes
    OwnerOf,      \* the process a job runs in
    NoOwner,      \* leaseOwner = null
    NoRun,        \* no run
    NoBot,        \* controlBotId = null
    NoCheckpoint, \* checkpoint = null
    Checkpoints,  \* what a screen release leaves for the next turn
    Parent,       \* the run whose task delegated this run, or NoRun
    Bots, BotOf, BotLimit,          \* concurrentRuns of the bot
    Threads, ThreadOf, ThreadLimit, \* maxConcurrentRuns of the thread
    Computers, ComputerOf,          \* the computer a bot works on, its own or the team's
    Attended,     \* bound: the bots whose user takes over the screen
    Briefed,      \* bound: the threads whose bots keep briefs
    MaxFence,     \* bound: claims are explored up to this fence
    MaxRetries    \* PROVIDER_RETRY_POLICY: refusals retried before the run fails

ASSUME OwnersAssumption == OwnerOf \in [Jobs -> Owners] /\ NoOwner \notin Owners
ASSUME RunsAssumption == NoRun \notin Runs /\ Parent \in [Runs -> Runs \cup {NoRun}]
ASSUME FiniteAssumption == IsFiniteSet(Runs)
ASSUME CheckpointsAssumption == NoCheckpoint \notin Checkpoints
ASSUME PlacesAssumption == BotOf \in [Runs -> Bots] /\ ThreadOf \in [Runs -> Threads]
ASSUME ComputersAssumption == ComputerOf \in [Bots -> Computers] /\ NoBot \notin Bots
ASSUME LimitsAssumption ==
    /\ BotLimit \in [Bots -> Nat]
    /\ Attended \subseteq Bots
    /\ Briefed \subseteq Threads
    /\ ThreadLimit \in [Threads -> Nat]
    /\ MaxFence \in Nat
    /\ MaxRetries \in Nat

VARIABLES
    run,       \* the runs table
    job,       \* local state of each job
    queue,     \* runs with a pending run.continue job (one job key per run)
    control,   \* who has the screen of each computer, and for which run
    released,  \* observer: runs whose takeover was released since they last asked for one
    briefs,    \* runs from which their bot's brief is being refreshed, under a live lease
    draining,  \* admission is closed for a restart
    replies    \* observer: how often each run committed its completion and reply

vars == <<run, job, queue, control, released, briefs, draining, replies>>

-----------------------------------------------------------------------------
(* Run statuses.                                                            *)

ActiveStatuses == {"queued", "leased", "running", "waiting_input", "waiting_takeover"}
TerminalStatuses == {"completed", "failed", "cancelled"}
Statuses == ActiveStatuses \cup TerminalStatuses \cup {"absent"}

isActive(r) == run[r].status \in ActiveStatuses
isTerminal(r) == run[r].status \in TerminalStatuses

\* Mutant: the fence runs backwards.
FenceBackwards(current) == current - 1

nextFence(current) == current + 1

-----------------------------------------------------------------------------
(* Records.                                                                 *)

RunType ==
    [status: Statuses, owner: Owners \cup {NoOwner}, fence: Nat,
     lease: {"none", "live", "expired"}, cancel: BOOLEAN,
     checkpoint: Checkpoints \cup {NoCheckpoint}, started: BOOLEAN, retries: Nat,
     confirmed: BOOLEAN]                          \* cancelConfirmedAt is set

Phases == {"idle", "observed", "claimed", "ready", "started", "placement", "gate",
           "turn", "retry", "cleanup", "confirm"}

JobType ==
    [phase: Phases, run: Runs \cup {NoRun},
     seenStatus: Statuses, seenCheckpoint: Checkpoints \cup {NoCheckpoint},
     seenCancel: BOOLEAN, seenStarted: BOOLEAN,   \* the row as first read
     fence: Nat,                                  \* nextFence of the row first read
     resume: Checkpoints \cup {NoCheckpoint},     \* takeover note for the turn
     held: BOOLEAN,                               \* the user still has the screen
     leaseValid: BOOLEAN,
     screen: BOOLEAN,                             \* screenRelease is set
     attempt: {"none", "running", "cancelled"},   \* its attempts row, while open
     latest: BOOLEAN,         \* observer: its claim is the latest one of the run
     stopped: BOOLEAN]        \* observer: the run had to stop when it was claimed

\* The control columns of a computer: the bot on whose behalf the user holds the screen,
\* NoBot when no lease is in force, and controlRunId, the run the control is bound to.
ControlType == [bot: Bots \cup {NoBot}, run: Runs \cup {NoRun}]

NoControl == [bot |-> NoBot, run |-> NoRun]

AbsentRun ==
    [status |-> "absent", owner |-> NoOwner, fence |-> 0, lease |-> "none",
     cancel |-> FALSE, checkpoint |-> NoCheckpoint, started |-> FALSE, retries |-> 0,
     confirmed |-> FALSE]

IdleJob ==
    [phase |-> "idle", run |-> NoRun, seenStatus |-> "absent",
     seenCheckpoint |-> NoCheckpoint, seenCancel |-> FALSE, seenStarted |-> FALSE,
     fence |-> 0, resume |-> NoCheckpoint, held |-> FALSE, leaseValid |-> TRUE,
     screen |-> FALSE, attempt |-> "none", latest |-> FALSE,
     stopped |-> FALSE]

Init ==
    /\ run = [r \in Runs |-> AbsentRun]
    /\ job = [j \in Jobs |-> IdleJob]
    /\ queue = {}
    /\ control = [k \in Computers |-> NoControl]
    /\ released = {}
    /\ briefs = {}
    /\ draining = FALSE
    /\ replies = [r \in Runs |-> 0]

-----------------------------------------------------------------------------
(* What several handlers share.                                             *)

\* Mutant: a worker compares only the status.
HoldsByStatus(j) == job[j].run \in Runs /\ run[job[j].run].status = "running"

\* The compare-and-set every write of a worker carries.
Holds(j) ==
    LET r == job[j].run IN
    /\ r \in Runs
    /\ run[r].status = "running"
    /\ run[r].owner = OwnerOf[j]
    /\ run[r].fence = job[j].fence

\* Mutant: the status is written, the lease forgotten.
ReleaseKeepsLease(r, status) == [run[r] EXCEPT !.status = status]

\* A run that leaves the worker: the lease is given back with the status.
Release(r, status) ==
    [run[r] EXCEPT !.status = status, !.owner = NoOwner, !.lease = "none"]

\* What a job still knows while it unwinds, and when it is done.
Unwinding(j) ==
    [IdleJob EXCEPT !.phase = "cleanup", !.run = job[j].run, !.screen = job[j].screen]

ToCleanup(j) == job' = [job EXCEPT ![j] = Unwinding(j)]

End(j) == job' = [job EXCEPT ![j] = IdleJob]

\* Attempts still open on a run are closed with it, whoever owns them.
CancelAttempts(jobs, r) ==
    [j \in Jobs |->
        IF jobs[j].run = r /\ jobs[j].attempt = "running"
        THEN [jobs[j] EXCEPT !.attempt = "cancelled"] ELSE jobs[j]]

\* Mutant: delegated runs are not waited for.
CanConfirmAlone(r) == run[r].cancel /\ isActive(r)

\* confirmDispatchStop: a stop is confirmed once no delegated run is left active.
CanConfirm(r) ==
    /\ run[r].cancel
    /\ isActive(r)
    /\ \A c \in Runs \ {r} : Parent[c] = r => ~isActive(c)

confirmDispatchStop(r) ==
    run' = IF CanConfirm(r)
           THEN [run EXCEPT ![r] = [Release(r, "cancelled") EXCEPT !.confirmed = TRUE]]
           ELSE run

\* The jobs table after job j's confirmation of a stop of run r.
AfterConfirm(jobs, r) == IF CanConfirm(r) THEN CancelAttempts(jobs, r) ELSE jobs

-----------------------------------------------------------------------------
(* The owner, the API and time.                                             *)

\* An API call wakes the queue after it committed; the wake may be lost.
Wake(r) == queue' \in {queue, queue \cup {r}}

\* A message, routine, dispatch or delegation admits a run and wakes the queue.
Submit(r) ==
    /\ run[r].status = "absent"
    /\ Parent[r] # NoRun =>
          run[Parent[r]].status = "running" /\ ~run[Parent[r]].cancel
    /\ run' = [run EXCEPT ![r].status = "queued"]
    /\ Wake(r)
    /\ UNCHANGED <<job, control, released, briefs, draining, replies>>

\* A message to a busy bot steers its run; a run no worker holds is woken again.
Steer(r) ==
    /\ run[r].status \in {"queued", "waiting_takeover"}
    /\ r \notin queue
    /\ queue' = queue \cup {r}
    /\ UNCHANGED <<run, job, control, released, briefs, draining, replies>>

\* answerRunInput: the ask is answered and the run goes back to the queue.
AnswerRunInput(r) ==
    /\ run[r].status = "waiting_input"
    /\ ~run[r].cancel
    /\ run' = [run EXCEPT ![r].status = "queued"]
    /\ Wake(r)
    /\ UNCHANGED <<job, control, released, briefs, draining, replies>>

\* A run that may be given the screen: it waits for it, or the control is bound to it.
Asks(k, r) == run[r].status = "waiting_takeover" \/ control[k].run = r

\* computer.takeover: the user takes a bot's screen, unless the bot is at work, or asks
\* again while holding it; the lease is bound to a run that asks, if there is one.  Only
\* steps of the screen read this, so it may be taken to happen when it reads the runs.
GrantScreen(b, r) ==
    LET k == ComputerOf[b]
        atWork == {o \in Runs : BotOf[o] = b /\ isActive(o)}
    IN
    /\ b \in Attended
    /\ control[k].bot = NoBot \/ (control[k].bot = b /\ r # NoRun)
    /\ atWork = {} \/ \E o \in atWork : Asks(k, o)
    /\ r # NoRun => BotOf[r] = b /\ Asks(k, r)
    /\ control' = [control EXCEPT ![k] = [bot |-> b, run |-> r]]
    /\ UNCHANGED <<run, job, queue, released, briefs, draining, replies>>

\* The user of another bot takes the screen, or the computer stops, sleeps, boots anew or
\* is replaced under it: the control is gone, and the run it was bound to not resumed.
\* A lease that ran out, or was denied and not yet finalized, is one that this or the
\* release ends next: a pause that finds it clears it in the same way.
ResetControl(k) ==
    /\ control[k] # NoControl
    /\ control' = [control EXCEPT ![k] = NoControl]
    /\ UNCHANGED <<run, job, queue, released, briefs, draining, replies>>

\* finalizeComputerControlRelease: the screen comes back, with a checkpoint for the run it
\* is bound to.  It compares what the release read, so it applies to the row as it is.
ReleaseScreen(k, checkpoint) ==
    LET r == control[k].run IN
    /\ control[k].bot # NoBot
    /\ control' = [control EXCEPT ![k] = NoControl]
    /\ released' = released \cup {q \in Runs : q = r /\ isActive(q)}
    /\ \/ /\ r \in Runs
          /\ run[r].status = "waiting_takeover"
          /\ run' = [run EXCEPT ![r].status = "queued", ![r].checkpoint = checkpoint]
          /\ Wake(r)
       \/ /\ r \in Runs
          /\ run[r].status \in {"leased", "running"}
          /\ run' = [run EXCEPT ![r].checkpoint = checkpoint]
          /\ Wake(r)
       \/ /\ r \in Runs => run[r].status \notin {"waiting_takeover", "leased", "running"}
          /\ UNCHANGED <<run, queue>>
    /\ UNCHANGED <<job, briefs, draining, replies>>

\* requestDispatchStop marks the task's run and the runs delegated from it.
RequestStop(r) ==
    /\ isActive(r)
    /\ ~run[r].cancel
    /\ run' = [c \in Runs |->
                 IF (c = r \/ Parent[c] = r) /\ isActive(c)
                 THEN [run[c] EXCEPT !.cancel = TRUE] ELSE run[c]]
    /\ Wake(r)
    /\ UNCHANGED <<job, control, released, briefs, draining, replies>>

\* clearThread cancels every active run of the thread at once, workers or not.
ClearThread(t) ==
    /\ \E r \in Runs : ThreadOf[r] = t /\ isActive(r)
    /\ run' = [r \in Runs |->
                 IF ThreadOf[r] = t /\ isActive(r) THEN Release(r, "cancelled") ELSE run[r]]
    /\ job' = [j \in Jobs |->
                 IF /\ job[j].run \in Runs
                    /\ ThreadOf[job[j].run] = t /\ isActive(job[j].run)
                    /\ job[j].attempt = "running"
                 THEN [job[j] EXCEPT !.attempt = "cancelled"] ELSE job[j]]
    /\ UNCHANGED <<queue, control, released, briefs, draining, replies>>

\* stopThreadRuns, the owner's stop button: the status alone is written, the lease and
\* the attempts of the cancelled runs stay as they are.
StopThread(t) ==
    /\ \E r \in Runs : ThreadOf[r] = t /\ isActive(r)
    /\ run' = [r \in Runs |->
                 IF ThreadOf[r] = t /\ isActive(r)
                 THEN [run[r] EXCEPT !.status = "cancelled"] ELSE run[r]]
    /\ UNCHANGED <<job, queue, control, released, briefs, draining, replies>>

\* leaseExpiresAt passes.
ExpireLease(r) ==
    /\ run[r].lease = "live"
    /\ run' = [run EXCEPT ![r].lease = "expired"]
    /\ UNCHANGED <<job, queue, control, released, briefs, draining, replies>>

\* Mutants: a pass that skips abandoned leases, and one that skips stopped waits.
NeedsJobUnheld(r) ==
    \/ run[r].status = "queued"
    \/ run[r].status \in {"waiting_input", "waiting_takeover"} /\ run[r].cancel

NeedsJobRunnable(r) ==
    \/ run[r].status = "queued"
    \/ run[r].status \in {"leased", "running"} /\ run[r].lease = "expired"

\* The runs a reconciler pass looks for.
NeedsJob(r) ==
    \/ run[r].status = "queued"
    \/ run[r].status \in {"waiting_input", "waiting_takeover"} /\ run[r].cancel
    \/ run[r].status \in {"leased", "running"} /\ run[r].lease = "expired"

Reconcile(r) ==
    /\ NeedsJob(r)
    /\ r \notin queue
    /\ queue' = queue \cup {r}
    /\ UNCHANGED <<run, job, control, released, briefs, draining, replies>>

\* RestartDrain.begin closes admission for an update; .clear or its expiry opens it.
BeginDrain ==
    /\ ~draining
    /\ draining' = TRUE
    /\ UNCHANGED <<run, job, queue, control, released, briefs, replies>>

ClearDrain ==
    /\ draining
    /\ draining' = FALSE
    /\ UNCHANGED <<run, job, queue, control, released, briefs, replies>>

-----------------------------------------------------------------------------
(* continueRun, up to the claim.                                            *)

\* A job is dequeued and reads its run; a finished run ends it at once.
Observe(j, r) ==
    /\ job[j].phase = "idle"
    /\ r \in queue
    /\ run[r].fence < MaxFence
    /\ queue' = queue \ {r}
    /\ \/ isTerminal(r) /\ UNCHANGED job
       \/ /\ isActive(r)
          /\ job' = [job EXCEPT ![j] =
                [IdleJob EXCEPT !.phase = "observed", !.run = r,
                    !.seenStatus = run[r].status,
                    !.seenCheckpoint = run[r].checkpoint,
                    !.seenCancel = run[r].cancel,
                    !.seenStarted = run[r].started,
                    !.fence = nextFence(run[r].fence)]]
    /\ UNCHANGED <<run, control, released, briefs, draining, replies>>

\* A stop seen on a run no worker holds is confirmed instead of claiming it.
StopsBeforeClaim(j) ==
    job[j].seenCancel /\ job[j].seenStatus \in {"queued", "waiting_input"}

ConfirmBeforeClaim(j) ==
    LET r == job[j].run IN
    /\ job[j].phase = "observed"
    /\ StopsBeforeClaim(j)
    /\ confirmDispatchStop(r)
    /\ job' = [AfterConfirm(job, r) EXCEPT ![j] = IdleJob]
    /\ UNCHANGED <<queue, control, released, briefs, draining, replies>>

\* The remote work of an ask that was stopped may fail to stop: nothing is confirmed.
RemoteStopFails(j) ==
    /\ job[j].phase = "observed"
    /\ StopsBeforeClaim(j)
    /\ job[j].seenStatus = "waiting_input"
    /\ End(j)
    /\ UNCHANGED <<run, queue, control, released, briefs, draining, replies>>

\* Mutant: a run counts only once it is running.
LiveOthersRunning(r) == {o \in Runs \ {r} : run[o].status = "running" /\ run[o].lease = "live"}

\* The other runs whose lease has not run out, counted under the bot and thread locks.
LiveOthers(r) ==
    {o \in Runs \ {r} : run[o].status \in {"leased", "running"} /\ run[o].lease = "live"}

\* claimBotRun's count, for a run or (NoRun) for the refresh of a brief: the bot's runs and
\* refreshes, the thread's runs, and whatever this bot is at in this thread.
CapacityFull(r, b, t) ==
    LET own == {o \in LiveOthers(r) : BotOf[o] = b}
        refreshing == {o \in briefs : BotOf[o] = b}
    IN
    \/ Cardinality(own) + Cardinality(refreshing) >= BotLimit[b]
    \/ Cardinality({o \in LiveOthers(r) : ThreadOf[o] = t}) >= ThreadLimit[t]
    \/ \E o \in own \cup refreshing : ThreadOf[o] = t

\* continueRunClaimFence and the statuses a claim may take over.
ClaimMatches(j) ==
    LET r == job[j].run IN
    /\ run[r].status = job[j].seenStatus
    /\ run[r].checkpoint = job[j].seenCheckpoint
    /\ \/ run[r].status \in {"queued", "waiting_input", "waiting_takeover"}
       \/ run[r].status \in {"leased", "running"} /\ run[r].lease = "expired"

\* claimBotRun: wait for capacity, lose the race, or take the run.
Claim(j) ==
    LET r == job[j].run IN
    /\ job[j].phase = "observed"
    /\ ~StopsBeforeClaim(j)
    /\ \/ /\ CapacityFull(r, BotOf[r], ThreadOf[r])
          /\ queue' = queue \cup {r}
          /\ End(j)
          /\ UNCHANGED run
       \/ /\ ~CapacityFull(r, BotOf[r], ThreadOf[r])
          /\ draining \/ ~ClaimMatches(j)
          /\ End(j)
          /\ UNCHANGED <<run, queue>>
       \/ /\ ~CapacityFull(r, BotOf[r], ThreadOf[r])
          /\ ~draining
          /\ ClaimMatches(j)
          /\ run' = [run EXCEPT ![r] =
                [@ EXCEPT !.status = "leased", !.owner = OwnerOf[j], !.fence = job[j].fence,
                          !.lease = "live", !.checkpoint = NoCheckpoint]]
          /\ job' = [k \in Jobs |->
                IF k = j
                THEN [IdleJob EXCEPT !.phase = "claimed", !.run = r,
                        !.fence = job[j].fence, !.seenStarted = job[j].seenStarted,
                        !.resume = job[j].seenCheckpoint,
                        !.held = /\ job[j].seenStatus = "waiting_takeover"
                                 /\ job[j].seenCheckpoint = NoCheckpoint,
                        !.latest = TRUE, !.stopped = run[r].cancel]
                ELSE [job[k] EXCEPT !.latest = @ /\ job[k].run # r]]
          /\ UNCHANGED queue
    /\ UNCHANGED <<control, released, briefs, draining, replies>>

\* refreshRunBrief, of the capacity only: a brief is refreshed from a run that is over or
\* waits, under a lease that counts like a run; the lease ends with the refresh or in time.
RefreshBrief(r) ==
    /\ ThreadOf[r] \in Briefed
    /\ run[r].status \in TerminalStatuses \cup {"waiting_input", "waiting_takeover"}
    /\ ~CapacityFull(NoRun, BotOf[r], ThreadOf[r])
    /\ briefs' = briefs \cup {r}
    /\ UNCHANGED <<run, job, queue, control, released, draining, replies>>

EndBrief(r) ==
    /\ r \in briefs
    /\ briefs' = briefs \ {r}
    /\ UNCHANGED <<run, job, queue, control, released, draining, replies>>

-----------------------------------------------------------------------------
(* continueRun, from the claim to the turn.                                 *)

\* The row is read again; a run someone put back is an illegal transition, which
\* throws, and the job is retried.
ReadCurrent(j) ==
    LET r == job[j].run IN
    /\ job[j].phase = "claimed"
    /\ \/ /\ run[r].status \in {"queued", "waiting_input", "waiting_takeover"}
          /\ queue' = queue \cup {r}
          /\ End(j)
       \/ /\ run[r].status \notin {"queued", "waiting_input", "waiting_takeover"}
          /\ job' = [job EXCEPT ![j].phase = "ready", ![j].seenCancel = run[r].cancel]
          /\ UNCHANGED queue
    /\ UNCHANGED <<run, control, released, briefs, draining, replies>>

\* leased -> running, by the owner and fence of the claim.
MarkRunning(j) ==
    LET r == job[j].run IN
    /\ job[j].phase = "ready"
    /\ \/ /\ run[r].status = "leased"
          /\ run[r].owner = OwnerOf[j]
          /\ run[r].fence = job[j].fence
          /\ run' = [run EXCEPT ![r].status = "running", ![r].started = TRUE]
          /\ job' = [job EXCEPT ![j].phase = "started"]
       \/ /\ ~(/\ run[r].status = "leased"
               /\ run[r].owner = OwnerOf[j]
               /\ run[r].fence = job[j].fence)
          /\ End(j)
          /\ UNCHANGED run
    /\ UNCHANGED <<queue, control, released, briefs, draining, replies>>

\* Mutant: the plan read before the claim is written back over a release.
RequeuedFromPlan(j) ==
    [Release(job[j].run, IF job[j].held /\ job[j].resume = NoCheckpoint
                         THEN "waiting_takeover" ELSE "queued")
        EXCEPT !.checkpoint = job[j].resume]

\* writeComputerRunRequeue: a checkpoint stamped meanwhile is kept, otherwise the
\* plan's own is put back; a turn that was held waits for its takeover again.
RequeuedRun(j) ==
    LET r == job[j].run IN
    IF run[r].checkpoint # NoCheckpoint THEN Release(r, "queued")
    ELSE [Release(r, IF job[j].held /\ job[j].resume = NoCheckpoint
                     THEN "waiting_takeover" ELSE "queued")
            EXCEPT !.checkpoint = job[j].resume]

\* A first turn's computer could not be placed: the run's lease is extended and an
\* attempt opened for the failure that is recorded next; or placement hands it on.
PlacementFails(j) ==
    LET r == job[j].run IN
    /\ job[j].phase = "started"
    /\ ~job[j].seenStarted
    /\ \/ /\ Holds(j)
          /\ ~run[r].cancel
          /\ run' = [run EXCEPT ![r].lease = "live"]
          /\ job' = [job EXCEPT ![j].phase = "placement", ![j].attempt = "running"]
       \/ End(j) /\ UNCHANGED run
    /\ UNCHANGED <<queue, control, released, briefs, draining, replies>>

\* The computer is busy, or switching: give the run back and try again later.
ComputerBusy(j) ==
    LET r == job[j].run IN
    /\ job[j].phase = "started"
    /\ \/ /\ Holds(j)
          /\ run' = [run EXCEPT ![r] = RequeuedRun(j)]
          /\ queue' = queue \cup {r}
       \/ ~Holds(j) /\ UNCHANGED <<run, queue>>
    /\ End(j)
    /\ UNCHANGED <<control, released, briefs, draining, replies>>

\* The computer lease is taken and the attempt row created.
BeginAttempt(j) ==
    /\ job[j].phase = "started"
    /\ job' = [job EXCEPT ![j].phase = "gate", ![j].attempt = "running"]
    /\ UNCHANGED <<run, queue, control, released, briefs, draining, replies>>

\* Mutant: only a run that never started before honours the stop.
StopSeenIfUnstarted(j) == job[j].seenCancel /\ ~job[j].seenStarted

\* A stop seen in the row read after the claim ends the turn before it begins.
StopSeen(j) == job[j].seenCancel

StopAtGate(j) ==
    LET r == job[j].run IN
    /\ job[j].phase = "gate"
    /\ StopSeen(j)
    /\ \/ /\ ~job[j].seenStarted
          /\ confirmDispatchStop(r)
          /\ job' = [AfterConfirm(job, r) EXCEPT ![j] = Unwinding(j)]
       \/ /\ job[j].seenStarted
          /\ job' = [job EXCEPT ![j] = [Unwinding(j) EXCEPT !.screen = TRUE]]
          /\ UNCHANGED run
    /\ UNCHANGED <<queue, control, released, briefs, draining, replies>>

\* The computer is provisioned and the model is called; a takeover that was
\* released meanwhile gives the turn its tools back.
EnterTurn(j) ==
    LET r == job[j].run
        back == job[j].held /\ run[r].checkpoint # NoCheckpoint
    IN
    /\ job[j].phase = "gate"
    /\ ~StopSeen(j)
    /\ job' = [job EXCEPT ![j].phase = "turn", ![j].screen = TRUE,
                          ![j].held = @ /\ ~back,
                          ![j].resume = IF back THEN run[r].checkpoint ELSE @]
    /\ UNCHANGED <<run, queue, control, released, briefs, draining, replies>>

\* Setup threw: the run is put back and the job fails, so it is retried.
SetupFails(j) ==
    LET r == job[j].run IN
    /\ job[j].phase = "gate"
    /\ ~StopSeen(j)
    /\ \/ /\ Holds(j)
          /\ run' = [run EXCEPT ![r] = RequeuedRun(j)]
          /\ queue' = queue \cup {r}
       \/ ~Holds(j) /\ UNCHANGED <<run, queue>>
    /\ ToCleanup(j)
    /\ UNCHANGED <<control, released, briefs, draining, replies>>

-----------------------------------------------------------------------------
(* The turn.                                                                *)

\* The heartbeat extends the lease, expired or not.
RenewLease(j) ==
    /\ job[j].phase \in {"gate", "turn"}
    /\ Holds(j)
    /\ run' = [run EXCEPT ![job[j].run].lease = "live"]
    /\ UNCHANGED <<job, queue, control, released, briefs, draining, replies>>

\* Or it learns that the run or its computer is lost, or cannot reach the database.
LoseLease(j) ==
    /\ job[j].phase \in {"gate", "turn"}
    /\ job' = [job EXCEPT ![j].leaseValid = FALSE]
    /\ UNCHANGED <<run, queue, control, released, briefs, draining, replies>>

\* Mutant: a stop that landed during the turn is ignored.
CanFinalizeStopped(j) == Holds(j) /\ job[j].attempt = "running"

\* Mutant: a worker that lost the run finalizes it all the same.
CanFinalizeUnfenced(j) == job[j].run \in Runs /\ job[j].attempt = "running"

\* finalizeRun: one outcome, by the holder of the lease, never after a stop.
CanFinalize(j) ==
    /\ Holds(j)
    /\ ~run[job[j].run].cancel
    /\ job[j].attempt = "running"

FinalizeRun(j, outcome) ==
    LET r == job[j].run IN
    /\ \/ job[j].phase = "turn" /\ (outcome = "completed" => job[j].leaseValid)
       \/ job[j].phase = "gate" /\ ~StopSeen(j) /\ outcome = "failed"
       \/ job[j].phase = "placement" /\ outcome = "failed"
    /\ \/ /\ CanFinalize(j)
          /\ run' = [run EXCEPT ![r] = Release(r, outcome)]
          /\ replies' = [replies EXCEPT ![r] = IF outcome = "completed" THEN @ + 1 ELSE @]
       \/ ~CanFinalize(j) /\ UNCHANGED <<run, replies>>
    /\ ToCleanup(j)
    /\ UNCHANGED <<queue, control, released, briefs, draining>>

\* pauseRunForInput: an ask or an approval ends the turn.
PauseRunForInput(j) ==
    LET r == job[j].run IN
    /\ job[j].phase = "turn"
    /\ Holds(j)
    /\ job[j].attempt = "running"
    /\ run' = [run EXCEPT ![r] = Release(r, "waiting_input")]
    /\ ToCleanup(j)
    /\ UNCHANGED <<queue, control, released, briefs, draining, replies>>

\* The screen when run r asks for it: a lease its own bot's user holds is kept and bound to
\* r, another bot's is left alone, and anything else is cleared and bound to r.
ControlFor(r) ==
    LET c == control[ComputerOf[BotOf[r]]] IN
    IF c.bot = NoBot THEN [NoControl EXCEPT !.run = r]
    ELSE IF c.bot = BotOf[r] THEN [c EXCEPT !.run = r] ELSE c

\* pauseRunForTakeover: the user is asked onto the screen of the run's computer.
PauseRunForTakeover(j) ==
    LET r == job[j].run IN
    /\ job[j].phase = "turn"
    /\ Holds(j)
    /\ job[j].attempt = "running"
    /\ run' = [run EXCEPT ![r] = [Release(r, "waiting_takeover")
                                    EXCEPT !.checkpoint = NoCheckpoint]]
    /\ control' = [control EXCEPT ![ComputerOf[BotOf[r]]] = ControlFor(r)]
    /\ released' = released \ {r}
    /\ ToCleanup(j)
    /\ UNCHANGED <<queue, briefs, draining, replies>>

\* A provider refused the call before anything was shown: the run is given back,
\* then the attempt is recorded as a retry and the next job is timed.
ProviderRetry(j) ==
    LET r == job[j].run IN
    /\ job[j].phase = "turn"
    /\ run[r].retries < MaxRetries
    /\ Holds(j)
    /\ run' = [run EXCEPT ![r] = RequeuedRun(j)]
    /\ job' = [job EXCEPT ![j].phase = "retry"]
    /\ UNCHANGED <<queue, control, released, briefs, draining, replies>>

RecordRetry(j) ==
    LET r == job[j].run IN
    /\ job[j].phase = "retry"
    /\ run' = [run EXCEPT ![r].retries = @ + 1]
    /\ queue' = queue \cup {r}
    /\ ToCleanup(j)
    /\ UNCHANGED <<control, released, briefs, draining, replies>>

\* suspendTurn: a draining process saves the turn and gives the lease away.
SuspendTurn(j) ==
    LET r == job[j].run IN
    /\ job[j].phase = "turn"
    /\ draining
    /\ Holds(j)
    /\ ~run[r].cancel
    /\ run' = [run EXCEPT ![r].owner = NoOwner, ![r].lease = "expired"]
    /\ ToCleanup(j)
    /\ UNCHANGED <<queue, control, released, briefs, draining, replies>>

\* The turn ends without writing: stopped, or fenced out.
AbandonTurn(j) ==
    /\ job[j].phase = "turn"
    /\ run[job[j].run].cancel \/ ~job[j].leaseValid \/ ~Holds(j)
    /\ ToCleanup(j)
    /\ UNCHANGED <<run, queue, control, released, briefs, draining, replies>>

\* finally: a stopped run whose remote work was stopped is confirmed next.
Cleanup(j) ==
    /\ job[j].phase = "cleanup"
    /\ \/ /\ run[job[j].run].cancel /\ job[j].screen
          /\ job' = [job EXCEPT ![j].phase = "confirm"]
       \/ End(j)
    /\ UNCHANGED <<run, queue, control, released, briefs, draining, replies>>

ConfirmAfterUnwind(j) ==
    LET r == job[j].run IN
    /\ job[j].phase = "confirm"
    /\ confirmDispatchStop(r)
    /\ job' = [AfterConfirm(job, r) EXCEPT ![j] = IdleJob]
    /\ UNCHANGED <<queue, control, released, briefs, draining, replies>>

\* The process dies, or a step throws; the job is delivered again, or not (its last try).
Crash(j) ==
    /\ job[j].phase # "idle"
    /\ queue' \in {queue, queue \cup {job[j].run}}
    /\ End(j)
    /\ UNCHANGED <<run, control, released, briefs, draining, replies>>

-----------------------------------------------------------------------------
Owner ==
    \/ \E r \in Runs :
          \/ Submit(r) \/ Steer(r) \/ AnswerRunInput(r) \/ RequestStop(r)
    \/ \E t \in Threads : ClearThread(t) \/ StopThread(t)
    \/ \E b \in Bots, r \in Runs \cup {NoRun} : GrantScreen(b, r)
    \/ \E k \in Computers :
          \/ ResetControl(k)
          \/ \E c \in Checkpoints : ReleaseScreen(k, c)

System ==
    \/ BeginDrain \/ ClearDrain
    \/ \E r \in Runs : ExpireLease(r) \/ Reconcile(r) \/ RefreshBrief(r) \/ EndBrief(r)

Setup(j) ==
    \/ \E r \in Runs : Observe(j, r)
    \/ ConfirmBeforeClaim(j) \/ RemoteStopFails(j) \/ Claim(j) \/ ReadCurrent(j) \/ MarkRunning(j)
    \/ PlacementFails(j) \/ ComputerBusy(j) \/ BeginAttempt(j) \/ StopAtGate(j) \/ EnterTurn(j)
    \/ SetupFails(j)

\* What ends a turn, one way or another.
EndTurn(j) ==
    \/ \E outcome \in {"completed", "failed"} : FinalizeRun(j, outcome)
    \/ PauseRunForInput(j) \/ PauseRunForTakeover(j) \/ ProviderRetry(j)
    \/ SuspendTurn(j) \/ AbandonTurn(j)

Unwind(j) == RecordRetry(j) \/ Cleanup(j) \/ ConfirmAfterUnwind(j)

Next ==
    \/ Owner
    \/ System
    \/ \E j \in Jobs : Setup(j) \/ RenewLease(j) \/ LoseLease(j) \/ EndTurn(j) \/ Unwind(j) \/ Crash(j)

Spec == Init /\ [][Next]_vars

\* Time passes, the reconciler keeps ticking, a pending job is eventually
\* dequeued, and a worker does not die at the same step every time.
Fairness ==
    /\ \A r \in Runs :
          /\ WF_vars(ExpireLease(r))
          /\ WF_vars(Reconcile(r))
          /\ SF_vars(\E j \in Jobs : Observe(j, r))
    /\ \A j \in Jobs :
          /\ SF_vars(ConfirmBeforeClaim(j) \/ Claim(j))
          /\ SF_vars(ReadCurrent(j))
          /\ SF_vars(MarkRunning(j))
          /\ SF_vars(ComputerBusy(j) \/ BeginAttempt(j))
          /\ SF_vars(StopAtGate(j) \/ EnterTurn(j) \/ SetupFails(j))
          /\ SF_vars(EndTurn(j))
          /\ SF_vars(Unwind(j))

FairSpec == Spec /\ Fairness

-----------------------------------------------------------------------------
(* Properties.                                                              *)

\* Every variable holds a value of its type.
TypeOK ==
    /\ run \in [Runs -> RunType]
    /\ job \in [Jobs -> JobType]
    /\ queue \subseteq Runs
    /\ control \in [Computers -> ControlType]
    /\ released \subseteq Runs
    /\ briefs \subseteq Runs
    /\ draining \in BOOLEAN
    /\ replies \in [Runs -> Nat]

\* A worker whose writes the lease comparison lets through is the one that made
\* the run's latest claim: an old worker cannot write over a newer lease.
Writing(j) == job[j].phase \in {"started", "placement", "gate", "turn"}

HolderMadeLatestClaim ==
    \A j \in Jobs : Writing(j) /\ Holds(j) => job[j].latest

\* A run that was already asked to stop when it was claimed never reaches the
\* model: the stop is noticed between the claim and the turn.
StopHoldsAtClaim ==
    \A j \in Jobs : job[j].stopped => job[j].phase # "turn"

\* A held run's lease is set, so that an abandoned run is always found by the
\* reconciler once its lease runs out; a run that waits or is queued names no owner
\* and has no lease left.
LeaseMatchesStatus ==
    \A r \in Runs :
        /\ run[r].status \in {"leased", "running"} => run[r].lease # "none"
        /\ run[r].status \notin {"leased", "running"} \cup TerminalStatuses
              => run[r].owner = NoOwner /\ run[r].lease = "none"

\* A screen release is never lost: once the takeover a run is bound to was released, the
\* run does not wait for its user again until it asks again, however claims, requeues,
\* other leases of the screen and the release interleave.
ReleaseIsNotLost ==
    \A r \in Runs : run[r].status = "waiting_takeover" => r \notin released

\* The run table keeps the promise of RunPromise: whatever jobs, crashes and
\* late writes do, a run ends once, replies only on completion, and is never
\* completed or failed after it was asked to stop.
Promise == INSTANCE RunPromise WITH
    state <- [r \in Runs |-> IF isActive(r) THEN "open" ELSE run[r].status],
    stop <- [r \in Runs |-> run[r].cancel]

KeepsPromise == Promise!Spec

\* A run posts its final reply exactly when it completes: never twice, however often
\* it was claimed, and never for a run that failed, was stopped or was cleared.
OneReply == Promise!ReplyIffCompleted

\* Admission: a claim never makes a thread exceed its limit of live runs, or a bot its
\* limit of live runs and brief refreshes.
LiveRuns(S) ==
    {r \in S : run[r].status \in {"leased", "running"} /\ run[r].lease = "live"}

ClaimedNow(r) ==
    /\ run'[r].status = "leased"
    /\ run[r].status # "leased" \/ run'[r].lease # run[r].lease

AdmissionWithinLimits ==
    [][\A r \in Runs : ClaimedNow(r) /\ run'[r].lease = "live" =>
          /\ Cardinality(LiveRuns({o \in Runs : ThreadOf[o] = ThreadOf[r]})')
               <= ThreadLimit[ThreadOf[r]]
          /\ Cardinality(LiveRuns({o \in Runs : BotOf[o] = BotOf[r]})')
                  + Cardinality({o \in briefs : BotOf[o] = BotOf[r]}')
               <= BotLimit[BotOf[r]]]_vars

\* Once a stop is confirmed nothing of it is left running: every run delegated from
\* the stopped one has ended, and none is admitted afterwards.
ConfirmedTreeIsQuiet ==
    \A r, c \in Runs : run[r].confirmed /\ c # r /\ Parent[c] = r => ~isActive(c)

\* A stop is confirmed only after the work of the run's current worker unwound.
ConfirmedAfterUnwind ==
    [][\A r \in Runs : run'[r].confirmed /\ ~run[r].confirmed =>
          ~\E j \in Jobs : job[j].run = r /\ job[j].phase = "turn" /\ Holds(j)]_vars

\* A run that no one has to answer is not forgotten: it ends, or comes to wait for
\* the owner, unless admission stays closed (or claims exceed the bound MaxFence).
NotForgotten ==
    <>[]~draining =>
        \A r \in Runs :
            run[r].status \in {"queued", "leased", "running"} ~>
                \/ run[r].status \notin {"queued", "leased", "running"}
                \/ run[r].fence = MaxFence

\* A stop is eventually carried out, in whatever state it finds the run.
StopIsCarriedOut ==
    <>[]~draining =>
        \A r \in Runs : run[r].cancel ~> (isTerminal(r) \/ run[r].fence = MaxFence)
=============================================================================
