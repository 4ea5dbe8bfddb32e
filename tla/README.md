# Ardur Bot: verification of run execution and thread state

Ardur Bot runs bots for the members of a space. A message, a routine, a delegation or a
message of another bot becomes a row of the `runs` table; jobs in one or several processes
carry rows out on computers (sandboxes) that are booted, put to sleep and replaced meanwhile;
what a run says is posted to its thread. The database is the only thing the processes share,
and almost every write compares what was read earlier. This project models that machinery in
TLA+, checks small instances with TLC and proves the central results with TLAPS.

Paths below are relative to the repository (`src/`). `PROJECT.json` names the source lines of
every definition (`map`), the runs, the mutants that show each property can fail, the hazards
and the theorems.

## 1. Inventory

### Components the project is about

| component | state | operations | with whom |
|---|---|---|---|
| Run state machine, `packages/core/src/run-state.ts` | status of a run, `leaseFence` | `isActive`, `nextFence` (its table of allowed changes is consulted only when a claimed run is marked running; a put-back from running to queued is not in it) | read by everyone below |
| Run execution, `packages/adapters/src/executor.ts` (`continueRun`) | a job's copy of the row, its lease, its attempt | observe, claim, mark running, gate, turn, requeue, retry, suspend, clean up, confirm a stop | `runs`, `attempts`, the computer, the job queue |
| Outcomes and pauses, `packages/db/src/events.ts` | `runs`, `messages`, `steeringMessages`, events | `finalizeRun`, pause for input or takeover, answer, release of the screen, `clearThread`, `sendUserMessage` | called by jobs and by the API |
| Admission, `adapters/src/context/concurrency.ts` | counts live runs and brief refreshes per bot and thread, under both locks | `claimBotRun` | inside the claim of a job |
| Stops, `packages/db/src/dispatch.ts`, `thread-target.ts` | `cancelRequestedAt`, `cancelConfirmedAt` over a run and what it delegated | request, confirm | API, jobs |
| Job reconciler, `adapters/src/job-reconciler.ts` | none | finds runs that need a job and enqueues them | job queue |
| Restart drain, `adapters/src/restart-drain.ts` | `restartDrainId`, `restartDrainUntil` | close admission, suspend turns, wait, reopen | updater, jobs |
| Steering, `db/src/events.ts`, `adapters/src/steering-input.ts` | a row per message to a busy bot, with its run and claim | send, claim, release, follow-up | jobs, at the start and inside of a turn and when a run ends |
| Computer lifecycle, `adapters/src/computer-lifecycle.ts`, `computer-idle.ts` | the `computers` row (state, `providerRef`, `updatedAt`, `provisioningId`), sandboxes | provision, wait, activate, roll back, sleep, Reset | jobs, the owner, the sleep job, the provider |
| Thread events and feed, `db/src/events.ts`, `adapters/src/realtime.ts`, `core/src/thread-subscription.ts`, `web/src/lib/thread-events.ts` | `events` numbered per thread (`nextEventSeq`), a follower with its latch, a client with a cursor, a buffer and a snapshot | append, notify, follow, snapshot, subscribe, refresh | every writer of a thread, clients |
| Transcript and compaction, `db/src/messages.ts`, `adapters/src/history-compaction.ts` | `messages`, the place a running reply holds (`replySeq`), the thread's cursor, summary and generation | hold, fill and release a place, clear, compact, select a run's history | jobs, the compaction job |
| Memory briefs, `memory/src/briefs/maintenance.ts` | a bot's brief of a thread with its mark | mark pending, claim, rewrite, mark | maintenance job, transcript |
| Effects, approvals and replay, `adapters/src/approval-effect.ts`, `turn-progress.ts`, `runtime-recovery.ts` | `external_effects`, the receipts in the run's turn checkpoint, the open card | begin, record, gate, claim, dispatch, complete, replay, answer, cancel | jobs, the owner, connectors |
| Control of a computer's screen, `api/src/router.ts`, `adapters/src/computer-control.ts`, `db/src/events.ts` | the control columns of a computer: one lease of one bot's user, bound to at most one run | take over, revoke, release, expire, ask for a takeover | API, jobs |
| Team execution leases and screens | `computerExecutionLeases`, tokens | acquire, renew, hold, release, expire | jobs, API |
| Delegation, goals, chief loop, group asks, bot messages | budgets, plans, asks, messages between bots | admission of further runs, settlement | on top of runs |

The other parts (runtimes, prompt assembly, learning, connectors, evidence, board,
messaging channels, terminals, voice, auth, clients) are listed with their reasons in
`PROJECT.json` under `components`.

### What is hard here

* A job reads the run, works, and later claims it with an update that compares only the status
  and checkpoint it read; whatever else changed in between is stale. The lease owner is an id of
  the *process*, so several jobs share it.
* Leases run out while their holder is alive and may be renewed late.
* A stop may arrive anywhere, may be asked for while nobody works on the run, and must reach
  runs delegated from it.
* A commit and the job that should follow it are two steps; the second may never happen.
* Messages that arrive during a turn may be answered by that turn, by a follow-up or by a run
  that overlaps both.
* A computer is claimed by comparing its row; claims of dead processes are taken over by age;
  provider calls take minutes and cannot be part of a transaction.
* A client is brought up to date from three sources at once (a snapshot, the log, a buffer),
  while rows of the log are deleted, notifications are lost and connections drop.
* A running reply owns a number in the transcript long before it has a message there, and jobs
  that digest the transcript read the row, the places and the messages at different times.
* A worker may die between dispatching an action and recording it, and only what was saved
  before tells the next worker what to do with it.

What makes the parts correct: an old worker never writes over a newer lease, a run ends once and
replies once, a stop wins over a later completion and reaches the whole tree, admission respects
its limits, no run and no message is forgotten, no message is answered twice, one boot at a time,
no late operation takes down the sandbox a running computer is on, a client misses no event, a
summary skips no message and keeps none that was cleared, and a consequential action is performed
at most once and not at all if it is denied. Two of these the code keeps only with exceptions,
which the properties name: a sandbox that a Reset forgets (`NoStrayBox`) and an action whose claim
an answer is written over (`AtMostOnce`, `DeniedIsNotDone`).

## 2. Modules

| module | models | uses |
|---|---|---|
| `RunLifecycle` | runs, jobs, owner, reconciler, drain | instantiates `RunPromise` |
| `RunPromise` | abstract specification: what the owner of a run is promised | |
| `Steering` | messages to a busy bot | |
| `Computer` | a dedicated computer and its sandboxes | |
| `EventFeed` | the log of a thread, its follower and a client | |
| `Transcript` | messages, places and the thread row | |
| `Compaction` | the summary of a thread and a run's history | extends `Transcript` |
| `Briefs` | a bot's brief of a thread | extends `Transcript` |
| `Effects` | the actions of a run, approvals, replay | |
| `RunLifecycleProofs`, `RunRefinementProofs`, `SteeringProofs`, `ComputerProofs`, `EventFeedProofs`, `CompactionProofs`, `EffectsProofs` | theorems | extend the module they are about |
| `MCRunLifecycle`, `MCSteering`, `MCComputer`, `MCEventFeed`, `MCCompaction`, `MCBriefs`, `MCEffects` | constants and symmetry for TLC | |
| `MCEffectsRepeat` | `Effects` with an observer of repeated actions | extends `Effects` |

### RunLifecycle

`run[r]` is the row: status, lease owner and fence, whether the lease is unset, live or expired,
`cancelRequestedAt` (`cancel`) and `cancelConfirmedAt` (`confirmed`), the takeover checkpoint,
whether it ever started, and its provider retries. `job[j]` is what a `run.continue` job has
read and is doing. `queue` holds the runs with a pending job (one job key per run), `control[k]`
the control columns of a computer (the bot whose user holds the screen, `NoBot` if no lease is in
force, and `controlRunId`), `briefs` the runs from which a brief is being refreshed under a live
lease, `draining` the closed admission; `replies` and `released` are observers. Bots, threads,
computers and limits are constants, `Parent` is the delegation tree.

Each database call of a job is an action, so every other actor may run in between: `Observe`,
`ConfirmBeforeClaim`, `Claim` (with `claimBotRun` inside, as in the code, which locks the
thread), `ReadCurrent`, `MarkRunning`, `PlacementFails`, `ComputerBusy`, `BeginAttempt`,
`StopAtGate`, `EnterTurn`, `SetupFails`; during the turn `RenewLease` and `LoseLease`; its ends
`FinalizeRun`, `PauseRunForInput`, `PauseRunForTakeover`, `ProviderRetry`, `SuspendTurn`,
`AbandonTurn`; then `RecordRetry`, `Cleanup`, `ConfirmAfterUnwind`. `Crash` ends a job at any
point. The owner's side is `Submit`, `Steer`, `AnswerRunInput`, `RequestStop`, `StopThread`,
`ClearThread` and the screen; a wake after a commit may be lost (`Wake`). `ExpireLease` is time,
`Reconcile` the reconciler's scan, `RefreshBrief` and `EndBrief` the leases of brief refreshes that
admission counts.

The screen is one lease per computer, shared by the bots on it. `GrantScreen` is the takeover
handler: it binds the lease to a run of the bot that waits for it, if there is one. `ResetControl`
is every way the columns are cleared without resuming a run: the user of another bot takes the
screen, or the computer stops, sleeps or is replaced. `ReleaseScreen` gives it back with a
checkpoint for the run it is bound to. `PauseRunForTakeover` binds the control to its run, except
while the user of another bot holds it (`ControlFor`), and a binding may be overwritten by the next
run that asks. So a run may wait for a takeover that is bound to nobody, or to another run; the
takeover its own bot's user starts next binds it. What is claimed is that a release is not undone:
`released` has the runs whose takeover was released since they asked, and none of them waits for a
takeover again (`ReleaseIsNotLost`).

Left out: what a turn computes (its outcome is free), attempts other than the current one,
dispatch receipts and chief assignments in the confirmation of a stop. Other writers of run rows
have the effect of an action that is there: peer pauses and placement pauses that of
`PauseRunForInput`, `cancelRunsInTransaction` from goals, groups and child bots that of
`ClearThread`.

### RunPromise

An admitted run stays open until it completes, fails or is cancelled, once; it posts its reply
when it completes; asked to stop, it can only be cancelled. `RunLifecycle` implements it with
active statuses mapped to "open" (`Promise`, `KeepsPromise`).

### Steering

One bot in one thread. `row[m]` is the steering row of message `m` (waiting, its run, whether
claimed, whether adopted by a follow-up), `turn[r]` what the turn of a run took, was given and
deferred, `batch[r]` the last message a follow-up was made for; `answered` and `lastEnd` are
observers. Every action is one transaction under the thread lock, as in the code. The lease that
keeps a second worker out is the subject of `RunLifecycle`: here a run has one turn at a time.
A run that asks its owner or waits for a takeover is "waiting" until the answer (`Pause`,
`Answer`); it is active all the while, so its rows stay with it and no follow-up is made. Peer
runs (read-only) are constants; messages of a channel are those in `Channel`. How many messages fit the first prompt is chosen freely (`fitInitialSteering` keeps a prefix). Left out:
runs woken by peer messages, replays of commands, and text.

### Computer

`row` is the `computers` row with its stamp (`updatedAt`) as a counter and `old` for a stamp
past the execution-lease TTL; `prov` is the `provisioningId`. `box` is what the provider has.
`op[c]` is an operation with what it read. `run` tells whether the run of a runner is active and
its lease live. `lost` is an observer of the sandboxes nobody answers for any more, each with the
reason: the operation that made it "died"; the provider "refused" to remove it; a Reset found its
engine not configured, cleared the row and left it ("unreachable"); or a Reset cleared the row of
another sandbox than the one it had read and destroyed ("forgotten").
`Runners` and `Openers` go through `provisionComputer` (read, wait, claim, provider, activation,
rollback, record), `Sleepers` through `performIdleSleep`, `Resetters` through `replaceComputer`
for Reset, which ends in `provisionComputer` too. Time is `Age`: a claim grows old when its
operation is gone, while the boot of a run hangs at the provider (the lease of the run then has
to protect it), or while an operation in `Slow` hangs. Nothing in the code keeps an operation
without a run from outliving its claim, or a worker from missing its renewals, so `Slow` may be
any set of operations: for those not in it `OneBoot` and `WinnerSurvives` are claimed, while
`NoStrayBox` is claimed of all. A slow operation really may lose its claim and boot beside the
one that took it over. `NoStrayBox` says that the four reasons above are all the ways a sandbox
is left up. The fourth is a defect of the code, not bad luck: nobody died and nothing was refused,
but the claim of a replacement compares the state of a resting row and neither its sandbox nor its
stamp.
`Vanish` is a provider that reaps. `provision` itself is external: it revives the sandbox asked
for, makes another when that one is gone, or fails.

The model covers dedicated computers. Execution leases exist only for team computers, and
Recover and Update run under `maintenanceId`, which keeps every operation of this model out;
both are left for later, like the owner's Stop. Who controls the screen is part of `RunLifecycle`.

### EventFeed

`thread` is what a fresh snapshot shows (messages and live drafts), `events` the committed rows,
`next` the thread's `nextEventSeq`. `txn[w]` is an open transaction: taking a number locks the
thread row until the commit, so `Begin`, `Commit` and `Rollback` are separate steps. `Commit`
covers what a row does to the log: a redelivered command leaves a hole in the numbers, the end of
a run deletes its progress events, a clear deletes everything before it; a Stop deletes later
(`Sweep`). `fol` is `followThreadEvents` with its latch: `ReadBatch`, `Yield`, `BatchDone`, `Wake`,
and `CatchUp` for a late notification or a LISTEN connection that is up again. `client` is
`runThreadSubscription` with the snapshot it applies events to: `Get`, `Refresh`, `GetFails`,
`LoadHead`, `Subscribe`, `Receive`, `Drop`. Batches, connections and buffers are sets of events in
the order of their numbers.

Left out: the fields of a message beyond being shown, pages of older history, group member state,
the restart that keeps the transcript, and, while a subscription has no snapshot yet, refreshes
asked for by other parts of the shell.

### Transcript, Compaction and Briefs

`Transcript` has the message rows, the thread row (`cursor`, `gen`, `kind` and `covers` of the
summary, `next`), the runs that are running and the places they hold. Every action is one
transaction under the thread lock: `Post`, `Start`, `Hold`, `Fill`, `Leave` (with the database
trigger that releases the place), `Clear`. A digest is the set of messages it was made from. Old
threads with unmarked summaries are initial states.

`Compaction` adds compactors, one step per query of `compactHistory` (`ReadThread`, `Invalidate`,
`Bootstrap`, `ReadHolds`, `ReadKept`, `ReadBatch`, `Write`, `Abandon`), and a run that reads the
thread row and its window in either order and selects its history (`UsesSummary`). How many
messages fit the transcript budget is free. Left out: when a compaction is enqueued, and the
history of channels.

`Briefs` adds `refreshRunBrief`: `MarkPending`, `ResetRetries`, `ReadRun`, `ReadState`, `Claim`,
`ReadMessages`, `Rewrite`, `Fail`, `ReadHolds`, `Mark`. Left out: the limit on the messages read,
retry delays, the lease of the maintenance turn and edits of the document by the owner.

### Effects

One run. `run` has its status, lease, turn checkpoint (`saved`) and stop request, `effect[c]` the
status of a call's `external_effects` row, `worker[w]` the step of a worker with its receipts and
those recovered and not consumed (`left`), `card` the question the run waits on, `answer` the card
a decision's transaction has read. A call is its idempotency key. `Turn` has the worker's way in
and out (`ReadRun`, `ClaimRun`, `Requeue`, `StartTurn`, `SaveProgress`, `SaveSuspended`,
`SuspendTurn`, `Recover`, `Finish`, `Stop`), `Call` one tool call (`Replay`, `Check`, `Begin`,
`Record`, `Return`, `RequestApproval`, `ClaimEffect`, `Allow`, `CheckStop`, `Perform`, `Complete`,
`Unclear`),
`Owner` the answers and the cancellation. `Stop` may come between any two steps. Whether a card is
shown may differ between attempts and is free. The last thing before a dispatch is the read of the
stop request (`CheckStop`); no lease is compared, so a worker that stalled and lost its run meanwhile
still performs (`Perform`). The answer of the owner reads the row and later writes its decision
without comparing; `overtaken` observes the calls that a worker claimed in between. For those, and
only those, the two properties fail in the code: a worker that lost its lease after the gate claims
the row between `ReadAnswer` and `WriteAnswer`, the answer writes over the claim, and an approved
action is done by both workers, or a denied one is done by the stale worker. `MCEffectsRepeat` observes which calls are
performed again without a person having been asked.

Left out: secret requests, messages held for a peer, adoption of running shell commands, the
freeze of a goal, and identical calls repeated within an attempt.

## 3. What is checked

| run | instance | shows |
|---|---|---|
| `run_fence` | 1 run, 2 jobs in 2 processes, 2 claims, a takeover checkpoint, a screen the users of 2 bots take | types; an old worker cannot write over a newer lease; a stop before the claim keeps the model from being called; leases and statuses agree; a screen release is not lost; one reply; `RunPromise` is implemented |
| `run_pair` | a run and one delegated from it to another bot in a direct thread, 2 jobs of one process, briefs | no claim exceeds the limits of thread or bot, refreshes of briefs included; after a confirmed stop nothing of the tree is active |
| `run_live` | 1 run, 1 job, 3 claims, 1 retry, a takeover, fairness | no run is forgotten, every stop is carried out, in spite of lost wakes and crashes |
| `steering` | 3 runs and a peer run, 3 messages, 1 of them from a channel, fairness | a message is answered once; none waits alone; a follow-up settles a message; a waiting message is eventually settled, or up to the owner |
| `event_feed` | 1 message, the draft of 1 run, 2 transactions at a time, 3 events, batches of 2, 1 loss, fairness | a client that is behind has the events it needs ahead of its cursor; its follower sleeps through no notification; in the end it shows what the thread shows |
| `compaction` | 2 compactors, 1 run, 3 numbers, windows and batches of 1, 1 clear | no message is behind the cursor and outside the summary; nothing cleared comes back; a run's context has no gap |
| `effects` | 2 workers, a consequential and an ordinary call | a consequential action is performed at most once, and not if it is denied, but for one an answer was written over |
| `computer` | a run, an opening that may hang, a sleep, a Reset, 2 sandboxes, 4 stamps | one boot at a time among operations that are not slow; they take no running sandbox down; none is left behind but for the four reasons of `lost` |

Four further runs (`run_fence_reuse`, `run_stop_unwind`, `brief`, `effects_repeat`) end in a
violation, each of a statement of the repository about itself; they are the findings of section 6.

Bounds. Two jobs suffice for every race of a stale job with a current one; two claims let a run
be claimed, given back and claimed again, and the fence-reuse run adds the third job that needs.
`run_live` needs three claims, so that a claim can be lost to a crash and another to a retry and
the run still ends; its properties except a run that reached the bound `MaxFence`. `Attended`
bounds the bots whose users take the screen and `Briefed` the threads whose bots keep briefs: the
run about the screen has the first, the run about admission the second. One run and two bots are
enough for a foreign lease at every point of a run; that a second run overwrites the binding is
covered by the proof only. Two runs are the least that compete for a place, or form a tree. Three
messages with three ordinary runs let one run defer what the other takes over, and a follow-up of
a follow-up happen; three are all the runs three messages can cause, since every message starts a
run or waits for one and every follow-up settles a message, so the bound on runs keeps nobody
from ending. Three events with batches of two
make a batch full and another follow, and let an event be committed, deleted and followed by the
one that stands for it while the client is between its reads. Three numbers let one message be
kept, one folded and one held by a reply; one clear is enough for a compactor to have read the
thread before it. In `effects`, `MaxOthers = 0` lets one call at a time have a row or be in the
receipts of the other worker (calls do not touch each other's rows), and `MaxDone = 2` lets the second performance that would be the
violation happen; two workers make one stale and one current. Four stamps let a boot or a
suspension be found abandoned, taken over and finished while the slow operation comes back, and
another operation claim the row after that.

Symmetry is used in safety runs only, over jobs of one process, workers, compactors, and
sandboxes. Deadlock is checked in all runs of `RunLifecycle`. The other models stop when their
work is done or their bounds are used up (all messages sent and settled, the numbers given out,
the run ended, the stamps used), so their configurations turn the check off.

Fairness. In `RunLifecycle`: time passes and the reconciler ticks (weak fairness), a job that is
enqueued again and again is eventually dequeued, and a worker does not die, nor is it always
refused, at the same step every time (strong fairness for the steps of a job, since `Crash` and
the loss of a lease disable them). The reconciler's interval and graphile-worker's retries
justify the first two; the third is what any statement about progress under crashes needs.
Nothing is assumed about the owner: a paused run may wait for ever, which is why `NotForgotten`
ends in a state that needs the owner. Both properties are conditional on admission not staying
closed. `run_live` has no briefs: each refresh fills the place of its bot for a while, and refreshes
one after another could keep a stop of a waiting run from its claim for ever; the code repeats a
refresh only after new messages or a delay that grows, which the model does not have. In `Steering`:
a queued run starts, and a turn that keeps being put back is eventually carried to its model call
and on to its end or to a question, which is `NotForgotten` seen from there. Again nothing is
assumed of the owner: a waiting run has no fairness, and `EventuallySettled` ends when the message
is settled or when it is up to the owner, that is when the run that holds it waits, or when it is
free and a run that waits keeps a follow-up from being made. Nor is it assumed that a model stops
asking: the property is stated for behaviours in which runs ask finitely often, because two runs
that put question after question and are answered each time can pass a message between them for
ever. In `EventFeed`: a
transaction ends, the follower runs and its timer fires, and the client repeats a failed request
and a lost subscription, which its loops do. Nothing is assumed about notifications, nor about
refreshes once the client is ready, so `Converges` rests on the timer and the log alone.

Every property of a passing run has a mutant in `PROJECT.json`: a plausible slip in a mapped
definition under which TLC finds that property violated.

## 4. What is proved

All theorems hold for every value of the constants that satisfies the named assumptions, which
only say that the constants have their types and that the null values are no ordinary ones, with
the exceptions named at the end of this section.

* `TypeCorrect`: `TypeOK`, by the inductive `TypeInv`, which adds that a busy job names a run.
* `LeaseCorrect`: `LeaseMatchesStatus`. Its proof, and the next, rest on `NextRows`: every step
  changes a row in one of a few ways. The actions are gone through once, and each invariant is
  then an argument about rows.
* `ConfirmedStopsAreQuiet`: `ConfirmedTreeIsQuiet`, inductive together with "a confirmed run is
  cancelled".
* `StopsHold`: `StopHoldsAtClaim`, by `StopInv`: a job whose run had to stop when it was claimed
  has read that stop by the time it passes the gate. It uses `NextJobs`, which does for the jobs
  what `NextRows` does for the rows.
* `AdmissionHolds`: `AdmissionWithinLimits`, for any limits and finitely many runs. `NextRows`
  shows that a run comes to be leased, or its lease live again, only by a claim; a claim adds one
  run to the live others it counted (`LiveAfterClaim`) and starts no refresh, and one more element keeps a set within a
  limit it was below (`OneMore`).
* `NoOldWorkerWrites`: `HolderMadeLatestClaim` under `DistinctOwners` (no two jobs share a
  process). `HolderInv` relates the row's owner and fence to the one job that wrote them. The
  assumption is needed: without it the property is false, as `run_fence_reuse` shows.
* `ReleasesAreKept`: `ReleaseIsNotLost`, under the same assumption, for any bots sharing any
  computers. It is inductive together with `HeldInv`: while a held turn owns a run that has no
  checkpoint, the takeover of the run was not released since it was asked for. `NextScreens` says
  how a step may change a run's status and checkpoint together with `released`; what the control
  columns say does not matter to it, so leases may come, go and be bound as they do. The assumption is needed here too: with two jobs of one process and three claims, TLC
  finds a run claimed by a second job with the fence the first still has, whose claim took the
  checkpoint of the release; the first job then puts the run back to wait for a takeover that is
  over. It is the fence reuse of section 6 in another place.
* `Refines`: every step of `RunLifecycle` is a step of `RunPromise` or leaves its variables
  alone, so `Spec => KeepsPromise`; `OneReplyEach` then needs `RunPromise` only.
* `Steering`, for any number of runs, peers and messages: `NoMessageAnsweredTwice` (`AnsweredOnce`),
  `TypeCorrect`, `NoMessageWaitsAlone` (`NobodyWaitsAlone`) and the action property
  `EveryFollowUpSettles` (`FollowUpSettles`). The inductive `AnswerInv` says that the
  rows a turn was given are still claimed by its run (`TurnHolds`), and that only completed runs
  have answered and only messages sent (`PastOnly`); without them a message could be free while a
  turn that ends later still answers it. `More` adds what the others need: a waiting row is free or
  behind a run that can answer it, except where that run was stopped or is a failed follow-up that
  keeps its batch (`Held`); nothing is free once the last run ended with an outcome (`NoneFree`);
  and an active follow-up has one message of its batch that it never lets go, because whatever
  waits longer is kept by runs that are over (`First`, `FollowUps`): that message is the oldest it
  claims, so the first prompt includes it. That the newest of a set of messages exists, on which the type of
  `batch` rests, is proved from the well-foundedness of the naturals (`Least`, `Newest`).
* `Computer`, for any numbers of operations of each kind, any slow ones and any sandboxes:
  `TypeCorrect`, `ClaimsAreKept`, `OneBootAtATime` (`OneBoot`), `NothingLeftBehind` (`NoStrayBox`)
  and the action property `RunningIsLeftAlone` (`WinnerSurvives`). The row is a lock, and the
  argument is why an operation that is not slow keeps it: stamps are never reused (`Stamps`); an
  old claim is that of a run, of a slow operation or of nobody (`OldClaim`); the run of an operation
  that provisions is live, unless it is slow (`Kinds`); so whoever may take over a claim, with the stamp it compares,
  takes it from nobody (`Abandoned`), and the row says what the claim holder wrote (`Owns`).
  What an operation carries is a new sandbox, made because the row's was gone, or the row's
  (`Carries`), and the sandbox it read is still the row's, gone or lost (`Remembers`); with them
  `NoStrayBox`, with its four exceptions, is inductive for slow operations as well.
* `EventFeed`: `TypeCorrect`; `NeverSleepsThrough` (`NoMissedWake`), by `WakeInv`, which says what
  a follower that is not signalled has read while it still sends its batch; `ClientMissesNothing`
  (`NothingMissed`), for any number of messages, runs, transactions and any batch size. Its
  inductive invariant has a part per place where an event can be: `Locked` (one transaction is in
  the lock, and what it may append stays so), `Numbers` and `Cursors`, `LastWord` (the log still
  has the last event about an item, though others were deleted), `Chain` (what is between cursor
  and follower is on its way), `Buffered` (what is between head and cursor is in the buffer), and
  `Cut`: a view differs from the thread only by events after its cursor.
* `Compaction`: `TypeCorrect`, `CompactionLosesNothing` (`SummaryIsWhole`), `ClearForgets`
  (`SummaryForgets`) and `ContextIsWhole` (`ContextHasNoGap`), for any number of compactors and
  runs and any sizes. `Places` says that held places are between cursor and end and empty,
  `Summaries` what each kind of summary covers, `Knows` what a compactor knows as long as its
  generation is current (its bound excludes every place still to be filled below it), `Reads` what
  the two reads of a run have in common.
* `Effects`: `TypeCorrect`, `PerformedAtMostOnce` (`AtMostOnce`) and `DenialIsTrue`
  (`DeniedIsNotDone`), for any number of workers and calls, with no lease compared at the dispatch.
  All of it is about the calls no answer was written over (`Strict`). `Fresh` says that one that can
  still be claimed, or was denied, was not performed; `Entitled` that a worker about to dispatch
  holds the claim of the row and nobody has performed the call; `Sole` that there is one such worker
  for a call at most.

Assumptions on constants beyond their types: the runs are finitely many, a runner is no other
kind of operation (`KindsAssumption`), and `DistinctOwners` where a theorem names it.

Only model-checked: the liveness properties (`NotForgotten`, `StopIsCarriedOut`,
`EventuallySettled`, `Converges`), which are out of the prover's reach. Every invariant and every
action property of a passing run is a theorem. `Briefs` has none: the one property worth stating
of it is false.

## 5. Hazards

`PROJECT.json` lists the places where this code can go wrong in a way a test would hardly reach,
each with the properties that would catch it. Three of them the code does not avoid, and a property
states exactly how far it goes: the replacement's claim that compares neither sandbox nor stamp
("forgotten" in `NoStrayBox`), and the answer that does not compare the row together with the
dispatch by a process that stalled (`overtaken` in `AtMostOnce` and `DeniedIsNotDone`). Some have no
property, with the reason: the owner's Stop, the updater's poll, progress that arrives after a run
completed, the restart that keeps the transcript, and the counter that tells identical calls apart.

## 6. Findings

* `run_fence_reuse`: the claim compares status and checkpoint, not the fence it counted from, and
  the lease owner is the process. A run claimed, put back and claimed again between a job's read
  and its claim can get a fence that an earlier job of the same process already holds; the writes
  of that old job pass again. ADR-028 says an old worker cannot save over a newer lease.
* `run_stop_unwind`: `confirmDispatchStop` compares no lease, and a job that lost its lease still
  calls it when it unwinds, while the turn of the current holder is executing; its comment says it
  is called after the active work has unwound.
* `brief`: a refresh reads the messages first and the places still held after the model's rewrite.
  A reply saved in between is in neither, and the mark moves past it; a comment says the mark stays
  below an empty place by the bound compaction uses. Compaction reads the places first.
* `effects_repeat`: the receipts of an interrupted turn are used only if the turn was suspended or
  the run is found active. A recovered run that is put back because its computer is busy is
  queued, so the next claim ignores them and performs an action that needs no approval a second
  time. ADR-028 says that an intent without a result pauses for a person and is never repeated
  automatically. Consequential actions are not affected by this: their row was claimed
  (`AtMostOnce`).

## 7. Not modelled

* What a model, a prompt or a tool computes; runtimes, connectors, evidence, board, voice,
  terminals: I/O around outcomes that the models leave free.
* The API router and the clients beyond the subscription: they call the operations modelled here,
  and keep no shared state of their own that other parts compare.
* Team execution leases, tokens and proxies of screens, computer updates and maintenance, delegation
  budgets, goals, the chief loop, group asks, bot messages, messaging channels, server updates,
  fleet placement: state machines of their own, within reach of TLC, that the plan orders below.
* The job queue itself (graphile-worker), which is used as "a key has at most one pending job,
  and a job may be lost or repeated".

## 8. Plan

1. *(done)* `RunLifecycle` with `RunPromise`, their runs, the type, lease, stop and fence theorems
   and the refinement.
2. *(done)* `Steering` and its theorem.
3. *(done)* `Computer` for dedicated computers.
4. *(done)* `EventFeed`, `Transcript` with `Compaction` and `Briefs`, `Effects`, and their theorems.
5. `Computer`: the owner's Stop, the checkpoint before a compaction, maintenance; a liveness run
   (a wedged row is eventually usable) and a property of replacements.
6. `ExecutionLease`: leases of a team computer with their fence and tombstones, and screens;
   abstract specification: a fenced resource with one holder per bot. Provable.
7. `RestartDrain`: the updater's poll, its deadline and identity, composed with admission.
8. Delegation budgets; group asks; channel delivery.
9. *(done)* Theorems: the rest of `Steering`, all of `Computer`, `ReleaseIsNotLost` and
   `AdmissionWithinLimits`, so that only liveness is left to TLC.
10. Theorems that compose: what `RunPromise` gives to `Steering` (one turn of a run at a time) as an
   assumption discharged in `RunLifecycle`.
