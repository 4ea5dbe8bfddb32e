------------------------- MODULE RunLifecycleProofs -------------------------
(***************************************************************************)
(* Proofs about RunLifecycle, for every number of runs, jobs, processes,   *)
(* checkpoints, bots and threads.                                          *)
(***************************************************************************)
EXTENDS RunLifecycle, FiniteSetTheorems, TLAPS

USE OwnersAssumption, RunsAssumption, CheckpointsAssumption

\* A job that is not idle works on a run of the table.
BusyHasRun == \A j \in Jobs : job[j].phase # "idle" => job[j].run \in Runs

TypeInv == TypeOK /\ BusyHasRun

-----------------------------------------------------------------------------
(* What the helpers return.                                                 *)

LEMMA IdleJobType == IdleJob \in JobType /\ IdleJob.phase = "idle"
BY DEF IdleJob, JobType, Phases, Statuses

\* A run whose lease was given up is a run row.
LEMMA ReleaseType ==
    ASSUME TypeOK, NEW r \in Runs, NEW s \in Statuses
    PROVE  Release(r, s) \in RunType
<1>1. run[r] \in RunType
  BY DEF TypeOK
<1> QED BY <1>1 DEF Release, RunType

\* A job on its way out of a turn is well typed and still names its run.
LEMMA UnwindingType ==
    ASSUME TypeOK, NEW j \in Jobs, job[j].run \in Runs
    PROVE  /\ Unwinding(j) \in JobType
           /\ Unwinding(j).run = job[j].run
           /\ [Unwinding(j) EXCEPT !.screen = TRUE] \in JobType
           /\ [Unwinding(j) EXCEPT !.screen = TRUE].run = job[j].run
<1>1. job[j] \in JobType
  BY DEF TypeOK
<1>2. job[j].screen \in BOOLEAN
  BY <1>1 DEF JobType
<1> QED BY <1>2, IdleJobType DEF Unwinding, IdleJob, JobType, Phases

\* Cancelling the attempts of a run changes neither phase nor run of a job.
LEMMA CancelAttemptsType ==
    ASSUME NEW jobs \in [Jobs -> JobType], NEW r
    PROVE  /\ CancelAttempts(jobs, r) \in [Jobs -> JobType]
           /\ \A j \in Jobs : /\ CancelAttempts(jobs, r)[j].phase = jobs[j].phase
                              /\ CancelAttempts(jobs, r)[j].run = jobs[j].run
<1>1. ASSUME NEW j \in Jobs
      PROVE  /\ CancelAttempts(jobs, r)[j] \in JobType
             /\ CancelAttempts(jobs, r)[j].phase = jobs[j].phase
             /\ CancelAttempts(jobs, r)[j].run = jobs[j].run
  <2>1. jobs[j] \in JobType
    OBVIOUS
  <2> QED BY <2>1 DEF CancelAttempts, JobType
<1> QED BY <1>1 DEF CancelAttempts

\* A confirmed stop changes neither phase nor run of a job.
LEMMA AfterConfirmType ==
    ASSUME NEW jobs \in [Jobs -> JobType], NEW r
    PROVE  /\ AfterConfirm(jobs, r) \in [Jobs -> JobType]
           /\ \A j \in Jobs : /\ AfterConfirm(jobs, r)[j].phase = jobs[j].phase
                              /\ AfterConfirm(jobs, r)[j].run = jobs[j].run
BY CancelAttemptsType DEF AfterConfirm

\* confirmDispatchStop writes run rows.
LEMMA ConfirmType ==
    ASSUME TypeOK, NEW r \in Runs, confirmDispatchStop(r)
    PROVE  run' \in [Runs -> RunType]
<1>1. Release(r, "cancelled") \in RunType
  BY ReleaseType DEF Statuses, TerminalStatuses
<1>2. [Release(r, "cancelled") EXCEPT !.confirmed = TRUE] \in RunType
  BY <1>1 DEF RunType
<1> QED BY <1>2 DEF confirmDispatchStop, TypeOK

\* A run put back into the queue is a run row.
LEMMA RequeuedRunType ==
    ASSUME TypeOK, NEW j \in Jobs, job[j].run \in Runs
    PROVE  RequeuedRun(j) \in RunType
<1>1. job[j].resume \in Checkpoints \cup {NoCheckpoint}
  <2>1. job[j] \in JobType
    BY DEF TypeOK
  <2> QED BY <2>1 DEF JobType
<1>2. ASSUME NEW s \in {"queued", "waiting_takeover"}
      PROVE  Release(job[j].run, s) \in RunType
  BY ReleaseType DEF Statuses, ActiveStatuses
<1>3. ASSUME NEW s \in {"queued", "waiting_takeover"}
      PROVE  [Release(job[j].run, s) EXCEPT !.checkpoint = job[j].resume] \in RunType
  BY <1>1, <1>2 DEF RunType
<1> QED BY <1>2, <1>3 DEF RequeuedRun

-----------------------------------------------------------------------------
(* Types.                                                                   *)

\* The control columns of a computer nobody holds.
LEMMA NoControlType == NoControl \in ControlType
BY DEF NoControl, ControlType

\* The types hold at the start.
LEMMA InitTypeInv == Init => TypeInv
<1> SUFFICES ASSUME Init PROVE TypeInv
  OBVIOUS
<1>1. AbsentRun \in RunType
  BY DEF AbsentRun, RunType, Statuses
<1> QED BY <1>1, IdleJobType, NoControlType DEF Init, TypeInv, TypeOK, BusyHasRun

\* Asking for the screen keeps the type of the control columns.
LEMMA ControlForType ==
    ASSUME TypeOK, NEW r \in Runs
    PROVE  control' = [control EXCEPT ![ComputerOf[BotOf[r]]] = ControlFor(r)]
             => control' \in [Computers -> ControlType]
<1>1. control[ComputerOf[BotOf[r]]] \in ControlType
  BY PlacesAssumption, ComputersAssumption DEF TypeOK
<1>2. /\ [NoControl EXCEPT !.run = r] \in ControlType
      /\ [control[ComputerOf[BotOf[r]]] EXCEPT !.run = r] \in ControlType
  BY <1>1 DEF NoControl, ControlType
<1>3. ControlFor(r) \in ControlType
  BY <1>1, <1>2 DEF ControlFor
<1>4. control \in [Computers -> ControlType]
  BY DEF TypeOK
<1>5. ASSUME NEW new \in ControlType, NEW k
      PROVE  [control EXCEPT ![k] = new] \in [Computers -> ControlType]
  BY <1>4
<1> QED BY <1>3, <1>5

\* The owner's steps.
LEMMA OwnerTypeInv == TypeInv /\ Owner => TypeInv'
<1> SUFFICES ASSUME TypeInv, Owner PROVE TypeInv'
  OBVIOUS
<1> USE DEF TypeInv
<1>r. ASSUME NEW r \in Runs PROVE run[r] \in RunType
  BY DEF TypeOK
<1>j. ASSUME NEW j \in Jobs PROVE job[j] \in JobType
  BY DEF TypeOK
<1>q. {"queued", "cancelled"} \subseteq Statuses
  BY DEF Statuses, ActiveStatuses, TerminalStatuses
<1>1. ASSUME NEW r \in Runs, Submit(r) \/ AnswerRunInput(r) PROVE TypeInv'
  <2>1. [run[r] EXCEPT !.status = "queued"] \in RunType
    BY <1>r, <1>q DEF RunType
  <2> QED BY <1>1, <2>1 DEF Submit, AnswerRunInput, Wake, TypeOK, BusyHasRun
<1>2. ASSUME NEW r \in Runs, Steer(r) PROVE TypeInv'
  BY <1>2 DEF Steer, TypeOK, BusyHasRun
<1>3. ASSUME NEW r \in Runs, RequestStop(r) PROVE TypeInv'
  <2>1. ASSUME NEW c \in Runs PROVE [run[c] EXCEPT !.cancel = TRUE] \in RunType
    BY <1>r DEF RunType
  <2> QED BY <1>3, <2>1 DEF RequestStop, Wake, TypeOK, BusyHasRun
<1>4. ASSUME NEW k \in Computers, NEW c \in Checkpoints, ReleaseScreen(k, c) PROVE TypeInv'
  <2>1. ASSUME NEW r \in Runs
        PROVE  /\ [run[r] EXCEPT !.status = "queued", !.checkpoint = c] \in RunType
               /\ [run[r] EXCEPT !.checkpoint = c] \in RunType
    BY <1>r, <1>q DEF RunType
  <2> DEFINE q == control[k].run
  <2>2. run' \in [Runs -> RunType]
    <3>1. CASE q \in Runs /\ run' = [run EXCEPT ![q] = [run[q] EXCEPT !.status = "queued",
                                                                   !.checkpoint = c]]
      BY <3>1, <2>1 DEF TypeOK
    <3>2. CASE q \in Runs /\ run' = [run EXCEPT ![q] = [run[q] EXCEPT !.checkpoint = c]]
      BY <3>2, <2>1 DEF TypeOK
    <3>3. CASE run' = run
      BY <3>3 DEF TypeOK
    <3>4. run \in [Runs -> RunType]
      BY DEF TypeOK
    <3> QED BY <1>4, <3>1, <3>2, <3>3, <3>4 DEF ReleaseScreen
  <2>3. control' \in [Computers -> ControlType]
    BY <1>4, NoControlType DEF ReleaseScreen, TypeOK
  <2>4. queue' \subseteq Runs
    BY <1>4 DEF ReleaseScreen, Wake, TypeOK
  <2> QED BY <1>4, <2>2, <2>3, <2>4 DEF ReleaseScreen, TypeOK, BusyHasRun
<1>5. ASSUME NEW t \in Threads, ClearThread(t) PROVE TypeInv'
  <2>1. ASSUME NEW r \in Runs PROVE Release(r, "cancelled") \in RunType
    BY ReleaseType, <1>q
  <2>2. ASSUME NEW j \in Jobs
        PROVE  /\ [job[j] EXCEPT !.attempt = "cancelled"] \in JobType
               /\ [job[j] EXCEPT !.attempt = "cancelled"].phase = job[j].phase
               /\ [job[j] EXCEPT !.attempt = "cancelled"].run = job[j].run
    BY <1>j DEF JobType
  <2>3. run' \in [Runs -> RunType]
    BY <1>5, <2>1 DEF ClearThread, TypeOK
  <2>4. job' \in [Jobs -> JobType] /\ BusyHasRun'
    BY <1>5, <2>2 DEF ClearThread, TypeOK, BusyHasRun
  <2> QED BY <1>5, <2>3, <2>4 DEF ClearThread, TypeOK
<1>6. ASSUME NEW t \in Threads, StopThread(t) PROVE TypeInv'
  <2>1. ASSUME NEW r \in Runs PROVE [run[r] EXCEPT !.status = "cancelled"] \in RunType
    BY <1>r, <1>q DEF RunType
  <2> QED BY <1>6, <2>1 DEF StopThread, TypeOK, BusyHasRun
<1>7. ASSUME NEW b \in Bots, NEW r \in Runs \cup {NoRun}, GrantScreen(b, r) PROVE TypeInv'
  <2>1. ComputerOf[b] \in Computers /\ [bot |-> b, run |-> r] \in ControlType
    BY ComputersAssumption DEF ControlType
  <2> QED BY <1>7, <2>1 DEF GrantScreen, TypeOK, BusyHasRun
<1>8. ASSUME NEW k \in Computers, ResetControl(k) PROVE TypeInv'
  BY <1>8, NoControlType DEF ResetControl, TypeOK, BusyHasRun
<1> QED BY <1>1, <1>2, <1>3, <1>4, <1>5, <1>6, <1>7, <1>8 DEF Owner

\* Drain, time and reconciler keep the types.
LEMMA SystemTypeInv == TypeInv /\ System => TypeInv'
<1> SUFFICES ASSUME TypeInv, System PROVE TypeInv'
  OBVIOUS
<1> USE DEF TypeInv
<1>1. ASSUME BeginDrain \/ ClearDrain PROVE TypeInv'
  BY <1>1 DEF BeginDrain, ClearDrain, TypeOK, BusyHasRun
<1>2. ASSUME NEW r \in Runs, ExpireLease(r) PROVE TypeInv'
  <2>1. run[r] \in RunType
    BY DEF TypeOK
  <2>2. [run[r] EXCEPT !.lease = "expired"] \in RunType
    BY <2>1 DEF RunType
  <2> QED BY <1>2, <2>2 DEF ExpireLease, TypeOK, BusyHasRun
<1>3. ASSUME NEW r \in Runs, Reconcile(r) PROVE TypeInv'
  BY <1>3 DEF Reconcile, TypeOK, BusyHasRun
<1>4. ASSUME NEW r \in Runs, RefreshBrief(r) \/ EndBrief(r) PROVE TypeInv'
  BY <1>4 DEF RefreshBrief, EndBrief, TypeOK, BusyHasRun
<1> QED BY <1>1, <1>2, <1>3, <1>4 DEF System

\* A job that ends, unwinds or changes only its own fields keeps the types.
LEMMA EndType ==
    ASSUME TypeInv, NEW j \in Jobs, End(j)
    PROVE  job' \in [Jobs -> JobType] /\ BusyHasRun'
BY IdleJobType DEF TypeInv, TypeOK, BusyHasRun, End

\* A job that goes to its clean-up stays well typed.
LEMMA ToCleanupType ==
    ASSUME TypeInv, NEW j \in Jobs, job[j].run \in Runs, ToCleanup(j)
    PROVE  job' \in [Jobs -> JobType] /\ BusyHasRun'
BY UnwindingType DEF TypeInv, TypeOK, BusyHasRun, ToCleanup

\* What a job does before its turn keeps the types.
LEMMA SetupTypeInv ==
    ASSUME TypeInv, NEW j \in Jobs, Setup(j)
    PROVE  TypeInv'
<1> USE DEF TypeInv
<1> DEFINE r == job[j].run
<1>r. ASSUME NEW q \in Runs PROVE run[q] \in RunType
  BY DEF TypeOK
<1>j. job[j] \in JobType
  BY DEF TypeOK
<1>b. job[j].phase # "idle" => r \in Runs
  BY DEF BusyHasRun
<1>s. {"queued", "leased", "running", "cancelled"} \subseteq Statuses
  BY DEF Statuses, ActiveStatuses, TerminalStatuses
<1>1. ASSUME NEW q \in Runs, Observe(j, q) PROVE TypeInv'
  <2> DEFINE new == [IdleJob EXCEPT !.phase = "observed", !.run = q,
                        !.seenStatus = run[q].status,
                        !.seenCheckpoint = run[q].checkpoint,
                        !.seenCancel = run[q].cancel,
                        !.seenStarted = run[q].started,
                        !.fence = nextFence(run[q].fence)]
  <2>1. /\ run[q].status \in Statuses /\ run[q].cancel \in BOOLEAN
        /\ run[q].checkpoint \in Checkpoints \cup {NoCheckpoint}
        /\ run[q].started \in BOOLEAN /\ nextFence(run[q].fence) \in Nat
    BY <1>r DEF RunType, nextFence
  <2>2. new \in JobType /\ new.run = q
    BY <2>1, IdleJobType DEF IdleJob, JobType, Phases
  <2>3. job' = job \/ job' = [job EXCEPT ![j] = new]
    BY <1>1 DEF Observe
  <2> HIDE DEF new
  <2>4. job' \in [Jobs -> JobType] /\ BusyHasRun'
    BY <2>2, <2>3 DEF TypeOK, BusyHasRun
  <2> QED BY <1>1, <2>4 DEF Observe, TypeOK
<1>2. CASE ConfirmBeforeClaim(j)
  <2>1. r \in Runs
    BY <1>2, <1>b DEF ConfirmBeforeClaim
  <2>2. run' \in [Runs -> RunType]
    BY <1>2, <2>1, ConfirmType DEF ConfirmBeforeClaim
  <2>3. job' \in [Jobs -> JobType] /\ BusyHasRun'
    <3>1. job \in [Jobs -> JobType]
      BY DEF TypeOK
    <3> QED BY <1>2, <3>1, AfterConfirmType, IdleJobType DEF ConfirmBeforeClaim, BusyHasRun
  <2> QED BY <1>2, <2>2, <2>3 DEF ConfirmBeforeClaim, TypeOK
<1>3. CASE RemoteStopFails(j)
  BY <1>3, EndType DEF RemoteStopFails, TypeOK
<1>4. CASE Claim(j)
  <2>1. r \in Runs
    BY <1>4, <1>b DEF Claim
  <2>2. job[j].fence \in Nat /\ job[j].seenStarted \in BOOLEAN
        /\ job[j].seenCheckpoint \in Checkpoints \cup {NoCheckpoint}
    BY <1>j DEF JobType
  <2>3. run[r].cancel \in BOOLEAN
    BY <2>1, <1>r DEF RunType
  <2>4. [run[r] EXCEPT !.status = "leased", !.owner = OwnerOf[j], !.fence = job[j].fence,
                       !.lease = "live", !.checkpoint = NoCheckpoint] \in RunType
    <3>1. run[r] \in RunType /\ OwnerOf[j] \in Owners
      BY <2>1, <1>r
    <3> QED BY <3>1, <2>2, <1>s DEF RunType
  <2>5. run' \in [Runs -> RunType]
    BY <1>4, <2>1, <2>4 DEF Claim, TypeOK
  <2> DEFINE wasHeld == /\ job[j].seenStatus = "waiting_takeover"
                        /\ job[j].seenCheckpoint = NoCheckpoint
             new == [IdleJob EXCEPT !.phase = "claimed", !.run = r,
                        !.fence = job[j].fence, !.seenStarted = job[j].seenStarted,
                        !.resume = job[j].seenCheckpoint, !.held = wasHeld,
                        !.latest = TRUE, !.stopped = run[r].cancel]
  <2>6. new \in JobType /\ new.run = r
    <3>1. ASSUME NEW held \in BOOLEAN, NEW stopped \in BOOLEAN, NEW q \in Runs
          PROVE  LET x == [IdleJob EXCEPT !.phase = "claimed", !.run = q,
                             !.fence = job[j].fence, !.seenStarted = job[j].seenStarted,
                             !.resume = job[j].seenCheckpoint, !.held = held,
                             !.latest = TRUE, !.stopped = stopped]
                 IN  x \in JobType /\ x.run = q
      BY <2>2 DEF IdleJob, JobType, Phases, Statuses
    <3>2. wasHeld \in BOOLEAN
      OBVIOUS
    <3> HIDE DEF wasHeld
    <3> QED BY <3>1, <3>2, <2>1, <2>3
  <2>7. ASSUME NEW k \in Jobs
        PROVE  LET old == [job[k] EXCEPT !.latest = @ /\ job[k].run # r]
               IN  old \in JobType /\ old.phase = job[k].phase /\ old.run = job[k].run
    <3>1. job[k] \in JobType
      BY DEF TypeOK
    <3> QED BY <3>1 DEF JobType
  <2>8. job' \in [Jobs -> JobType] /\ BusyHasRun'
    <3>1. CASE End(j)
      BY <3>1, EndType
    <3>2. CASE ~End(j)
      <4> HIDE DEF new
      <4>1. job' = [k \in Jobs |-> IF k = j THEN new
                                  ELSE [job[k] EXCEPT !.latest = @ /\ job[k].run # r]]
        BY <1>4, <3>2 DEF Claim, new
      <4> QED BY <4>1, <2>1, <2>6, <2>7 DEF BusyHasRun
    <3> QED BY <3>1, <3>2
  <2>9. queue' \subseteq Runs
    BY <1>4, <2>1 DEF Claim, TypeOK
  <2> QED BY <1>4, <2>5, <2>8, <2>9 DEF Claim, TypeOK
<1>5. CASE ReadCurrent(j)
  <2>1. r \in Runs
    BY <1>5, <1>b DEF ReadCurrent
  <2>2. run[r].cancel \in BOOLEAN
    BY <2>1, <1>r DEF RunType
  <2> DEFINE new == [job[j] EXCEPT !.phase = "ready", !.seenCancel = run[r].cancel]
  <2>3. new \in JobType /\ new.run = r
    BY <2>2, <1>j DEF JobType, Phases
  <2>4. job' \in [Jobs -> JobType] /\ BusyHasRun'
    <3>1. CASE End(j)
      BY <3>1, EndType
    <3>2. CASE ~End(j)
      <4>1. job' = [job EXCEPT ![j] = new]
        BY <1>5, <3>2 DEF ReadCurrent
      <4> QED BY <4>1, <2>1, <2>3 DEF TypeOK, BusyHasRun
    <3> QED BY <3>1, <3>2
  <2>5. queue' \subseteq Runs
    BY <1>5, <2>1 DEF ReadCurrent, TypeOK
  <2> QED BY <1>5, <2>4, <2>5 DEF ReadCurrent, TypeOK
<1>6. CASE MarkRunning(j)
  <2>1. r \in Runs
    BY <1>6, <1>b DEF MarkRunning
  <2>2. [run[r] EXCEPT !.status = "running", !.started = TRUE] \in RunType
    BY <2>1, <1>r, <1>s DEF RunType
  <2>3. run' \in [Runs -> RunType]
    BY <1>6, <2>1, <2>2 DEF MarkRunning, TypeOK
  <2>4. [job[j] EXCEPT !.phase = "started"] \in JobType
        /\ [job[j] EXCEPT !.phase = "started"].run = r
    BY <1>j DEF JobType, Phases
  <2>5. job' \in [Jobs -> JobType] /\ BusyHasRun'
    <3>1. CASE End(j)
      BY <3>1, EndType
    <3>2. CASE ~End(j)
      <4>1. job' = [job EXCEPT ![j] = [job[j] EXCEPT !.phase = "started"]]
        BY <1>6, <3>2 DEF MarkRunning
      <4> QED BY <4>1, <2>1, <2>4 DEF TypeOK, BusyHasRun
    <3> QED BY <3>1, <3>2
  <2> QED BY <1>6, <2>3, <2>5 DEF MarkRunning, TypeOK
<1>7. CASE PlacementFails(j)
  <2>1. r \in Runs
    BY <1>7, <1>b DEF PlacementFails
  <2>2. [run[r] EXCEPT !.lease = "live"] \in RunType
    BY <2>1, <1>r DEF RunType
  <2>3. run' \in [Runs -> RunType]
    BY <1>7, <2>1, <2>2 DEF PlacementFails, TypeOK
  <2>4. [job[j] EXCEPT !.phase = "placement", !.attempt = "running"] \in JobType
        /\ [job[j] EXCEPT !.phase = "placement", !.attempt = "running"].run = r
    BY <1>j DEF JobType, Phases
  <2>5. job' \in [Jobs -> JobType] /\ BusyHasRun'
    <3>1. CASE End(j)
      BY <3>1, EndType
    <3>2. CASE ~End(j)
      <4>1. job' = [job EXCEPT ![j] = [job[j] EXCEPT !.phase = "placement",
                                                     !.attempt = "running"]]
        BY <1>7, <3>2 DEF PlacementFails
      <4> QED BY <4>1, <2>1, <2>4 DEF TypeOK, BusyHasRun
    <3> QED BY <3>1, <3>2
  <2> QED BY <1>7, <2>3, <2>5 DEF PlacementFails, TypeOK
<1>8. CASE ComputerBusy(j)
  <2>1. r \in Runs
    BY <1>8, <1>b DEF ComputerBusy
  <2>2. RequeuedRun(j) \in RunType
    BY <2>1, RequeuedRunType
  <2>3. run' \in [Runs -> RunType] /\ queue' \subseteq Runs
    BY <1>8, <2>1, <2>2 DEF ComputerBusy, TypeOK
  <2> QED BY <1>8, <2>3, EndType DEF ComputerBusy, TypeOK
<1>9. CASE BeginAttempt(j)
  <2>1. r \in Runs
    BY <1>9, <1>b DEF BeginAttempt
  <2>2. [job[j] EXCEPT !.phase = "gate", !.attempt = "running"] \in JobType
        /\ [job[j] EXCEPT !.phase = "gate", !.attempt = "running"].run = r
    BY <1>j DEF JobType, Phases
  <2> QED BY <1>9, <2>1, <2>2 DEF BeginAttempt, TypeOK, BusyHasRun
<1>10. CASE StopAtGate(j)
  <2>1. r \in Runs
    BY <1>10, <1>b DEF StopAtGate
  <2>2. run' \in [Runs -> RunType]
    <3>1. CASE confirmDispatchStop(r)
      BY <2>1, <3>1, ConfirmType
    <3>2. CASE run' = run
      BY <3>2 DEF TypeOK
    <3> QED BY <1>10, <3>1, <3>2 DEF StopAtGate
  <2>3. job' \in [Jobs -> JobType] /\ BusyHasRun'
    <3>1. job \in [Jobs -> JobType]
      BY DEF TypeOK
    <3>2. CASE job' = [AfterConfirm(job, r) EXCEPT ![j] = Unwinding(j)]
      <4>1. Unwinding(j) \in JobType /\ Unwinding(j).run = r
        BY <2>1, UnwindingType
      <4> QED BY <3>1, <3>2, <4>1, <2>1, AfterConfirmType DEF BusyHasRun
    <3>3. CASE job' = [job EXCEPT ![j] = [Unwinding(j) EXCEPT !.screen = TRUE]]
      BY <3>1, <3>3, <2>1, UnwindingType DEF BusyHasRun
    <3> QED BY <1>10, <3>2, <3>3 DEF StopAtGate
  <2> QED BY <1>10, <2>2, <2>3 DEF StopAtGate, TypeOK
<1>11. CASE EnterTurn(j)
  <2> DEFINE back == job[j].held /\ run[r].checkpoint # NoCheckpoint
             new == [job[j] EXCEPT !.phase = "turn", !.screen = TRUE,
                        !.held = @ /\ ~back,
                        !.resume = IF back THEN run[r].checkpoint ELSE @]
  <2>1. r \in Runs
    BY <1>11, <1>b DEF EnterTurn
  <2>2. run[r].checkpoint \in Checkpoints \cup {NoCheckpoint}
    BY <2>1, <1>r DEF RunType
  <2>3. new \in JobType /\ new.run = r
    <3>1. ASSUME NEW held \in BOOLEAN, NEW resume \in Checkpoints \cup {NoCheckpoint}
          PROVE  LET x == [job[j] EXCEPT !.phase = "turn", !.screen = TRUE,
                                         !.held = held, !.resume = resume]
                 IN  x \in JobType /\ x.run = r
      BY <1>j DEF JobType, Phases
    <3>2. (job[j].held /\ ~back) \in BOOLEAN
      OBVIOUS
    <3>3. (IF back THEN run[r].checkpoint ELSE job[j].resume)
             \in Checkpoints \cup {NoCheckpoint}
      <4>1. job[j].resume \in Checkpoints \cup {NoCheckpoint}
        BY <1>j DEF JobType
      <4> QED BY <4>1, <2>2
    <3> HIDE DEF back
    <3> QED BY <3>1, <3>2, <3>3
  <2>4. job' = [job EXCEPT ![j] = new]
    BY <1>11 DEF EnterTurn
  <2> HIDE DEF new
  <2>5. job' \in [Jobs -> JobType] /\ BusyHasRun'
    BY <2>1, <2>3, <2>4 DEF TypeOK, BusyHasRun
  <2> QED BY <1>11, <2>5 DEF EnterTurn, TypeOK
<1>12. CASE SetupFails(j)
  <2>1. r \in Runs
    BY <1>12, <1>b DEF SetupFails
  <2>2. RequeuedRun(j) \in RunType
    BY <2>1, RequeuedRunType
  <2>3. run' \in [Runs -> RunType] /\ queue' \subseteq Runs
    BY <1>12, <2>1, <2>2 DEF SetupFails, TypeOK
  <2> QED BY <1>12, <2>1, <2>3, ToCleanupType DEF SetupFails, TypeOK
<1> QED BY <1>1, <1>2, <1>3, <1>4, <1>5, <1>6, <1>7, <1>8, <1>9, <1>10, <1>11, <1>12
        DEF Setup

\* What a job does in and at the end of its turn keeps the types.
LEMMA TurnTypeInv ==
    ASSUME TypeInv, NEW j \in Jobs, RenewLease(j) \/ LoseLease(j) \/ EndTurn(j)
    PROVE  TypeInv'
<1> USE DEF TypeInv
<1> DEFINE r == job[j].run
<1>r. ASSUME NEW q \in Runs PROVE run[q] \in RunType
  BY DEF TypeOK
<1>j. job[j] \in JobType
  BY DEF TypeOK
<1>b. job[j].phase # "idle" => r \in Runs
  BY DEF BusyHasRun
<1>1. CASE RenewLease(j)
  <2>1. r \in Runs
    BY <1>1, <1>b DEF RenewLease
  <2>2. [run[r] EXCEPT !.lease = "live"] \in RunType
    BY <2>1, <1>r DEF RunType
  <2> QED BY <1>1, <2>1, <2>2 DEF RenewLease, TypeOK, BusyHasRun
<1>2. CASE LoseLease(j)
  <2>1. r \in Runs
    BY <1>2, <1>b DEF LoseLease
  <2>2. [job[j] EXCEPT !.leaseValid = FALSE] \in JobType
        /\ [job[j] EXCEPT !.leaseValid = FALSE].run = r
    BY <1>j DEF JobType
  <2> QED BY <1>2, <2>1, <2>2 DEF LoseLease, TypeOK, BusyHasRun
<1>3. ASSUME NEW outcome \in {"completed", "failed"}, FinalizeRun(j, outcome) PROVE TypeInv'
  <2>1. r \in Runs
    BY <1>3, <1>b DEF FinalizeRun
  <2>2. Release(r, outcome) \in RunType
    BY <2>1, ReleaseType DEF Statuses, TerminalStatuses
  <2>3. run' \in [Runs -> RunType]
    BY <1>3, <2>1, <2>2 DEF FinalizeRun, TypeOK
  <2>4. replies' \in [Runs -> Nat]
    BY <1>3, <2>1 DEF FinalizeRun, TypeOK
  <2> QED BY <1>3, <2>1, <2>3, <2>4, ToCleanupType DEF FinalizeRun, TypeOK
<1>4. CASE PauseRunForInput(j)
  <2>1. r \in Runs
    BY <1>4, <1>b DEF PauseRunForInput
  <2>2. Release(r, "waiting_input") \in RunType
    BY <2>1, ReleaseType DEF Statuses, ActiveStatuses
  <2> QED BY <1>4, <2>1, <2>2, ToCleanupType DEF PauseRunForInput, TypeOK
<1>5. CASE PauseRunForTakeover(j)
  <2>1. r \in Runs
    BY <1>5, <1>b DEF PauseRunForTakeover
  <2>2. Release(r, "waiting_takeover") \in RunType
    BY <2>1, ReleaseType DEF Statuses, ActiveStatuses
  <2>3. [Release(r, "waiting_takeover") EXCEPT !.checkpoint = NoCheckpoint] \in RunType
    BY <2>2 DEF RunType
  <2>4. control' \in [Computers -> ControlType]
    BY <1>5, <2>1, ControlForType DEF PauseRunForTakeover
  <2> QED BY <1>5, <2>1, <2>3, <2>4, ToCleanupType DEF PauseRunForTakeover, TypeOK
<1>6. CASE ProviderRetry(j)
  <2>1. r \in Runs
    BY <1>6, <1>b DEF ProviderRetry
  <2>2. RequeuedRun(j) \in RunType
    BY <2>1, RequeuedRunType
  <2>3. [job[j] EXCEPT !.phase = "retry"] \in JobType
        /\ [job[j] EXCEPT !.phase = "retry"].run = r
    BY <1>j DEF JobType, Phases
  <2> QED BY <1>6, <2>1, <2>2, <2>3 DEF ProviderRetry, TypeOK, BusyHasRun
<1>7. CASE SuspendTurn(j)
  <2>1. r \in Runs
    BY <1>7, <1>b DEF SuspendTurn
  <2>2. [run[r] EXCEPT !.owner = NoOwner, !.lease = "expired"] \in RunType
    BY <2>1, <1>r DEF RunType
  <2>3. run' = [run EXCEPT ![r] = [run[r] EXCEPT !.owner = NoOwner, !.lease = "expired"]]
    BY <1>7, <2>1 DEF SuspendTurn, TypeOK
  <2> QED BY <1>7, <2>1, <2>2, <2>3, ToCleanupType DEF SuspendTurn, TypeOK
<1>8. CASE AbandonTurn(j)
  BY <1>8, <1>b, ToCleanupType DEF AbandonTurn, TypeOK
<1> QED BY <1>1, <1>2, <1>3, <1>4, <1>5, <1>6, <1>7, <1>8 DEF EndTurn

\* The clean-up and the death of a job keep the types.
LEMMA UnwindTypeInv ==
    ASSUME TypeInv, NEW j \in Jobs, Unwind(j) \/ Crash(j)
    PROVE  TypeInv'
<1> USE DEF TypeInv
<1> DEFINE r == job[j].run
<1>j. job[j] \in JobType
  BY DEF TypeOK
<1>b. job[j].phase # "idle" => r \in Runs
  BY DEF BusyHasRun
<1>1. CASE RecordRetry(j)
  <2>1. r \in Runs
    BY <1>1, <1>b DEF RecordRetry
  <2>2. [run[r] EXCEPT !.retries = @ + 1] \in RunType
    <3>1. run[r] \in RunType
      BY <2>1 DEF TypeOK
    <3> QED BY <3>1 DEF RunType
  <2> QED BY <1>1, <2>1, <2>2, ToCleanupType DEF RecordRetry, TypeOK
<1>2. CASE Cleanup(j)
  <2>1. r \in Runs
    BY <1>2, <1>b DEF Cleanup
  <2>2. [job[j] EXCEPT !.phase = "confirm"] \in JobType
        /\ [job[j] EXCEPT !.phase = "confirm"].run = r
    BY <1>j DEF JobType, Phases
  <2>3. job' \in [Jobs -> JobType] /\ BusyHasRun'
    <3>1. CASE End(j)
      BY <3>1, EndType
    <3>2. CASE ~End(j)
      <4>1. job' = [job EXCEPT ![j] = [job[j] EXCEPT !.phase = "confirm"]]
        BY <1>2, <3>2 DEF Cleanup
      <4> QED BY <4>1, <2>1, <2>2 DEF TypeOK, BusyHasRun
    <3> QED BY <3>1, <3>2
  <2> QED BY <1>2, <2>3 DEF Cleanup, TypeOK
<1>3. CASE ConfirmAfterUnwind(j)
  <2>1. r \in Runs
    BY <1>3, <1>b DEF ConfirmAfterUnwind
  <2>2. run' \in [Runs -> RunType]
    BY <1>3, <2>1, ConfirmType DEF ConfirmAfterUnwind
  <2>3. job \in [Jobs -> JobType]
    BY DEF TypeOK
  <2>4. job' \in [Jobs -> JobType] /\ BusyHasRun'
    BY <1>3, <2>3, AfterConfirmType, IdleJobType DEF ConfirmAfterUnwind, BusyHasRun
  <2> QED BY <1>3, <2>2, <2>4 DEF ConfirmAfterUnwind, TypeOK
<1>4. CASE Crash(j)
  <2>1. queue' \subseteq Runs
    BY <1>4, <1>b DEF Crash, TypeOK
  <2> QED BY <1>4, <2>1, EndType DEF Crash, TypeOK
<1> QED BY <1>1, <1>2, <1>3, <1>4 DEF Unwind

\* Every step keeps the types.
LEMMA NextTypeInv == TypeInv /\ [Next]_vars => TypeInv'
<1> SUFFICES ASSUME TypeInv, [Next]_vars PROVE TypeInv'
  OBVIOUS
<1>1. CASE Next
  BY <1>1, OwnerTypeInv, SystemTypeInv, SetupTypeInv, TurnTypeInv, UnwindTypeInv DEF Next
<1>2. CASE UNCHANGED vars
  BY <1>2 DEF vars, TypeInv, TypeOK, BusyHasRun
<1> QED BY <1>1, <1>2

\* The types always hold, and a busy job always names a run.
LEMMA AlwaysTypeInv == Spec => []TypeInv
BY InitTypeInv, NextTypeInv, PTL DEF Spec

\* Every step of every actor keeps the run table, the jobs and the queue well formed,
\* and a job at work always has a run (continueRun never touches a row it did not read).
THEOREM TypeCorrect == Spec => []TypeOK
BY AlwaysTypeInv, PTL DEF TypeInv

-----------------------------------------------------------------------------
(* What one step may do to a row of the runs table.                         *)

Freed(r) == run'[r].owner = NoOwner /\ run'[r].lease = "none"

SameLease(r) == run'[r].owner = run[r].owner /\ run'[r].lease = run[r].lease

Resting == {"queued", "waiting_input", "waiting_takeover"}

\* Job j's claim succeeds.
Takes(j) == Claim(j) /\ job'[j].phase = "claimed"

\* How status, owner and lease may change together.
LeaseStep(r) ==
    \/ SameLease(r) /\ run'[r].status = run[r].status
    \/ /\ SameLease(r) /\ run[r].status = "absent" /\ run'[r].status = "queued"
       /\ Parent[r] # NoRun => run[Parent[r]].status = "running"
       /\ \A o \in Runs \ {r} : run'[o] = run[o]
    \/ SameLease(r) /\ run[r].status \in Resting /\ run'[r].status = "queued"
    \/ SameLease(r) /\ run[r].status = "leased" /\ run'[r].status = "running"
    \/ SameLease(r) /\ isActive(r) /\ run'[r].status = "cancelled"
    \/ Freed(r) /\ isActive(r) /\ run'[r].status \in Resting \cup TerminalStatuses
    \/ /\ isActive(r) /\ run'[r].status = "leased" /\ run'[r].lease = "live"
       /\ \E j \in Jobs : Takes(j) /\ job[j].run = r
    \/ /\ run'[r].status = run[r].status /\ run'[r].owner = run[r].owner
       /\ run[r].lease = "live" /\ run'[r].lease = "expired"
    \/ /\ run'[r].status = run[r].status /\ run[r].status = "running"
       /\ run'[r].owner \in {run[r].owner, NoOwner} /\ run'[r].lease \in {"live", "expired"}

\* A stop is never taken back, and confirmed only where confirmDispatchStop may.
StopStep(r) ==
    /\ run[r].cancel => run'[r].cancel
    /\ run[r].confirmed => run'[r].confirmed
    /\ run'[r].confirmed => run[r].confirmed \/ (CanConfirm(r) /\ run'[r].status = "cancelled")

RowStep(r) == LeaseStep(r) /\ StopStep(r)

\* A row that is left alone takes an allowed step.
LEMMA SameRow ==
    ASSUME NEW r \in Runs, run'[r] = run[r]
    PROVE  RowStep(r)
BY DEF RowStep, LeaseStep, StopStep, SameLease

\* The fields of a run whose lease was given up.
LEMMA ReleaseFields ==
    ASSUME TypeOK, NEW r \in Runs, NEW s
    PROVE  /\ Release(r, s).status = s
           /\ Release(r, s).owner = NoOwner
           /\ Release(r, s).lease = "none"
           /\ Release(r, s).cancel = run[r].cancel
           /\ Release(r, s).confirmed = run[r].confirmed
<1>1. run[r] \in RunType
  BY DEF TypeOK
<1> QED BY <1>1 DEF Release, RunType

\* Giving up the lease of an active run is an allowed step of its row.
LEMMA ReleasedRow ==
    ASSUME TypeOK, NEW r \in Runs, isActive(r), NEW s \in Resting \cup TerminalStatuses,
           \/ run'[r] = Release(r, s)
           \/ \E c : run'[r] = [Release(r, s) EXCEPT !.checkpoint = c]
           \/ /\ CanConfirm(r) /\ s = "cancelled"
              /\ run'[r] = [Release(r, s) EXCEPT !.confirmed = TRUE]
    PROVE  RowStep(r)
<1>1. CASE run'[r] = Release(r, s)
  BY <1>1, ReleaseFields DEF RowStep, LeaseStep, StopStep, Freed
<1>2. ASSUME NEW c, run'[r] = [Release(r, s) EXCEPT !.checkpoint = c] PROVE RowStep(r)
  <2>1. /\ run'[r].status = s /\ run'[r].owner = NoOwner /\ run'[r].lease = "none"
        /\ run'[r].cancel = run[r].cancel /\ run'[r].confirmed = run[r].confirmed
    <3>1. run[r] \in RunType
      BY DEF TypeOK
    <3> QED BY <1>2, <3>1 DEF Release, RunType
  <2> QED BY <2>1 DEF RowStep, LeaseStep, StopStep, Freed
<1>3. ASSUME CanConfirm(r), s = "cancelled",
             run'[r] = [Release(r, s) EXCEPT !.confirmed = TRUE]
      PROVE  RowStep(r)
  <2>1. /\ run'[r].status = s /\ run'[r].owner = NoOwner /\ run'[r].lease = "none"
        /\ run'[r].cancel = run[r].cancel /\ run'[r].confirmed = TRUE
    <3>1. run[r] \in RunType
      BY DEF TypeOK
    <3> QED BY <1>3, <3>1 DEF Release, RunType
  <2> QED BY <1>3, <2>1 DEF RowStep, LeaseStep, StopStep, Freed
<1> QED BY <1>1, <1>2, <1>3

\* The confirmation of a stop takes every row an allowed step.
LEMMA ConfirmRow ==
    ASSUME TypeOK, NEW q \in Runs, confirmDispatchStop(q), NEW r \in Runs
    PROVE  RowStep(r)
<1>1. CASE CanConfirm(q) /\ r = q
  <2>1. isActive(r) /\ run'[r] = [Release(r, "cancelled") EXCEPT !.confirmed = TRUE]
    BY <1>1 DEF confirmDispatchStop, CanConfirm, TypeOK
  <2>2. "cancelled" \in Resting \cup TerminalStatuses
    BY DEF TerminalStatuses
  <2> QED BY <1>1, <2>1, <2>2, ReleasedRow
<1>2. CASE ~(CanConfirm(q) /\ r = q)
  BY <1>2, SameRow DEF confirmDispatchStop, TypeOK
<1> QED BY <1>1, <1>2

\* Putting a run back takes every row an allowed step.
LEMMA RequeuedRow ==
    ASSUME TypeOK, NEW j \in Jobs, Holds(j),
           run' = [run EXCEPT ![job[j].run] = RequeuedRun(j)], NEW r \in Runs
    PROVE  RowStep(r)
<1>1. CASE r = job[j].run
  <2>1. isActive(r)
    BY <1>1 DEF Holds, isActive, ActiveStatuses
  <2>2. run'[r] = RequeuedRun(j)
    BY <1>1 DEF TypeOK
  <2>3. {"queued", "waiting_takeover"} \subseteq Resting \cup TerminalStatuses
    BY DEF Resting
  <2> QED BY <1>1, <2>1, <2>2, <2>3, ReleasedRow DEF RequeuedRun
<1>2. CASE r # job[j].run
  BY <1>2, SameRow DEF TypeOK
<1> QED BY <1>1, <1>2

\* What the owner does takes every row an allowed step.
LEMMA OwnerRows ==
    ASSUME TypeInv, Owner, NEW r \in Runs
    PROVE  RowStep(r)
<1> USE DEF TypeInv
<1>r. run[r] \in RunType
  BY DEF TypeOK
<1>1. ASSUME NEW q \in Runs, Submit(q) PROVE RowStep(r)
  <2>1. CASE r = q
    <3>1. run'[r] = [run[r] EXCEPT !.status = "queued"]
      BY <1>1, <2>1 DEF Submit, TypeOK
    <3>2. /\ run'[r].status = "queued" /\ SameLease(r)
          /\ run'[r].cancel = run[r].cancel /\ run'[r].confirmed = run[r].confirmed
      BY <1>r, <3>1 DEF RunType, SameLease
    <3>3. \A o \in Runs \ {r} : run'[o] = run[o]
      BY <1>1, <2>1 DEF Submit, TypeOK
    <3> QED BY <1>1, <2>1, <3>2, <3>3 DEF Submit, RowStep, LeaseStep, StopStep
  <2>2. CASE r # q
    BY <1>1, <2>2, SameRow DEF Submit, TypeOK
  <2> QED BY <2>1, <2>2
<1>2. ASSUME NEW q \in Runs, AnswerRunInput(q) PROVE RowStep(r)
  <2>1. CASE r = q
    <3>1. run'[r] = [run[r] EXCEPT !.status = "queued"]
      BY <1>2, <2>1 DEF AnswerRunInput, TypeOK
    <3>2. /\ run'[r].status = "queued" /\ SameLease(r)
          /\ run'[r].cancel = run[r].cancel /\ run'[r].confirmed = run[r].confirmed
      BY <1>r, <3>1 DEF RunType, SameLease
    <3> QED BY <1>2, <2>1, <3>2
            DEF AnswerRunInput, RowStep, LeaseStep, StopStep, Resting
  <2>2. CASE r # q
    BY <1>2, <2>2, SameRow DEF AnswerRunInput, TypeOK
  <2> QED BY <2>1, <2>2
<1>3. ASSUME NEW q \in Runs, Steer(q) PROVE RowStep(r)
  BY <1>3, SameRow DEF Steer
<1>4. ASSUME NEW q \in Runs, RequestStop(q) PROVE RowStep(r)
  <2>1. run'[r] = [run[r] EXCEPT !.cancel = TRUE] \/ run'[r] = run[r]
    BY <1>4 DEF RequestStop
  <2>2. CASE run'[r] = [run[r] EXCEPT !.cancel = TRUE]
    <3>1. /\ run'[r].status = run[r].status /\ SameLease(r)
          /\ run'[r].cancel = TRUE /\ run'[r].confirmed = run[r].confirmed
      BY <1>r, <2>2 DEF RunType, SameLease
    <3> QED BY <3>1 DEF RowStep, LeaseStep, StopStep
  <2> QED BY <2>1, <2>2, SameRow
<1>5. ASSUME NEW k \in Computers, NEW c \in Checkpoints, ReleaseScreen(k, c)
      PROVE  RowStep(r)
  <2> DEFINE q == control[k].run
  <2>1. CASE r = q /\ run[q].status = "waiting_takeover"
    <3>1. run'[r] = [run[r] EXCEPT !.status = "queued", !.checkpoint = c]
      BY <1>5, <2>1 DEF ReleaseScreen, TypeOK
    <3>2. /\ run'[r].status = "queued" /\ SameLease(r)
          /\ run'[r].cancel = run[r].cancel /\ run'[r].confirmed = run[r].confirmed
      BY <1>r, <3>1 DEF RunType, SameLease
    <3> QED BY <2>1, <3>2 DEF RowStep, LeaseStep, StopStep, Resting
  <2>2. CASE r = q /\ run[q].status \in {"leased", "running"}
    <3>1. run'[r] = [run[r] EXCEPT !.checkpoint = c]
      BY <1>5, <2>2 DEF ReleaseScreen, TypeOK
    <3>2. /\ run'[r].status = run[r].status /\ SameLease(r)
          /\ run'[r].cancel = run[r].cancel /\ run'[r].confirmed = run[r].confirmed
      BY <1>r, <3>1 DEF RunType, SameLease
    <3> QED BY <3>2 DEF RowStep, LeaseStep, StopStep
  <2>3. CASE r # q \/ run[q].status \notin {"waiting_takeover", "leased", "running"}
    BY <1>5, <2>3, SameRow DEF ReleaseScreen, TypeOK
  <2> QED BY <2>1, <2>2, <2>3
<1>6. ASSUME NEW t \in Threads, ClearThread(t) PROVE RowStep(r)
  <2>1. CASE ThreadOf[r] = t /\ isActive(r)
    <3>1. run'[r] = Release(r, "cancelled")
      BY <1>6, <2>1 DEF ClearThread
    <3>2. "cancelled" \in Resting \cup TerminalStatuses
      BY DEF TerminalStatuses
    <3> QED BY <2>1, <3>1, <3>2, ReleasedRow
  <2>2. CASE ~(ThreadOf[r] = t /\ isActive(r))
    BY <1>6, <2>2, SameRow DEF ClearThread
  <2> QED BY <2>1, <2>2
<1>7. ASSUME NEW t \in Threads, StopThread(t) PROVE RowStep(r)
  <2>1. CASE ThreadOf[r] = t /\ isActive(r)
    <3>1. run'[r] = [run[r] EXCEPT !.status = "cancelled"]
      BY <1>7, <2>1 DEF StopThread
    <3>2. /\ run'[r].status = "cancelled" /\ SameLease(r)
          /\ run'[r].cancel = run[r].cancel /\ run'[r].confirmed = run[r].confirmed
      BY <1>r, <3>1 DEF RunType, SameLease
    <3> QED BY <2>1, <3>2 DEF RowStep, LeaseStep, StopStep
  <2>2. CASE ~(ThreadOf[r] = t /\ isActive(r))
    BY <1>7, <2>2, SameRow DEF StopThread
  <2> QED BY <2>1, <2>2
<1>8. ASSUME NEW b \in Bots, NEW q \in Runs \cup {NoRun}, GrantScreen(b, q) PROVE RowStep(r)
  BY <1>8, SameRow DEF GrantScreen
<1>9. ASSUME NEW k \in Computers, ResetControl(k) PROVE RowStep(r)
  BY <1>9, SameRow DEF ResetControl
<1> QED BY <1>1, <1>2, <1>3, <1>4, <1>5, <1>6, <1>7, <1>8, <1>9 DEF Owner

\* Drain, time and reconciler take every row an allowed step.
LEMMA SystemRows ==
    ASSUME TypeInv, System, NEW r \in Runs
    PROVE  RowStep(r)
<1> USE DEF TypeInv
<1>1. ASSUME BeginDrain \/ ClearDrain PROVE RowStep(r)
  BY <1>1, SameRow DEF BeginDrain, ClearDrain
<1>2. ASSUME NEW q \in Runs, Reconcile(q) PROVE RowStep(r)
  BY <1>2, SameRow DEF Reconcile
<1>3. ASSUME NEW q \in Runs, ExpireLease(q) PROVE RowStep(r)
  <2>1. CASE r = q
    <3>1. run[r] \in RunType /\ run'[r] = [run[r] EXCEPT !.lease = "expired"]
      BY <1>3, <2>1 DEF ExpireLease, TypeOK
    <3>2. /\ run'[r].status = run[r].status /\ run'[r].owner = run[r].owner
          /\ run'[r].lease = "expired"
          /\ run'[r].cancel = run[r].cancel /\ run'[r].confirmed = run[r].confirmed
      BY <3>1 DEF RunType
    <3> QED BY <1>3, <2>1, <3>2 DEF ExpireLease, RowStep, LeaseStep, StopStep
  <2>2. CASE r # q
    BY <1>3, <2>2, SameRow DEF ExpireLease, TypeOK
  <2> QED BY <2>1, <2>2
<1>4. ASSUME NEW q \in Runs, RefreshBrief(q) \/ EndBrief(q) PROVE RowStep(r)
  BY <1>4, SameRow DEF RefreshBrief, EndBrief
<1> QED BY <1>1, <1>2, <1>3, <1>4 DEF System

\* What a job does before its turn takes every row an allowed step.
LEMMA SetupRows ==
    ASSUME TypeInv, NEW j \in Jobs, Setup(j), NEW r \in Runs
    PROVE  RowStep(r)
<1> USE DEF TypeInv
<1> DEFINE q == job[j].run
<1>r. run[r] \in RunType
  BY DEF TypeOK
<1>b. job[j].phase # "idle" => q \in Runs
  BY DEF BusyHasRun
<1>1. CASE run' = run
  BY <1>1, SameRow
<1>2. CASE ConfirmBeforeClaim(j)
  BY <1>2, <1>b, ConfirmRow DEF ConfirmBeforeClaim
<1>3. CASE Claim(j) /\ run' # run
  <2>1. CASE r = q
    <3>1. run'[r] = [run[r] EXCEPT !.status = "leased", !.owner = OwnerOf[j],
                        !.fence = job[j].fence, !.lease = "live",
                        !.checkpoint = NoCheckpoint]
      BY <1>3, <2>1 DEF Claim, TypeOK
    <3>2. /\ run'[r].status = "leased" /\ run'[r].lease = "live"
          /\ run'[r].cancel = run[r].cancel /\ run'[r].confirmed = run[r].confirmed
      BY <1>r, <3>1 DEF RunType
    <3>3. isActive(r)
      BY <1>3, <2>1 DEF Claim, ClaimMatches, isActive, ActiveStatuses
    <3>4. Takes(j)
      <4>1. job'[j] = [IdleJob EXCEPT !.phase = "claimed", !.run = q,
                !.fence = job[j].fence, !.seenStarted = job[j].seenStarted,
                !.resume = job[j].seenCheckpoint,
                !.held = /\ job[j].seenStatus = "waiting_takeover"
                         /\ job[j].seenCheckpoint = NoCheckpoint,
                !.latest = TRUE, !.stopped = run[q].cancel]
        BY <1>3 DEF Claim
      <4> QED BY <1>3, <4>1 DEF Takes, IdleJob
    <3> QED BY <2>1, <3>2, <3>3, <3>4 DEF RowStep, LeaseStep, StopStep
  <2>2. CASE r # q
    BY <1>3, <2>2, SameRow DEF Claim, TypeOK
  <2> QED BY <2>1, <2>2
<1>4. CASE MarkRunning(j) /\ run' # run
  <2>1. CASE r = q
    <3>1. /\ run[r].status = "leased"
          /\ run'[r] = [run[r] EXCEPT !.status = "running", !.started = TRUE]
      BY <1>4, <2>1 DEF MarkRunning, TypeOK
    <3>2. /\ run'[r].status = "running" /\ SameLease(r)
          /\ run'[r].cancel = run[r].cancel /\ run'[r].confirmed = run[r].confirmed
      BY <1>r, <3>1 DEF RunType, SameLease
    <3> QED BY <3>1, <3>2 DEF RowStep, LeaseStep, StopStep
  <2>2. CASE r # q
    BY <1>4, <2>2, SameRow DEF MarkRunning, TypeOK
  <2> QED BY <2>1, <2>2
<1>5. CASE PlacementFails(j) /\ run' # run
  <2>1. CASE r = q
    <3>1. run[r].status = "running" /\ run'[r] = [run[r] EXCEPT !.lease = "live"]
      BY <1>5, <2>1 DEF PlacementFails, Holds, TypeOK
    <3>2. /\ run'[r].status = run[r].status /\ run'[r].owner = run[r].owner
          /\ run'[r].lease = "live"
          /\ run'[r].cancel = run[r].cancel /\ run'[r].confirmed = run[r].confirmed
      BY <1>r, <3>1 DEF RunType
    <3> QED BY <3>1, <3>2 DEF RowStep, LeaseStep, StopStep
  <2>2. CASE r # q
    BY <1>5, <2>2, SameRow DEF PlacementFails, TypeOK
  <2> QED BY <2>1, <2>2
<1>6. CASE (ComputerBusy(j) \/ SetupFails(j)) /\ run' # run
  BY <1>6, RequeuedRow DEF ComputerBusy, SetupFails
<1>7. CASE StopAtGate(j)
  <2>1. CASE run' = run
    BY <2>1, <1>1
  <2>2. CASE confirmDispatchStop(q)
    BY <1>7, <2>2, <1>b, ConfirmRow DEF StopAtGate
  <2> QED BY <1>7, <2>1, <2>2 DEF StopAtGate
<1> QED BY <1>1, <1>2, <1>3, <1>4, <1>5, <1>6, <1>7
        DEF Setup, Observe, RemoteStopFails, ReadCurrent, BeginAttempt, EnterTurn

\* What a job does in and at the end of its turn takes every row an allowed step.
LEMMA TurnRows ==
    ASSUME TypeInv, NEW j \in Jobs, RenewLease(j) \/ LoseLease(j) \/ EndTurn(j),
           NEW r \in Runs
    PROVE  RowStep(r)
<1> USE DEF TypeInv
<1> DEFINE q == job[j].run
<1>r. run[r] \in RunType
  BY DEF TypeOK
<1>h. Holds(j) => isActive(q) /\ q \in Runs
  BY DEF Holds, isActive, ActiveStatuses
<1>s. Resting \cup {"completed", "failed"} \subseteq Resting \cup TerminalStatuses
  BY DEF TerminalStatuses
<1>1. CASE run' = run
  BY <1>1, SameRow
<1>2. CASE RenewLease(j)
  <2>1. CASE r = q
    <3>1. run[r].status = "running" /\ run'[r] = [run[r] EXCEPT !.lease = "live"]
      BY <1>2, <2>1 DEF RenewLease, Holds, TypeOK
    <3>2. /\ run'[r].status = run[r].status /\ run'[r].owner = run[r].owner
          /\ run'[r].lease = "live"
          /\ run'[r].cancel = run[r].cancel /\ run'[r].confirmed = run[r].confirmed
      BY <1>r, <3>1 DEF RunType
    <3> QED BY <3>1, <3>2 DEF RowStep, LeaseStep, StopStep
  <2>2. CASE r # q
    BY <1>2, <2>2, SameRow DEF RenewLease, TypeOK
  <2> QED BY <2>1, <2>2
<1>3. ASSUME NEW outcome \in {"completed", "failed"}, FinalizeRun(j, outcome), run' # run
      PROVE  RowStep(r)
  <2>1. Holds(j) /\ run' = [run EXCEPT ![q] = Release(q, outcome)]
    BY <1>3 DEF FinalizeRun, CanFinalize
  <2>2. CASE r = q
    <3>1. run'[r] = Release(r, outcome) /\ isActive(r)
      BY <2>1, <2>2, <1>h DEF TypeOK
    <3> QED BY <3>1, <1>s, ReleasedRow
  <2>3. CASE r # q
    BY <2>1, <2>3, SameRow DEF TypeOK
  <2> QED BY <2>2, <2>3
<1>4. CASE PauseRunForInput(j)
  <2>1. CASE r = q
    <3>1. run'[r] = Release(r, "waiting_input") /\ isActive(r)
      BY <1>4, <2>1, <1>h DEF PauseRunForInput, TypeOK
    <3>2. "waiting_input" \in Resting \cup TerminalStatuses
      BY DEF Resting
    <3> QED BY <3>1, <3>2, ReleasedRow
  <2>2. CASE r # q
    BY <1>4, <2>2, SameRow DEF PauseRunForInput, TypeOK
  <2> QED BY <2>1, <2>2
<1>5. CASE PauseRunForTakeover(j)
  <2>1. CASE r = q
    <3>1. /\ run'[r] = [Release(r, "waiting_takeover") EXCEPT !.checkpoint = NoCheckpoint]
          /\ isActive(r)
      BY <1>5, <2>1, <1>h DEF PauseRunForTakeover, TypeOK
    <3>2. "waiting_takeover" \in Resting \cup TerminalStatuses
      BY DEF Resting
    <3> QED BY <3>1, <3>2, ReleasedRow
  <2>2. CASE r # q
    BY <1>5, <2>2, SameRow DEF PauseRunForTakeover, TypeOK
  <2> QED BY <2>1, <2>2
<1>6. CASE ProviderRetry(j)
  BY <1>6, RequeuedRow DEF ProviderRetry
<1>7. CASE SuspendTurn(j)
  <2>1. CASE r = q
    <3>1. /\ run[r].status = "running"
          /\ run'[r] = [run[r] EXCEPT !.owner = NoOwner, !.lease = "expired"]
      BY <1>7, <2>1 DEF SuspendTurn, Holds, TypeOK
    <3>2. /\ run'[r].status = run[r].status /\ run'[r].owner = NoOwner
          /\ run'[r].lease = "expired"
          /\ run'[r].cancel = run[r].cancel /\ run'[r].confirmed = run[r].confirmed
      BY <1>r, <3>1 DEF RunType
    <3> QED BY <3>1, <3>2 DEF RowStep, LeaseStep, StopStep
  <2>2. CASE r # q
    BY <1>7, <2>2, SameRow DEF SuspendTurn, TypeOK
  <2> QED BY <2>1, <2>2
<1> QED BY <1>1, <1>2, <1>3, <1>4, <1>5, <1>6, <1>7 DEF EndTurn, LoseLease, AbandonTurn

\* The clean-up and the death of a job take every row an allowed step.
LEMMA UnwindRows ==
    ASSUME TypeInv, NEW j \in Jobs, Unwind(j) \/ Crash(j), NEW r \in Runs
    PROVE  RowStep(r)
<1> USE DEF TypeInv
<1> DEFINE q == job[j].run
<1>b. job[j].phase # "idle" => q \in Runs
  BY DEF BusyHasRun
<1>1. CASE Cleanup(j) \/ Crash(j)
  BY <1>1, SameRow DEF Cleanup, Crash
<1>2. CASE ConfirmAfterUnwind(j)
  BY <1>2, <1>b, ConfirmRow DEF ConfirmAfterUnwind
<1>3. CASE RecordRetry(j)
  <2>1. CASE r = q
    <3>1. run[r] \in RunType /\ run'[r] = [run[r] EXCEPT !.retries = @ + 1]
      BY <1>3, <2>1 DEF RecordRetry, TypeOK
    <3>2. /\ run'[r].status = run[r].status /\ SameLease(r)
          /\ run'[r].cancel = run[r].cancel /\ run'[r].confirmed = run[r].confirmed
      BY <3>1 DEF RunType, SameLease
    <3> QED BY <3>2 DEF RowStep, LeaseStep, StopStep
  <2>2. CASE r # q
    BY <1>3, <2>2, SameRow DEF RecordRetry, TypeOK
  <2> QED BY <2>1, <2>2
<1> QED BY <1>1, <1>2, <1>3 DEF Unwind

\* Every step changes a row in one of the few allowed ways.
LEMMA NextRows ==
    ASSUME TypeInv, [Next]_vars, NEW r \in Runs
    PROVE  RowStep(r)
<1>1. CASE UNCHANGED vars
  BY <1>1, SameRow DEF vars
<1>2. CASE Next
  BY <1>2, OwnerRows, SystemRows, SetupRows, TurnRows, UnwindRows DEF Next
<1> QED BY <1>1, <1>2

-----------------------------------------------------------------------------
(* Leases and statuses.                                                     *)

\* A leased or running run has a lease, and a queued or waiting one neither a lease nor
\* an owner: every claim, release, requeue, pause and suspension writes both together.
THEOREM LeaseCorrect == Spec => []LeaseMatchesStatus
<1>1. Init => LeaseMatchesStatus
  BY DEF Init, LeaseMatchesStatus, AbsentRun
<1>2. TypeInv /\ LeaseMatchesStatus /\ [Next]_vars => LeaseMatchesStatus'
  <2> SUFFICES ASSUME TypeInv, LeaseMatchesStatus, [Next]_vars, NEW r \in Runs
               PROVE  /\ run'[r].status \in {"leased", "running"} => run'[r].lease # "none"
                      /\ run'[r].status \notin {"leased", "running"} \cup TerminalStatuses
                            => run'[r].owner = NoOwner /\ run'[r].lease = "none"
    BY DEF LeaseMatchesStatus
  <2>1. LeaseStep(r)
    BY NextRows DEF RowStep
  <2> QED BY <2>1 DEF LeaseStep, LeaseMatchesStatus, SameLease, Freed, isActive,
                     ActiveStatuses, TerminalStatuses, Resting
<1> QED BY <1>1, <1>2, AlwaysTypeInv, PTL DEF Spec

-----------------------------------------------------------------------------
(* Confirmed stops.                                                         *)

\* A confirmed run has ended, and no run delegated from it can start any more.
ConfirmedIsOver == \A r \in Runs : run[r].confirmed => run[r].status = "cancelled"

ConfirmedInv == ConfirmedIsOver /\ ConfirmedTreeIsQuiet

\* Once confirmDispatchStop has confirmed a stop, the run and everything delegated
\* from it are over, and no later step of anyone revives or adds to them.
THEOREM ConfirmedStopsAreQuiet == Spec => []ConfirmedTreeIsQuiet
<1>1. Init => ConfirmedInv
  BY DEF Init, ConfirmedInv, ConfirmedIsOver, ConfirmedTreeIsQuiet, AbsentRun
<1>2. TypeInv /\ ConfirmedInv /\ [Next]_vars => ConfirmedInv'
  <2> SUFFICES ASSUME TypeInv, ConfirmedInv, [Next]_vars PROVE ConfirmedInv'
    OBVIOUS
  <2>1. ASSUME NEW r \in Runs PROVE LeaseStep(r) /\ StopStep(r)
    BY NextRows DEF RowStep
  <2>2. ConfirmedIsOver'
    BY <2>1 DEF ConfirmedInv, ConfirmedIsOver, LeaseStep, StopStep, isActive,
                ActiveStatuses, Resting
  <2>3. ASSUME NEW r \in Runs, NEW c \in Runs, run'[r].confirmed, c # r, Parent[c] = r
        PROVE  run'[c].status \notin ActiveStatuses
    <3>1. ~isActive(c)
      BY <2>1, <2>3 DEF StopStep, CanConfirm, ConfirmedInv, ConfirmedTreeIsQuiet
    <3>2. run'[c].status = run[c].status \/ run[r].status = "running"
      <4>1. Parent[c] # NoRun
        BY <2>3
      <4> QED BY <2>1, <2>3, <3>1, <4>1 DEF LeaseStep, isActive, ActiveStatuses, Resting
    <3>3. CASE run[r].confirmed
      BY <3>1, <3>2, <3>3 DEF ConfirmedInv, ConfirmedIsOver, isActive
    <3>4. CASE ~run[r].confirmed
      \* The step that confirms r changes its row, and so admits no run.
      <4>1. run'[r] # run[r]
        BY <2>1, <2>3, <3>4 DEF StopStep
      <4> QED BY <2>1, <2>3, <3>1, <4>1 DEF LeaseStep, isActive, ActiveStatuses, Resting
    <3> QED BY <3>3, <3>4
  <2> QED BY <2>2, <2>3 DEF ConfirmedInv, ConfirmedTreeIsQuiet, isActive
<1> QED BY <1>1, <1>2, AlwaysTypeInv, PTL DEF Spec, ConfirmedInv

-----------------------------------------------------------------------------
(* What one step may do to a job.                                           *)

Working == {"claimed", "ready", "started", "placement", "gate", "turn"}

\* The fields of a job the invariants below speak of.
SameJob(k) ==
    /\ job'[k].run = job[k].run
    /\ job'[k].stopped = job[k].stopped
    /\ job'[k].held = job[k].held
    /\ job'[k].resume = job[k].resume
    /\ job'[k].latest = job[k].latest \/ \E i \in Jobs : Takes(i) /\ job[k].run = job[i].run

Advances(k) ==
    \/ /\ SameJob(k) /\ job'[k].phase = job[k].phase /\ job'[k].seenCancel = job[k].seenCancel
    \/ /\ SameJob(k) /\ job[k].phase = "claimed" /\ job'[k].phase = "ready"
       /\ job'[k].seenCancel = run[job[k].run].cancel
    \/ /\ SameJob(k) /\ job'[k].seenCancel = job[k].seenCancel
       /\ job[k].phase \in {"ready", "started"}
       /\ job'[k].phase \in {"started", "placement", "gate"}

\* It enters the turn: a takeover released meanwhile is no longer held.
Enters(k) ==
    /\ job[k].phase = "gate" /\ job'[k].phase = "turn" /\ ~job[k].seenCancel
    /\ job'[k].run = job[k].run /\ job'[k].stopped = job[k].stopped
    /\ job'[k].latest = job[k].latest
    /\ job'[k].held => job[k].held /\ run[job[k].run].checkpoint = NoCheckpoint
    /\ run' = run /\ released' = released

Leaves(k) ==
    /\ job'[k].phase \notin Working
    /\ \/ ~job'[k].stopped
       \/ job'[k].stopped = job[k].stopped /\ job[k].phase \in {"turn", "cleanup"}

Took(k) ==
    /\ Takes(k) /\ job'[k].run = job[k].run /\ job'[k].latest
    /\ job'[k].stopped = run[job[k].run].cancel
    /\ job'[k].held => run[job[k].run].status = "waiting_takeover"

JobStep(k) == Advances(k) \/ Enters(k) \/ Leaves(k) \/ Took(k)

\* A job that is left alone takes an allowed step.
LEMMA SameJobStep ==
    ASSUME NEW k \in Jobs, job'[k] = job[k]
    PROVE  JobStep(k)
BY DEF JobStep, Advances, SameJob

\* Having its attempt cancelled by somebody else is an allowed step of a job.
LEMMA ClosedAttemptStep ==
    ASSUME TypeOK, NEW k \in Jobs, job'[k] = [job[k] EXCEPT !.attempt = "cancelled"]
    PROVE  JobStep(k)
<1>1. job[k] \in JobType
  BY DEF TypeOK
<1>2. job'[k].phase = job[k].phase /\ job'[k].seenCancel = job[k].seenCancel /\ SameJob(k)
  BY <1>1 DEF JobType, SameJob
<1> QED BY <1>2 DEF JobStep, Advances

\* Ending is an allowed step of a job.
LEMMA EndStep ==
    ASSUME NEW k \in Jobs, job'[k] = IdleJob
    PROVE  JobStep(k)
BY DEF JobStep, Leaves, Working, IdleJob

\* Leaving the turn is an allowed step of a job.
LEMMA UnwindingStep ==
    ASSUME NEW k \in Jobs,
           job'[k] = Unwinding(k) \/ job'[k] = [Unwinding(k) EXCEPT !.screen = TRUE]
    PROVE  JobStep(k)
<1>1. job'[k].phase = "cleanup" /\ job'[k].stopped = FALSE
  BY DEF Unwinding, IdleJob
<1> QED BY <1>1 DEF JobStep, Leaves, Working

\* A step that moves one job leaves the others alone, or closes their attempts.
LEMMA OthersStep ==
    ASSUME TypeOK, NEW j \in Jobs, NEW k \in Jobs, k # j, NEW r, NEW x,
           \/ job' = [job EXCEPT ![j] = x]
           \/ job' = [AfterConfirm(job, r) EXCEPT ![j] = x]
    PROVE  JobStep(k)
<1>1. job'[k] = job[k] \/ job'[k] = [job[k] EXCEPT !.attempt = "cancelled"]
  BY DEF AfterConfirm, CancelAttempts, TypeOK
<1> QED BY <1>1, SameJobStep, ClosedAttemptStep

\* Owner, drain, time and reconciler take every job an allowed step.
LEMMA OutsideJobs ==
    ASSUME TypeInv, Owner \/ System, NEW k \in Jobs
    PROVE  JobStep(k)
<1>1. ASSUME NEW t \in Threads, ClearThread(t) PROVE JobStep(k)
  <2>1. job'[k] = job[k] \/ job'[k] = [job[k] EXCEPT !.attempt = "cancelled"]
    BY <1>1 DEF ClearThread
  <2> QED BY <2>1, SameJobStep, ClosedAttemptStep DEF TypeInv
<1>2. CASE job' = job
  BY <1>2, SameJobStep
<1> QED BY <1>1, <1>2 DEF Owner, System, Submit, Steer, AnswerRunInput, RequestStop,
        StopThread, GrantScreen, ResetControl, ReleaseScreen, BeginDrain, ClearDrain,
        ExpireLease, Reconcile, RefreshBrief, EndBrief

\* The end of one job, or its way to its clean-up, takes every job an allowed step.
LEMMA EndSteps ==
    ASSUME TypeOK, NEW j \in Jobs, NEW k \in Jobs, End(j) \/ ToCleanup(j)
    PROVE  JobStep(k)
<1>1. CASE k = j
  BY <1>1, EndStep, UnwindingStep DEF End, ToCleanup, TypeOK
<1>2. CASE k # j
  <2>1. PICK x : job' = [job EXCEPT ![j] = x]
    BY DEF End, ToCleanup
  <2> QED BY <1>2, <2>1, OthersStep
<1> QED BY <1>1, <1>2

\* What a job does before its turn takes every job an allowed step.
LEMMA SetupJobs ==
    ASSUME TypeInv, NEW j \in Jobs, Setup(j), NEW k \in Jobs
    PROVE  JobStep(k)
<1> USE DEF TypeInv
<1> DEFINE r == job[j].run
<1>j. job[j] \in JobType
  BY DEF TypeOK
<1>0. CASE End(j) \/ ToCleanup(j) \/ job' = job
  BY <1>0, EndSteps, SameJobStep
<1>1. ASSUME NEW q \in Runs, Observe(j, q), job' # job PROVE JobStep(k)
  <2> DEFINE new == [IdleJob EXCEPT !.phase = "observed", !.run = q,
                        !.seenStatus = run[q].status,
                        !.seenCheckpoint = run[q].checkpoint,
                        !.seenCancel = run[q].cancel,
                        !.seenStarted = run[q].started,
                        !.fence = nextFence(run[q].fence)]
  <2>1. job' = [job EXCEPT ![j] = new]
    BY <1>1 DEF Observe
  <2>2. CASE k = j
    <3>1. new.phase = "observed" /\ new.stopped = FALSE
      BY DEF IdleJob
    <3>2. job'[k] = new
      BY <2>1, <2>2 DEF TypeOK
    <3> HIDE DEF new
    <3> QED BY <3>1, <3>2 DEF JobStep, Leaves, Working
  <2>3. CASE k # j
    BY <2>1, <2>3, OthersStep
  <2> QED BY <2>2, <2>3
<1>2. CASE ConfirmBeforeClaim(j)
  <2>1. job' = [AfterConfirm(job, r) EXCEPT ![j] = IdleJob]
    BY <1>2 DEF ConfirmBeforeClaim
  <2>2. AfterConfirm(job, r) \in [Jobs -> JobType]
    BY AfterConfirmType DEF TypeOK
  <2>3. CASE k = j
    BY <2>1, <2>2, <2>3, EndStep
  <2> QED BY <2>1, <2>3, OthersStep
<1>3. CASE Claim(j) /\ ~End(j)
  <2> DEFINE wasHeld == /\ job[j].seenStatus = "waiting_takeover"
                        /\ job[j].seenCheckpoint = NoCheckpoint
             new == [IdleJob EXCEPT !.phase = "claimed", !.run = r,
                        !.fence = job[j].fence, !.seenStarted = job[j].seenStarted,
                        !.resume = job[j].seenCheckpoint, !.held = wasHeld,
                        !.latest = TRUE, !.stopped = run[r].cancel]
  <2>1. job' = [i \in Jobs |-> IF i = j THEN new
                               ELSE [job[i] EXCEPT !.latest = @ /\ job[i].run # r]]
    BY <1>3 DEF Claim
  <2>2. run[r].status = job[j].seenStatus
    BY <1>3 DEF Claim, ClaimMatches
  <2>3. /\ new.phase = "claimed" /\ new.run = r /\ new.latest = TRUE
        /\ new.stopped = run[r].cancel /\ new.held = wasHeld
    BY DEF IdleJob
  <2>4. job'[j] = new
    BY <2>1
  <2>5. Takes(j)
    <3> HIDE DEF new
    <3> QED BY <1>3, <2>3, <2>4 DEF Takes
  <2>6. CASE k = j
    <3>1. /\ job'[k].run = job[k].run /\ job'[k].latest
          /\ job'[k].stopped = run[job[k].run].cancel
      <4> HIDE DEF new
      <4> QED BY <2>3, <2>4, <2>6
    <3>2. job'[k].held => run[job[k].run].status = "waiting_takeover"
      <4>1. job'[k].held = wasHeld
        BY <2>3, <2>4, <2>6
      <4> QED BY <4>1, <2>2, <2>6
    <3> QED BY <2>5, <2>6, <3>1, <3>2 DEF JobStep, Took
  <2>7. CASE k # j
    <3>1. job[k] \in JobType
      BY DEF TypeOK
    <3>2. job'[k] = [job[k] EXCEPT !.latest = @ /\ job[k].run # r]
      BY <2>1, <2>7
    <3>3. /\ job'[k].run = job[k].run /\ job'[k].stopped = job[k].stopped
          /\ job'[k].held = job[k].held /\ job'[k].resume = job[k].resume
          /\ job'[k].phase = job[k].phase /\ job'[k].seenCancel = job[k].seenCancel
      BY <3>1, <3>2 DEF JobType
    <3>4. job[k].run # r => job'[k].latest = job[k].latest
      BY <3>1, <3>2 DEF JobType
    <3> QED BY <2>5, <3>3, <3>4 DEF JobStep, Advances, SameJob
  <2> QED BY <2>6, <2>7
<1>4. CASE ReadCurrent(j) /\ ~End(j)
  <2>1. job' = [job EXCEPT ![j] = [job[j] EXCEPT !.phase = "ready", !.seenCancel = run[r].cancel]]
        /\ job[j].phase = "claimed"
    BY <1>4 DEF ReadCurrent
  <2>2. CASE k = j
    <3>1. job'[k] = [job[j] EXCEPT !.phase = "ready", !.seenCancel = run[r].cancel]
      BY <2>1, <2>2 DEF TypeOK
    <3>2. /\ job'[k].phase = "ready" /\ job'[k].seenCancel = run[r].cancel /\ SameJob(k)
      BY <3>1, <2>2, <1>j DEF JobType, SameJob
    <3> QED BY <2>1, <2>2, <3>2 DEF JobStep, Advances
  <2> QED BY <2>1, <2>2, OthersStep
<1>5. CASE (MarkRunning(j) \/ PlacementFails(j) \/ BeginAttempt(j)) /\ ~End(j)
  <2>1. PICK p \in {"started", "placement", "gate"}, a \in {job[j].attempt, "running"} :
            /\ job' = [job EXCEPT ![j] = [job[j] EXCEPT !.phase = p, !.attempt = a]]
            /\ job[j].phase \in {"ready", "started"}
    <3>1. ASSUME NEW p PROVE [job[j] EXCEPT !.phase = p]
                             = [job[j] EXCEPT !.phase = p, !.attempt = job[j].attempt]
      BY <1>j DEF JobType
    <3>2. CASE MarkRunning(j)
      <4>1. job' = [job EXCEPT ![j] = [job[j] EXCEPT !.phase = "started"]]
            /\ job[j].phase = "ready"
        BY <1>5, <3>2 DEF MarkRunning
      <4> QED BY <4>1, <3>1
    <3>3. CASE PlacementFails(j)
      <4>1. job' = [job EXCEPT ![j] = [job[j] EXCEPT !.phase = "placement",
                                                     !.attempt = "running"]]
            /\ job[j].phase = "started"
        BY <1>5, <3>3 DEF PlacementFails
      <4> QED BY <4>1
    <3>4. CASE BeginAttempt(j)
      <4>1. job' = [job EXCEPT ![j] = [job[j] EXCEPT !.phase = "gate",
                                                     !.attempt = "running"]]
            /\ job[j].phase = "started"
        BY <1>5, <3>4 DEF BeginAttempt
      <4> QED BY <4>1
    <3> QED BY <1>5, <3>2, <3>3, <3>4
  <2>2. CASE k = j
    <3>1. job'[k] = [job[j] EXCEPT !.phase = p, !.attempt = a]
      BY <2>1, <2>2 DEF TypeOK
    <3>2. /\ job'[k].phase = p /\ job'[k].seenCancel = job[k].seenCancel /\ SameJob(k)
      BY <3>1, <2>2, <1>j DEF JobType, SameJob
    <3> QED BY <2>1, <2>2, <3>2 DEF JobStep, Advances
  <2> QED BY <2>1, <2>2, OthersStep
<1>6. CASE StopAtGate(j)
  <2>1. PICK x \in {Unwinding(j), [Unwinding(j) EXCEPT !.screen = TRUE]} :
            \/ job' = [AfterConfirm(job, r) EXCEPT ![j] = x]
            \/ job' = [job EXCEPT ![j] = x]
    BY <1>6 DEF StopAtGate
  <2>2. AfterConfirm(job, r) \in [Jobs -> JobType]
    BY AfterConfirmType DEF TypeOK
  <2>3. CASE k = j
    <3>1. job'[k] = x
      BY <2>1, <2>2, <2>3 DEF TypeOK
    <3> QED BY <2>1, <2>3, <3>1, UnwindingStep
  <2> QED BY <2>1, <2>3, OthersStep
<1>7. CASE EnterTurn(j)
  <2> DEFINE back == job[j].held /\ run[r].checkpoint # NoCheckpoint
             new == [job[j] EXCEPT !.phase = "turn", !.screen = TRUE,
                        !.held = @ /\ ~back,
                        !.resume = IF back THEN run[r].checkpoint ELSE @]
  <2>1. job' = [job EXCEPT ![j] = new] /\ job[j].phase = "gate" /\ ~job[j].seenCancel
        /\ run' = run /\ released' = released
    BY <1>7 DEF EnterTurn, StopSeen
  <2>2. CASE k = j
    <3>1. job'[k] = new
      BY <2>1, <2>2 DEF TypeOK
    <3>2. /\ new.phase = "turn" /\ new.run = r /\ new.stopped = job[j].stopped
          /\ new.latest = job[j].latest /\ new.held = (job[j].held /\ ~back)
      BY <1>j DEF JobType
    <3>3. new.held => job[j].held /\ run[r].checkpoint = NoCheckpoint
      BY <3>2
    <3> HIDE DEF new
    <3> QED BY <2>1, <2>2, <3>1, <3>2, <3>3 DEF JobStep, Enters
  <2> QED BY <2>1, <2>2, OthersStep
<1> QED BY <1>0, <1>1, <1>2, <1>3, <1>4, <1>5, <1>6, <1>7
        DEF Setup, RemoteStopFails, ComputerBusy, SetupFails

\* What a job does from its turn on takes every job an allowed step.
LEMMA TurnJobs ==
    ASSUME TypeInv, NEW j \in Jobs, NEW k \in Jobs,
           \/ RenewLease(j) \/ LoseLease(j) \/ EndTurn(j) \/ Unwind(j) \/ Crash(j)
    PROVE  JobStep(k)
<1> USE DEF TypeInv
<1>j. job[j] \in JobType
  BY DEF TypeOK
<1>0. CASE End(j) \/ ToCleanup(j) \/ job' = job
  BY <1>0, EndSteps, SameJobStep
<1>1. CASE LoseLease(j)
  <2>1. CASE k = j
    <3>1. job'[k] = [job[j] EXCEPT !.leaseValid = FALSE]
      BY <1>1, <2>1 DEF LoseLease, TypeOK
    <3>2. job'[k].phase = job[k].phase /\ job'[k].seenCancel = job[k].seenCancel /\ SameJob(k)
      BY <3>1, <2>1, <1>j DEF JobType, SameJob
    <3> QED BY <3>2 DEF JobStep, Advances
  <2>2. CASE k # j
    BY <1>1, <2>2, SameJobStep DEF LoseLease, TypeOK
  <2> QED BY <2>1, <2>2
<1>2. CASE ProviderRetry(j)
  <2>1. CASE k = j
    <3>1. job'[k] = [job[j] EXCEPT !.phase = "retry"] /\ job[j].phase = "turn"
      BY <1>2, <2>1 DEF ProviderRetry, TypeOK
    <3>2. job'[k].phase = "retry" /\ job'[k].stopped = job[k].stopped
      BY <3>1, <2>1, <1>j DEF JobType
    <3> QED BY <3>1, <3>2, <2>1 DEF JobStep, Leaves, Working
  <2>2. CASE k # j
    BY <1>2, <2>2, SameJobStep DEF ProviderRetry, TypeOK
  <2> QED BY <2>1, <2>2
<1>3. CASE Cleanup(j) /\ ~End(j)
  <2>1. job' = [job EXCEPT ![j] = [job[j] EXCEPT !.phase = "confirm"]]
        /\ job[j].phase = "cleanup"
    BY <1>3 DEF Cleanup
  <2>2. CASE k = j
    <3>1. job'[k] = [job[j] EXCEPT !.phase = "confirm"]
      BY <2>1, <2>2 DEF TypeOK
    <3>2. job'[k].phase = "confirm" /\ job'[k].stopped = job[k].stopped
      BY <3>1, <2>2, <1>j DEF JobType
    <3> QED BY <2>1, <2>2, <3>2 DEF JobStep, Leaves, Working
  <2> QED BY <2>1, <2>2, OthersStep
<1>4. CASE ConfirmAfterUnwind(j)
  <2>1. job' = [AfterConfirm(job, job[j].run) EXCEPT ![j] = IdleJob]
    BY <1>4 DEF ConfirmAfterUnwind
  <2>2. AfterConfirm(job, job[j].run) \in [Jobs -> JobType]
    BY AfterConfirmType DEF TypeOK
  <2>3. CASE k = j
    BY <2>1, <2>2, <2>3, EndStep
  <2> QED BY <2>1, <2>3, OthersStep
<1> QED BY <1>0, <1>1, <1>2, <1>3, <1>4
        DEF RenewLease, EndTurn, FinalizeRun, PauseRunForInput, PauseRunForTakeover,
            SuspendTurn, AbandonTurn, Unwind, RecordRetry, Crash

\* Every step changes a job in one of the few allowed ways.
LEMMA NextJobs ==
    ASSUME TypeInv, [Next]_vars, NEW k \in Jobs
    PROVE  JobStep(k)
<1>1. CASE UNCHANGED vars
  BY <1>1, SameJobStep DEF vars
<1>2. CASE Next
  BY <1>2, OutsideJobs, SetupJobs, TurnJobs DEF Next
<1> QED BY <1>1, <1>2

-----------------------------------------------------------------------------
(* Stops that land before the claim.                                        *)

\* A job that claimed a stopped run is before the turn, the run is still marked, and
\* once the job has read the row again it knows.
StopInv ==
    \A j \in Jobs : job[j].stopped =>
        /\ job[j].phase \in Working \ {"turn"}
        /\ run[job[j].run].cancel
        /\ job[j].phase # "claimed" => job[j].seenCancel

\* A stop that lands before the claim holds: the claim, the second read of the row and
\* the gate before the turn never let such a run reach the model (continueRun).
THEOREM StopsHold == Spec => []StopHoldsAtClaim
<1>1. Init => StopInv
  BY DEF Init, StopInv, IdleJob
<1>2. TypeInv /\ StopInv /\ [Next]_vars => StopInv'
  <2> SUFFICES ASSUME TypeInv, StopInv, [Next]_vars, NEW k \in Jobs, job'[k].stopped
               PROVE  /\ job'[k].phase \in Working \ {"turn"}
                      /\ run'[job'[k].run].cancel
                      /\ job'[k].phase # "claimed" => job'[k].seenCancel
    BY DEF StopInv
  <2>1. JobStep(k)
    BY NextJobs
  <2>2. ASSUME NEW r \in Runs PROVE run[r].cancel => run'[r].cancel
    BY NextRows DEF RowStep, StopStep
  <2>3. ASSUME job[k].phase # "idle" PROVE job[k].run \in Runs
    BY <2>3 DEF TypeInv, BusyHasRun
  <2>4. CASE Took(k)
    <3>1. job[k].phase = "observed" /\ job'[k].phase = "claimed"
      BY <2>4 DEF Took, Takes, Claim
    <3> QED BY <2>2, <2>3, <2>4, <3>1 DEF Took, Working
  <2>5. CASE Leaves(k)
    BY <2>5 DEF Leaves, StopInv, Working
  <2>6. CASE Enters(k)
    BY <2>6 DEF Enters, StopInv, Working
  <2>7. CASE Advances(k)
    BY <2>2, <2>3, <2>7 DEF Advances, SameJob, StopInv, Working
  <2> QED BY <2>1, <2>4, <2>5, <2>6, <2>7 DEF JobStep
<1>3. StopInv => StopHoldsAtClaim
  BY DEF StopInv, StopHoldsAtClaim, Working
<1> QED BY <1>1, <1>2, <1>3, AlwaysTypeInv, PTL DEF Spec

-----------------------------------------------------------------------------
(* Old workers and newer leases.                                            *)

\* Every job runs in a process of its own.
DistinctOwners == \A i, k \in Jobs : OwnerOf[i] = OwnerOf[k] => i = k

\* A working job whose process the run names as its owner made the latest claim.
HolderInv ==
    \A k \in Jobs : job[k].phase \in Working /\ run[job[k].run].owner = OwnerOf[k]
                        => job[k].latest

\* A claim is made by a job that has read the run, and makes its process the owner.
LEMMA TakesOwner ==
    ASSUME TypeInv, NEW i \in Jobs, Takes(i)
    PROVE  /\ job[i].phase = "observed" /\ job[i].run \in Runs
           /\ run'[job[i].run].owner = OwnerOf[i]
<1>1. job[i].phase = "observed" /\ Claim(i)
  BY DEF Takes, Claim
<1>2. job[i].run \in Runs /\ run[job[i].run] \in RunType
  BY <1>1 DEF TypeInv, TypeOK, BusyHasRun
<1>3. ~End(i)
  BY DEF Takes, End, TypeInv, TypeOK, IdleJob
<1>4. run'[job[i].run] = [run[job[i].run] EXCEPT !.status = "leased", !.owner = OwnerOf[i],
            !.fence = job[i].fence, !.lease = "live", !.checkpoint = NoCheckpoint]
  BY <1>1, <1>2, <1>3 DEF Claim, TypeInv, TypeOK
<1> QED BY <1>1, <1>2, <1>4 DEF RunType

\* Where jobs have processes of their own, a working job whose process owns the run
\* after a step that let it work on owned the run before, and nobody claimed it.
LEMMA StillOwner ==
    ASSUME TypeInv, DistinctOwners, [Next]_vars, NEW k \in Jobs,
           Advances(k) \/ Enters(k),
           job'[k].phase \in Working, run'[job'[k].run].owner = OwnerOf[k]
    PROVE  /\ job[k].phase \in Working
           /\ job'[k].run = job[k].run /\ job[k].run \in Runs
           /\ run[job[k].run].owner = OwnerOf[k]
           /\ \A i \in Jobs : Takes(i) => job[i].run # job[k].run
<1>1. job[k].phase \in Working /\ job'[k].run = job[k].run
  BY DEF Advances, Enters, SameJob, Working
<1>2. job[k].run \in Runs
  BY <1>1 DEF TypeInv, BusyHasRun, Working
<1>3. ASSUME NEW i \in Jobs, Takes(i), job[i].run = job[k].run PROVE FALSE
  <2>1. run'[job[k].run].owner = OwnerOf[i] /\ job[i].phase = "observed"
    BY <1>3, TakesOwner
  <2>2. i = k
    BY <2>1, <1>1 DEF DistinctOwners
  <2> QED BY <2>1, <2>2, <1>1 DEF Working
<1>4. LeaseStep(job[k].run)
  BY <1>2, NextRows DEF RowStep
<1>5. OwnerOf[k] # NoOwner
  OBVIOUS
<1>6. run[job[k].run].owner = OwnerOf[k]
  BY <1>1, <1>3, <1>4, <1>5 DEF LeaseStep, SameLease, Freed
<1> QED BY <1>1, <1>2, <1>3, <1>6

\* Where every job has a process of its own, a worker that passes the lease comparison
\* made the run's latest claim, although the claim itself never compares the fence.
THEOREM NoOldWorkerWrites ==
    ASSUME DistinctOwners
    PROVE  Spec => []HolderMadeLatestClaim
<1>1. Init => HolderInv
  BY DEF Init, HolderInv, IdleJob, Working
<1>2. TypeInv /\ HolderInv /\ [Next]_vars => HolderInv'
  <2> SUFFICES ASSUME TypeInv, HolderInv, [Next]_vars, NEW k \in Jobs,
                      job'[k].phase \in Working, run'[job'[k].run].owner = OwnerOf[k]
               PROVE  job'[k].latest
    BY DEF HolderInv
  <2>1. JobStep(k)
    BY NextJobs
  <2>2. CASE Took(k)
    BY <2>2 DEF Took
  <2>3. CASE Leaves(k)
    BY <2>3 DEF Leaves
  <2>4. CASE Advances(k) \/ Enters(k)
    <3>1. \/ job'[k].latest = job[k].latest
          \/ \E i \in Jobs : Takes(i) /\ job[k].run = job[i].run
      BY <2>4 DEF Advances, Enters, SameJob
    <3> QED BY <2>4, <3>1, StillOwner DEF HolderInv
  <2> QED BY <2>1, <2>2, <2>3, <2>4 DEF JobStep
<1>3. HolderInv => HolderMadeLatestClaim
  BY DEF HolderInv, HolderMadeLatestClaim, Writing, Holds, Working
<1> QED BY <1>1, <1>2, <1>3, AlwaysTypeInv, PTL DEF Spec

-----------------------------------------------------------------------------
(* Screen releases.                                                         *)

Carried == {"leased", "running"}

KeepsScreen(r) == r \in released' => r \in released

\* Job j works on run r in a held turn that no release has reached.
Waits(j, r) ==
    /\ job[j].phase \in Working /\ Holds(j) /\ job[j].run = r
    /\ job[j].held /\ run[r].checkpoint = NoCheckpoint

\* How a run comes to wait for its takeover, and to be carried out without a checkpoint.
ScreenStep(r) ==
    /\ run'[r].status = "waiting_takeover" =>
          \/ run[r].status = "waiting_takeover" /\ KeepsScreen(r)
          \/ r \notin released'
          \/ released' = released /\ \E j \in Jobs : Waits(j, r)
    /\ run'[r].status \in Carried /\ run'[r].checkpoint = NoCheckpoint =>
          \/ /\ run[r].status \in Carried /\ run[r].checkpoint = NoCheckpoint
             /\ KeepsScreen(r)
          \/ \E j \in Jobs : Takes(j) /\ job[j].run = r

\* A row whose status and checkpoint are left alone takes an allowed step.
LEMMA SameScreen ==
    ASSUME NEW r \in Runs, KeepsScreen(r),
           run'[r].checkpoint = run[r].checkpoint,
           \/ run'[r].status = run[r].status
           \/ run[r].status = "leased" /\ run'[r].status = "running"
    PROVE  ScreenStep(r)
BY DEF ScreenStep, Carried

\* So does one that neither waits for its takeover nor is carried out.
LEMMA OtherScreen ==
    ASSUME NEW r \in Runs, run'[r].status \notin Carried \cup {"waiting_takeover"}
    PROVE  ScreenStep(r)
BY DEF ScreenStep

\* The confirmation of a stop never touches a takeover.
LEMMA ConfirmScreen ==
    ASSUME TypeOK, NEW q \in Runs, confirmDispatchStop(q), released' = released,
           NEW r \in Runs
    PROVE  ScreenStep(r)
<1>1. CASE CanConfirm(q) /\ r = q
  <2>1. run'[r] = [Release(r, "cancelled") EXCEPT !.confirmed = TRUE] /\ run[r] \in RunType
    BY <1>1 DEF confirmDispatchStop, TypeOK
  <2>2. run'[r].status = "cancelled"
    BY <2>1 DEF Release, RunType
  <2> QED BY <2>2, OtherScreen DEF Carried
<1>2. CASE ~(CanConfirm(q) /\ r = q)
  BY <1>2, SameScreen DEF confirmDispatchStop, TypeOK, KeepsScreen
<1> QED BY <1>1, <1>2

\* A run is put back to wait for its takeover only by a held turn nothing released.
LEMMA RequeuedScreen ==
    ASSUME TypeOK, NEW j \in Jobs, Holds(j), job[j].phase \in Working,
           run' = [run EXCEPT ![job[j].run] = RequeuedRun(j)], released' = released,
           NEW r \in Runs
    PROVE  ScreenStep(r)
<1>1. CASE r = job[j].run
  <2>1. run'[r] = RequeuedRun(j) /\ run[r] \in RunType
    BY <1>1 DEF TypeOK
  <2>2. CASE run[r].checkpoint # NoCheckpoint
    <3>1. run'[r].status = "queued"
      BY <1>1, <2>1, <2>2, ReleaseFields DEF RequeuedRun
    <3> QED BY <3>1, OtherScreen DEF Carried
  <2>3. CASE run[r].checkpoint = NoCheckpoint
    <3> DEFINE s == IF job[j].held /\ job[j].resume = NoCheckpoint
                    THEN "waiting_takeover" ELSE "queued"
    <3>1. run'[r] = [Release(r, s) EXCEPT !.checkpoint = job[j].resume]
      BY <1>1, <2>1, <2>3 DEF RequeuedRun
    <3>2. run'[r].status = s
      BY <2>1, <3>1 DEF Release, RunType
    <3>3. CASE s = "waiting_takeover"
      <4>1. Waits(j, r)
        BY <1>1, <2>3, <3>3 DEF Waits
      <4> QED BY <3>2, <3>3, <4>1 DEF ScreenStep, Carried
    <3>4. CASE s = "queued"
      BY <3>2, <3>4, OtherScreen DEF Carried
    <3> QED BY <3>3, <3>4
  <2> QED BY <2>2, <2>3
<1>2. CASE r # job[j].run
  BY <1>2, SameScreen DEF TypeOK, KeepsScreen
<1> QED BY <1>1, <1>2

\* What the owner does takes every row an allowed step: the release of a screen moves
\* the run on, or leaves it a checkpoint.
LEMMA OwnerScreens ==
    ASSUME TypeInv, Owner, NEW r \in Runs
    PROVE  ScreenStep(r)
<1> USE DEF TypeInv
<1>r. run[r] \in RunType
  BY DEF TypeOK
<1>1. ASSUME NEW q \in Runs, Submit(q) \/ AnswerRunInput(q) PROVE ScreenStep(r)
  <2>1. CASE r = q
    <3>1. run'[r] = [run[r] EXCEPT !.status = "queued"]
      BY <1>1, <2>1 DEF Submit, AnswerRunInput, TypeOK
    <3>2. run'[r].status = "queued"
      BY <1>r, <3>1 DEF RunType
    <3> QED BY <3>2, OtherScreen DEF Carried
  <2>2. CASE r # q
    BY <1>1, <2>2, SameScreen DEF Submit, AnswerRunInput, TypeOK, KeepsScreen
  <2> QED BY <2>1, <2>2
<1>2. ASSUME NEW q \in Runs, Steer(q) PROVE ScreenStep(r)
  BY <1>2, SameScreen DEF Steer, KeepsScreen
<1>3. ASSUME NEW q \in Runs, RequestStop(q) PROVE ScreenStep(r)
  <2>1. run'[r] = [run[r] EXCEPT !.cancel = TRUE] \/ run'[r] = run[r]
    BY <1>3 DEF RequestStop
  <2>2. run'[r].status = run[r].status /\ run'[r].checkpoint = run[r].checkpoint
    BY <1>r, <2>1 DEF RunType
  <2> QED BY <1>3, <2>2, SameScreen DEF RequestStop, KeepsScreen
<1>4. ASSUME NEW k \in Computers, NEW c \in Checkpoints, ReleaseScreen(k, c)
      PROVE  ScreenStep(r)
  <2> DEFINE q == control[k].run
  <2>1. CASE r = q /\ run[q].status = "waiting_takeover"
    <3>1. run'[r] = [run[r] EXCEPT !.status = "queued", !.checkpoint = c]
      BY <1>4, <2>1 DEF ReleaseScreen, TypeOK
    <3>2. run'[r].status = "queued"
      BY <1>r, <3>1 DEF RunType
    <3> QED BY <3>2, OtherScreen DEF Carried
  <2>2. CASE r = q /\ run[q].status \in Carried
    <3>1. run'[r] = [run[r] EXCEPT !.checkpoint = c]
      BY <1>4, <2>2 DEF ReleaseScreen, TypeOK, Carried
    <3>2. run'[r].status = run[r].status /\ run'[r].checkpoint # NoCheckpoint
      BY <1>r, <3>1 DEF RunType
    <3> QED BY <2>2, <3>2 DEF ScreenStep, Carried
  <2>3. CASE r = q /\ run[q].status \notin Carried \cup {"waiting_takeover"}
    <3>1. run'[r] = run[r]
      BY <1>4, <2>3 DEF ReleaseScreen, Carried
    <3> QED BY <2>3, <3>1, OtherScreen
  <2>4. CASE r # q
    BY <1>4, <2>4, SameScreen DEF ReleaseScreen, TypeOK, KeepsScreen
  <2> QED BY <2>1, <2>2, <2>3, <2>4
<1>5. ASSUME NEW t \in Threads, ClearThread(t) \/ StopThread(t) PROVE ScreenStep(r)
  <2>1. CASE ThreadOf[r] = t /\ isActive(r)
    <3>1. \/ run'[r] = Release(r, "cancelled")
          \/ run'[r] = [run[r] EXCEPT !.status = "cancelled"]
      BY <1>5, <2>1 DEF ClearThread, StopThread
    <3>2. run'[r].status = "cancelled"
      BY <1>r, <3>1 DEF Release, RunType
    <3> QED BY <3>2, OtherScreen DEF Carried
  <2>2. CASE ~(ThreadOf[r] = t /\ isActive(r))
    BY <1>5, <2>2, SameScreen DEF ClearThread, StopThread, KeepsScreen
  <2> QED BY <2>1, <2>2
<1>6. ASSUME NEW b \in Bots, NEW q \in Runs \cup {NoRun}, GrantScreen(b, q)
      PROVE  ScreenStep(r)
  BY <1>6, SameScreen DEF GrantScreen, KeepsScreen
<1>7. ASSUME NEW k \in Computers, ResetControl(k) PROVE ScreenStep(r)
  BY <1>7, SameScreen DEF ResetControl, KeepsScreen
<1> QED BY <1>1, <1>2, <1>3, <1>4, <1>5, <1>6, <1>7 DEF Owner

\* Drain, time and reconciler take every row an allowed step.
LEMMA SystemScreens ==
    ASSUME TypeInv, System, NEW r \in Runs
    PROVE  ScreenStep(r)
<1>1. released' = released
  BY DEF System, BeginDrain, ClearDrain, ExpireLease, Reconcile, RefreshBrief, EndBrief
<1>2. \/ run'[r] = run[r]
      \/ run'[r] = [run[r] EXCEPT !.lease = "expired"]
  BY DEF System, BeginDrain, ClearDrain, ExpireLease, Reconcile, RefreshBrief, EndBrief,
         TypeInv, TypeOK
<1>3. run[r] \in RunType
  BY DEF TypeInv, TypeOK
<1>4. run'[r].status = run[r].status /\ run'[r].checkpoint = run[r].checkpoint
  BY <1>2, <1>3 DEF RunType
<1> QED BY <1>1, <1>4, SameScreen DEF KeepsScreen

\* What a job does before its turn takes every row an allowed step.
LEMMA SetupScreens ==
    ASSUME TypeInv, NEW j \in Jobs, Setup(j), NEW r \in Runs
    PROVE  ScreenStep(r)
<1> USE DEF TypeInv
<1> DEFINE q == job[j].run
<1>r. run[r] \in RunType
  BY DEF TypeOK
<1>b. job[j].phase # "idle" => q \in Runs
  BY DEF BusyHasRun
<1>t. released' = released
  BY DEF Setup, Observe, ConfirmBeforeClaim, RemoteStopFails, Claim, ReadCurrent, MarkRunning,
         PlacementFails, ComputerBusy, BeginAttempt, StopAtGate, EnterTurn, SetupFails
<1>1. CASE run'[r] = run[r]
  BY <1>1, <1>t, SameScreen DEF KeepsScreen
<1>2. CASE ConfirmBeforeClaim(j) \/ StopAtGate(j)
  <2>1. CASE confirmDispatchStop(q)
    BY <1>2, <1>b, <1>t, <2>1, ConfirmScreen DEF ConfirmBeforeClaim, StopAtGate
  <2> QED BY <1>1, <1>2, <2>1 DEF ConfirmBeforeClaim, StopAtGate
<1>3. CASE Claim(j) /\ run'[r] # run[r]
  <2>1. r = q
    BY <1>3 DEF Claim, TypeOK
  <2>3. run'[r] = [run[r] EXCEPT !.status = "leased", !.owner = OwnerOf[j],
                      !.fence = job[j].fence, !.lease = "live", !.checkpoint = NoCheckpoint]
    BY <1>3, <2>1 DEF Claim, TypeOK
  <2>4. run'[r].status = "leased"
    BY <1>r, <2>3 DEF RunType
  <2>5. job'[j] = [IdleJob EXCEPT !.phase = "claimed", !.run = q,
            !.fence = job[j].fence, !.seenStarted = job[j].seenStarted,
            !.resume = job[j].seenCheckpoint,
            !.held = /\ job[j].seenStatus = "waiting_takeover"
                     /\ job[j].seenCheckpoint = NoCheckpoint,
            !.latest = TRUE, !.stopped = run[q].cancel]
    BY <1>3 DEF Claim
  <2>6. Takes(j)
    BY <1>3, <2>5 DEF Takes, IdleJob
  <2> QED BY <2>1, <2>4, <2>6 DEF ScreenStep
<1>4. CASE (MarkRunning(j) \/ PlacementFails(j)) /\ run'[r] # run[r]
  <2>1. \/ /\ run[r].status = "leased"
           /\ run'[r] = [run[r] EXCEPT !.status = "running", !.started = TRUE]
        \/ run'[r] = [run[r] EXCEPT !.lease = "live"]
    <3>1. CASE MarkRunning(j)
      <4>1. /\ run[q].status = "leased"
            /\ run' = [run EXCEPT ![q] = [run[q] EXCEPT !.status = "running", !.started = TRUE]]
        BY <1>4, <3>1 DEF MarkRunning
      <4>2. r = q
        BY <1>4, <4>1 DEF TypeOK
      <4> QED BY <4>1, <4>2 DEF TypeOK
    <3>2. CASE PlacementFails(j)
      BY <1>4, <3>2 DEF PlacementFails, TypeOK
    <3> QED BY <1>4, <3>1, <3>2
  <2>2. /\ run'[r].checkpoint = run[r].checkpoint
        /\ \/ run'[r].status = run[r].status
           \/ run[r].status = "leased" /\ run'[r].status = "running"
    BY <1>r, <2>1 DEF RunType
  <2> QED BY <1>t, <2>2, SameScreen DEF KeepsScreen
<1>5. CASE (ComputerBusy(j) \/ SetupFails(j)) /\ run'[r] # run[r]
  <2>1. /\ Holds(j) /\ job[j].phase \in {"started", "gate"}
        /\ run' = [run EXCEPT ![q] = RequeuedRun(j)]
    BY <1>5 DEF ComputerBusy, SetupFails
  <2> QED BY <1>t, <2>1, RequeuedScreen DEF Working
<1> QED BY <1>1, <1>2, <1>3, <1>4, <1>5
        DEF Setup, Observe, RemoteStopFails, ReadCurrent, BeginAttempt, EnterTurn

\* What a job does in and after its turn takes every row an allowed step: a pause for a
\* takeover asks anew, whatever was released before.
LEMMA TurnScreens ==
    ASSUME TypeInv, NEW j \in Jobs, NEW r \in Runs,
           \/ RenewLease(j) \/ LoseLease(j) \/ EndTurn(j) \/ Unwind(j) \/ Crash(j)
    PROVE  ScreenStep(r)
<1> USE DEF TypeInv
<1> DEFINE q == job[j].run
<1>r. run[r] \in RunType
  BY DEF TypeOK
<1>b. job[j].phase # "idle" => q \in Runs
  BY DEF BusyHasRun
<1>1. CASE run'[r] = run[r] /\ released' = released
  BY <1>1, SameScreen DEF KeepsScreen
<1>2. CASE PauseRunForTakeover(j)
  <2>1. CASE r = q
    BY <1>2, <2>1, <1>r DEF PauseRunForTakeover, ScreenStep, TypeOK, Release, RunType, Carried
  <2>2. CASE r # q
    BY <1>2, <2>2, SameScreen DEF PauseRunForTakeover, TypeOK, KeepsScreen
  <2> QED BY <2>1, <2>2
<1>3. CASE /\ RenewLease(j) \/ SuspendTurn(j) \/ RecordRetry(j)
           /\ run'[r] # run[r]
  <2>1. /\ released' = released
        /\ \/ run'[r] = [run[r] EXCEPT !.lease = "live"]
           \/ run'[r] = [run[r] EXCEPT !.owner = NoOwner, !.lease = "expired"]
           \/ run'[r] = [run[r] EXCEPT !.retries = @ + 1]
    <3>1. CASE RenewLease(j)
      BY <1>3, <3>1 DEF RenewLease, TypeOK
    <3>2. CASE SuspendTurn(j)
      BY <1>3, <3>2 DEF SuspendTurn, TypeOK
    <3>3. CASE RecordRetry(j)
      BY <1>3, <3>3 DEF RecordRetry, TypeOK
    <3> QED BY <1>3, <3>1, <3>2, <3>3
  <2>2. run'[r].status = run[r].status /\ run'[r].checkpoint = run[r].checkpoint
    BY <1>r, <2>1 DEF RunType
  <2> QED BY <2>1, <2>2, SameScreen DEF KeepsScreen
<1>4. ASSUME NEW outcome \in {"completed", "failed"}, run'[r] # run[r],
             FinalizeRun(j, outcome) \/ PauseRunForInput(j)
      PROVE  ScreenStep(r)
  <2>1. run'[r] = Release(r, outcome) \/ run'[r] = Release(r, "waiting_input")
    BY <1>4 DEF FinalizeRun, PauseRunForInput, TypeOK
  <2>2. run'[r].status \in {"completed", "failed", "waiting_input"}
    BY <2>1, ReleaseFields
  <2> QED BY <2>2, OtherScreen DEF Carried
<1>5. CASE ProviderRetry(j)
  <2>1. /\ Holds(j) /\ job[j].phase = "turn" /\ released' = released
        /\ run' = [run EXCEPT ![q] = RequeuedRun(j)]
    BY <1>5 DEF ProviderRetry
  <2> QED BY <2>1, RequeuedScreen DEF Working
<1>6. CASE ConfirmAfterUnwind(j)
  BY <1>6, <1>b, ConfirmScreen DEF ConfirmAfterUnwind
<1>7. ASSUME NEW outcome \in {"completed", "failed"}, FinalizeRun(j, outcome)
      PROVE  released' = released
  BY <1>7 DEF FinalizeRun
<1>8. CASE PauseRunForInput(j) \/ RenewLease(j) \/ SuspendTurn(j) \/ RecordRetry(j)
  <2>1. released' = released
    BY <1>8 DEF PauseRunForInput, RenewLease, SuspendTurn, RecordRetry
  <2> QED BY <1>8, <2>1, <1>1, <1>3, <1>4
<1>9. CASE LoseLease(j) \/ AbandonTurn(j) \/ Cleanup(j) \/ Crash(j)
  BY <1>9, <1>1 DEF LoseLease, AbandonTurn, Cleanup, Crash
<1> QED BY <1>1, <1>2, <1>4, <1>5, <1>6, <1>7, <1>8, <1>9 DEF EndTurn, Unwind

\* Every step changes the status and the checkpoint of a row in one of the allowed ways.
LEMMA NextScreens ==
    ASSUME TypeInv, [Next]_vars, NEW r \in Runs
    PROVE  ScreenStep(r)
<1>1. CASE UNCHANGED vars
  BY <1>1, SameScreen DEF vars, KeepsScreen
<1>2. CASE Next
  BY <1>2, OwnerScreens, SystemScreens, SetupScreens, TurnScreens DEF Next
<1> QED BY <1>1, <1>2

\* While a held turn owns a run without a checkpoint, the takeover it waits for was not
\* released yet.
HeldInv ==
    \A k \in Jobs :
        /\ job[k].phase \in Working /\ job[k].held
        /\ run[job[k].run].owner = OwnerOf[k]
        /\ run[job[k].run].status \in Carried
        /\ run[job[k].run].checkpoint = NoCheckpoint
        => job[k].run \notin released

ScreenInv == HeldInv /\ ReleaseIsNotLost

\* A held turn that is given back (writeComputerRunRequeue) waits for its takeover only if
\* that takeover was not released meanwhile: a release leaves a checkpoint.  It holds
\* whoever else has the screen, whichever run the control is bound to or bound to next,
\* and whenever leases of the screen are granted, reset or released.
THEOREM ReleasesAreKept ==
    ASSUME DistinctOwners
    PROVE  Spec => []ReleaseIsNotLost
<1>1. Init => ScreenInv
  BY DEF Init, ScreenInv, HeldInv, ReleaseIsNotLost, IdleJob, AbsentRun, Working
<1>2. TypeInv /\ ScreenInv /\ [Next]_vars => ScreenInv'
  <2> SUFFICES ASSUME TypeInv, ScreenInv, [Next]_vars PROVE ScreenInv'
    OBVIOUS
  <2>1. ASSUME NEW r \in Runs PROVE ScreenStep(r)
    BY NextScreens
  <2>2. ASSUME NEW r \in Runs, run'[r].status = "waiting_takeover" PROVE r \notin released'
    <3>1. ASSUME NEW j \in Jobs, Waits(j, r) PROVE r \notin released
      BY <3>1 DEF Waits, Holds, ScreenInv, HeldInv, Carried
    <3> QED BY <2>1, <2>2, <3>1 DEF ScreenStep, KeepsScreen, ScreenInv, ReleaseIsNotLost
  <2>3. ASSUME NEW k \in Jobs,
               job'[k].phase \in Working, job'[k].held,
               run'[job'[k].run].owner = OwnerOf[k],
               run'[job'[k].run].status \in Carried,
               run'[job'[k].run].checkpoint = NoCheckpoint
        PROVE  job'[k].run \notin released'
    <3>1. JobStep(k)
      BY NextJobs
    <3>2. CASE Took(k)
      <4>1. released' = released /\ job[k].run \in Runs /\ job'[k].run = job[k].run
        BY <3>2, TakesOwner DEF Took, Takes, Claim
      <4>2. run[job[k].run].status = "waiting_takeover"
        BY <2>3, <3>2 DEF Took
      <4> QED BY <4>1, <4>2 DEF ScreenInv, ReleaseIsNotLost
    <3>3. CASE Leaves(k)
      BY <2>3, <3>3 DEF Leaves
    <3>4. CASE Advances(k) \/ Enters(k)
      <4>1. /\ job[k].phase \in Working /\ job'[k].run = job[k].run /\ job[k].run \in Runs
            /\ run[job[k].run].owner = OwnerOf[k]
            /\ \A i \in Jobs : Takes(i) => job[i].run # job[k].run
        BY <2>3, <3>4, StillOwner
      <4>2. job[k].held
        BY <2>3, <3>4 DEF Advances, Enters, SameJob
      <4>3. ScreenStep(job[k].run)
        BY <2>1, <4>1
      <4> QED BY <2>3, <4>1, <4>2, <4>3 DEF ScreenStep, KeepsScreen, ScreenInv, HeldInv
    <3> QED BY <3>1, <3>2, <3>3, <3>4 DEF JobStep
  <2> QED BY <2>2, <2>3 DEF ScreenInv, HeldInv, ReleaseIsNotLost
<1> QED BY <1>1, <1>2, AlwaysTypeInv, PTL DEF Spec, ScreenInv

-----------------------------------------------------------------------------
(* Admission.                                                               *)

\* The runs whose lease has not run out: a claim adds its own run to the live others.
LEMMA LiveAfterClaim ==
    ASSUME TypeInv, NEW j \in Jobs, Takes(j), NEW S \in SUBSET Runs
    PROVE  /\ ~CapacityFull(job[j].run, BotOf[job[j].run], ThreadOf[job[j].run])
           /\ LiveRuns(S)' \subseteq (LiveOthers(job[j].run) \cap S) \cup {job[j].run}
           /\ briefs' = briefs
<1>1. Claim(j) /\ ~End(j) /\ job[j].run \in Runs
  BY TakesOwner DEF Takes, End, TypeInv, TypeOK, IdleJob
<1>2. /\ ~CapacityFull(job[j].run, BotOf[job[j].run], ThreadOf[job[j].run])
      /\ \A o \in Runs : o # job[j].run => run'[o] = run[o]
      /\ briefs' = briefs
  BY <1>1 DEF Claim, TypeInv, TypeOK
<1> QED BY <1>2 DEF LiveRuns, LiveOthers

\* A set that grows by one element stays within a limit it was below.
LEMMA OneMore ==
    ASSUME NEW S, NEW T, NEW x, NEW n \in Nat, IsFiniteSet(S),
           T \subseteq S \cup {x}, Cardinality(S) < n
    PROVE  Cardinality(T) <= n
<1>1. IsFiniteSet(S \cup {x}) /\ Cardinality(S \cup {x}) <= Cardinality(S) + 1
  <2>1. Cardinality(S) \in Nat
    BY FS_CardinalityType
  <2>2. /\ IsFiniteSet(S \cup {x})
        /\ Cardinality(S \cup {x}) = IF x \in S THEN Cardinality(S) ELSE Cardinality(S) + 1
    BY FS_AddElement
  <2> QED BY <2>1, <2>2
<1>2. IsFiniteSet(T) /\ Cardinality(T) <= Cardinality(S \cup {x})
  BY <1>1, FS_Subset
<1> QED BY <1>1, <1>2, FS_CardinalityType

\* Claims are counted under the bot and thread locks (claimBotRun): a claim never makes a
\* thread exceed its limit of live runs, or a bot its limit of live runs and brief
\* refreshes, however many jobs claim at once.
THEOREM AdmissionHolds == Spec => AdmissionWithinLimits
<1>1. TypeInv /\ [Next]_vars =>
        \A r \in Runs : ClaimedNow(r) /\ run'[r].lease = "live" =>
          /\ Cardinality(LiveRuns({o \in Runs : ThreadOf[o] = ThreadOf[r]})')
               <= ThreadLimit[ThreadOf[r]]
          /\ Cardinality(LiveRuns({o \in Runs : BotOf[o] = BotOf[r]})')
                  + Cardinality({o \in briefs : BotOf[o] = BotOf[r]}')
               <= BotLimit[BotOf[r]]
  <2> SUFFICES ASSUME TypeInv, [Next]_vars, NEW r \in Runs, ClaimedNow(r),
                      run'[r].lease = "live"
               PROVE  /\ Cardinality(LiveRuns({o \in Runs : ThreadOf[o] = ThreadOf[r]})')
                           <= ThreadLimit[ThreadOf[r]]
                      /\ Cardinality(LiveRuns({o \in Runs : BotOf[o] = BotOf[r]})')
                              + Cardinality({o \in briefs : BotOf[o] = BotOf[r]}')
                           <= BotLimit[BotOf[r]]
    OBVIOUS
  <2> DEFINE InThread == {o \in Runs : ThreadOf[o] = ThreadOf[r]}
             OfBot == {o \in Runs : BotOf[o] = BotOf[r]}
             ThreadOthers == {o \in LiveOthers(r) : ThreadOf[o] = ThreadOf[r]}
             BotOthers == {o \in LiveOthers(r) : BotOf[o] = BotOf[r]}
             BotBriefs == {o \in briefs : BotOf[o] = BotOf[r]}
             room == BotLimit[BotOf[r]] - Cardinality(BotBriefs)
  <2>1. PICK j \in Jobs : Takes(j) /\ job[j].run = r
    <3>1. LeaseStep(r)
      BY NextRows DEF RowStep
    <3> QED BY <3>1 DEF LeaseStep, ClaimedNow, SameLease, Resting, TerminalStatuses
  <2>2. /\ ~CapacityFull(r, BotOf[r], ThreadOf[r])
        /\ LiveRuns(InThread)' \subseteq ThreadOthers \cup {r}
        /\ LiveRuns(OfBot)' \subseteq BotOthers \cup {r}
        /\ BotBriefs' = BotBriefs
    BY <2>1, LiveAfterClaim DEF LiveOthers
  <2>3. IsFiniteSet(ThreadOthers) /\ IsFiniteSet(BotOthers) /\ IsFiniteSet(BotBriefs)
    BY FiniteAssumption, FS_Subset DEF LiveOthers, TypeInv, TypeOK
  <2>4. ThreadLimit[ThreadOf[r]] \in Nat /\ BotLimit[BotOf[r]] \in Nat
    BY LimitsAssumption, PlacesAssumption
  <2>5. /\ Cardinality(ThreadOthers) < ThreadLimit[ThreadOf[r]]
        /\ Cardinality(BotOthers) < room /\ room \in Nat
    <3>1. /\ Cardinality(ThreadOthers) \in Nat
          /\ Cardinality(BotOthers) \in Nat
          /\ Cardinality(BotBriefs) \in Nat
      BY <2>3, FS_CardinalityType
    <3>2. /\ ~(Cardinality(ThreadOthers) >= ThreadLimit[ThreadOf[r]])
          /\ ~(Cardinality(BotOthers) + Cardinality(BotBriefs) >= BotLimit[BotOf[r]])
      BY <2>2 DEF CapacityFull
    <3> HIDE DEF ThreadOthers, BotOthers, BotBriefs
    <3> QED BY <2>4, <3>1, <3>2
  <2>6. Cardinality(LiveRuns(InThread)') <= ThreadLimit[ThreadOf[r]]
    BY <2>2, <2>3, <2>4, <2>5, OneMore
  <2>7. Cardinality(LiveRuns(OfBot)') <= room
    <3>1. LiveRuns(OfBot)' \subseteq BotOthers \cup {r}
      BY <2>2
    <3> HIDE DEF room, BotOthers
    <3> QED BY <2>3, <2>5, <3>1, OneMore
  <2>8. IsFiniteSet(LiveRuns(OfBot)')
    BY FiniteAssumption, FS_Subset DEF LiveRuns
  <2>9. Cardinality(LiveRuns(OfBot)') + Cardinality(BotBriefs) <= BotLimit[BotOf[r]]
    BY <2>3, <2>4, <2>7, <2>8, FS_CardinalityType
  <2> QED BY <2>2, <2>6, <2>9
<1> QED BY <1>1, AlwaysTypeInv, PTL DEF Spec, AdmissionWithinLimits
=============================================================================
