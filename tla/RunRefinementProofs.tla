------------------------ MODULE RunRefinementProofs ------------------------
(***************************************************************************)
(* RunLifecycle implements RunPromise: every step of every job, owner and  *)
(* timer is a step of the promise or leaves what it speaks of alone.       *)
(***************************************************************************)
EXTENDS RunLifecycleProofs

\* A row the promise sees no change of.
Quiet(r) ==
    /\ run'[r].cancel = run[r].cancel
    /\ \/ run'[r].status = run[r].status
       \/ isActive(r) /\ run'[r].status \in ActiveStatuses

\* A step that keeps every run open or over, and posts nothing, is a stutter of RunPromise.
LEMMA QuietStutters ==
    ASSUME \A r \in Runs : Quiet(r), replies' = replies
    PROVE  UNCHANGED Promise!promiseVars
<1>1. [r \in Runs |-> IF isActive(r) THEN "open" ELSE run[r].status]'
        = [r \in Runs |-> IF isActive(r) THEN "open" ELSE run[r].status]
  BY DEF Quiet, isActive
<1>2. [r \in Runs |-> run[r].cancel]' = [r \in Runs |-> run[r].cancel]
  BY DEF Quiet
<1> QED BY <1>1, <1>2 DEF Promise!promiseVars

\* Moving one run between active statuses, with its stop request kept, is quiet.
LEMMA QuietUpdate ==
    ASSUME TypeOK, NEW q \in Runs, NEW new, run' = [run EXCEPT ![q] = new],
           new.cancel = run[q].cancel,
           \/ new.status = run[q].status
           \/ isActive(q) /\ new.status \in ActiveStatuses
    PROVE  \A r \in Runs : Quiet(r)
<1> SUFFICES ASSUME NEW r \in Runs PROVE Quiet(r)
  OBVIOUS
<1>1. CASE r = q
  BY <1>1 DEF Quiet, TypeOK
<1>2. CASE r # q
  BY <1>2 DEF Quiet, TypeOK
<1> QED BY <1>1, <1>2

\* Putting a run back is quiet.
LEMMA RequeuedQuiet ==
    ASSUME TypeOK, NEW j \in Jobs, Holds(j),
           run' = [run EXCEPT ![job[j].run] = RequeuedRun(j)]
    PROVE  \A r \in Runs : Quiet(r)
<1> DEFINE q == job[j].run
<1>1. q \in Runs /\ isActive(q)
  BY DEF Holds, isActive, ActiveStatuses
<1>2. RequeuedRun(j).cancel = run[q].cancel /\ RequeuedRun(j).status \in ActiveStatuses
  <2>1. run[q] \in RunType
    BY <1>1 DEF TypeOK
  <2> QED BY <2>1 DEF RequeuedRun, Release, RunType, ActiveStatuses
<1> QED BY <1>1, <1>2, QuietUpdate

\* The owner's steps: admission, stops and clears; the others are not visible.
LEMMA OwnerPromise ==
    ASSUME TypeInv, Owner
    PROVE  [Promise!Next]_(Promise!promiseVars)
<1> USE DEF TypeInv
<1>r. ASSUME NEW q \in Runs PROVE run[q] \in RunType
  BY DEF TypeOK
<1>1. ASSUME NEW q \in Runs, Submit(q) PROVE Promise!Admit(q)
  <2>1. run'[q] = [run[q] EXCEPT !.status = "queued"] /\ run[q].status = "absent"
        /\ \A r \in Runs \ {q} : run'[r] = run[r]
    BY <1>1 DEF Submit, TypeOK
  <2>2. run'[q].status = "queued" /\ run'[q].cancel = run[q].cancel
    BY <2>1, <1>r DEF RunType
  <2>3. ~isActive(q) /\ run'[q].status \in ActiveStatuses
    BY <2>1, <2>2 DEF isActive, ActiveStatuses
  <2>4. [r \in Runs |-> IF isActive(r) THEN "open" ELSE run[r].status]'
          = [[r \in Runs |-> IF isActive(r) THEN "open" ELSE run[r].status]
                EXCEPT ![q] = "open"]
    BY <2>1, <2>3 DEF isActive
  <2>5. [r \in Runs |-> run[r].cancel]' = [r \in Runs |-> run[r].cancel]
    BY <2>1, <2>2
  <2> QED BY <1>1, <2>1, <2>3, <2>4, <2>5 DEF Submit, Promise!Admit
<1>2. ASSUME NEW q \in Runs, AnswerRunInput(q) PROVE UNCHANGED Promise!promiseVars
  <2> DEFINE new == [run[q] EXCEPT !.status = "queued"]
  <2>1. run' = [run EXCEPT ![q] = new] /\ replies' = replies /\ isActive(q)
    BY <1>2 DEF AnswerRunInput, isActive, ActiveStatuses
  <2>2. new.cancel = run[q].cancel /\ new.status \in ActiveStatuses
    BY <1>r DEF RunType, ActiveStatuses
  <2> QED BY <2>1, <2>2, QuietUpdate, QuietStutters
<1>3. ASSUME NEW q \in Runs, Steer(q) PROVE UNCHANGED Promise!promiseVars
  BY <1>3, QuietStutters DEF Steer, Quiet
<1>4. ASSUME NEW q \in Runs, RequestStop(q)
      PROVE  Promise!AskStop({c \in Runs : (c = q \/ Parent[c] = q) /\ isActive(c)})
  <2> DEFINE S == {c \in Runs : (c = q \/ Parent[c] = q) /\ isActive(c)}
  <2>1. ASSUME NEW c \in Runs
        PROVE  /\ run'[c].status = run[c].status
               /\ run'[c].cancel = (run[c].cancel \/ c \in S)
    <3>1. run[c] \in RunType
      BY <1>r
    <3>2. CASE c \in S
      BY <1>4, <3>1, <3>2 DEF RequestStop, RunType
    <3>3. CASE c \notin S
      <4>1. run'[c] = run[c]
        BY <1>4, <3>3 DEF RequestStop
      <4>2. run[c].cancel \in BOOLEAN
        BY <3>1 DEF RunType
      <4> QED BY <4>1, <4>2, <3>3
    <3> QED BY <3>2, <3>3
  <2>2. [r \in Runs |-> IF isActive(r) THEN "open" ELSE run[r].status]'
          = [r \in Runs |-> IF isActive(r) THEN "open" ELSE run[r].status]
    BY <2>1 DEF isActive
  <2>3. [r \in Runs |-> run[r].cancel]'
          = [r \in Runs |-> [c \in Runs |-> run[c].cancel][r] \/ r \in S]
    BY <2>1
  <2> QED BY <1>4, <2>2, <2>3 DEF RequestStop, Promise!AskStop
<1>5. ASSUME NEW k \in Computers, NEW c \in Checkpoints, ReleaseScreen(k, c)
      PROVE  UNCHANGED Promise!promiseVars
  <2> DEFINE q == control[k].run
  <2>1. CASE q \in Runs /\ run[q].status = "waiting_takeover"
    <3> DEFINE new == [run[q] EXCEPT !.status = "queued", !.checkpoint = c]
    <3>1. run' = [run EXCEPT ![q] = new] /\ replies' = replies /\ isActive(q)
      BY <1>5, <2>1 DEF ReleaseScreen, isActive, ActiveStatuses, TypeOK
    <3>2. new.cancel = run[q].cancel /\ new.status \in ActiveStatuses
      BY <1>r, <2>1 DEF RunType, ActiveStatuses
    <3> HIDE DEF new
    <3> QED BY <2>1, <3>1, <3>2, QuietUpdate, QuietStutters
  <2>2. CASE q \in Runs /\ run[q].status \in {"leased", "running"}
    <3> DEFINE new == [run[q] EXCEPT !.checkpoint = c]
    <3>1. run' = [run EXCEPT ![q] = new] /\ replies' = replies
      BY <1>5, <2>2 DEF ReleaseScreen
    <3>2. new.cancel = run[q].cancel /\ new.status = run[q].status
      BY <1>r, <2>2 DEF RunType
    <3> HIDE DEF new
    <3> QED BY <2>2, <3>1, <3>2, QuietUpdate, QuietStutters
  <2>3. CASE q \in Runs => run[q].status \notin {"waiting_takeover", "leased", "running"}
    BY <1>5, <2>3, QuietStutters DEF ReleaseScreen, Quiet
  <2> QED BY <2>1, <2>2, <2>3
<1>6. ASSUME NEW t \in Threads, ClearThread(t)
      PROVE  Promise!Cancel({r \in Runs : ThreadOf[r] = t /\ isActive(r)})
  <2> DEFINE S == {r \in Runs : ThreadOf[r] = t /\ isActive(r)}
  <2>1. ASSUME NEW r \in Runs
        PROVE  /\ run'[r].cancel = run[r].cancel
               /\ r \in S => run'[r].status = "cancelled"
               /\ r \notin S => run'[r].status = run[r].status
    BY <1>6, ReleaseFields DEF ClearThread
  <2>2. [r \in Runs |-> IF isActive(r) THEN "open" ELSE run[r].status]'
          = [r \in Runs |-> IF r \in S THEN "cancelled"
                ELSE [c \in Runs |-> IF isActive(c) THEN "open" ELSE run[c].status][r]]
    BY <2>1 DEF isActive, ActiveStatuses
  <2>3. [r \in Runs |-> run[r].cancel]' = [r \in Runs |-> run[r].cancel]
    BY <2>1
  <2> QED BY <1>6, <2>2, <2>3 DEF ClearThread, Promise!Cancel
<1>7. ASSUME NEW q \in Runs, Promise!Admit(q) PROVE Promise!Next
  BY <1>7 DEF Promise!Next
<1>8. ASSUME NEW q \in Runs, RequestStop(q) PROVE Promise!Next
  <2> DEFINE S == {c \in Runs : (c = q \/ Parent[c] = q) /\ isActive(c)}
  <2>1. S \in SUBSET Runs
    OBVIOUS
  <2>2. PICK T \in SUBSET Runs : T = S
    BY <2>1
  <2>3. Promise!AskStop(T)
    BY <1>8, <1>4, <2>2 DEF Promise!AskStop
  <2> QED BY <2>3 DEF Promise!Next
<1>9. ASSUME NEW t \in Threads, ClearThread(t) PROVE Promise!Next
  <2> DEFINE S == {r \in Runs : ThreadOf[r] = t /\ isActive(r)}
  <2>1. S \in SUBSET Runs
    OBVIOUS
  <2>2. PICK T \in SUBSET Runs : T = S
    BY <2>1
  <2>3. Promise!Cancel(T)
    BY <1>9, <1>6, <2>2 DEF Promise!Cancel
  <2> QED BY <2>3 DEF Promise!Next
<1>10. ASSUME NEW t \in Threads, StopThread(t) PROVE Promise!Next
  <2> DEFINE S == {r \in Runs : ThreadOf[r] = t /\ isActive(r)}
  <2>1. ASSUME NEW r \in Runs
        PROVE  /\ run'[r].cancel = run[r].cancel
               /\ r \in S => run'[r].status = "cancelled"
               /\ r \notin S => run'[r].status = run[r].status
    <3>1. CASE r \in S
      <4>1. run'[r] = [run[r] EXCEPT !.status = "cancelled"]
        BY <1>10, <3>1 DEF StopThread
      <4> QED BY <1>r, <3>1, <4>1 DEF RunType
    <3>2. CASE r \notin S
      BY <1>10, <3>2 DEF StopThread
    <3> QED BY <3>1, <3>2
  <2>2. [r \in Runs |-> IF isActive(r) THEN "open" ELSE run[r].status]'
          = [r \in Runs |-> IF r \in S THEN "cancelled"
                ELSE [c \in Runs |-> IF isActive(c) THEN "open" ELSE run[c].status][r]]
    BY <2>1 DEF isActive, ActiveStatuses
  <2>3. [r \in Runs |-> run[r].cancel]' = [r \in Runs |-> run[r].cancel]
    BY <2>1
  <2>4. PICK T \in SUBSET Runs : T = S
    OBVIOUS
  <2>5. Promise!Cancel(T)
    BY <1>10, <2>2, <2>3, <2>4 DEF StopThread, Promise!Cancel
  <2> QED BY <2>5 DEF Promise!Next
<1>11. CASE run' = run /\ replies' = replies
  BY <1>11, QuietStutters DEF Quiet
<1> QED BY <1>1, <1>2, <1>3, <1>5, <1>7, <1>8, <1>9, <1>10, <1>11
        DEF Owner, GrantScreen, ResetControl

\* The confirmation of a stop is a cancellation of RunPromise, or a stutter.
LEMMA ConfirmPromise ==
    ASSUME TypeOK, NEW q \in Runs, confirmDispatchStop(q), replies' = replies
    PROVE  [Promise!Next]_(Promise!promiseVars)
<1>1. CASE CanConfirm(q)
  <2> DEFINE S == {q}
  <2>1. ASSUME NEW r \in Runs
        PROVE  /\ run'[r].cancel = run[r].cancel
               /\ r = q => run'[r].status = "cancelled"
               /\ r # q => run'[r].status = run[r].status
    <3>1. run[r] \in RunType
      BY DEF TypeOK
    <3>2. CASE r = q
      <4>1. run'[r] = [Release(r, "cancelled") EXCEPT !.confirmed = TRUE]
        BY <1>1, <3>2 DEF confirmDispatchStop, TypeOK
      <4> QED BY <4>1, <3>1, <3>2 DEF Release, RunType
    <3>3. CASE r # q
      BY <1>1, <3>3 DEF confirmDispatchStop, TypeOK
    <3> QED BY <3>2, <3>3
  <2>2. [r \in Runs |-> IF isActive(r) THEN "open" ELSE run[r].status]'
          = [r \in Runs |-> IF r \in S THEN "cancelled"
                ELSE [c \in Runs |-> IF isActive(c) THEN "open" ELSE run[c].status][r]]
    BY <2>1 DEF isActive, ActiveStatuses
  <2>3. [r \in Runs |-> run[r].cancel]' = [r \in Runs |-> run[r].cancel]
    BY <2>1
  <2>4. isActive(q)
    BY <1>1 DEF CanConfirm
  <2>5. Promise!Cancel(S) /\ S \in SUBSET Runs
    BY <2>2, <2>3, <2>4 DEF Promise!Cancel
  <2> HIDE DEF S
  <2> QED BY <2>5 DEF Promise!Next
<1>2. CASE ~CanConfirm(q)
  BY <1>2, QuietStutters DEF confirmDispatchStop, Quiet
<1> QED BY <1>1, <1>2

\* What a job does before its turn implements RunPromise.
LEMMA SetupPromise ==
    ASSUME TypeInv, NEW j \in Jobs, Setup(j)
    PROVE  [Promise!Next]_(Promise!promiseVars)
<1> USE DEF TypeInv
<1> DEFINE q == job[j].run
<1>b. job[j].phase # "idle" => q \in Runs
  BY DEF BusyHasRun
<1>r. q \in Runs => run[q] \in RunType
  BY DEF TypeOK
<1>0. replies' = replies
  BY DEF Setup, Observe, ConfirmBeforeClaim, RemoteStopFails, Claim, ReadCurrent, MarkRunning,
         PlacementFails, ComputerBusy, BeginAttempt, StopAtGate, EnterTurn, SetupFails
<1>1. CASE run' = run
  BY <1>0, <1>1, QuietStutters DEF Quiet
<1>2. CASE ConfirmBeforeClaim(j)
  BY <1>0, <1>2, <1>b, ConfirmPromise DEF ConfirmBeforeClaim
<1>3. CASE Claim(j) /\ run' # run
  <2> DEFINE new == [run[q] EXCEPT !.status = "leased", !.owner = OwnerOf[j],
                        !.fence = job[j].fence, !.lease = "live",
                        !.checkpoint = NoCheckpoint]
  <2>1. q \in Runs
    BY <1>3, <1>b DEF Claim
  <2>2. run' = [run EXCEPT ![q] = new]
    BY <1>3 DEF Claim
  <2>3. isActive(q)
    BY <1>3 DEF Claim, ClaimMatches, isActive, ActiveStatuses
  <2>4. new.cancel = run[q].cancel /\ new.status \in ActiveStatuses
    BY <2>1, <1>r DEF RunType, ActiveStatuses
  <2> HIDE DEF new
  <2> QED BY <1>0, <2>1, <2>2, <2>3, <2>4, QuietUpdate, QuietStutters
<1>4. CASE MarkRunning(j) /\ run' # run
  <2> DEFINE new == [run[q] EXCEPT !.status = "running", !.started = TRUE]
  <2>1. q \in Runs /\ isActive(q)
    BY <1>4, <1>b DEF MarkRunning, isActive, ActiveStatuses
  <2>2. run' = [run EXCEPT ![q] = new]
    BY <1>4, <2>1 DEF MarkRunning, TypeOK
  <2>3. new.cancel = run[q].cancel /\ new.status \in ActiveStatuses
    BY <2>1, <1>r DEF RunType, ActiveStatuses
  <2> HIDE DEF new
  <2> QED BY <1>0, <2>1, <2>2, <2>3, QuietUpdate, QuietStutters
<1>5. CASE PlacementFails(j) /\ run' # run
  <2> DEFINE new == [run[q] EXCEPT !.lease = "live"]
  <2>1. q \in Runs /\ run' = [run EXCEPT ![q] = new]
    BY <1>5, <1>b DEF PlacementFails
  <2>2. new.cancel = run[q].cancel /\ new.status = run[q].status
    BY <2>1, <1>r DEF RunType
  <2> HIDE DEF new
  <2> QED BY <1>0, <2>1, <2>2, QuietUpdate, QuietStutters
<1>6. CASE (ComputerBusy(j) \/ SetupFails(j)) /\ run' # run
  BY <1>0, <1>6, RequeuedQuiet, QuietStutters DEF ComputerBusy, SetupFails
<1>7. CASE StopAtGate(j) /\ run' # run
  BY <1>0, <1>7, <1>b, ConfirmPromise DEF StopAtGate
<1> QED BY <1>1, <1>2, <1>3, <1>4, <1>5, <1>6, <1>7
        DEF Setup, Observe, RemoteStopFails, ReadCurrent, BeginAttempt, EnterTurn

\* What a job does from its turn on implements RunPromise.
LEMMA TurnPromise ==
    ASSUME TypeInv, NEW j \in Jobs,
           RenewLease(j) \/ LoseLease(j) \/ EndTurn(j) \/ Unwind(j) \/ Crash(j)
    PROVE  [Promise!Next]_(Promise!promiseVars)
<1> USE DEF TypeInv
<1> DEFINE q == job[j].run
<1>b. job[j].phase # "idle" => q \in Runs
  BY DEF BusyHasRun
<1>r. q \in Runs => run[q] \in RunType
  BY DEF TypeOK
<1>h. Holds(j) => q \in Runs /\ isActive(q)
  BY DEF Holds, isActive, ActiveStatuses
<1>1. CASE run' = run /\ replies' = replies
  BY <1>1, QuietStutters DEF Quiet
<1>2. CASE RenewLease(j)
  <2> DEFINE new == [run[q] EXCEPT !.lease = "live"]
  <2>1. q \in Runs /\ run' = [run EXCEPT ![q] = new] /\ replies' = replies
    BY <1>2, <1>h DEF RenewLease
  <2>2. new.cancel = run[q].cancel /\ new.status = run[q].status
    BY <2>1, <1>r DEF RunType
  <2> HIDE DEF new
  <2> QED BY <2>1, <2>2, QuietUpdate, QuietStutters
<1>3. ASSUME NEW outcome \in {"completed", "failed"}, FinalizeRun(j, outcome), run' # run
      PROVE  Promise!End(q, outcome) /\ q \in Runs
  <2>1. CanFinalize(j) /\ run' = [run EXCEPT ![q] = Release(q, outcome)]
        /\ replies' = [replies EXCEPT ![q] = IF outcome = "completed" THEN @ + 1 ELSE @]
    BY <1>3 DEF FinalizeRun
  <2>2. q \in Runs /\ isActive(q) /\ ~run[q].cancel
    BY <2>1, <1>h DEF CanFinalize
  <2>3. ASSUME NEW r \in Runs
        PROVE  /\ run'[r].cancel = run[r].cancel
               /\ r = q => run'[r].status = outcome
               /\ r # q => run'[r].status = run[r].status
    BY <2>1, <2>2, ReleaseFields DEF TypeOK
  <2>4. [r \in Runs |-> IF isActive(r) THEN "open" ELSE run[r].status]'
          = [[r \in Runs |-> IF isActive(r) THEN "open" ELSE run[r].status]
                EXCEPT ![q] = outcome]
    BY <2>3 DEF isActive, ActiveStatuses
  <2>5. [r \in Runs |-> run[r].cancel]' = [r \in Runs |-> run[r].cancel]
    BY <2>3
  <2> QED BY <2>1, <2>2, <2>4, <2>5 DEF Promise!End
<1>4. ASSUME NEW outcome \in {"completed", "failed"}, FinalizeRun(j, outcome)
      PROVE  [Promise!Next]_(Promise!promiseVars)
  <2>1. CASE run' # run
    <3>1. Promise!End(q, outcome) /\ q \in Runs
      BY <1>4, <2>1, <1>3
    <3> HIDE DEF q
    <3> QED BY <3>1 DEF Promise!Next
  <2>2. CASE run' = run
    <3>1. ~CanFinalize(j)
      <4> SUFFICES ASSUME CanFinalize(j) PROVE FALSE
        OBVIOUS
      <4>1. q \in Runs /\ run[q].status = "running"
        BY DEF CanFinalize, Holds
      <4>2. run'[q].status = outcome
        BY <1>4, <4>1, ReleaseFields DEF FinalizeRun, TypeOK
      <4> QED BY <2>2, <4>1, <4>2
    <3> QED BY <1>1, <1>4, <3>1 DEF FinalizeRun
  <2> QED BY <2>1, <2>2
<1>5. CASE PauseRunForInput(j)
  <2>1. q \in Runs /\ isActive(q) /\ replies' = replies
        /\ run' = [run EXCEPT ![q] = Release(q, "waiting_input")]
    BY <1>5, <1>h DEF PauseRunForInput
  <2>2. /\ Release(q, "waiting_input").cancel = run[q].cancel
        /\ Release(q, "waiting_input").status \in ActiveStatuses
    BY <2>1, ReleaseFields DEF ActiveStatuses
  <2> QED BY <2>1, <2>2, QuietUpdate, QuietStutters
<1>6. CASE PauseRunForTakeover(j)
  <2> DEFINE new == [Release(q, "waiting_takeover") EXCEPT !.checkpoint = NoCheckpoint]
  <2>1. q \in Runs /\ isActive(q) /\ replies' = replies /\ run' = [run EXCEPT ![q] = new]
    BY <1>6, <1>h DEF PauseRunForTakeover
  <2>2. new.cancel = run[q].cancel /\ new.status \in ActiveStatuses
    BY <2>1, <1>r DEF Release, RunType, ActiveStatuses
  <2> HIDE DEF new
  <2> QED BY <2>1, <2>2, QuietUpdate, QuietStutters
<1>7. CASE ProviderRetry(j)
  BY <1>7, RequeuedQuiet, QuietStutters DEF ProviderRetry
<1>8. CASE SuspendTurn(j)
  <2> DEFINE new == [run[q] EXCEPT !.owner = NoOwner, !.lease = "expired"]
  <2>1. q \in Runs /\ run' = [run EXCEPT ![q] = new] /\ replies' = replies
    BY <1>8, <1>h DEF SuspendTurn, TypeOK
  <2>2. new.cancel = run[q].cancel /\ new.status = run[q].status
    BY <2>1, <1>r DEF RunType
  <2> HIDE DEF new
  <2> QED BY <2>1, <2>2, QuietUpdate, QuietStutters
<1>9. CASE RecordRetry(j)
  <2> DEFINE new == [run[q] EXCEPT !.retries = @ + 1]
  <2>1. q \in Runs /\ run' = [run EXCEPT ![q] = new] /\ replies' = replies
    BY <1>9, <1>b DEF RecordRetry
  <2>2. new.cancel = run[q].cancel /\ new.status = run[q].status
    BY <2>1, <1>r DEF RunType
  <2> HIDE DEF new
  <2> QED BY <2>1, <2>2, QuietUpdate, QuietStutters
<1>10. CASE ConfirmAfterUnwind(j)
  BY <1>10, <1>b, ConfirmPromise DEF ConfirmAfterUnwind
<1> QED BY <1>1, <1>2, <1>4, <1>5, <1>6, <1>7, <1>8, <1>9, <1>10
        DEF EndTurn, LoseLease, AbandonTurn, Unwind, Cleanup, Crash

\* Drain, time and reconciler implement RunPromise.
LEMMA SystemPromise ==
    ASSUME TypeInv, System
    PROVE  [Promise!Next]_(Promise!promiseVars)
<1>1. ASSUME NEW q \in Runs, ExpireLease(q) PROVE UNCHANGED Promise!promiseVars
  <2> DEFINE new == [run[q] EXCEPT !.lease = "expired"]
  <2>1. TypeOK /\ run[q] \in RunType
    BY DEF TypeInv, TypeOK
  <2>2. run' = [run EXCEPT ![q] = new] /\ replies' = replies
    BY <1>1 DEF ExpireLease
  <2>3. new.cancel = run[q].cancel /\ new.status = run[q].status
    BY <2>1 DEF RunType
  <2> HIDE DEF new
  <2> QED BY <2>1, <2>2, <2>3, QuietUpdate, QuietStutters
<1>2. CASE run' = run /\ replies' = replies
  BY <1>2, QuietStutters DEF Quiet
<1> QED BY <1>1, <1>2 DEF System, BeginDrain, ClearDrain, Reconcile, RefreshBrief, EndBrief

\* Every step implements RunPromise.
LEMMA NextPromise ==
    ASSUME TypeInv, [Next]_vars
    PROVE  [Promise!Next]_(Promise!promiseVars)
<1>1. CASE UNCHANGED vars
  BY <1>1, QuietStutters DEF Quiet, vars
<1>2. CASE Next
  BY <1>2, OwnerPromise, SystemPromise, SetupPromise, TurnPromise DEF Next
<1> QED BY <1>1, <1>2

\* The first state is one of RunPromise.
LEMMA InitPromise == Init => Promise!Init
BY DEF Init, AbsentRun, isActive, ActiveStatuses, Promise!Init

\* The run table keeps the promise (KeepsPromise): for any number of runs, jobs and
\* processes, however jobs crash, overlap and write late, a run ends at most once,
\* only a run nobody asked to stop completes or fails, and what has ended stays
\* ended (finalizeRun, confirmDispatchStop, clearThread).
THEOREM Refines == Spec => KeepsPromise
<1>1. TypeInv /\ [Next]_vars => [Promise!Next]_(Promise!promiseVars)
  BY NextPromise
<1> QED BY <1>1, InitPromise, AlwaysTypeInv, PTL DEF Spec, KeepsPromise, Promise!Spec

\* A step of the promise keeps replies in step with completions.
LEMMA PromiseReplies ==
    ASSUME TypeInv, OneReply, [Promise!Next]_(Promise!promiseVars)
    PROVE  OneReply'
<1> DEFINE st == [r \in Runs |-> IF isActive(r) THEN "open" ELSE run[r].status]
<1> DEFINE sp == [r \in Runs |-> run[r].cancel]
<1>1. replies \in [Runs -> Nat]
  BY DEF TypeInv, TypeOK
<1>2. st = [r \in Runs |-> st[r]]
  OBVIOUS
<1>3. \A r \in Runs : replies[r] = IF st[r] = "completed" THEN 1 ELSE 0
  BY DEF OneReply, Promise!ReplyIffCompleted
<1>4. SUFFICES \A r \in Runs : replies'[r] = IF st'[r] = "completed" THEN 1 ELSE 0
  BY DEF OneReply, Promise!ReplyIffCompleted
<1>5. CASE UNCHANGED Promise!promiseVars
  BY <1>3, <1>5 DEF Promise!promiseVars
<1>6. ASSUME NEW q \in Runs, Promise!Admit(q)
      PROVE  \A r \in Runs : replies'[r] = IF st'[r] = "completed" THEN 1 ELSE 0
  <2>1. st[q] = "absent" /\ st' = [st EXCEPT ![q] = "open"] /\ replies' = replies
    BY <1>6 DEF Promise!Admit
  <2> HIDE DEF st
  <2> QED BY <1>2, <1>3, <2>1
<1>7. ASSUME NEW q \in Runs, NEW outcome \in {"completed", "failed"}, Promise!End(q, outcome)
      PROVE  \A r \in Runs : replies'[r] = IF st'[r] = "completed" THEN 1 ELSE 0
  <2>1. /\ st[q] = "open" /\ st' = [st EXCEPT ![q] = outcome]
        /\ replies' = [replies EXCEPT ![q] = IF outcome = "completed" THEN @ + 1 ELSE @]
    BY <1>7 DEF Promise!End
  <2> HIDE DEF st
  <2> QED BY <1>1, <1>2, <1>3, <2>1
<1>8. ASSUME NEW S \in SUBSET Runs, Promise!AskStop(S)
      PROVE  \A r \in Runs : replies'[r] = IF st'[r] = "completed" THEN 1 ELSE 0
  <2>1. st' = st /\ replies' = replies
    BY <1>8 DEF Promise!AskStop
  <2> HIDE DEF st
  <2> QED BY <1>3, <2>1
<1>9. ASSUME NEW S \in SUBSET Runs, Promise!Cancel(S)
      PROVE  \A r \in Runs : replies'[r] = IF st'[r] = "completed" THEN 1 ELSE 0
  <2>1. /\ \A r \in S : st[r] = "open"
        /\ st' = [r \in Runs |-> IF r \in S THEN "cancelled" ELSE st[r]]
        /\ replies' = replies
    BY <1>9 DEF Promise!Cancel
  <2> HIDE DEF st
  <2> QED BY <1>3, <2>1
<1> QED BY <1>5, <1>6, <1>7, <1>8, <1>9 DEF Promise!Next

\* A run posts its final reply exactly when it completes (OneReply): however often a
\* run is claimed, retried and finalized, by however many workers, its reply appears
\* once, and never for a run that failed, was stopped or was cleared (finalizeRun).
THEOREM OneReplyEach == Spec => []OneReply
<1>1. Init => OneReply
  BY InitPromise DEF Promise!Init, OneReply, Promise!ReplyIffCompleted
<1>2. TypeInv /\ OneReply /\ [Next]_vars => OneReply'
  BY NextPromise, PromiseReplies
<1> QED BY <1>1, <1>2, AlwaysTypeInv, PTL DEF Spec
=============================================================================
