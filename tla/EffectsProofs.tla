---------------------------- MODULE EffectsProofs ---------------------------
(***************************************************************************)
(* Effects proved for any calls, workers and bounds: a consequential       *)
(* action is performed at most once, and never after it was denied, but    *)
(* for the calls an answer was written over.  No guard compares a lease at *)
(* the dispatch, so the invariant is about claims: a row that can be       *)
(* claimed is of a call nobody performed and nobody is about to perform,   *)
(* and at most one worker is about to perform a call.                      *)
(***************************************************************************)
EXTENDS Effects, TLAPS

\* The statuses of a row that nobody claimed.
Unclaimed == {"absent", "intended", "approved", "denied"}
Acting == {"begun", "gate", "ready", "dispatch", "performed"}

\* The phases of a worker that is past the gate and has not performed its call.
Cleared == {"ready", "dispatch"}

\* The consequential calls whose claim no answer was written over.
Strict == Consequential \ overtaken

\* A call that can still be claimed, or was denied, was not performed.
Fresh == \A c \in Strict : effect[c] \in Unclaimed => done[c] = 0

\* A worker in a call knows which.
Named(k) == k.phase \in Acting => k.call \in Calls

\* The worker that may dispatch a call claimed its row, and nobody performed it.
Entitled(w) ==
    worker[w].phase \in Cleared /\ worker[w].call \in Strict
        => effect[worker[w].call] \notin Unclaimed /\ done[worker[w].call] = 0

\* No other worker may dispatch it.
Sole ==
    \A v, w \in Workers :
        /\ v # w
        /\ worker[v].phase \in Cleared /\ worker[w].phase \in Cleared
        /\ worker[v].call = worker[w].call
        => worker[v].call \notin Strict

IInv ==
    /\ TypeOK
    /\ \A w \in Workers : Named(worker[w]) /\ Entitled(w)
    /\ Sole /\ Fresh /\ AtMostOnce

-----------------------------------------------------------------------------
(* Types.                                                                   *)

\* The worker that does nothing has the type of a worker.
LEMMA IdleType == Idle \in WorkerType /\ Named(Idle)
BY CallsAssumption DEF Idle, WorkerType, Named, Acting, Phases, Status, RunStatus, Receipts, NoReceipts

\* A worker that becomes k leaves the others alone.
LEMMA BecomesType ==
    ASSUME NEW w \in Workers, NEW k \in WorkerType, worker \in [Workers -> WorkerType],
           Becomes(w, k)
    PROVE  /\ worker' \in [Workers -> WorkerType]
           /\ worker'[w] = k
           /\ \A v \in Workers : v # w => worker'[v] = worker[v]
BY DEF Becomes

\* A step of a worker to another phase keeps its type.
LEMMA AtType ==
    ASSUME NEW w \in Workers, worker \in [Workers -> WorkerType], NEW p \in Phases
    PROVE  At(w, p) \in WorkerType /\ At(w, p).phase = p /\ At(w, p).call = worker[w].call
BY DEF At, WorkerType

\* The end of a call keeps the type of the worker.
LEMMA OverType ==
    ASSUME NEW w \in Workers, worker \in [Workers -> WorkerType], NEW b \in BOOLEAN
    PROVE  Over(w, b) \in WorkerType /\ Over(w, b).phase = "turn"
<1> DEFINE r == worker[w].receipts
           q == IF b THEN [r EXCEPT ![worker[w].call] = "completed"] ELSE r
<1>1. worker[w] \in WorkerType
  OBVIOUS
<1>2. r \in Receipts
  BY <1>1 DEF WorkerType
<1>3. q \in Receipts
  BY <1>2 DEF Receipts
<1>4. Over(w, b) = [worker[w] EXCEPT !.phase = "turn", !.call = None, !.seen = "absent",
                                     !.claimed = FALSE, !.receipts = q]
  BY <1>1 DEF Over, WorkerType
<1> HIDE DEF q, r
<1> QED
  BY <1>1, <1>3, <1>4 DEF WorkerType, Phases, Status

-----------------------------------------------------------------------------
(* Steps that perform nothing and make no row claimable.                    *)

\* Worker v is not about to dispatch a call, or was so before.
Unhurried(v) ==
    /\ Named(worker'[v])
    /\ worker'[v].phase \in Cleared
           => worker[v].phase \in Cleared /\ worker'[v].call = worker[v].call

\* The invariant but for the types survives a step that performs nothing, opens no row (but
\* those it notes as overtaken) and hurries nobody.
LEMMA QuietStep ==
    ASSUME IInv, TypeOK', done' = done, overtaken \subseteq overtaken',
           \A c \in Strict' : effect'[c] \in Unclaimed => effect[c] \in Unclaimed,
           \A v \in Workers : Unhurried(v)
    PROVE  IInv'
<1>1. Strict' \subseteq Strict
  BY DEF Strict
<1>2. Fresh'
  BY <1>1 DEF IInv, Fresh
<1>3. AtMostOnce'
  BY DEF IInv, AtMostOnce
<1>4. ASSUME NEW v \in Workers
      PROVE  (Named(worker[v]) /\ Entitled(v))'
  <2>1. Named(worker'[v])
    BY DEF Unhurried
  <2>2. Entitled(v)'
    <3> SUFFICES ASSUME worker'[v].phase \in Cleared, worker'[v].call \in Strict'
                 PROVE  effect'[worker'[v].call] \notin Unclaimed /\ done'[worker'[v].call] = 0
      BY DEF Entitled
    <3>1. worker[v].phase \in Cleared /\ worker'[v].call = worker[v].call
      BY DEF Unhurried
    <3>2. effect[worker[v].call] \notin Unclaimed /\ done[worker[v].call] = 0
      BY <1>1, <3>1 DEF IInv, Entitled
    <3> QED
      BY <3>1, <3>2
  <2> QED
    BY <2>1, <2>2
<1>5. Sole'
  <2> SUFFICES ASSUME NEW v \in Workers, NEW w \in Workers, v # w,
                      worker'[v].phase \in Cleared, worker'[w].phase \in Cleared,
                      worker'[v].call = worker'[w].call
               PROVE  worker'[v].call \notin Strict'
    BY DEF Sole
  <2>1. /\ worker[v].phase \in Cleared /\ worker'[v].call = worker[v].call
        /\ worker[w].phase \in Cleared /\ worker'[w].call = worker[w].call
    BY DEF Unhurried
  <2> QED
    BY <1>1, <2>1 DEF IInv, Sole
<1> QED
  BY <1>2, <1>3, <1>4, <1>5 DEF IInv

\* The same, when one worker moves.
LEMMA QuietWorker ==
    ASSUME IInv, NEW w \in Workers, NEW k \in WorkerType, Becomes(w, k), Named(k),
           k.phase \in Cleared => worker[w].phase \in Cleared /\ k.call = worker[w].call,
           run' \in RunType, effect' \in [Calls -> Status], UNCHANGED <<answer, observers>>,
           card' \in Calls \cup {"check", None},
           \A c \in Consequential : effect'[c] \in Unclaimed => effect[c] \in Unclaimed
    PROVE  IInv'
<1>1. TypeOK /\ done' = done /\ overtaken' = overtaken
  BY DEF IInv, observers
<1>2. /\ worker' \in [Workers -> WorkerType]
      /\ worker'[w] = k
      /\ \A v \in Workers : v # w => worker'[v] = worker[v]
  BY <1>1, BecomesType DEF TypeOK
<1>3. TypeOK'
  BY <1>1, <1>2 DEF TypeOK
<1>4. ASSUME NEW v \in Workers
      PROVE  Unhurried(v)
  BY <1>2 DEF IInv, Unhurried
<1>5. \A c \in Strict' : effect'[c] \in Unclaimed => effect[c] \in Unclaimed
  BY DEF Strict
<1> QED
  BY <1>1, <1>3, <1>4, <1>5, QuietStep

\* The same, when the run does not move.
LEMMA QuietMove ==
    ASSUME IInv, NEW w \in Workers, NEW k \in WorkerType, Becomes(w, k), Named(k),
           k.phase \in Cleared => worker[w].phase \in Cleared /\ k.call = worker[w].call,
           effect' \in [Calls -> Status], UNCHANGED <<run, card, answer, observers>>,
           \A c \in Consequential : effect'[c] \in Unclaimed => effect[c] \in Unclaimed
    PROVE  IInv'
<1>1. run' \in RunType /\ card' \in Calls \cup {"check", None} /\ UNCHANGED <<answer, observers>>
  BY DEF IInv, TypeOK
<1> QED
  BY <1>1, QuietWorker

\* The same, when no row is touched.
LEMMA QuietRun ==
    ASSUME IInv, NEW w \in Workers, NEW k \in WorkerType, Becomes(w, k), Named(k),
           k.phase \in Cleared => worker[w].phase \in Cleared /\ k.call = worker[w].call,
           run' \in RunType, UNCHANGED <<effect, card, answer, observers>>
    PROVE  IInv'
<1>1. effect' \in [Calls -> Status] /\ card' \in Calls \cup {"check", None}
      /\ UNCHANGED <<answer, observers>>
  BY DEF IInv, TypeOK
<1>2. \A c \in Consequential : effect'[c] \in Unclaimed => effect[c] \in Unclaimed
  OBVIOUS
<1> QED
  BY <1>1, <1>2, QuietWorker

\* The same, when no worker moves and no row is opened.
LEMMA StillStep ==
    ASSUME IInv, TypeOK', UNCHANGED <<worker, observers>>,
           \A c \in Consequential : effect'[c] \in Unclaimed => effect[c] \in Unclaimed
    PROVE  IInv'
<1>1. done' = done /\ overtaken' = overtaken /\ worker' = worker
  BY DEF observers
<1>2. \A c \in Strict' : effect'[c] \in Unclaimed => effect[c] \in Unclaimed
  BY DEF Strict
<1>3. \A v \in Workers : Unhurried(v)
  BY <1>1 DEF IInv, Unhurried
<1> QED
  BY <1>1, <1>2, <1>3, QuietStep

-----------------------------------------------------------------------------
(* The run and its lease.                                                   *)

\* Saving the turn keeps the type of the run.
LEMMA SaveFacts ==
    ASSUME run \in RunType, NEW r \in Receipts, NEW b \in BOOLEAN, Save(r, b)
    PROVE  run' \in RunType
<1> DEFINE s == [receipts |-> r, suspended |-> b]
<1>1. s \in Checkpoint \cup {None}
  BY DEF Checkpoint
<1>2. run' = [run EXCEPT !.saved = s]
  BY DEF Save
<1> HIDE DEF s
<1> QED
  BY <1>1, <1>2 DEF RunType

\* The receipts a run is resumed with are receipts.
LEMMA ResumedType ==
    ASSUME TypeOK
    PROVE  Resumed \in Receipts
<1>1. CASE run.saved # None /\ (run.saved.suspended \/ run.status = "running")
  <2>1. run.saved \in Checkpoint
    BY <1>1 DEF TypeOK, RunType
  <2>2. run.saved.receipts \in Receipts
    BY <2>1 DEF Checkpoint
  <2> QED
    BY <1>1, <2>2 DEF Resumed
<1>2. CASE ~(run.saved # None /\ (run.saved.suspended \/ run.status = "running"))
  <2>1. NoReceipts \in Receipts
    BY DEF NoReceipts, Receipts
  <2> QED
    BY <1>2, <2>1 DEF Resumed
<1> QED
  BY <1>1, <1>2

\* continueRun's steps outside a call keep the invariant.
LEMMA TurnStep ==
    ASSUME IInv, NEW w \in Workers, Turn(w)
    PROVE  IInv'
<1>t. TypeOK /\ run \in RunType /\ worker[w] \in WorkerType /\ worker \in [Workers -> WorkerType]
  BY DEF IInv, TypeOK
<1>n. Named(worker[w])
  BY DEF IInv
<1>i. Idle \in WorkerType /\ Named(Idle) /\ Idle.phase \notin Cleared
  BY IdleType DEF Idle, Cleared
<1>1. CASE ReadRun(w)
  <2> DEFINE k == [Idle EXCEPT !.phase = "read", !.seen = run.status, !.receipts = Resumed,
                               !.left = {c \in Calls : Resumed[c] # "none"}]
  <2>1. Resumed \in Receipts /\ run.status \in RunStatus
    BY <1>t, ResumedType DEF RunType
  <2>2. {c \in Calls : Resumed[c] # "none"} \in SUBSET Calls
    OBVIOUS
  <2>3. k \in WorkerType /\ k.phase = "read"
    BY <1>i, <2>1, <2>2 DEF WorkerType, Phases
  <2>4. Becomes(w, k) /\ UNCHANGED <<run, effect, card, answer, observers>>
    BY <1>1 DEF ReadRun
  <2>5. Named(k) /\ k.phase \notin Cleared
    BY <2>3 DEF Named, Acting, Cleared
  <2> HIDE DEF k
  <2>6. effect' \in [Calls -> Status]
    BY <1>t, <2>4 DEF TypeOK
  <2> QED
    BY <2>3, <2>4, <2>5, <2>6, QuietMove
<1>2. CASE ClaimRun(w)
  <2>1. CASE run.status = worker[w].seen /\ (run.status = "running" => ~run.live)
    <3> DEFINE k == [worker[w] EXCEPT !.phase = "setup", !.seen = "absent"]
    <3>1. k \in WorkerType /\ k.phase = "setup"
      BY <1>t DEF WorkerType, Phases, Status
    <3>2. Becomes(w, k) /\ UNCHANGED <<effect, card, answer, observers>>
          /\ run' = [run EXCEPT !.status = "running", !.holder = w, !.live = TRUE]
      BY <1>2, <2>1 DEF ClaimRun
    <3>3. Named(k) /\ k.phase \notin Cleared
      BY <3>1 DEF Named, Acting, Cleared
    <3> HIDE DEF k
    <3>4. run' \in RunType
      BY <1>t, <3>2 DEF RunType, RunStatus
    <3> QED
      BY <3>1, <3>2, <3>3, <3>4, QuietRun
  <2>2. CASE ~(run.status = worker[w].seen /\ (run.status = "running" => ~run.live))
    <3>1. Becomes(w, Idle) /\ UNCHANGED <<run, effect, card, answer, observers>>
      BY <1>2, <2>2 DEF ClaimRun
    <3>2. effect' \in [Calls -> Status]
      BY <1>t, <3>1 DEF TypeOK
    <3> QED
      BY <1>i, <3>1, <3>2, QuietMove
  <2> QED
    BY <2>1, <2>2
<1>3. CASE Requeue(w)
  <2>1. Becomes(w, Idle) /\ UNCHANGED <<effect, card, answer, observers>>
    BY <1>3 DEF Requeue
  <2>2. run' \in RunType
    BY <1>t, <1>3 DEF Requeue, RunType, RunStatus
  <2> QED
    BY <1>i, <2>1, <2>2, QuietRun
<1>4. CASE StartTurn(w)
  <2>1. Becomes(w, At(w, "turn")) /\ UNCHANGED <<run, effect, card, answer, observers>>
    BY <1>4 DEF StartTurn
  <2>2. At(w, "turn") \in WorkerType /\ At(w, "turn").phase = "turn"
    BY <1>t, AtType DEF Phases
  <2>3. Named(At(w, "turn")) /\ At(w, "turn").phase \notin Cleared
    BY <2>2 DEF Named, Acting, Cleared
  <2>4. effect' \in [Calls -> Status]
    BY <1>t, <2>1 DEF TypeOK
  <2> QED
    BY <2>1, <2>2, <2>3, <2>4, QuietMove
<1>5. CASE SaveProgress(w)
  <2>1. Save(worker[w].receipts, worker[w].suspended) /\ UNCHANGED <<effect, worker, card, answer, observers>>
    BY <1>5 DEF SaveProgress
  <2>2. worker[w].receipts \in Receipts /\ worker[w].suspended \in BOOLEAN
    BY <1>t DEF WorkerType
  <2>3. run' \in RunType
    BY <1>t, <2>1, <2>2, SaveFacts
  <2>4. TypeOK'
    BY <1>t, <2>1, <2>3 DEF TypeOK, observers
  <2> QED
    BY <2>1, <2>4, StillStep
<1>6. CASE SaveSuspended(w)
  <2> DEFINE k == [At(w, "suspend") EXCEPT !.suspended = TRUE]
  <2>1. Save(worker[w].receipts, TRUE) /\ Becomes(w, k) /\ UNCHANGED <<effect, card, answer, observers>>
    BY <1>6 DEF SaveSuspended
  <2>2. k \in WorkerType /\ k.phase = "suspend"
    BY <1>t DEF At, WorkerType, Phases
  <2>3. Named(k) /\ k.phase \notin Cleared
    BY <2>2 DEF Named, Acting, Cleared
  <2> HIDE DEF k
  <2>4. worker[w].receipts \in Receipts
    BY <1>t DEF WorkerType
  <2>5. run' \in RunType
    BY <1>t, <2>1, <2>4, SaveFacts
  <2> QED
    BY <2>1, <2>2, <2>3, <2>5, QuietRun
<1>7. CASE SuspendTurn(w)
  <2>1. CASE Holds(w) /\ ~run.cancel
    <3>1. Becomes(w, Idle) /\ UNCHANGED <<effect, card, answer, observers>>
          /\ run' = [run EXCEPT !.holder = None, !.live = FALSE]
      BY <1>7, <2>1 DEF SuspendTurn
    <3>2. run' \in RunType
      BY <1>t, <3>1 DEF RunType
    <3> QED
      BY <1>i, <3>1, <3>2, QuietRun
  <2>2. CASE ~(Holds(w) /\ ~run.cancel)
    <3>1. Becomes(w, At(w, "turn")) /\ UNCHANGED <<run, effect, card, answer, observers>>
      BY <1>7, <2>2 DEF SuspendTurn
    <3>2. At(w, "turn") \in WorkerType /\ At(w, "turn").phase = "turn"
      BY <1>t, AtType DEF Phases
    <3>3. Named(At(w, "turn")) /\ At(w, "turn").phase \notin Cleared
      BY <3>2 DEF Named, Acting, Cleared
    <3>4. effect' \in [Calls -> Status]
      BY <1>t, <3>1 DEF TypeOK
    <3> QED
      BY <3>1, <3>2, <3>3, <3>4, QuietMove
  <2> QED
    BY <2>1, <2>2
<1>8. CASE Recover(w)
  <2> DEFINE k == [worker[w] EXCEPT !.left = {c \in Calls : worker[w].receipts[c] # "none"}]
  <2>1. Save(worker[w].receipts, worker[w].suspended) /\ Becomes(w, k) /\ worker[w].phase = "turn"
        /\ UNCHANGED <<effect, card, answer, observers>>
    BY <1>8 DEF Recover
  <2>2. k \in WorkerType /\ k.phase = "turn"
    BY <1>t, <2>1 DEF WorkerType
  <2>3. Named(k) /\ k.phase \notin Cleared
    BY <2>2 DEF Named, Acting, Cleared
  <2> HIDE DEF k
  <2>4. worker[w].receipts \in Receipts /\ worker[w].suspended \in BOOLEAN
    BY <1>t DEF WorkerType
  <2>5. run' \in RunType
    BY <1>t, <2>1, <2>4, SaveFacts
  <2> QED
    BY <2>1, <2>2, <2>3, <2>5, QuietRun
<1>9. CASE Finish(w)
  <2>1. Becomes(w, Idle) /\ UNCHANGED <<effect, card, answer, observers>>
    BY <1>9 DEF Finish
  <2>2. run' \in RunType
    BY <1>t, <1>9 DEF Finish, RunType, RunStatus
  <2> QED
    BY <1>i, <2>1, <2>2, QuietRun
<1>10. CASE Stop(w)
  <2>1. Becomes(w, Idle) /\ UNCHANGED <<run, effect, card, answer, observers>>
    BY <1>10 DEF Stop
  <2>2. effect' \in [Calls -> Status]
    BY <1>t, <2>1 DEF TypeOK
  <2> QED
    BY <1>i, <2>1, <2>2, QuietMove
<1> QED
  BY <1>1, <1>2, <1>3, <1>4, <1>5, <1>6, <1>7, <1>8, <1>9, <1>10 DEF Turn

-----------------------------------------------------------------------------
(* A tool call.                                                             *)

\* A pause frees the worker and shows the card of nothing that is performed meanwhile.
LEMMA PauseStep ==
    ASSUME IInv, NEW w \in Workers, NEW k \in Calls \cup {"check", None}, Pause(w, k)
    PROVE  IInv'
<1>1. run \in RunType /\ effect \in [Calls -> Status]
  BY DEF IInv, TypeOK
<1>2. Idle \in WorkerType /\ Named(Idle) /\ Idle.phase \notin Cleared
  BY IdleType DEF Idle, Cleared
<1>3. Becomes(w, Idle) /\ card' = k /\ effect' = effect /\ UNCHANGED <<answer, observers>>
      /\ run' = [run EXCEPT !.status = "waiting", !.holder = None, !.live = FALSE, !.saved = None]
  BY DEF Pause
<1>4. run' \in RunType
  BY <1>1, <1>3 DEF RunType, RunStatus
<1>6. effect' \in [Calls -> Status]
      /\ \A c \in Consequential : effect'[c] \in Unclaimed => effect[c] \in Unclaimed
  BY <1>1, <1>3
<1>7. card' \in Calls \cup {"check", None}
  BY <1>3
<1> QED
  BY <1>2, <1>3, <1>4, <1>6, <1>7, QuietWorker

\* Settling a row keeps its type and opens nothing.
LEMMA SettledFacts ==
    ASSUME NEW s \in Status
    PROVE  Settled(s) \in Status /\ (Settled(s) \in Unclaimed => s \in Unclaimed)
BY DEF Settled, Status, Unclaimed

\* Writing s to the row of c opens nothing when s is not open, or the row was.
LEMMA RowFacts ==
    ASSUME effect \in [Calls -> Status], NEW c, NEW s \in Status,
           c \in Calls => (s \in Unclaimed => effect[c] \in Unclaimed),
           effect' = [effect EXCEPT ![c] = s]
    PROVE  /\ effect' \in [Calls -> Status]
           /\ \A d \in Calls : effect'[d] \in Unclaimed => effect[d] \in Unclaimed
           /\ c \in Calls => effect'[c] = s
OBVIOUS

\* The steps of a call that claim and perform nothing keep the invariant.
LEMMA CallStep ==
    ASSUME IInv, NEW w \in Workers,
           \/ \E c \in Calls : Replay(w, c) \/ Check(w, c) \/ Begin(w, c)
           \/ Record(w) \/ Return(w) \/ RequestApproval(w) \/ Complete(w) \/ Unclear(w)
    PROVE  IInv'
<1> DEFINE c == worker[w].call
<1>t. TypeOK /\ run \in RunType /\ worker[w] \in WorkerType /\ worker \in [Workers -> WorkerType]
      /\ effect \in [Calls -> Status] /\ c \in Calls \cup {None}
  BY DEF IInv, TypeOK, WorkerType
<1>n. Named(worker[w])
  BY DEF IInv
<1>c. Consequential \subseteq Calls
  BY CallsAssumption
<1>o. ASSUME NEW b \in BOOLEAN
      PROVE  Over(w, b) \in WorkerType /\ Named(Over(w, b)) /\ Over(w, b).phase \notin Cleared
  <2>1. Over(w, b) \in WorkerType /\ Over(w, b).phase = "turn"
    BY <1>t, OverType
  <2> QED
    BY <2>1 DEF Named, Acting, Cleared
<1>1. ASSUME NEW d \in Calls, Replay(w, d)
      PROVE  IInv'
  <2> DEFINE k == [worker[w] EXCEPT !.left = worker[w].left \ {d}]
  <2>1. Becomes(w, k) /\ worker[w].phase = "turn" /\ UNCHANGED <<run, effect, card, answer, observers>>
    BY <1>1 DEF Replay
  <2>2. k \in WorkerType /\ k.phase = "turn"
    BY <1>t, <2>1 DEF WorkerType
  <2>3. Named(k) /\ k.phase \notin Cleared
    BY <2>2 DEF Named, Acting, Cleared
  <2> HIDE DEF k
  <2>4. effect' \in [Calls -> Status]
    BY <1>t, <2>1
  <2> QED
    BY <2>1, <2>2, <2>3, <2>4, QuietMove
<1>2. ASSUME NEW d \in Calls, Check(w, d)
      PROVE  IInv'
  BY <1>2, PauseStep DEF Check
<1>3. ASSUME NEW d \in Calls, Begin(w, d)
      PROVE  IInv'
  <2> DEFINE r == [worker[w].receipts EXCEPT ![d] = "started"]
             k == [worker[w] EXCEPT !.phase = "begun", !.call = d, !.receipts = r]
  <2>1. Save(r, worker[w].suspended) /\ Becomes(w, k) /\ UNCHANGED <<effect, card, answer, observers>>
    BY <1>3 DEF Begin
  <2>2. worker[w].receipts \in Receipts /\ worker[w].suspended \in BOOLEAN
    BY <1>t DEF WorkerType
  <2>3. r \in Receipts
    BY <2>2 DEF Receipts
  <2> HIDE DEF r
  <2>4. k \in WorkerType /\ k.phase = "begun" /\ k.call = d
    BY <1>t, <2>3 DEF WorkerType, Phases
  <2>5. Named(k) /\ k.phase \notin Cleared
    BY <2>4 DEF Named, Cleared
  <2> HIDE DEF k
  <2>6. run' \in RunType
    BY <1>t, <2>1, <2>2, <2>3, SaveFacts
  <2> QED
    BY <2>1, <2>4, <2>5, <2>6, QuietRun
<1>4. CASE Record(w)
  <2> DEFINE s == IF effect[c] = "absent" THEN "intended" ELSE effect[c]
             k == [worker[w] EXCEPT !.phase = "gate", !.seen = effect[c]]
  <2>1. effect' = [effect EXCEPT ![c] = s] /\ Becomes(w, k) /\ UNCHANGED <<run, card, answer, observers>>
        /\ worker[w].phase = "begun"
    BY <1>4, <1>t DEF Record
  <2>2. c \in Calls
    BY <2>1, <1>n DEF Named, Acting
  <2>3. effect[c] \in Status
    BY <1>t, <2>2
  <2>4. s \in Status /\ (s \in Unclaimed => effect[c] \in Unclaimed)
    BY <2>3 DEF Status, Unclaimed
  <2>5. k \in WorkerType /\ k.phase = "gate" /\ k.call = c
    BY <1>t, <2>3 DEF WorkerType, Phases
  <2>6. Named(k) /\ k.phase \notin Cleared
    BY <2>2, <2>5 DEF Named, Cleared
  <2> HIDE DEF k, s
  <2>7. effect' \in [Calls -> Status]
        /\ \A d \in Calls : effect'[d] \in Unclaimed => effect[d] \in Unclaimed
    BY <1>t, <2>1, <2>4, RowFacts
  <2> QED
    BY <1>c, <2>1, <2>5, <2>6, <2>7, QuietMove
<1>5. CASE Return(w)
  <2>1. CASE effect' = effect /\ Becomes(w, Over(w, worker[w].seen # "uncertain"))
    <3>1. UNCHANGED <<run, card, answer, observers>>
      BY <1>5 DEF Return
    <3>2. PICK b \in BOOLEAN : b = (worker[w].seen # "uncertain")
      OBVIOUS
    <3> QED
      BY <1>o, <1>t, <2>1, <3>1, <3>2, QuietMove
  <2>2. CASE effect' = [effect EXCEPT ![c] = Settled(effect[c])]
             /\ Becomes(w, Over(w, effect[c] \in {"completed", "denied"}))
    <3>1. UNCHANGED <<run, card, answer, observers>> /\ worker[w].phase = "gate"
      BY <1>5 DEF Return
    <3>2. \E b \in BOOLEAN : Becomes(w, Over(w, b))
      <4>1. CASE effect[c] \in {"completed", "denied"}
        <5>1. (effect[c] \in {"completed", "denied"}) = TRUE
          BY <4>1
        <5> QED
          BY <2>2, <5>1
      <4>2. CASE effect[c] \notin {"completed", "denied"}
        <5>1. (effect[c] \in {"completed", "denied"}) = FALSE
          BY <4>2
        <5> QED
          BY <2>2, <5>1
      <4> QED
        BY <4>1, <4>2
    <3>3. c \in Calls /\ effect[c] \in Status
      BY <3>1, <1>n, <1>t DEF Named, Acting
    <3>4. effect' \in [Calls -> Status]
          /\ \A d \in Calls : effect'[d] \in Unclaimed => effect[d] \in Unclaimed
      BY <1>t, <2>2, <3>3, SettledFacts, RowFacts
    <3> QED
      BY <1>o, <1>c, <2>2, <3>1, <3>2, <3>4, QuietMove
  <2> QED
    BY <1>5, <1>t, <2>1, <2>2 DEF Return
<1>6. CASE RequestApproval(w)
  BY <1>6, <1>t, PauseStep DEF RequestApproval
<1>7. CASE Complete(w)
  <2> DEFINE e == IF worker[w].claimed THEN "executing" ELSE "intended"
             s == IF effect[c] = e THEN "completed" ELSE effect[c]
  <2>1. effect' = [effect EXCEPT ![c] = s] /\ Becomes(w, Over(w, effect[c] = e))
        /\ UNCHANGED <<run, card, answer, observers>> /\ worker[w].phase = "performed"
    BY <1>7, <1>t DEF Complete
  <2>2. c \in Calls /\ effect[c] \in Status
    BY <2>1, <1>n, <1>t DEF Named, Acting
  <2>3. s \in Status /\ (s \in Unclaimed => effect[c] \in Unclaimed)
    BY <2>2 DEF Status, Unclaimed
  <2>4. PICK b \in BOOLEAN : b = (effect[c] = e)
    OBVIOUS
  <2> HIDE DEF s, e
  <2>5. effect' \in [Calls -> Status]
        /\ \A d \in Calls : effect'[d] \in Unclaimed => effect[d] \in Unclaimed
    BY <1>t, <2>1, <2>3, RowFacts
  <2> QED
    BY <1>o, <1>c, <2>1, <2>4, <2>5, QuietMove
<1>8. CASE Unclear(w)
  <2>1. effect' = [effect EXCEPT ![c] = Settled(effect[c])] /\ Becomes(w, Over(w, FALSE))
        /\ UNCHANGED <<run, card, answer, observers>> /\ worker[w].phase = "performed"
    BY <1>8, <1>t DEF Unclear
  <2>2. c \in Calls /\ effect[c] \in Status
    BY <2>1, <1>n, <1>t DEF Named, Acting
  <2>3. effect' \in [Calls -> Status]
        /\ \A d \in Calls : effect'[d] \in Unclaimed => effect[d] \in Unclaimed
    BY <1>t, <2>1, <2>2, SettledFacts, RowFacts
  <2> QED
    BY <1>o, <1>c, <2>1, <2>3, QuietMove
<1> QED
  BY <1>1, <1>2, <1>3, <1>4, <1>5, <1>6, <1>7, <1>8

\* A claim makes the row executing, and the claimant is entitled: the row was open.
LEMMA ClaimStep ==
    ASSUME IInv, NEW w \in Workers, ClaimEffect(w)
    PROVE  IInv'
<1> DEFINE c == worker[w].call
           from == ClaimFrom(worker[w].seen)
<1>t. TypeOK /\ worker[w] \in WorkerType /\ worker \in [Workers -> WorkerType]
      /\ effect \in [Calls -> Status]
  BY DEF IInv, TypeOK
<1>n. Named(worker[w]) /\ worker[w].phase = "gate"
  BY DEF IInv, ClaimEffect
<1>c. Consequential \subseteq Calls
  BY CallsAssumption
<1>1. c \in Calls /\ effect[c] \in Status
  BY <1>n, <1>t DEF Named, Acting
<1>2. UNCHANGED <<run, card, answer, observers>>
  BY DEF ClaimEffect
<1>3. CASE effect[c] = from
  <2> DEFINE k == [At(w, "ready") EXCEPT !.claimed = TRUE]
  <2>1. effect' = [effect EXCEPT ![c] = "executing"] /\ Becomes(w, k) /\ from # "none"
    BY <1>3 DEF ClaimEffect
  <2>2. k \in WorkerType /\ k.phase = "ready" /\ k.call = c
    BY <1>t DEF At, WorkerType, Phases
  <2>3. from \in {"intended", "approved"}
    BY <2>1 DEF ClaimFrom
  <2>4. effect[c] \in Unclaimed
    BY <1>3, <2>3 DEF Unclaimed
  <2>5. c \in Strict => done[c] = 0
    BY <2>4 DEF IInv, Fresh
  <2> HIDE DEF k, from
  <2>6. "executing" \in Status /\ "executing" \notin Unclaimed
    BY DEF Status, Unclaimed
  <2>7. /\ effect' \in [Calls -> Status]
        /\ \A d \in Calls : effect'[d] \in Unclaimed => effect[d] \in Unclaimed
        /\ effect'[c] = "executing"
    BY <1>t, <1>1, <2>1, <2>6, RowFacts
  <2>8. /\ worker' \in [Workers -> WorkerType] /\ worker'[w] = k
        /\ \A v \in Workers : v # w => worker'[v] = worker[v]
    BY <1>t, <2>1, <2>2, BecomesType
  <2>9. TypeOK'
    BY <1>t, <1>2, <2>7, <2>8 DEF TypeOK, observers
  <2>10. Strict' = Strict /\ done' = done /\ Fresh' /\ AtMostOnce'
    BY <1>c, <1>2, <2>7 DEF IInv, Strict, Fresh, AtMostOnce, observers
  <2>11. worker'[w].phase = "ready" /\ worker'[w].call = c
    BY <2>2, <2>8
  <2>12. ASSUME NEW v \in Workers
         PROVE  (Named(worker[v]) /\ Entitled(v))'
    <3>1. CASE v = w
      BY <1>1, <2>5, <2>6, <2>7, <2>10, <2>11, <3>1 DEF Named, Entitled
    <3>2. CASE v # w
      <4>1. worker'[v] = worker[v] /\ Named(worker[v]) /\ Entitled(v)
        BY <2>8, <3>2 DEF IInv
      <4>2. Entitled(v)'
        BY <1>c, <2>7, <2>10, <4>1 DEF Entitled, Strict
      <4> QED
        BY <4>1, <4>2
    <3> QED
      BY <3>1, <3>2
  <2>13. ASSUME NEW v \in Workers, v # w, worker'[v].phase \in Cleared, worker'[v].call = c
         PROVE  c \notin Strict'
    <3>1. worker'[v] = worker[v] /\ Entitled(v)
      BY <2>8, <2>13 DEF IInv
    <3> QED
      BY <2>4, <2>10, <2>13, <3>1 DEF Entitled
  <2>14. Sole'
    <3> SUFFICES ASSUME NEW v \in Workers, NEW u \in Workers, v # u,
                        worker'[v].phase \in Cleared, worker'[u].phase \in Cleared,
                        worker'[v].call = worker'[u].call
                 PROVE  worker'[v].call \notin Strict'
      BY DEF Sole
    <3>1. CASE v = w \/ u = w
      BY <2>11, <2>13, <3>1
    <3>2. CASE v # w /\ u # w
      BY <2>8, <2>10, <3>2 DEF IInv, Sole
    <3> QED
      BY <3>1, <3>2
  <2> QED
    BY <2>9, <2>10, <2>12, <2>14 DEF IInv
<1>4. CASE effect[c] # from
  <2>1. effect' = [effect EXCEPT ![c] = Settled(effect[c])]
        /\ \/ Becomes(w, Over(w, TRUE))
           \/ Becomes(w, Over(w, FALSE))
           \/ Becomes(w, Idle)
    BY <1>4, <1>t DEF ClaimEffect
  <2>2. effect' \in [Calls -> Status]
        /\ \A d \in Calls : effect'[d] \in Unclaimed => effect[d] \in Unclaimed
    BY <1>t, <1>1, <2>1, SettledFacts, RowFacts
  <2>3. ASSUME NEW b \in BOOLEAN
        PROVE  Over(w, b) \in WorkerType /\ Named(Over(w, b)) /\ Over(w, b).phase \notin Cleared
    <3>1. Over(w, b) \in WorkerType /\ Over(w, b).phase = "turn"
      BY <1>t, OverType
    <3> QED
      BY <3>1 DEF Named, Acting, Cleared
  <2>4. Idle \in WorkerType /\ Named(Idle) /\ Idle.phase \notin Cleared
    BY IdleType DEF Idle, Cleared
  <2> QED
    BY <1>c, <1>2, <2>1, <2>2, <2>3, <2>4, QuietMove
<1> QED
  BY <1>3, <1>4

\* A call that needs no claim is not consequential.
LEMMA AllowStep ==
    ASSUME IInv, NEW w \in Workers, Allow(w)
    PROVE  IInv'
<1>t. TypeOK /\ worker \in [Workers -> WorkerType]
  BY DEF IInv, TypeOK
<1>1. At(w, "ready") \in WorkerType /\ At(w, "ready").phase = "ready"
      /\ At(w, "ready").call = worker[w].call
  BY <1>t, AtType DEF Phases
<1>2. Becomes(w, At(w, "ready")) /\ UNCHANGED <<run, effect, card, answer, observers>>
      /\ worker[w].call \notin Consequential /\ worker[w].phase = "gate"
  BY DEF Allow
<1>3. worker[w].call \in Calls
  BY <1>2 DEF IInv, Named, Acting
<1>4. /\ worker' \in [Workers -> WorkerType] /\ worker'[w] = At(w, "ready")
      /\ \A v \in Workers : v # w => worker'[v] = worker[v]
  BY <1>t, <1>1, <1>2, BecomesType
<1>5. TypeOK'
  BY <1>t, <1>2, <1>4 DEF TypeOK, observers
<1>6. Strict' = Strict /\ done' = done /\ effect' = effect /\ Fresh' /\ AtMostOnce'
  BY <1>2 DEF IInv, Strict, Fresh, AtMostOnce, observers
<1>7. worker'[w].call \notin Strict' /\ Named(worker'[w])
  BY <1>1, <1>2, <1>3, <1>4 DEF Strict, Named
<1>8. \A v \in Workers : (Named(worker[v]) /\ Entitled(v))'
  BY <1>4, <1>6, <1>7 DEF IInv, Entitled
<1>9. Sole'
  BY <1>4, <1>6, <1>7 DEF IInv, Sole
<1> QED
  BY <1>5, <1>6, <1>8, <1>9 DEF IInv

\* The read of the stop leaves the worker entitled to what it was entitled to.
LEMMA CheckStopStep ==
    ASSUME IInv, NEW w \in Workers, CheckStop(w)
    PROVE  IInv'
<1>t. worker \in [Workers -> WorkerType] /\ effect \in [Calls -> Status]
  BY DEF IInv, TypeOK
<1>1. At(w, "dispatch") \in WorkerType /\ At(w, "dispatch").call = worker[w].call
  BY <1>t, AtType DEF Phases
<1>2. Becomes(w, At(w, "dispatch")) /\ worker[w].phase = "ready"
      /\ UNCHANGED <<run, effect, card, answer, observers>>
  BY DEF CheckStop
<1>3. Named(At(w, "dispatch"))
  BY <1>1, <1>2 DEF IInv, Named, Acting
<1>4. worker[w].phase \in Cleared
  BY <1>2 DEF Cleared
<1>5. effect' \in [Calls -> Status]
  BY <1>t, <1>2
<1> QED
  BY <1>1, <1>2, <1>3, <1>4, <1>5, QuietMove

\* The worker that performs a consequential call is entitled to it, so it is the first.
LEMMA PerformStep ==
    ASSUME IInv, NEW w \in Workers, Perform(w)
    PROVE  IInv'
<1> DEFINE c == worker[w].call
<1>t. TypeOK /\ worker \in [Workers -> WorkerType] /\ done \in [Calls -> Nat]
  BY DEF IInv, TypeOK
<1>c. Consequential \subseteq Calls
  BY CallsAssumption
<1>1. At(w, "performed") \in WorkerType /\ At(w, "performed").phase = "performed"
      /\ At(w, "performed").call = c
  BY <1>t, AtType DEF Phases
<1>2. Becomes(w, At(w, "performed")) /\ UNCHANGED <<run, effect, card, answer, overtaken>>
      /\ worker[w].phase = "dispatch" /\ done' = [done EXCEPT ![c] = done[c] + 1]
  BY <1>t DEF Perform
<1>3. c \in Calls
  BY <1>2 DEF IInv, Named, Acting
<1>4. c \in Strict => effect[c] \notin Unclaimed /\ done[c] = 0
  BY <1>2 DEF IInv, Entitled, Cleared
<1>5. /\ worker' \in [Workers -> WorkerType] /\ worker'[w] = At(w, "performed")
      /\ \A v \in Workers : v # w => worker'[v] = worker[v]
  BY <1>t, <1>1, <1>2, BecomesType
<1>6. done' \in [Calls -> Nat]
  BY <1>t, <1>2, <1>3
<1>7. (\A d \in Calls : d # c => done'[d] = done[d]) /\ (c \in Strict => done'[c] = 1)
      /\ Strict' = Strict
  BY <1>t, <1>2, <1>3, <1>4 DEF Strict
<1>8. TypeOK'
  BY <1>t, <1>2, <1>5, <1>6 DEF TypeOK
<1>9. Fresh' /\ AtMostOnce'
  <2>1. ASSUME NEW d \in Strict
        PROVE  (effect'[d] \in Unclaimed => done'[d] = 0) /\ done'[d] <= 1
    <3>1. CASE d = c
      BY <1>2, <1>4, <1>7, <3>1
    <3>2. CASE d # c
      BY <1>c, <1>2, <1>7, <3>2 DEF IInv, Fresh, AtMostOnce, Strict
    <3> QED
      BY <3>1, <3>2
  <2> QED
    BY <1>7, <2>1 DEF Fresh, AtMostOnce, Strict
<1>10. worker'[w].phase \notin Cleared /\ Named(worker'[w])
  BY <1>1, <1>3, <1>5 DEF Cleared, Named
<1>11. ASSUME NEW v \in Workers
       PROVE  (Named(worker[v]) /\ Entitled(v))'
  <2>1. CASE v = w
    BY <1>10, <2>1 DEF Entitled
  <2>2. CASE v # w
    <3>1. worker'[v] = worker[v] /\ Named(worker[v]) /\ Entitled(v)
      BY <1>5, <2>2 DEF IInv
    <3>2. Entitled(v)'
      <4> SUFFICES ASSUME worker[v].phase \in Cleared, worker[v].call \in Strict
                   PROVE  effect[worker[v].call] \notin Unclaimed /\ done'[worker[v].call] = 0
        BY <1>2, <1>7, <3>1 DEF Entitled
      <4>1. effect[worker[v].call] \notin Unclaimed /\ done[worker[v].call] = 0
        BY <3>1 DEF Entitled
      <4>2. worker[v].call # c
        BY <1>2, <2>2 DEF IInv, Sole, Cleared
      <4> QED
        BY <1>c, <1>7, <4>1, <4>2 DEF Strict
    <3> QED
      BY <3>1, <3>2
  <2> QED
    BY <2>1, <2>2
<1>12. Sole'
  BY <1>5, <1>7, <1>10 DEF IInv, Sole
<1> QED
  BY <1>8, <1>9, <1>11, <1>12 DEF IInv

-----------------------------------------------------------------------------
(* The owner, and time.                                                     *)

\* An answer opens the row of a call that nobody claimed, or notes that it was overtaken.
LEMMA WriteAnswerStep ==
    ASSUME IInv, NEW decision \in {"approved", "denied"}, WriteAnswer(decision)
    PROVE  IInv'
<1>t. TypeOK /\ run \in RunType /\ effect \in [Calls -> Status] /\ overtaken \subseteq Calls
  BY DEF IInv, TypeOK
<1>1. answer' = None /\ worker' = worker /\ done' = done
  BY DEF WriteAnswer
<1>2. \A v \in Workers : Unhurried(v)
  BY <1>1 DEF IInv, Unhurried
<1>3. CASE run.status = "waiting"
  <2>1. /\ run' = [run EXCEPT !.status = "queued", !.saved = None] /\ card' = None
        /\ effect' = IF answer \in Calls THEN [effect EXCEPT ![answer] = decision] ELSE effect
        /\ overtaken' = overtaken \cup {c \in {answer} \cap Calls : Claimed(effect[c])}
    BY <1>3 DEF WriteAnswer
  <2>2. run' \in RunType
    BY <1>t, <2>1 DEF RunType, RunStatus
  <2>3. decision \in Status
    BY DEF Status
  <2>4. effect' \in [Calls -> Status] /\ \A d \in Calls : d # answer => effect'[d] = effect[d]
    BY <1>t, <2>1, <2>3
  <2>5. TypeOK'
    BY <1>t, <1>1, <2>1, <2>2, <2>4 DEF TypeOK
  <2>6. ASSUME NEW d \in Strict', effect'[d] \in Unclaimed
        PROVE  effect[d] \in Unclaimed
    <3>1. d \in Calls /\ d \notin overtaken' /\ effect[d] \in Status
      BY <1>t, CallsAssumption DEF Strict
    <3>2. CASE d = answer
      BY <2>1, <3>1, <3>2 DEF Claimed, Status, Unclaimed
    <3>3. CASE d # answer
      BY <2>4, <2>6, <3>1, <3>3
    <3> QED
      BY <3>2, <3>3
  <2> QED
    BY <1>1, <1>2, <2>1, <2>5, <2>6, QuietStep
<1>4. CASE run.status # "waiting"
  <2>1. UNCHANGED <<run, effect, card, overtaken>>
    BY <1>4 DEF WriteAnswer
  <2>2. TypeOK'
    BY <1>t, <1>1, <2>1 DEF TypeOK
  <2> QED
    BY <1>1, <2>1, <2>2, StillStep DEF observers
<1> QED
  BY <1>3, <1>4

\* Every step keeps the invariant.
LEMMA Step ==
    ASSUME IInv, [Next]_vars
    PROVE  IInv'
<1>t. TypeOK /\ run \in RunType /\ effect \in [Calls -> Status]
  BY DEF IInv, TypeOK
<1>c. Consequential \subseteq Calls
  BY CallsAssumption
<1>1. CASE Expire \/ ConfirmStop
  <2>1. UNCHANGED <<effect, worker, card, answer, observers>>
    BY <1>1 DEF Expire, ConfirmStop
  <2>2. run' \in RunType
    BY <1>t, <1>1 DEF Expire, ConfirmStop, RunType, RunStatus
  <2>3. TypeOK'
    BY <1>t, <2>1, <2>2 DEF TypeOK, observers
  <2> QED
    BY <2>1, <2>3, StillStep
<1>2. CASE ReadAnswer
  <2>1. UNCHANGED <<run, effect, worker, card, observers>> /\ answer' = card
    BY <1>2 DEF ReadAnswer
  <2>2. TypeOK'
    BY <1>t, <2>1 DEF TypeOK, observers
  <2> QED
    BY <2>1, <2>2, StillStep
<1>3. CASE Cancel
  <2>1. UNCHANGED <<worker, card, answer, observers>> /\ run' = [run EXCEPT !.cancel = TRUE]
        /\ effect' = [c \in Calls |-> Refused(effect[c])]
    BY <1>3 DEF Cancel
  <2>2. run' \in RunType
    BY <1>t, <2>1 DEF RunType
  <2>3. ASSUME NEW s \in Status
        PROVE  Refused(s) \in Status /\ (Refused(s) \in Unclaimed => s \in Unclaimed)
    BY DEF Refused, Status, Unclaimed
  <2>4. effect' \in [Calls -> Status]
        /\ \A d \in Calls : effect'[d] \in Unclaimed => effect[d] \in Unclaimed
    BY <1>t, <2>1, <2>3
  <2>5. TypeOK'
    BY <1>t, <2>1, <2>2, <2>4 DEF TypeOK, observers
  <2> QED
    BY <1>c, <2>1, <2>4, <2>5, StillStep
<1>4. ASSUME NEW decision \in {"approved", "denied"}, WriteAnswer(decision)
      PROVE  IInv'
  BY <1>4, WriteAnswerStep
<1>5. ASSUME NEW w \in Workers, Turn(w)
      PROVE  IInv'
  BY <1>5, TurnStep
<1>6. ASSUME NEW w \in Workers, Call(w)
      PROVE  IInv'
  BY <1>6, CallStep, ClaimStep, AllowStep, CheckStopStep, PerformStep DEF Call
<1>7. CASE UNCHANGED vars
  <2>1. TypeOK'
    BY <1>t, <1>7 DEF TypeOK, vars, observers
  <2>2. UNCHANGED <<worker, observers>> /\ effect' = effect
    BY <1>7 DEF vars
  <2> QED
    BY <2>1, <2>2, StillStep
<1> QED
  BY <1>1, <1>2, <1>3, <1>4, <1>5, <1>6, <1>7 DEF Next, Owner

\* Nothing has happened yet.
LEMMA Start == Init => IInv
<1> SUFFICES ASSUME Init
             PROVE  IInv
  OBVIOUS
<1>1. run \in RunType /\ run.status = "queued"
  BY DEF Init, RunType, RunStatus
<1>2. worker \in [Workers -> WorkerType] /\ \A w \in Workers : worker[w] = Idle
  BY IdleType DEF Init
<1>3. TypeOK
  BY <1>1, <1>2 DEF Init, TypeOK, Status
<1>4. Idle.phase = "idle"
  BY DEF Idle
<1>5. (\A w \in Workers : Named(worker[w]) /\ Entitled(w)) /\ Sole
  BY <1>2, <1>4, IdleType DEF Entitled, Sole, Cleared
<1>6. Fresh /\ AtMostOnce
  BY CallsAssumption DEF Init, Fresh, AtMostOnce, Strict
<1> QED
  BY <1>3, <1>5, <1>6 DEF IInv

\* The invariant holds in every reachable state.
LEMMA Invariance == Spec => []IInv
BY Start, Step, PTL DEF Spec

\* The state of the run, its calls and its workers has its type.
THEOREM TypeCorrect == Spec => []TypeOK
<1>1. IInv => TypeOK
  BY DEF IInv
<1> QED
  BY <1>1, Invariance, PTL

\* A consequential action is performed at most once, for any number of workers, stale ones
\* included, crashes, takeovers, requeues, answers and cancellations, unless an answer was
\* written over its claim.
THEOREM PerformedAtMostOnce == Spec => []AtMostOnce
<1>1. IInv => AtMostOnce
  BY DEF IInv
<1> QED
  BY <1>1, Invariance, PTL

\* An action whose row says denied was not performed, although neither the dispatch nor the
\* answer nor the completion is made under the lease; but for the same exception.
THEOREM DenialIsTrue == Spec => []DeniedIsNotDone
<1>1. IInv => DeniedIsNotDone
  BY DEF IInv, Fresh, Unclaimed, DeniedIsNotDone, Strict
<1> QED
  BY <1>1, Invariance, PTL
=============================================================================
