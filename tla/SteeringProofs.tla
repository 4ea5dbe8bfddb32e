--------------------------- MODULE SteeringProofs ---------------------------
(***************************************************************************)
(* Proofs about Steering: a message to a busy bot is answered once, none   *)
(* is left waiting when nobody is left to answer, and every follow-up      *)
(* settles a message.                                                      *)
(***************************************************************************)
EXTENDS Steering, TLAPS, WellFoundedInduction

\* The records the variables hold.
RowType == [waiting: BOOLEAN, run: Runs \cup {NoRun}, claimed: BOOLEAN, adopted: BOOLEAN]
TurnType == [phase: {"none", "claimed", "open"}, took: SUBSET Msgs,
             given: SUBSET Msgs, deferred: SUBSET Msgs]

\* Reading a row that was rewritten.
LEMMA RowUpdate ==
    ASSUME NEW w \in RowType, NEW r \in Runs \cup {NoRun}, NEW b \in BOOLEAN
    PROVE  /\ [w EXCEPT !.run = r] \in RowType
           /\ [w EXCEPT !.run = r].waiting = w.waiting
           /\ [w EXCEPT !.run = r].claimed = w.claimed
           /\ [w EXCEPT !.run = r].run = r
           /\ [w EXCEPT !.waiting = b] \in RowType
           /\ [w EXCEPT !.waiting = b].waiting = b
           /\ [w EXCEPT !.waiting = b].run = w.run
           /\ [w EXCEPT !.waiting = b].claimed = w.claimed
  BY DEF RowType

\* The three rows the code writes afresh, and the empty turn.
LEMMA FreshRows ==
    /\ NoRow \in RowType /\ NoRow.waiting = FALSE
    /\ FreeRow \in RowType /\ FreeRow.waiting = TRUE /\ FreeRow.run = NoRun
    /\ \A r \in Runs : /\ RowOf(r) \in RowType /\ RowOf(r).waiting = TRUE
                       /\ RowOf(r).run = r
    /\ NoTurn \in TurnType /\ NoTurn.phase = "none"
  <1>1. NoRow \in RowType /\ NoRow.waiting = FALSE /\ NoRow.run = NoRun
    BY DEF NoRow, RowType
  <1>2. FreeRow \in RowType /\ FreeRow.waiting = TRUE /\ FreeRow.run = NoRun
    BY <1>1, RowUpdate DEF FreeRow
  <1>3. ASSUME NEW r \in Runs
        PROVE  RowOf(r) \in RowType /\ RowOf(r).waiting = TRUE /\ RowOf(r).run = r
    BY <1>2 DEF RowOf, RowType
  <1>4. NoTurn \in TurnType /\ NoTurn.phase = "none"
    BY DEF NoTurn, TurnType
  <1>5. QED
    BY <1>1, <1>2, <1>3, <1>4

\* What a claim makes of a row.
LEMMA ClaimedRowFacts ==
    ASSUME row \in [Msgs -> RowType], NEW r \in Runs, NEW m \in Msgs
    PROVE  /\ ClaimedRow(r, m) \in RowType
           /\ ClaimedRow(r, m).waiting = row[m].waiting
           /\ ClaimedRow(r, m).run = r
           /\ ClaimedRow(r, m).claimed = TRUE
  <1>1. row[m] \in RowType
    OBVIOUS
  <1>2. PICK a \in BOOLEAN : a = (row[m].adopted \/ row[m].run = NoRun)
    OBVIOUS
  <1>3. ClaimedRow(r, m) = [row[m] EXCEPT !.run = r, !.claimed = TRUE, !.adopted = a]
    BY <1>1, <1>2, Zenon DEF ClaimedRow
  <1>4. QED
    BY <1>1, <1>3 DEF RowType

-----------------------------------------------------------------------------
\* The part of the state AnsweredOnce depends on.
Core ==
    /\ row \in [Msgs -> RowType]
    /\ turn \in [Runs -> TurnType]
    /\ answered \in [Runs -> SUBSET Msgs]
    /\ status \in [Runs -> {"absent", "queued", "running", "waiting",
                            "completed", "failed", "cancelled"}]
    /\ sent \in Nat

\* What a turn has taken and not let go is waiting, and claimed by its run.
TurnHolds ==
    \A r \in Runs :
        /\ turn[r].phase # "none" => status[r] = "running"
        /\ turn[r].phase = "claimed" => \A m \in turn[r].took :
              row[m].waiting /\ row[m].run = r /\ row[m].claimed
        /\ turn[r].phase = "open" => \A m \in turn[r].given :
              row[m].waiting /\ row[m].run = r /\ row[m].claimed

\* Only a message that was sent waits, and only a completed run has answered.
PastOnly ==
    /\ \A m \in Msgs : row[m].waiting => m <= sent
    /\ \A r \in Runs : \A m \in answered[r] : m <= sent
    /\ \A r \in Runs : answered[r] # {} => status[r] = "completed"

AnswerInv == Core /\ TurnHolds /\ PastOnly /\ AnsweredOnce

-----------------------------------------------------------------------------
\* The invariant holds in the first state.
LEMMA InitAnswer == Init => AnswerInv
  <1> SUFFICES ASSUME Init PROVE AnswerInv
    OBVIOUS
  <1>1. Core
    BY FreshRows DEF Init, Core
  <1>2. TurnHolds
    BY FreshRows DEF Init, TurnHolds
  <1>3. PastOnly /\ AnsweredOnce
    BY FreshRows DEF Init, PastOnly, AnsweredOnce
  <1>4. QED
    BY <1>1, <1>2, <1>3 DEF AnswerInv

\* What claimSteering makes of the rows, when it is given rows it may claim.
LEMMA ClaimStep ==
    ASSUME Core, NEW r \in Runs, NEW ms \in SUBSET Msgs, claimSteering(r, ms)
    PROVE  /\ row' \in [Msgs -> RowType]
           /\ \A m \in ms : /\ row'[m].waiting = row[m].waiting
                            /\ row'[m].run = r /\ row'[m].claimed = TRUE
           /\ \A m \in Msgs \ ms : row'[m] = row[m]
  <1>1. row \in [Msgs -> RowType]
    BY DEF Core
  <1>2. ASSUME NEW m \in Msgs
        PROVE  row'[m] = IF m \in ms THEN ClaimedRow(r, m) ELSE row[m]
    BY DEF claimSteering
  <1>3. ASSUME NEW m \in Msgs PROVE row'[m] \in RowType
    BY <1>1, <1>2, ClaimedRowFacts
  <1>4. row' \in [Msgs -> RowType]
    <2>1. row' = [m \in Msgs |-> row'[m]]
      BY DEF claimSteering
    <2>2. QED
      BY <2>1, <1>3
  <1>5. ASSUME NEW m \in ms
        PROVE  /\ row'[m].waiting = row[m].waiting
               /\ row'[m].run = r /\ row'[m].claimed = TRUE
    <2>1. m \in Msgs /\ row'[m] = ClaimedRow(r, m)
      BY <1>2
    <2>2. /\ ClaimedRow(r, m).waiting = row[m].waiting
          /\ ClaimedRow(r, m).run = r /\ ClaimedRow(r, m).claimed = TRUE
      BY <1>1, <2>1, ClaimedRowFacts, Zenon
    <2>3. QED
      BY <2>1, <2>2, Zenon
  <1>6. QED
    BY <1>2, <1>4, <1>5, Zenon

\* What createSteeringContinuation makes of the rows and the runs: a free row may go to
\* a run that did not exist, and nothing else changes.
LEMMA ContinueStep ==
    ASSUME Core, NEW r \in Runs, NEW rows \in [Msgs -> RowType],
           NEW ended \in [Runs -> {"absent", "queued", "running", "waiting", "completed", "failed",
                                   "cancelled"}],
           NEW wanted \in BOOLEAN, Continue(r, rows, ended, wanted)
    PROVE  /\ row' \in [Msgs -> RowType]
           /\ status' \in [Runs -> {"absent", "queued", "running", "waiting", "completed", "failed",
                                    "cancelled"}]
           /\ \A m \in Msgs : \/ row'[m] = rows[m]
                              \/ /\ rows[m].waiting /\ rows[m].run = NoRun
                                 /\ row'[m].waiting
           /\ \A o \in Runs : status'[o] = ended[o] \/ status[o] = "absent"
  <1>1. CASE status' = ended /\ row' = rows
    BY <1>1
  <1>2. CASE \E c \in Fresh :
               /\ status' = [ended EXCEPT ![c] = "queued"]
               /\ row' = [m \in Msgs |->
                            IF m \in {n \in Msgs : rows[n].waiting /\ rows[n].run = NoRun}
                            THEN RowOf(c) ELSE rows[m]]
    <2>1. PICK c \in Fresh :
               /\ status' = [ended EXCEPT ![c] = "queued"]
               /\ row' = [m \in Msgs |->
                            IF m \in {n \in Msgs : rows[n].waiting /\ rows[n].run = NoRun}
                            THEN RowOf(c) ELSE rows[m]]
      BY <1>2
    <2>2. c \in Runs /\ status[c] = "absent"
      BY DEF Fresh, Unused
    <2>3. RowOf(c) \in RowType /\ RowOf(c).waiting
      BY <2>2, FreshRows
    <2>4. QED
      BY <2>1, <2>2, <2>3
  <1>3. QED
    BY <1>1, <1>2 DEF Continue

-----------------------------------------------------------------------------
(* One lemma per action.                                                    *)

\* A step that ends the turn of r and leaves the rows of other turns alone.
LEMMA EndTurn ==
    ASSUME AnswerInv, NEW r \in Runs,
           row' \in [Msgs -> RowType],
           status' \in [Runs -> {"absent", "queued", "running", "waiting", "completed", "failed",
                                 "cancelled"}],
           turn' = [turn EXCEPT ![r] = NoTurn], sent' = sent,
           \A m \in Msgs : row'[m].waiting => row[m].waiting,
           \A m \in Msgs, o \in Runs \ {r} :
                row[m].waiting /\ row[m].run = o => row'[m] = row[m],
           \A o \in Runs \ {r} : status'[o] = status[o] \/ status[o] = "absent"
    PROVE  /\ turn' \in [Runs -> TurnType]
           /\ TurnHolds'
           /\ \A m \in Msgs : row'[m].waiting => m <= sent'
  <1>1. Core /\ TurnHolds /\ PastOnly
    BY DEF AnswerInv
  <1>2. turn \in [Runs -> TurnType]
    BY <1>1 DEF Core
  <1>3. turn' \in [Runs -> TurnType]
    BY <1>2, FreshRows
  <1>4. ASSUME NEW o \in Runs
        PROVE  /\ turn'[o].phase # "none" => status'[o] = "running"
               /\ turn'[o].phase = "claimed" => \A m \in turn'[o].took :
                     row'[m].waiting /\ row'[m].run = o /\ row'[m].claimed
               /\ turn'[o].phase = "open" => \A m \in turn'[o].given :
                     row'[m].waiting /\ row'[m].run = o /\ row'[m].claimed
    <2>1. CASE o = r
      BY <2>1, <1>2, FreshRows
    <2>2. CASE o # r
      <3>1. turn'[o] = turn[o] /\ turn[o] \in TurnType
        BY <2>2, <1>2
      <3>2. turn[o].took \subseteq Msgs /\ turn[o].given \subseteq Msgs
        BY <3>1 DEF TurnType
      <3>3. turn[o].phase # "none" => status'[o] = "running"
        BY <1>1, <2>2 DEF TurnHolds
      <3>4. QED
        BY <1>1, <2>2, <3>1, <3>2, <3>3 DEF TurnHolds
    <2>3. QED
      BY <2>1, <2>2
  <1>5. TurnHolds'
    BY <1>4 DEF TurnHolds
  <1>6. QED
    BY <1>1, <1>3, <1>5 DEF PastOnly

\* A new run, and at most a row for the message that is being sent.
LEMMA NewRun ==
    ASSUME AnswerInv,
           row' \in [Msgs -> RowType],
           status' \in [Runs -> {"absent", "queued", "running", "waiting", "completed", "failed",
                                 "cancelled"}],
           UNCHANGED <<turn, answered>>, sent' \in Nat, sent <= sent',
           \A m \in Msgs : row'[m] = row[m] \/ (m > sent /\ m <= sent'),
           \A o \in Runs : status'[o] = status[o] \/ status[o] = "absent"
    PROVE  AnswerInv'
  <1>1. Core /\ TurnHolds /\ PastOnly /\ AnsweredOnce /\ sent \in Nat
    BY DEF AnswerInv, Core
  <1>2. Core'
    BY <1>1 DEF Core
  <1>3. ASSUME NEW m \in Msgs, m <= sent PROVE row'[m] = row[m]
    BY <1>1, <1>3 DEF Msgs
  <1>4. ASSUME NEW m \in Msgs, row[m].waiting PROVE row'[m] = row[m]
    BY <1>1, <1>3, <1>4 DEF PastOnly
  <1>5. TurnHolds'
    <2> SUFFICES ASSUME NEW r \in Runs
                 PROVE  /\ turn[r].phase # "none" => status'[r] = "running"
                        /\ turn[r].phase = "claimed" => \A m \in turn[r].took :
                              row'[m].waiting /\ row'[m].run = r /\ row'[m].claimed
                        /\ turn[r].phase = "open" => \A m \in turn[r].given :
                              row'[m].waiting /\ row'[m].run = r /\ row'[m].claimed
      BY DEF TurnHolds
    <2>1. turn[r].took \subseteq Msgs /\ turn[r].given \subseteq Msgs
      BY <1>1 DEF Core, TurnType
    <2>2. QED
      BY <1>1, <1>4, <2>1 DEF TurnHolds
  <1>6. PastOnly'
    <2>1. \A m \in Msgs : row'[m].waiting => m <= sent'
      BY <1>1, <1>4 DEF PastOnly, Msgs
    <2>2. \A r \in Runs : \A m \in answered[r] : m \in Msgs /\ m <= sent
      BY <1>1 DEF PastOnly, Core
    <2>3. \A r \in Runs : \A m \in answered[r] : m <= sent'
      BY <1>1, <2>2 DEF Msgs
    <2>4. \A r \in Runs : answered[r] # {} => status'[r] = "completed"
      BY <1>1 DEF PastOnly
    <2>5. QED
      BY <2>1, <2>3, <2>4 DEF PastOnly
  <1>7. AnsweredOnce'
    <2>1. ASSUME NEW m \in Msgs, NEW r \in Runs, m \in answered[r]
          PROVE  ~row'[m].waiting
      <3>1. m <= sent /\ ~row[m].waiting
        BY <1>1, <2>1 DEF PastOnly, AnsweredOnce, Waiting
      <3>2. QED
        BY <1>3, <3>1
    <2>2. QED
      BY <1>1, <2>1 DEF AnsweredOnce, Waiting
  <1>8. QED
    BY <1>2, <1>5, <1>6, <1>7 DEF AnswerInv

\* A message of the owner preserves the invariant.
LEMMA SendStep ==
    ASSUME AnswerInv, Send \/ SendParallel PROVE AnswerInv'
  <1>1. Core /\ sent \in Nat /\ sent + 1 \in Msgs /\ sent' = sent + 1
    BY MsgsAssumption DEF AnswerInv, Core, Send, SendParallel, Msgs
  <1>2. UNCHANGED <<turn, answered>>
    BY DEF Send, SendParallel
  <1>3. CASE StartRunFor(sent + 1) /\ UNCHANGED row
    <2>1. PICK c \in Fresh : status' = [status EXCEPT ![c] = "queued"]
      BY <1>3 DEF StartRunFor
    <2>2. c \in Runs /\ status[c] = "absent"
      BY DEF Fresh, Unused
    <2>3. QED
      BY <1>1, <1>2, <1>3, <2>1, <2>2, NewRun DEF Core
  <1>4. CASE status' = status /\ \E r \in Busy : row' = [row EXCEPT ![sent + 1] = RowOf(r)]
    <2>1. PICK r \in Busy : row' = [row EXCEPT ![sent + 1] = RowOf(r)]
      BY <1>4
    <2>2. RowOf(r) \in RowType
      BY FreshRows DEF Busy
    <2>3. row' \in [Msgs -> RowType]
      BY <1>1, <2>1, <2>2 DEF Core
    <2>4. \A m \in Msgs : row'[m] = row[m] \/ (m > sent /\ m <= sent')
      BY <1>1, <2>1 DEF Core, Msgs
    <2>5. QED
      BY <1>1, <1>2, <1>4, <2>3, <2>4, NewRun DEF Core
  <1>5. QED
    BY <1>3, <1>4 DEF Send, SendParallel

\* The admission of a peer run preserves the invariant.
LEMMA AdmitPeerStep ==
    ASSUME AnswerInv, NEW r \in Runs, AdmitPeer(r) PROVE AnswerInv'
  BY NewRun DEF AdmitPeer, AnswerInv, Core

\* The start of a turn, which claims the rows waiting for it, preserves the invariant.
LEMMA StartTurnStep ==
    ASSUME AnswerInv, NEW r \in Runs, StartTurn(r) PROVE AnswerInv'
  <1> DEFINE took == Claimable(r, {})
  <1> DEFINE new == [NoTurn EXCEPT !.phase = "claimed", !.took = took]
  <1>1. Core /\ TurnHolds /\ PastOnly /\ AnsweredOnce
    BY DEF AnswerInv
  <1>2. /\ status[r] = "queued" /\ status' = [status EXCEPT ![r] = "running"]
        /\ claimSteering(r, took) /\ turn' = [turn EXCEPT ![r] = new]
        /\ sent' = sent /\ answered' = answered
    BY DEF StartTurn
  <1>3. took \in SUBSET Msgs /\ \A m \in took : row[m].waiting /\ row[m].run \in {r, NoRun}
    BY DEF Claimable, HeldBy, Free, Waiting
  <1>4. new \in TurnType /\ new.phase = "claimed" /\ new.took = took
    BY <1>3, FreshRows DEF TurnType
  <1> HIDE DEF new, took
  <1>5. /\ row' \in [Msgs -> RowType]
        /\ \A m \in took : /\ row'[m].waiting = row[m].waiting
                           /\ row'[m].run = r /\ row'[m].claimed = TRUE
        /\ \A m \in Msgs \ took : row'[m] = row[m]
    BY <1>1, <1>2, <1>3, ClaimStep
  <1>6. \A m \in Msgs : row'[m].waiting = row[m].waiting
    BY <1>5
  <1>7. Core'
    BY <1>1, <1>2, <1>4, <1>5 DEF Core
  <1>8. TurnHolds'
    <2> SUFFICES ASSUME NEW o \in Runs
                 PROVE  /\ turn'[o].phase # "none" => status'[o] = "running"
                        /\ turn'[o].phase = "claimed" => \A m \in turn'[o].took :
                              row'[m].waiting /\ row'[m].run = o /\ row'[m].claimed
                        /\ turn'[o].phase = "open" => \A m \in turn'[o].given :
                              row'[m].waiting /\ row'[m].run = o /\ row'[m].claimed
      BY DEF TurnHolds
    <2>1. CASE o = r
      <3>1. turn'[o] = new /\ status'[o] = "running"
        BY <1>1, <1>2, <2>1 DEF Core
      <3>2. QED
        BY <1>3, <1>4, <1>5, <2>1, <3>1
    <2>2. CASE o # r
      <3>1. turn'[o] = turn[o] /\ turn[o] \in TurnType /\ status'[o] = status[o]
        BY <1>1, <1>2, <2>2 DEF Core
      <3>2. turn[o].took \subseteq Msgs /\ turn[o].given \subseteq Msgs
        BY <3>1 DEF TurnType
      <3>3. \A m \in Msgs : row[m].run = o => row'[m] = row[m]
        BY <1>3, <1>5, <2>2, RunsAssumption
      <3>4. QED
        BY <1>1, <3>1, <3>2, <3>3 DEF TurnHolds
    <2>3. QED
      BY <2>1, <2>2
  <1>9. PastOnly'
    BY <1>1, <1>2, <1>6 DEF PastOnly, Core
  <1>10. AnsweredOnce'
    BY <1>1, <1>2, <1>6 DEF AnsweredOnce, Waiting
  <1>11. QED
    BY <1>7, <1>8, <1>9, <1>10 DEF AnswerInv

\* A claim inside of a turn preserves the invariant.
LEMMA ClaimMoreStep ==
    ASSUME AnswerInv, NEW r \in Runs, ClaimMore(r) PROVE AnswerInv'
  <1> DEFINE more == Claimable(r, turn[r].given \cup turn[r].deferred)
  <1>1. Core /\ TurnHolds /\ PastOnly /\ AnsweredOnce
    BY DEF AnswerInv
  <1>2. /\ turn[r].phase = "open" /\ status' = status
        /\ claimSteering(r, more) /\ turn' = [turn EXCEPT ![r].given = @ \cup more]
        /\ sent' = sent /\ answered' = answered
    BY DEF ClaimMore
  <1>3. more \in SUBSET Msgs /\ \A m \in more : row[m].waiting /\ row[m].run \in {r, NoRun}
    BY DEF Claimable, HeldBy, Free, Waiting
  <1> HIDE DEF more
  <1>4. /\ row' \in [Msgs -> RowType]
        /\ \A m \in more : /\ row'[m].waiting = row[m].waiting
                           /\ row'[m].run = r /\ row'[m].claimed = TRUE
        /\ \A m \in Msgs \ more : row'[m] = row[m]
    BY <1>1, <1>2, <1>3, ClaimStep
  <1>5. \A m \in Msgs : row'[m].waiting = row[m].waiting
    BY <1>4
  <1>6. turn \in [Runs -> TurnType] /\ turn[r] \in TurnType
    BY <1>1 DEF Core
  <1>7. /\ [turn[r] EXCEPT !.given = @ \cup more] \in TurnType
        /\ [turn[r] EXCEPT !.given = @ \cup more].phase = turn[r].phase
        /\ [turn[r] EXCEPT !.given = @ \cup more].given = turn[r].given \cup more
    BY <1>3, <1>6 DEF TurnType
  <1>8. /\ turn' \in [Runs -> TurnType] /\ \A o \in Runs \ {r} : turn'[o] = turn[o]
        /\ turn'[r].phase = "open" /\ turn'[r].given = turn[r].given \cup more
    BY <1>2, <1>6, <1>7
  <1>9. Core'
    BY <1>1, <1>2, <1>4, <1>8 DEF Core
  <1>10. TurnHolds'
    <2> SUFFICES ASSUME NEW o \in Runs
                 PROVE  /\ turn'[o].phase # "none" => status'[o] = "running"
                        /\ turn'[o].phase = "claimed" => \A m \in turn'[o].took :
                              row'[m].waiting /\ row'[m].run = o /\ row'[m].claimed
                        /\ turn'[o].phase = "open" => \A m \in turn'[o].given :
                              row'[m].waiting /\ row'[m].run = o /\ row'[m].claimed
      BY DEF TurnHolds
    <2>0. turn[o].took \subseteq Msgs /\ turn[o].given \subseteq Msgs
      BY <1>6 DEF TurnType
    <2>1. CASE o = r
      <3>1. status'[o] = "running"
        BY <1>1, <1>2, <2>1 DEF TurnHolds
      <3>2. ASSUME NEW m \in turn[r].given \cup more
            PROVE  row'[m].waiting /\ row'[m].run = r /\ row'[m].claimed
        <4>1. CASE m \in more
          BY <1>3, <1>4, <4>1
        <4>2. CASE m \notin more
          BY <1>1, <1>2, <1>4, <2>0, <2>1, <4>2 DEF TurnHolds
        <4>3. QED
          BY <4>1, <4>2
      <3>3. QED
        BY <1>8, <2>1, <3>1, <3>2
    <2>2. CASE o # r
      <3>1. turn'[o] = turn[o] /\ status'[o] = status[o]
        BY <1>2, <1>8, <2>2
      <3>2. \A m \in Msgs : row[m].run = o => row'[m] = row[m]
        BY <1>3, <1>4, <2>2, RunsAssumption
      <3>3. QED
        BY <1>1, <2>0, <3>1, <3>2 DEF TurnHolds
    <2>3. QED
      BY <2>1, <2>2
  <1>11. PastOnly'
    BY <1>1, <1>2, <1>5 DEF PastOnly, Core
  <1>12. AnsweredOnce'
    BY <1>1, <1>2, <1>5 DEF AnsweredOnce, Waiting
  <1>13. QED
    BY <1>9, <1>10, <1>11, <1>12 DEF AnswerInv

\* The call of the model, which gives back what did not fit, preserves the invariant.
LEMMA CallModelStep ==
    ASSUME AnswerInv, NEW r \in Runs, CallModel(r) PROVE AnswerInv'
  <1>1. Core /\ TurnHolds /\ PastOnly /\ AnsweredOnce
    BY DEF AnswerInv
  <1>2. PICK inc \in fitInitialSteering(turn[r].took, batch[r] # 0) :
          /\ row' = [m \in Msgs |->
                        IF m \in turn[r].took \ inc /\ Waiting(m) /\ row[m].run = r
                        THEN FreeRow ELSE row[m]]
          /\ turn' = [turn EXCEPT ![r] = [@ EXCEPT !.phase = "open", !.given = inc,
                                                   !.deferred = turn[r].took \ inc]]
    BY DEF CallModel
  <1>3. /\ turn[r].phase = "claimed" /\ status' = status /\ sent' = sent
        /\ answered' = answered
    BY DEF CallModel
  <1>4. turn[r] \in TurnType /\ turn \in [Runs -> TurnType]
    BY <1>1 DEF Core
  <1>5. turn[r].took \subseteq Msgs
    BY <1>4 DEF TurnType
  <1>6. inc \subseteq turn[r].took
    BY <1>2 DEF fitInitialSteering
  <1> DEFINE new == [turn[r] EXCEPT !.phase = "open", !.given = inc,
                                    !.deferred = turn[r].took \ inc]
  <1>7. new \in TurnType /\ new.phase = "open" /\ new.given = inc
    BY <1>4, <1>5, <1>6 DEF TurnType
  <1>8. turn' = [turn EXCEPT ![r] = new]
    BY <1>2
  <1> HIDE DEF new
  <1>9. turn' \in [Runs -> TurnType] /\ turn'[r] = new
        /\ \A o \in Runs \ {r} : turn'[o] = turn[o]
    BY <1>4, <1>7, <1>8
  <1>10. ASSUME NEW m \in Msgs
         PROVE  /\ row'[m] \in RowType
                /\ row'[m] = row[m] \/ (row[m].waiting /\ row[m].run = r /\ m \notin inc)
    BY <1>1, <1>2, FreshRows DEF Core, Waiting
  <1>11. row' \in [Msgs -> RowType]
    <2>1. row' = [m \in Msgs |-> row'[m]]
      BY <1>2
    <2>2. QED
      BY <2>1, <1>10
  <1>12. \A m \in Msgs : row'[m].waiting => row[m].waiting
    BY <1>10
  <1>13. Core'
    BY <1>1, <1>3, <1>9, <1>11 DEF Core
  <1>14. TurnHolds'
    <2> SUFFICES ASSUME NEW o \in Runs
                 PROVE  /\ turn'[o].phase # "none" => status'[o] = "running"
                        /\ turn'[o].phase = "claimed" => \A m \in turn'[o].took :
                              row'[m].waiting /\ row'[m].run = o /\ row'[m].claimed
                        /\ turn'[o].phase = "open" => \A m \in turn'[o].given :
                              row'[m].waiting /\ row'[m].run = o /\ row'[m].claimed
      BY DEF TurnHolds
    <2>1. CASE o = r
      <3>1. status'[r] = "running"
        BY <1>1, <1>3 DEF TurnHolds
      <3>2. \A m \in inc : row'[m].waiting /\ row'[m].run = r /\ row'[m].claimed
        BY <1>1, <1>3, <1>5, <1>6, <1>10 DEF TurnHolds
      <3>3. QED
        BY <1>7, <1>9, <2>1, <3>1, <3>2
    <2>2. CASE o # r
      <3>1. turn'[o] = turn[o] /\ turn[o] \in TurnType
        BY <1>4, <1>9, <2>2
      <3>2. turn[o].took \subseteq Msgs /\ turn[o].given \subseteq Msgs
        BY <3>1 DEF TurnType
      <3>3. \A m \in Msgs : row[m].run = o => row'[m] = row[m]
        BY <1>10, <2>2
      <3>4. QED
        BY <1>1, <1>3, <3>1, <3>2, <3>3 DEF TurnHolds
    <2>3. QED
      BY <2>1, <2>2
  <1>15. PastOnly'
    BY <1>1, <1>3, <1>12 DEF PastOnly, Core
  <1>16. AnsweredOnce'
    BY <1>1, <1>3, <1>12 DEF AnsweredOnce, Waiting
  <1>17. QED
    BY <1>13, <1>14, <1>15, <1>16 DEF AnswerInv

\* A step that ends a turn without an answer.
LEMMA EndUnanswered ==
    ASSUME AnswerInv, NEW r \in Runs,
           row' \in [Msgs -> RowType],
           status' \in [Runs -> {"absent", "queued", "running", "waiting", "completed", "failed",
                                 "cancelled"}],
           turn' = [turn EXCEPT ![r] = NoTurn], sent' = sent, answered' = answered,
           \A m \in Msgs : row'[m].waiting => row[m].waiting,
           \A m \in Msgs, o \in Runs \ {r} :
                row[m].waiting /\ row[m].run = o => row'[m] = row[m],
           \A o \in Runs \ {r} : status'[o] = status[o] \/ status[o] = "absent",
           status[r] # "completed"
    PROVE  AnswerInv'
  <1>1. Core /\ PastOnly /\ AnsweredOnce
    BY DEF AnswerInv
  <1>2. /\ turn' \in [Runs -> TurnType] /\ TurnHolds'
        /\ \A m \in Msgs : row'[m].waiting => m <= sent'
    BY EndTurn
  <1>3. Core'
    BY <1>1, <1>2 DEF Core
  <1>4. PastOnly'
    BY <1>1, <1>2 DEF PastOnly, Core
  <1>5. AnsweredOnce'
    BY <1>1 DEF AnsweredOnce, Waiting
  <1>6. QED
    BY <1>2, <1>3, <1>4, <1>5 DEF AnswerInv

\* Putting a run back, pausing it, or confirming its stop, preserves the invariant.
LEMMA PutBackStep ==
    ASSUME AnswerInv, NEW r \in Runs, PutBack(r) \/ Pause(r) \/ ConfirmStop(r)
    PROVE  AnswerInv'
  <1>1. Core /\ TurnHolds
    BY DEF AnswerInv
  <1>2. /\ status[r] # "completed" /\ row' = row /\ sent' = sent /\ answered' = answered
        /\ turn' = [turn EXCEPT ![r] = NoTurn]
        /\ \E s \in {"queued", "waiting", "cancelled"} : status' = [status EXCEPT ![r] = s]
    BY <1>1 DEF PutBack, Pause, ConfirmStop, Active, TurnHolds
  <1>3. status' \in [Runs -> {"absent", "queued", "running", "waiting", "completed", "failed",
                              "cancelled"}]
        /\ \A o \in Runs \ {r} : status'[o] = status[o]
    BY <1>1, <1>2 DEF Core
  <1>4. QED
    BY <1>1, <1>2, <1>3, EndUnanswered DEF Core

\* The owner's answer preserves the invariant: a run that waits has no turn.
LEMMA AnswerStep ==
    ASSUME AnswerInv, NEW r \in Runs, Answer(r) PROVE AnswerInv'
  <1>1. Core /\ TurnHolds /\ PastOnly /\ AnsweredOnce
    BY DEF AnswerInv
  <1>2. /\ status[r] = "waiting" /\ status' = [status EXCEPT ![r] = "queued"]
        /\ row' = row /\ turn' = turn /\ answered' = answered /\ sent' = sent
    BY DEF Answer
  <1>3. Core'
    BY <1>1, <1>2 DEF Core
  <1>4. TurnHolds'
    BY <1>1, <1>2 DEF Core, TurnHolds
  <1>5. PastOnly'
    BY <1>1, <1>2 DEF Core, PastOnly
  <1>6. AnsweredOnce'
    BY <1>1, <1>2 DEF AnsweredOnce, Waiting
  <1> QED BY <1>3, <1>4, <1>5, <1>6 DEF AnswerInv

\* Stopping the thread preserves the invariant.
LEMMA StopThreadStep ==
    ASSUME AnswerInv, StopThread PROVE AnswerInv'
  <1>1. Core /\ PastOnly /\ AnsweredOnce
    BY DEF AnswerInv
  <1>2. /\ \A m \in Msgs : row'[m] = NoRow
        /\ \A r \in Runs : turn'[r] = NoTurn
        /\ \A r \in Runs : status'[r] = status[r] \/ status[r] # "completed"
        /\ sent' = sent /\ answered' = answered
    BY DEF StopThread, Active
  <1>3. Core'
    BY <1>1, FreshRows DEF Core, StopThread
  <1>4. TurnHolds'
    BY <1>2, FreshRows DEF TurnHolds
  <1>5. PastOnly'
    BY <1>1, <1>2, FreshRows DEF PastOnly, Core
  <1>6. AnsweredOnce'
    BY <1>1, <1>2, FreshRows DEF AnsweredOnce, Waiting
  <1>7. QED
    BY <1>3, <1>4, <1>5, <1>6 DEF AnswerInv

\* The failure of a run preserves the invariant.
LEMMA FailStep ==
    ASSUME AnswerInv, NEW r \in Runs, NEW problem \in BOOLEAN, Fail(r, problem)
    PROVE  AnswerInv'
  <1> DEFINE ended == [status EXCEPT ![r] = "failed"]
  <1> DEFINE rows == AfterFailed(r)
  <1>1. Core
    BY DEF AnswerInv
  <1>2. /\ status[r] = "running" /\ sent' = sent /\ answered' = answered
        /\ turn' = [turn EXCEPT ![r] = NoTurn] /\ Continue(r, rows, ended, ~problem)
    BY DEF Fail
  <1>3. ASSUME NEW m \in Msgs
        PROVE  /\ rows[m] \in RowType
               /\ rows[m] = row[m] \/ (row[m].waiting /\ row[m].run = r)
    BY <1>1, FreshRows DEF AfterFailed, HeldBy, Waiting, Core
  <1>4. rows \in [Msgs -> RowType]
    <2>1. rows = [m \in Msgs |-> rows[m]]
      BY DEF AfterFailed
    <2>2. QED
      BY <2>1, <1>3
  <1>5. /\ ended \in [Runs -> {"absent", "queued", "running", "waiting", "completed", "failed",
                               "cancelled"}]
        /\ \A o \in Runs \ {r} : ended[o] = status[o]
    BY <1>1 DEF Core
  <1> HIDE DEF ended, rows
  <1>6. PICK wanted \in BOOLEAN : Continue(r, rows, ended, wanted)
    BY <1>2
  <1>7. /\ row' \in [Msgs -> RowType]
        /\ status' \in [Runs -> {"absent", "queued", "running", "waiting", "completed", "failed",
                                 "cancelled"}]
        /\ \A m \in Msgs : \/ row'[m] = rows[m]
                           \/ /\ rows[m].waiting /\ rows[m].run = NoRun
                              /\ row'[m].waiting
        /\ \A o \in Runs : status'[o] = ended[o] \/ status[o] = "absent"
    BY <1>1, <1>4, <1>5, <1>6, ContinueStep
  <1>8. \A m \in Msgs : row'[m].waiting => row[m].waiting
    BY <1>3, <1>7
  <1>9. \A m \in Msgs, o \in Runs \ {r} :
            row[m].waiting /\ row[m].run = o => row'[m] = row[m]
    BY <1>3, <1>7, RunsAssumption
  <1>10. /\ \A o \in Runs \ {r} : status'[o] = status[o] \/ status[o] = "absent"
         /\ status[r] # "completed"
    BY <1>2, <1>5, <1>7
  <1>11. QED
    BY <1>2, <1>7, <1>8, <1>9, <1>10, EndUnanswered

\* The completion of a run, which answers what its turn was given, preserves the invariant.
LEMMA CompleteStep ==
    ASSUME AnswerInv, NEW r \in Runs, Complete(r) PROVE AnswerInv'
  <1> DEFINE ended == [status EXCEPT ![r] = "completed"]
  <1> DEFINE rows == AfterCompleted(r)
  <1> DEFINE gave == turn[r].given
  <1>1. Core /\ TurnHolds /\ PastOnly /\ AnsweredOnce
    BY DEF AnswerInv
  <1>2. /\ turn[r].phase = "open" /\ sent' = sent
        /\ answered' = [answered EXCEPT ![r] = gave]
        /\ turn' = [turn EXCEPT ![r] = NoTurn] /\ Continue(r, rows, ended, TRUE)
    BY DEF Complete
  <1>3. /\ gave \subseteq Msgs /\ status[r] = "running"
        /\ \A m \in gave : row[m].waiting /\ row[m].run = r /\ row[m].claimed
    <2>1. turn[r] \in TurnType
      BY <1>1 DEF Core
    <2>2. gave \subseteq Msgs
      BY <2>1 DEF TurnType
    <2>3. QED
      BY <1>1, <1>2, <2>2 DEF TurnHolds
  <1>4. ASSUME NEW m \in Msgs
        PROVE  /\ rows[m] \in RowType
               /\ rows[m].waiting => row[m].waiting
               /\ rows[m] = row[m] \/ (row[m].waiting /\ row[m].run = r)
               /\ m \in gave => ~rows[m].waiting
    <2>1. row[m] \in RowType
      BY <1>1 DEF Core
    <2>2. CASE m \notin HeldBy(r)
      <3>1. rows[m] = row[m]
        BY <2>2 DEF AfterCompleted
      <3>2. m \notin gave
        BY <1>3, <2>2 DEF HeldBy, Waiting
      <3>3. QED
        BY <2>1, <3>1, <3>2
    <2>3. CASE m \in HeldBy(r) /\ row[m].claimed
      <3>1. rows[m] = NoRow
        BY <2>3 DEF AfterCompleted
      <3>2. QED
        BY <2>3, <3>1, FreshRows DEF HeldBy, Waiting
    <2>4. CASE m \in HeldBy(r) /\ ~row[m].claimed
      <3>1. rows[m] = [row[m] EXCEPT !.run = NoRun]
        BY <2>4 DEF AfterCompleted
      <3>2. row[m].waiting /\ row[m].run = r /\ m \notin gave
        BY <1>3, <2>4 DEF HeldBy, Waiting
      <3>3. [row[m] EXCEPT !.run = NoRun] \in RowType
        BY <2>1 DEF RowType
      <3>4. QED
        BY <3>1, <3>2, <3>3
    <2>5. QED
      BY <2>2, <2>3, <2>4
  <1>5. rows \in [Msgs -> RowType]
    <2>1. rows = [m \in Msgs |-> rows[m]]
      BY DEF AfterCompleted
    <2>2. QED
      BY <2>1, <1>4
  <1>6. /\ ended \in [Runs -> {"absent", "queued", "running", "waiting", "completed", "failed",
                               "cancelled"}]
        /\ ended[r] = "completed" /\ \A o \in Runs \ {r} : ended[o] = status[o]
    BY <1>1 DEF Core
  <1> HIDE DEF ended, rows, gave
  <1>7. /\ row' \in [Msgs -> RowType]
        /\ status' \in [Runs -> {"absent", "queued", "running", "waiting", "completed", "failed",
                                 "cancelled"}]
        /\ \A m \in Msgs : \/ row'[m] = rows[m]
                           \/ /\ rows[m].waiting /\ rows[m].run = NoRun
                              /\ row'[m].waiting
        /\ \A o \in Runs : status'[o] = ended[o] \/ status[o] = "absent"
    <2>1. PICK wanted \in BOOLEAN : Continue(r, rows, ended, wanted)
      BY <1>2
    <2>2. QED
      BY <1>1, <1>5, <1>6, <2>1, ContinueStep
  <1>8. \A m \in Msgs : row'[m].waiting => row[m].waiting /\ m \notin gave
    BY <1>4, <1>7
  <1>9. \A m \in Msgs, o \in Runs \ {r} :
            row[m].waiting /\ row[m].run = o => row'[m] = row[m]
    BY <1>4, <1>7, RunsAssumption
  <1>10. /\ turn' \in [Runs -> TurnType] /\ TurnHolds'
         /\ \A m \in Msgs : row'[m].waiting => m <= sent'
    <2>1. \A o \in Runs \ {r} : status'[o] = status[o] \/ status[o] = "absent"
      BY <1>6, <1>7
    <2>2. \A m \in Msgs : row'[m].waiting => row[m].waiting
      BY <1>8
    <2>3. QED
      BY <1>2, <1>7, <1>9, <2>1, <2>2, EndTurn
  <1>11. /\ answered' \in [Runs -> SUBSET Msgs] /\ answered'[r] = gave
         /\ \A o \in Runs \ {r} : answered'[o] = answered[o]
    BY <1>1, <1>2, <1>3 DEF Core
  <1>12. Core'
    BY <1>1, <1>2, <1>7, <1>10, <1>11 DEF Core
  <1>13. PastOnly'
    <2>1. \A m \in gave : m <= sent
      BY <1>1, <1>3 DEF PastOnly
    <2>2. \A o \in Runs : \A m \in answered'[o] : m <= sent'
      BY <1>1, <1>2, <1>11, <2>1 DEF PastOnly
    <2>3. \A o \in Runs : answered'[o] # {} => status'[o] = "completed"
      BY <1>1, <1>3, <1>6, <1>7, <1>11 DEF PastOnly
    <2>4. QED
      BY <1>10, <2>2, <2>3 DEF PastOnly
  <1>14. AnsweredOnce'
    <2>1. \A o \in Runs \ {r} : \A m \in answered[o] : m \in Msgs /\ m \notin gave
      BY <1>1, <1>3 DEF AnsweredOnce, Waiting, Core
    <2>2. ASSUME NEW m \in Msgs, NEW o \in Runs, m \in answered'[o]
          PROVE  ~row'[m].waiting
      BY <1>1, <1>8, <1>11, <2>2 DEF AnsweredOnce, Waiting
    <2>3. ASSUME NEW m \in Msgs, NEW o \in Runs, NEW p \in Runs \ {o}, m \in answered'[o]
          PROVE  m \notin answered'[p]
      BY <1>1, <1>11, <2>1, <2>3 DEF AnsweredOnce
    <2>4. QED
      BY <2>2, <2>3 DEF AnsweredOnce, Waiting
  <1>15. QED
    BY <1>10, <1>12, <1>13, <1>14 DEF AnswerInv

-----------------------------------------------------------------------------
\* Every step preserves the invariant.
LEMMA NextAnswer == AnswerInv /\ [Next]_vars => AnswerInv'
  <1> SUFFICES ASSUME AnswerInv, [Next]_vars PROVE AnswerInv'
    OBVIOUS
  <1>1. CASE Send \/ SendParallel
    BY <1>1, SendStep
  <1>2. CASE StopThread
    BY <1>2, StopThreadStep
  <1>3. ASSUME NEW r \in Runs, AdmitPeer(r) \/ Step(r) \/ Answer(r) \/ ConfirmStop(r)
        PROVE  AnswerInv'
    <2>1. CASE AdmitPeer(r)
      BY <2>1, AdmitPeerStep
    <2>2. CASE StartTurn(r)
      BY <2>2, StartTurnStep
    <2>3. CASE CallModel(r)
      BY <2>3, CallModelStep
    <2>4. CASE ClaimMore(r)
      BY <2>4, ClaimMoreStep
    <2>5. CASE PutBack(r) \/ Pause(r) \/ ConfirmStop(r)
      BY <2>5, PutBackStep
    <2>6. CASE Complete(r)
      BY <2>6, CompleteStep
    <2>7. CASE Fail(r, TRUE) \/ Fail(r, FALSE)
      BY <2>7, FailStep
    <2>8. CASE Answer(r)
      BY <2>8, AnswerStep
    <2>9. QED
      BY <1>3, <2>1, <2>2, <2>3, <2>4, <2>5, <2>6, <2>7, <2>8 DEF Step
  <1>4. CASE UNCHANGED vars
    BY <1>4 DEF vars, AnswerInv, Core, TurnHolds, PastOnly, AnsweredOnce, Waiting
  <1>5. QED
    BY <1>1, <1>2, <1>3, <1>4 DEF Next

\* A message to a busy bot is answered by at most one run, however many runs and
\* messages there are: claimSteering, releaseSteering and the end of a run hand a row
\* from one run to the next without ever leaving it with two.
THEOREM NoMessageAnsweredTwice == Spec => []AnsweredOnce
  <1>1. AnswerInv => AnsweredOnce
    BY DEF AnswerInv
  <1>2. QED
    BY InitAnswer, NextAnswer, <1>1, PTL DEF Spec

-----------------------------------------------------------------------------
(* Follow-ups.                                                              *)

\* A non-empty set of numbers has a least element.
LEMMA Least ==
    ASSUME NEW S, S \subseteq Nat, S # {}
    PROVE  \E x \in S : \A y \in S : x <= y
  <1>1. PICK x \in S : \A y \in S : ~(<<y, x>> \in OpToRel(<, Nat))
    BY WFMin, NatLessThanWellFounded, Zenon
  <1>2. \A y \in S : ~(y < x)
    BY <1>1 DEF OpToRel
  <1> QED BY <1>2

\* A non-empty set of messages has a newest.
LEMMA Newest ==
    ASSUME NEW ms \in SUBSET Msgs, ms # {}
    PROVE  LastOf(ms) \in ms /\ \A m \in ms : m <= LastOf(ms)
  <1> DEFINE U == {k \in Nat : \A m \in ms : m <= k}
  <1>0. ms \subseteq 1..MaxMsgs /\ MaxMsgs \in Nat
    BY MsgsAssumption DEF Msgs
  <1>1. MaxMsgs \in U
    BY <1>0
  <1>2. PICK k \in U : \A j \in U : k <= j
    BY <1>1, Least
  <1>3. k \in ms
    <2> SUFFICES ASSUME k \notin ms PROVE FALSE
      OBVIOUS
    <2>1. \A m \in ms : m <= k - 1 /\ 1 <= m
      BY <1>0, <1>2
    <2>2. k - 1 \in Nat
      <3>1. PICK m \in ms : TRUE
        OBVIOUS
      <3> QED BY <1>0, <1>2, <2>1, <3>1
    <2>3. k - 1 \in U
      BY <1>2, <2>1, <2>2
    <2> QED BY <1>2, <2>3
  <1>4. \A m \in ms : m <= k
    BY <1>2
  <1> HIDE DEF U
  <1> QED BY <1>3, <1>4 DEF LastOf

\* The rest of the types.
Rest ==
    /\ bridged \in SUBSET Runs
    /\ batch \in [Runs -> 0..MaxMsgs]
    /\ sent \in 0..MaxMsgs
    /\ lastEnd \in {"none", "outcome", "problem", "stop"}

\* A run that has ended without completing keeps what it keeps.
Over == {"failed", "cancelled"}

\* A row is free or waits behind a run that could answer it, unless that run was stopped
\* or is a failed follow-up which keeps its batch.
Held ==
    \A m \in Msgs : Waiting(m) /\ row[m].run # NoRun =>
        /\ row[m].run \in Runs \ Peers
        /\ \/ Active(row[m].run)
           \/ status[row[m].run] = "cancelled"
           \/ status[row[m].run] = "failed" /\ m <= batch[row[m].run]

\* Nothing is free when the last run that could answer has ended with an outcome.
NoneFree == Busy = {} /\ lastEnd = "outcome" => \A m \in Msgs : Waiting(m) => row[m].run # NoRun

\* The message m of its batch that follow-up c never lets go: whatever waits longer is kept by
\* a run that is over, so the oldest message c claims is m.
First(c, m) ==
    /\ m <= batch[c] /\ row[m].waiting /\ row[m].run = c /\ ~row[m].adopted
    /\ turn[c].phase = "claimed" => m \in turn[c].took
    /\ turn[c].phase = "open" => m \in turn[c].given
    /\ \A n \in Msgs : n < m /\ row[n].waiting =>
          row[n].run \in Runs /\ status[row[n].run] \in Over

\* An active follow-up has one.
FollowUps ==
    \A c \in Runs :
        /\ c \in bridged => status[c] # "absent" /\ batch[c] = 0
        /\ batch[c] # 0 => status[c] # "absent" /\ c \notin Peers
        /\ batch[c] # 0 /\ Active(c) => \E m \in Msgs : First(c, m)

\* What AnswerInv lacks.
More == Rest /\ Held /\ NoneFree /\ FollowUps

\* All of it holds in the first state.
LEMMA InitMore == Init => More
  <1> SUFFICES ASSUME Init PROVE More
    OBVIOUS
  <1>1. Rest
    BY MsgsAssumption DEF Init, Rest
  <1>2. Held /\ NoneFree
    BY FreshRows DEF Init, Held, NoneFree, Waiting
  <1>3. FollowUps
    BY DEF Init, FollowUps
  <1> QED BY <1>1, <1>2, <1>3 DEF More

\* A claim marks a row as taken over only if nobody had it, and a new row is not.
LEMMA Adopted ==
    /\ \A c \in Runs : ~RowOf(c).adopted
    /\ row \in [Msgs -> RowType] =>
          \A r \in Runs, m \in Msgs :
             row[m].run # NoRun /\ ~row[m].adopted => ~ClaimedRow(r, m).adopted
  <1>1. ASSUME NEW c \in Runs PROVE ~RowOf(c).adopted
    <2>1. NoRow \in RowType /\ NoRow.adopted = FALSE
      BY DEF NoRow, RowType
    <2>2. FreeRow \in RowType /\ FreeRow.adopted = FALSE
      BY <2>1 DEF FreeRow, RowType
    <2>3. RowOf(c).adopted = FALSE
      BY <2>2 DEF RowOf, RowType
    <2> QED BY <2>3
  <1>2. ASSUME row \in [Msgs -> RowType], NEW r \in Runs, NEW m \in Msgs,
               row[m].run # NoRun, ~row[m].adopted
        PROVE  ~ClaimedRow(r, m).adopted
    <2>1. row[m] \in RowType
      BY <1>2
    <2>2. (row[m].adopted \/ row[m].run = NoRun) = FALSE
      BY <1>2
    <2>3. ClaimedRow(r, m) = [row[m] EXCEPT !.run = r, !.claimed = TRUE, !.adopted = FALSE]
      BY <2>1, <2>2, Zenon DEF ClaimedRow
    <2> QED BY <2>1, <2>3 DEF RowType
  <1> QED BY <1>1, <1>2

\* A follow-up keeps its first message while nothing older comes to be claimable.
LEMMA FirstKept ==
    ASSUME NEW c \in Runs, NEW m \in Msgs, First(c, m), batch'[c] = batch[c],
           row'[m].waiting, row'[m].run = c, ~row'[m].adopted,
           turn'[c].phase = "claimed" => m \in turn'[c].took,
           turn'[c].phase = "open" => m \in turn'[c].given,
           \A n \in Msgs : n < m /\ row'[n].waiting => row[n].waiting /\ row'[n].run = row[n].run,
           \A o \in Runs : status[o] \in Over => status'[o] = status[o]
    PROVE  First(c, m)'
  BY DEF First

\* A run that comes to be changes nothing for the others.
LEMMA NewRunKeeps ==
    ASSUME AnswerInv, More, NEW r \in Runs, status[r] = "absent",
           status' = [status EXCEPT ![r] = "queued"],
           bridged' \in {bridged, bridged \cup {r}},
           UNCHANGED <<batch, row, turn, lastEnd>>, sent' \in 0..MaxMsgs
    PROVE  More'
  <1>0. /\ Core /\ Rest /\ Held /\ NoneFree /\ FollowUps
        /\ status \in [Runs -> {"absent", "queued", "running", "waiting",
                                "completed", "failed", "cancelled"}]
    BY DEF AnswerInv, Core, More
  <1>1. /\ batch' = batch /\ row' = row /\ turn' = turn /\ lastEnd' = lastEnd
        /\ \A o \in Runs \ {r} : status'[o] = status[o]
        /\ status'[r] = "queued"
    BY <1>0
  <1>2. Rest'
    BY <1>0, <1>1 DEF Rest
  <1>3. Held'
    BY <1>0, <1>1 DEF Held, Waiting, Active
  <1>4. NoneFree'
    BY <1>0, <1>1 DEF NoneFree, Busy, Active, Waiting
  <1>5. batch[r] = 0
    BY <1>0 DEF FollowUps
  <1>6. ASSUME NEW c \in Runs, batch[c] # 0, Active(c)' PROVE \E m \in Msgs : First(c, m)'
    <2>1. c # r /\ Active(c)
      BY <1>1, <1>5, <1>6 DEF Active
    <2>2. PICK m \in Msgs : First(c, m)
      BY <1>0, <1>6, <2>1 DEF FollowUps
    <2>3. First(c, m)'
      BY <1>1, <2>2 DEF First, Over
    <2> QED BY <2>3
  <1>7. FollowUps'
    BY <1>0, <1>1, <1>5, <1>6 DEF FollowUps
  <1> QED BY <1>2, <1>3, <1>4, <1>7 DEF More

\* A message that is sent waits behind a run that is at work, or gets a run.
LEMMA SendKeeps ==
    ASSUME AnswerInv, More, Send \/ SendParallel
    PROVE  More'
  <1>0. /\ Core /\ Rest /\ Held /\ NoneFree /\ FollowUps /\ PastOnly /\ row \in [Msgs -> RowType]
        /\ sent < MaxMsgs /\ sent' = sent + 1 /\ sent' \in 0..MaxMsgs /\ sent + 1 \in Msgs
        /\ sent \in Nat
    BY MsgsAssumption DEF AnswerInv, Core, More, Rest, Send, SendParallel, Msgs
  <1>1. ASSUME StartRunFor(sent + 1), UNCHANGED <<batch, row, turn, lastEnd>> PROVE More'
    <2>1. PICK r \in Fresh :
            /\ status' = [status EXCEPT ![r] = "queued"]
            /\ bridged' = IF sent + 1 \in Channel THEN bridged \cup {r} ELSE bridged
      BY <1>1 DEF StartRunFor
    <2>2. r \in Runs /\ status[r] = "absent" /\ bridged' \in {bridged, bridged \cup {r}}
      BY <2>1 DEF Fresh, Unused
    <2> QED BY <1>0, <1>1, <2>1, <2>2, NewRunKeeps
  <1>2. ASSUME NEW r \in Busy, row' = [row EXCEPT ![sent + 1] = RowOf(r)],
               UNCHANGED <<status, bridged, batch, turn, lastEnd>>
        PROVE  More'
    <2>0. r \in Runs \ Peers /\ Active(r)
      BY <1>2 DEF Busy
    <2>1. RowOf(r).run = r /\ RowOf(r).waiting /\ r # NoRun
      BY <2>0, FreshRows, RunsAssumption
    <2>2. /\ \A m \in Msgs \ {sent + 1} : row'[m] = row[m]
          /\ row'[sent + 1] = RowOf(r) /\ ~row[sent + 1].waiting
          /\ status' = status /\ bridged' = bridged /\ batch' = batch /\ turn' = turn
          /\ lastEnd' = lastEnd
      <3>1. ~row[sent + 1].waiting
        BY <1>0 DEF PastOnly
      <3> QED BY <1>0, <1>2, <3>1
    <2>3. Rest'
      BY <1>0, <2>2 DEF Rest
    <2>4. Held'
      BY <1>0, <2>0, <2>1, <2>2 DEF Held, Waiting, Active
    <2>5. NoneFree'
      BY <1>0, <2>1, <2>2 DEF NoneFree, Waiting, Busy, Active
    <2>6. ASSUME NEW c \in Runs, batch[c] # 0, Active(c) PROVE \E m \in Msgs : First(c, m)'
      <3>1. PICK m \in Msgs : First(c, m)
        BY <1>0, <2>6 DEF FollowUps
      <3>2. m # sent + 1 /\ m <= sent /\ m \in Nat
        BY <1>0, <2>2, <3>1 DEF First, PastOnly, Msgs
      <3>3. First(c, m)'
        BY <1>0, <2>2, <3>1, <3>2 DEF First, Msgs
      <3> QED BY <3>3
    <2>7. FollowUps'
      BY <1>0, <2>2, <2>6 DEF FollowUps, Active
    <2> QED BY <2>3, <2>4, <2>5, <2>7 DEF More
  <1> QED BY <1>1, <1>2 DEF Send, SendParallel

\* A step of r that leaves the runs as active as they were: it claims rows of its own and
\* free ones, or lets go rows of its own.
LEMMA TurnKeeps ==
    ASSUME AnswerInv, More, NEW r \in Runs, row' \in [Msgs -> RowType],
           \A o \in Runs \ {r} : status'[o] = status[o] /\ turn'[o] = turn[o],
           Active(r), Active(r)',
           UNCHANGED <<bridged, batch, sent, lastEnd>>,
           \A m \in Msgs : row'[m].waiting => row[m].waiting,
           \A m \in Msgs : row[m].run \in Runs \ {r} => row'[m] = row[m],
           \A m \in Msgs : row'[m] # row[m] =>
              r \notin Peers /\ row'[m].run \in {r, NoRun},
           \A m \in Msgs : First(r, m) =>
              /\ row'[m].waiting /\ row'[m].run = r /\ ~row'[m].adopted
              /\ turn'[r].phase = "claimed" => m \in turn'[r].took
              /\ turn'[r].phase = "open" => m \in turn'[r].given
    PROVE  More'
  <1>0. Core /\ Rest /\ Held /\ NoneFree /\ FollowUps /\ row \in [Msgs -> RowType]
    BY DEF AnswerInv, Core, More
  <1>1. /\ bridged' = bridged /\ batch' = batch /\ sent' = sent /\ lastEnd' = lastEnd
        /\ \A o \in Runs : Active(o)' = Active(o)
        /\ \A o \in Runs : status[o] \in Over => status'[o] = status[o]
        /\ \A o \in Runs : (status'[o] = "absent") = (status[o] = "absent")
    BY <1>0 DEF Active, Over
  <1>2. Rest'
    BY <1>0, <1>1 DEF Rest
  <1>3. Held'
    <2> SUFFICES ASSUME NEW m \in Msgs, row'[m].waiting, row'[m].run # NoRun
                 PROVE  /\ row'[m].run \in Runs \ Peers
                        /\ \/ status'[row'[m].run] \in {"queued", "running", "waiting"}
                           \/ status'[row'[m].run] = "cancelled"
                           \/ status'[row'[m].run] = "failed" /\ m <= batch'[row'[m].run]
      BY DEF Held, Waiting, Active
    <2>1. CASE row'[m] = row[m]
      <3>1. row[m].run \in Runs
        BY <1>0, <2>1 DEF RowType
      <3> QED BY <1>0, <1>1, <2>1, <3>1 DEF Held, Waiting, Over, Active
    <2>2. CASE row'[m] # row[m]
      BY <1>1, <2>2 DEF Active
    <2> QED BY <2>1, <2>2
  <1>4. NoneFree'
    <2> SUFFICES ASSUME Busy' = {}, lastEnd = "outcome", NEW m \in Msgs, row'[m].waiting
                 PROVE  row'[m].run # NoRun
      BY <1>1 DEF NoneFree, Waiting
    <2>1. Busy = {}
      BY <1>1 DEF Busy
    <2>2. r \in Peers
      BY <2>1 DEF Busy
    <2> QED BY <1>0, <2>1, <2>2 DEF NoneFree, Waiting
  <1>5. ASSUME NEW c \in Runs, batch[c] # 0, Active(c) PROVE \E m \in Msgs : First(c, m)'
    <2>1. PICK m \in Msgs : First(c, m)
      BY <1>0, <1>5 DEF FollowUps
    <2>2. ASSUME NEW n \in Msgs, n < m, row'[n].waiting
          PROVE  row[n].waiting /\ row'[n].run = row[n].run
      <3>1. row[n].waiting /\ row[n].run \in Runs /\ status[row[n].run] \in Over
        BY <2>1, <2>2 DEF First
      <3>2. row[n].run # r
        BY <3>1 DEF Active, Over
      <3> QED BY <3>1, <3>2
    <2>3. CASE c = r
      <3>1. First(c, m)'
        BY <1>1, <2>1, <2>2, <2>3, FirstKept
      <3> QED BY <3>1
    <2>4. CASE c # r
      <3>1. row'[m] = row[m]
        BY <2>1, <2>4 DEF First
      <3>2. First(c, m)'
        BY <1>1, <2>1, <2>2, <2>4, <3>1, FirstKept DEF First
      <3> QED BY <3>2
    <2> QED BY <2>3, <2>4
  <1>6. FollowUps'
    BY <1>0, <1>1, <1>5 DEF FollowUps
  <1> QED BY <1>2, <1>3, <1>4, <1>6 DEF More

\* A turn claims what it may, and the first message of a follow-up with it.
LEMMA ClaimingKeeps ==
    ASSUME AnswerInv, More, NEW r \in Runs, NEW seen \in SUBSET Msgs,
           claimSteering(r, Claimable(r, seen)),
           \A o \in Runs \ {r} : status'[o] = status[o] /\ turn'[o] = turn[o],
           Active(r), Active(r)', UNCHANGED <<bridged, batch, sent, lastEnd>>,
           turn'[r].phase = "claimed" => seen = {} /\ turn'[r].took = Claimable(r, seen),
           turn'[r].phase = "open" => turn[r].phase = "open" /\ turn[r].given \subseteq turn'[r].given
    PROVE  More'
  <1> DEFINE ms == Claimable(r, seen)
  <1>0. Core /\ Rest /\ Held /\ FollowUps /\ row \in [Msgs -> RowType] /\ ms \in SUBSET Msgs
    BY DEF AnswerInv, Core, More, Claimable, HeldBy, Free
  <1>1. ASSUME NEW m \in ms
        PROVE  m \in Msgs /\ row[m].waiting /\ row[m].run \in {r, NoRun} /\ r \notin Peers
    <2>1. m \in HeldBy(r) \cup HeldBy(NoRun) /\ r \notin Peers
      BY <1>1 DEF Claimable, Free
    <2> QED BY <2>1 DEF HeldBy, Waiting
  <1>2. /\ row' \in [Msgs -> RowType]
        /\ \A m \in ms : row'[m].waiting = row[m].waiting /\ row'[m].run = r
        /\ \A m \in Msgs \ ms : row'[m] = row[m]
    <2>1. claimSteering(r, ms)
      OBVIOUS
    <2> HIDE DEF ms
    <2>2. /\ row' \in [Msgs -> RowType]
          /\ \A m \in ms : /\ row'[m].waiting = row[m].waiting
                           /\ row'[m].run = r /\ row'[m].claimed = TRUE
          /\ \A m \in Msgs \ ms : row'[m] = row[m]
      BY <1>0, <2>1, ClaimStep, Zenon
    <2> QED BY <2>2, Zenon
  <1>3. \A m \in ms : row'[m] = ClaimedRow(r, m)
    BY <1>0 DEF claimSteering
  <1>4. ASSUME NEW m \in Msgs, First(r, m)
        PROVE  /\ row'[m].waiting /\ row'[m].run = r /\ ~row'[m].adopted
               /\ turn'[r].phase = "claimed" => m \in turn'[r].took
               /\ turn'[r].phase = "open" => m \in turn'[r].given
    <2>1. row[m].waiting /\ row[m].run = r /\ ~row[m].adopted /\ r # NoRun
      BY <1>4, RunsAssumption DEF First
    <2>2. row'[m].waiting /\ row'[m].run = r
      BY <1>2, <2>1
    <2>3. ~row'[m].adopted
      <3>1. CASE m \in ms
        BY <1>0, <1>3, <1>4, <2>1, <3>1, Adopted
      <3>2. CASE m \notin ms
        BY <1>2, <2>1, <3>2
      <3> QED BY <3>1, <3>2
    <2>4. r \notin Peers /\ r \notin bridged
      <3>1. batch[r] # 0
        BY <1>0, <1>4, MsgsAssumption DEF First, Msgs, Rest
      <3> QED BY <1>0, <3>1 DEF FollowUps
    <2>5. turn'[r].phase = "claimed" => m \in turn'[r].took
      BY <2>1, <2>4 DEF Claimable, HeldBy, Waiting
    <2>6. turn'[r].phase = "open" => m \in turn'[r].given
      BY <1>4 DEF First
    <2> QED BY <2>2, <2>3, <2>5, <2>6
  <1>5. \A m \in Msgs : row'[m].waiting => row[m].waiting
    BY <1>1, <1>2
  <1>6. \A m \in Msgs : row[m].run \in Runs \ {r} => row'[m] = row[m]
    BY <1>1, <1>2, RunsAssumption
  <1>7. \A m \in Msgs : row'[m] # row[m] => r \notin Peers /\ row'[m].run \in {r, NoRun}
    BY <1>1, <1>2
  <1> HIDE DEF ms
  <1> QED BY <1>2, <1>4, <1>5, <1>6, <1>7, TurnKeeps

\* A turn starts, goes on, calls the model, is put back, or pauses until the owner answers.
LEMMA WorkKeeps ==
    ASSUME AnswerInv, More, NEW r \in Runs,
           StartTurn(r) \/ CallModel(r) \/ ClaimMore(r) \/ PutBack(r) \/ Pause(r) \/ Answer(r)
    PROVE  More'
  <1>0. /\ Core /\ TurnHolds /\ Rest /\ Held /\ FollowUps /\ row \in [Msgs -> RowType]
        /\ turn \in [Runs -> TurnType] /\ turn[r] \in TurnType
        /\ status \in [Runs -> {"absent", "queued", "running", "waiting",
                                "completed", "failed", "cancelled"}]
    BY DEF AnswerInv, Core, More
  <1>1. CASE StartTurn(r)
    <2>1. /\ turn' = [turn EXCEPT ![r] = [NoTurn EXCEPT !.phase = "claimed", !.took = Claimable(r, {})]]
          /\ status' = [status EXCEPT ![r] = "running"] /\ status[r] = "queued"
          /\ claimSteering(r, Claimable(r, {})) /\ UNCHANGED <<bridged, batch, sent, lastEnd>>
      BY <1>1 DEF StartTurn
    <2>2. turn'[r].phase = "claimed" /\ turn'[r].took = Claimable(r, {})
      BY <1>0, <2>1 DEF NoTurn
    <2>3. Active(r) /\ Active(r)' /\ \A o \in Runs \ {r} : status'[o] = status[o] /\ turn'[o] = turn[o]
      BY <1>0, <2>1 DEF Active
    <2> QED BY <2>1, <2>2, <2>3, ClaimingKeeps
  <1>2. CASE ClaimMore(r)
    <2> DEFINE seen == turn[r].given \cup turn[r].deferred
    <2>1. /\ turn' = [turn EXCEPT ![r].given = @ \cup Claimable(r, seen)] /\ turn[r].phase = "open"
          /\ claimSteering(r, Claimable(r, seen)) /\ UNCHANGED <<bridged, batch, sent, lastEnd>>
          /\ status' = status
      BY <1>2 DEF ClaimMore
    <2>2. seen \in SUBSET Msgs
      BY <1>0 DEF TurnType
    <2> HIDE DEF seen
    <2>3. turn'[r].phase = "open" /\ turn[r].given \subseteq turn'[r].given
      BY <1>0, <2>1 DEF TurnType
    <2>4. Active(r) /\ Active(r)' /\ \A o \in Runs \ {r} : status'[o] = status[o] /\ turn'[o] = turn[o]
      BY <1>0, <2>1 DEF Active, TurnHolds
    <2> QED BY <2>1, <2>2, <2>3, <2>4, ClaimingKeeps
  <1>3. CASE PutBack(r) \/ Pause(r) \/ Answer(r)
    <2>1. turn'[r].phase = "none" /\ row' = row /\ UNCHANGED <<bridged, batch, sent, lastEnd>>
      BY <1>0, <1>3, FreshRows DEF PutBack, Pause, Answer, TurnHolds
    <2>2. Active(r) /\ Active(r)' /\ \A o \in Runs \ {r} : status'[o] = status[o] /\ turn'[o] = turn[o]
      BY <1>0, <1>3 DEF Active, PutBack, Pause, Answer, TurnHolds
    <2>3. \A m \in Msgs : First(r, m) =>
              /\ row'[m].waiting /\ row'[m].run = r /\ ~row'[m].adopted
              /\ turn'[r].phase = "claimed" => m \in turn'[r].took
              /\ turn'[r].phase = "open" => m \in turn'[r].given
      BY <2>1 DEF First
    <2> QED BY <1>0, <2>1, <2>2, <2>3, TurnKeeps
  <1>4. CASE CallModel(r)
    <2>1. PICK inc \in fitInitialSteering(turn[r].took, batch[r] # 0) :
            /\ row' = [m \in Msgs |-> IF m \in turn[r].took \ inc /\ Waiting(m) /\ row[m].run = r
                                      THEN FreeRow ELSE row[m]]
            /\ turn' = [turn EXCEPT ![r] = [@ EXCEPT !.phase = "open", !.given = inc,
                                                     !.deferred = turn[r].took \ inc]]
      BY <1>4 DEF CallModel
    <2>2. turn[r].phase = "claimed" /\ status' = status /\ UNCHANGED <<bridged, batch, sent, lastEnd>>
      BY <1>4 DEF CallModel
    <2>3. /\ inc \in SUBSET turn[r].took /\ turn[r].took \in SUBSET Msgs
          /\ \A x \in inc, n \in turn[r].took \ inc : x < n
          /\ batch[r] # 0 /\ turn[r].took # {} => inc # {}
      BY <1>0, <2>1 DEF fitInitialSteering, TurnType
    <2>4. turn'[r].phase = "open" /\ turn'[r].given = inc
      BY <1>0, <2>1 DEF TurnType
    <2>5. Active(r) /\ Active(r)' /\ \A o \in Runs \ {r} : status'[o] = status[o] /\ turn'[o] = turn[o]
      BY <1>0, <2>1, <2>2 DEF Active, TurnHolds
    <2>6. \A m \in turn[r].took : row[m].waiting /\ row[m].run = r
      BY <1>0, <2>2 DEF TurnHolds
    <2>7. ASSUME NEW m \in Msgs
          PROVE  \/ row'[m] = row[m]
                 \/ m \in turn[r].took \ inc /\ row'[m] = FreeRow
      BY <2>1
    <2>8. row' \in [Msgs -> RowType]
      BY <1>0, <2>1, FreshRows
    <2>9. ASSUME NEW m \in Msgs, First(r, m) PROVE m \in inc
      <3>1. m \in turn[r].took
        BY <2>2, <2>9 DEF First
      <3>2. batch[r] # 0
        BY <1>0, <2>9, MsgsAssumption DEF First, Msgs, Rest
      <3>3. PICK x \in inc : TRUE
        BY <2>3, <3>1, <3>2
      <3>4. ~(x < m)
        <4>1. x \in Msgs /\ row[x].waiting /\ row[x].run = r
          BY <2>3, <2>6, <3>3
        <4>2. status[r] \notin Over
          BY <2>5 DEF Active, Over
        <4> QED BY <2>9, <4>1, <4>2 DEF First
      <3> QED BY <2>3, <3>1, <3>3, <3>4
    <2>10. \A m \in Msgs : First(r, m) =>
              /\ row'[m].waiting /\ row'[m].run = r /\ ~row'[m].adopted
              /\ turn'[r].phase = "claimed" => m \in turn'[r].took
              /\ turn'[r].phase = "open" => m \in turn'[r].given
      BY <2>4, <2>7, <2>9 DEF First
    <2>11. \A m \in Msgs : row'[m].waiting => row[m].waiting
      BY <2>6, <2>7
    <2>12. \A m \in Msgs : row[m].run \in Runs \ {r} => row'[m] = row[m]
      BY <2>6, <2>7
    <2>13. \A m \in Msgs : row'[m] # row[m] => r \notin Peers /\ row'[m].run \in {r, NoRun}
      BY <1>0, <2>6, <2>7, FreshRows, RunsAssumption DEF Held, Waiting
    <2> QED BY <2>2, <2>5, <2>8, <2>10, <2>11, <2>12, <2>13, TurnKeeps
  <1> QED BY <1>1, <1>2, <1>3, <1>4

\* A stop.
LEMMA StopKeeps ==
    ASSUME AnswerInv, More, StopThread \/ \E r \in Runs : ConfirmStop(r)
    PROVE  More'
  <1>0. /\ Core /\ Rest /\ Held /\ FollowUps /\ row \in [Msgs -> RowType]
        /\ turn \in [Runs -> TurnType]
        /\ status \in [Runs -> {"absent", "queued", "running", "waiting",
                                "completed", "failed", "cancelled"}]
        /\ lastEnd' = "stop" /\ bridged' = bridged /\ batch' = batch /\ sent' = sent
    BY DEF AnswerInv, Core, More, StopThread, ConfirmStop
  <1>1. Rest' /\ NoneFree'
    BY <1>0 DEF Rest, NoneFree
  <1>2. CASE StopThread
    <2>1. \A m \in Msgs : ~row'[m].waiting
      BY <1>2, FreshRows DEF StopThread
    <2>2. \A r \in Runs : /\ status'[r] \notin {"queued", "running", "waiting"}
                          /\ status'[r] = "absent" => status[r] = "absent"
      BY <1>0, <1>2 DEF StopThread, Active
    <2>3. Held' /\ FollowUps'
      BY <1>0, <2>1, <2>2 DEF Held, Waiting, FollowUps, Active
    <2> QED BY <1>1, <2>3 DEF More
  <1>3. ASSUME NEW r \in Runs, ConfirmStop(r) PROVE More'
    <2>1. /\ \A o \in Runs \ {r} : status'[o] = status[o] /\ turn'[o] = turn[o]
          /\ status'[r] = "cancelled" /\ row' = row /\ status[r] \in {"queued", "running", "waiting"}
      BY <1>0, <1>3 DEF ConfirmStop, Active
    <2>2. Held'
      BY <1>0, <2>1 DEF Held, Waiting, Active
    <2>3. ASSUME NEW c \in Runs, batch[c] # 0, Active(c)' PROVE \E m \in Msgs : First(c, m)'
      <3>1. c # r /\ Active(c)
        BY <2>1, <2>3 DEF Active
      <3>2. PICK m \in Msgs : First(c, m)
        BY <1>0, <2>3, <3>1 DEF FollowUps
      <3>3. First(c, m)'
        BY <1>0, <2>1, <3>1, <3>2 DEF First, Over
      <3> QED BY <3>3
    <2>4. FollowUps'
      BY <1>0, <2>1, <2>3 DEF FollowUps
    <2> QED BY <1>1, <2>2, <2>4 DEF More
  <1> QED BY <1>2, <1>3

\* How createSteeringContinuation ends: nothing more to do, or a follow-up for what is free.
NoFollowUp(r, rows, ended, wanted) ==
    /\ status' = ended /\ row' = rows /\ batch' = batch
    /\ \/ ~wanted \/ Busy \ {r} # {}
       \/ \A m \in Msgs : ~(rows[m].waiting /\ rows[m].run = NoRun)

OneFollowUp(r, rows, ended) ==
    /\ Busy \ {r} = {}
    /\ \E c \in Fresh, ms \in SUBSET Msgs :
          /\ ms # {} /\ ms = {m \in Msgs : rows[m].waiting /\ rows[m].run = NoRun}
          /\ status' = [ended EXCEPT ![c] = "queued"]
          /\ row' = [m \in Msgs |-> IF m \in ms THEN RowOf(c) ELSE rows[m]]
          /\ batch' = [batch EXCEPT ![c] = LastOf(ms)]

\* There is no other way.
LEMMA ContinueCases ==
    ASSUME NEW r, NEW rows, NEW ended, NEW wanted, Continue(r, rows, ended, wanted)
    PROVE  NoFollowUp(r, rows, ended, wanted) \/ OneFollowUp(r, rows, ended)
  <1> DEFINE ms == {m \in Msgs : rows[m].waiting /\ rows[m].run = NoRun}
  <1>1. ms \in SUBSET Msgs
    OBVIOUS
  <1>2. CASE ~wanted \/ Busy \ {r} # {} \/ ms = {}
    <2>1. status' = ended /\ row' = rows /\ batch' = batch
      BY <1>2 DEF Continue
    <2> QED BY <1>2, <2>1 DEF NoFollowUp
  <1>3. CASE ~(~wanted \/ Busy \ {r} # {} \/ ms = {})
    <2>1. \E c \in Fresh :
             /\ status' = [ended EXCEPT ![c] = "queued"]
             /\ row' = [m \in Msgs |-> IF m \in ms THEN RowOf(c) ELSE rows[m]]
             /\ batch' = [batch EXCEPT ![c] = LastOf(ms)]
      BY <1>3 DEF Continue
    <2> HIDE DEF ms
    <2>2. ms = {m \in Msgs : rows[m].waiting /\ rows[m].run = NoRun}
      BY DEF ms
    <2> QED BY <1>1, <1>3, <2>1, <2>2 DEF OneFollowUp
  <1> QED BY <1>2, <1>3

\* The end of a run, which frees rows of its own or keeps them as a failed follow-up does.
LEMMA EndKeeps ==
    ASSUME AnswerInv, More, NEW r \in Runs, status[r] = "running", NEW s \in {"completed", "failed"},
           NEW wanted \in BOOLEAN, NEW rows \in [Msgs -> RowType],
           Continue(r, rows, [status EXCEPT ![r] = s], wanted),
           \A m \in Msgs : rows[m].waiting => row[m].waiting,
           \A m \in Msgs \ HeldBy(r) : rows[m] = row[m],
           \A m \in HeldBy(r) : rows[m].waiting /\ rows[m].run # NoRun =>
              s = "failed" /\ rows[m].run = r /\ m <= batch[r],
           turn' = [turn EXCEPT ![r] = NoTurn],
           lastEnd' \in {"outcome", "problem"}, lastEnd' = "outcome" => wanted,
           bridged' = bridged, sent' = sent
    PROVE  More'
  <1>0. /\ Core /\ Rest /\ Held /\ FollowUps /\ row \in [Msgs -> RowType]
        /\ turn \in [Runs -> TurnType] /\ batch \in [Runs -> 0..MaxMsgs]
        /\ status \in [Runs -> {"absent", "queued", "running", "waiting",
                                "completed", "failed", "cancelled"}]
        /\ \A o \in Runs \ {r} : turn'[o] = turn[o]
        /\ r # NoRun
    BY RunsAssumption DEF AnswerInv, Core, More, Rest
  <1>1. \A m \in Msgs : /\ row[m].run = r /\ row[m].waiting => m \in HeldBy(r)
                        /\ m \in HeldBy(r) => row[m].run = r
    BY DEF HeldBy, Waiting
  <1>2. ASSUME NEW m \in Msgs, rows[m].waiting, rows[m].run # NoRun, rows[m].run # r
        PROVE  rows[m] = row[m] /\ rows[m].run \in Runs \ Peers
    <2>1. rows[m] = row[m]
      BY <1>1, <1>2
    <2> QED BY <1>0, <1>2, <2>1 DEF Held, Waiting
  <1> DEFINE ended == [status EXCEPT ![r] = s]
  <1>3. ASSUME NoFollowUp(r, rows, ended, wanted) PROVE More'
    <2> USE DEF NoFollowUp
    <2>1. status'[r] = s /\ \A o \in Runs \ {r} : status'[o] = status[o]
      BY <1>0, <1>3
    <2>2. Rest'
      BY <1>0, <1>3 DEF Rest
    <2>3. Held'
      <3> SUFFICES ASSUME NEW m \in Msgs, rows[m].waiting, rows[m].run # NoRun
                   PROVE  /\ rows[m].run \in Runs \ Peers
                          /\ \/ status'[rows[m].run] \in {"queued", "running", "waiting"}
                             \/ status'[rows[m].run] = "cancelled"
                             \/ status'[rows[m].run] = "failed" /\ m <= batch[rows[m].run]
        BY <1>3 DEF Held, Waiting, Active
      <3>1. CASE rows[m].run = r
        <4>1. m \in HeldBy(r)
          BY <1>0, <1>1, <3>1
        <4>2. r \in Runs \ Peers
          BY <1>0, <1>1, <4>1 DEF Held, HeldBy, Waiting
        <4> QED BY <2>1, <3>1, <4>1, <4>2
      <3>2. CASE rows[m].run # r
        BY <1>0, <1>2, <2>1, <3>2 DEF Held, Waiting, Active
      <3> QED BY <3>1, <3>2
    <2>4. NoneFree'
      <3> SUFFICES ASSUME Busy' = {}, wanted, NEW m \in Msgs, rows[m].waiting
                   PROVE  rows[m].run # NoRun
        BY <1>3 DEF NoneFree, Waiting
      <3>1. Busy \ {r} = {}
        BY <2>1 DEF Busy, Active
      <3> QED BY <1>3, <3>1
    <2>5. ASSUME NEW c \in Runs, batch[c] # 0, Active(c)' PROVE \E m \in Msgs : First(c, m)'
      <3>1. c # r /\ Active(c)
        BY <2>1, <2>5 DEF Active
      <3>2. PICK m \in Msgs : First(c, m)
        BY <1>0, <2>5, <3>1 DEF FollowUps
      <3>3. rows[m] = row[m]
        BY <1>1, <3>1, <3>2 DEF First
      <3>4. ASSUME NEW n \in Msgs, n < m, rows[n].waiting
            PROVE  row[n].waiting /\ rows[n].run = row[n].run
        <4>1. row[n].waiting /\ row[n].run \in Runs /\ status[row[n].run] \in Over
          BY <3>2, <3>4 DEF First
        <4>2. row[n].run # r
          BY <4>1 DEF Over
        <4> QED BY <1>1, <4>1, <4>2
      <3>5. \A o \in Runs : status[o] \in Over => status'[o] = status[o]
        BY <2>1 DEF Over
      <3>6. First(c, m)'
        BY <1>0, <1>3, <3>1, <3>2, <3>3, <3>4, <3>5, FirstKept DEF First
      <3> QED BY <3>6
    <2>6. FollowUps'
      BY <1>0, <1>3, <2>1, <2>5 DEF FollowUps
    <2> QED BY <2>2, <2>3, <2>4, <2>6 DEF More
  <1>4. ASSUME Busy \ {r} = {}, NEW c \in Fresh, NEW ms \in SUBSET Msgs, ms # {},
               ms = {m \in Msgs : rows[m].waiting /\ rows[m].run = NoRun},
               status' = [[status EXCEPT ![r] = s] EXCEPT ![c] = "queued"],
               row' = [m \in Msgs |-> IF m \in ms THEN RowOf(c) ELSE rows[m]],
               batch' = [batch EXCEPT ![c] = LastOf(ms)]
        PROVE  More'
    <2>1. c \in Runs \ Peers /\ status[c] = "absent" /\ c # r /\ c # NoRun
      BY <1>4, RunsAssumption DEF Fresh, Unused
    <2>2. LastOf(ms) \in ms /\ \A m \in ms : m <= LastOf(ms)
      BY <1>4, Newest
    <2>3. /\ status'[r] = s /\ status'[c] = "queued" /\ batch'[c] = LastOf(ms)
          /\ \A o \in Runs \ {r, c} : status'[o] = status[o]
          /\ \A o \in Runs \ {c} : batch'[o] = batch[o]
      BY <1>0, <1>4, <2>1
    <2>4. \A m \in Msgs : row'[m] = IF m \in ms THEN RowOf(c) ELSE rows[m]
      BY <1>4
    <2>5. RowOf(c).waiting /\ RowOf(c).run = c /\ ~RowOf(c).adopted
      BY <2>1, FreshRows, Adopted
    <2>6. Rest'
      <3>1. LastOf(ms) \in 0..MaxMsgs
        BY <2>2, MsgsAssumption DEF Msgs
      <3> QED BY <1>0, <1>4, <2>1, <3>1 DEF Rest
    <2>7. ASSUME NEW m \in Msgs \ ms, row'[m].waiting
          PROVE  /\ row'[m].run \in Runs \ Peers /\ row'[m].run # c
                 /\ \/ status'[row'[m].run] = "cancelled"
                    \/ status'[row'[m].run] = "failed" /\ m <= batch'[row'[m].run]
      <3>1. row'[m] = rows[m] /\ rows[m].waiting /\ rows[m].run # NoRun
        BY <1>4, <2>4, <2>7
      <3>2. CASE rows[m].run = r
        <4>1. m \in HeldBy(r)
          BY <1>0, <1>1, <3>1, <3>2
        <4>2. r \in Runs \ Peers
          BY <1>0, <1>1, <4>1 DEF Held, HeldBy, Waiting
        <4> QED BY <2>1, <2>3, <3>1, <3>2, <4>1, <4>2
      <3>3. CASE rows[m].run # r
        <4>1. rows[m] = row[m] /\ rows[m].run \in Runs \ Peers
          BY <1>2, <3>1, <3>3
        <4>2. \/ Active(row[m].run) \/ status[row[m].run] = "cancelled"
              \/ status[row[m].run] = "failed" /\ m <= batch[row[m].run]
          BY <1>0, <3>1, <4>1 DEF Held, Waiting
        <4>3. ~Active(row[m].run)
          BY <1>4, <3>3, <4>1 DEF Busy
        <4>4. row[m].run # c
          BY <2>1, <4>2 DEF Active
        <4> QED BY <2>3, <3>1, <3>3, <4>1, <4>2, <4>3, <4>4
      <3> QED BY <3>2, <3>3
    <2>8. Held'
      <3> SUFFICES ASSUME NEW m \in Msgs, row'[m].waiting, row'[m].run # NoRun
                   PROVE  /\ row'[m].run \in Runs \ Peers
                          /\ \/ status'[row'[m].run] \in {"queued", "running", "waiting"}
                             \/ status'[row'[m].run] = "cancelled"
                             \/ status'[row'[m].run] = "failed" /\ m <= batch'[row'[m].run]
        BY DEF Held, Waiting, Active
      <3>1. CASE m \in ms
        BY <2>1, <2>3, <2>4, <2>5, <3>1
      <3>2. CASE m \notin ms
        BY <2>7, <3>2
      <3> QED BY <3>1, <3>2
    <2>9. NoneFree'
      <3>1. c \in Busy'
        BY <2>1, <2>3 DEF Busy, Active
      <3> QED BY <3>1 DEF NoneFree
    <2>10. \E m \in Msgs : First(c, m)'
      <3>1. ms \subseteq Nat
        BY MsgsAssumption DEF Msgs
      <3>2. PICK m \in ms : \A n \in ms : m <= n
        BY <1>4, <3>1, Least
      <3>3. m <= batch'[c] /\ row'[m].waiting /\ row'[m].run = c /\ ~row'[m].adopted
        BY <2>2, <2>3, <2>4, <2>5, <3>2
      <3>4. turn'[c].phase = "none"
        <4>1. TurnHolds
          BY DEF AnswerInv
        <4> QED BY <1>0, <2>1, <4>1 DEF TurnHolds, TurnType
      <3>5. ASSUME NEW n \in Msgs, n < m, row'[n].waiting
            PROVE  row'[n].run \in Runs /\ status'[row'[n].run] \in Over
        <4>1. n \notin ms
          BY <3>1, <3>2, <3>5, MsgsAssumption DEF Msgs
        <4> QED BY <2>7, <3>5, <4>1 DEF Over
      <3>6. First(c, m)'
        BY <3>3, <3>4, <3>5 DEF First
      <3> QED BY <3>6
    <2>11. ASSUME NEW d \in Runs, batch'[d] # 0, Active(d)' PROVE \E m \in Msgs : First(d, m)'
      <3>1. CASE d = c
        BY <2>10, <3>1
      <3>2. CASE d # c
        <4>1. d # r /\ Active(d) /\ batch[d] # 0
          BY <2>3, <2>11, <3>2 DEF Active
        <4>2. d \notin Peers
          BY <1>0, <4>1 DEF FollowUps
        <4> QED BY <1>4, <4>1, <4>2 DEF Busy
      <3> QED BY <3>1, <3>2
    <2>12. FollowUps'
      <3>1. c \notin bridged
        BY <1>0, <2>1 DEF FollowUps
      <3> QED BY <1>0, <2>1, <2>3, <2>11, <3>1 DEF FollowUps
    <2> QED BY <2>6, <2>8, <2>9, <2>12 DEF More
  <1>5. OneFollowUp(r, rows, ended) => More'
    BY <1>4 DEF OneFollowUp
  <1>6. NoFollowUp(r, rows, ended, wanted) \/ OneFollowUp(r, rows, ended)
    <2>1. Continue(r, rows, ended, wanted)
      OBVIOUS
    <2> HIDE DEF ended
    <2> QED BY <2>1, ContinueCases, Zenon
  <1> QED BY <1>3, <1>5, <1>6

\* A run fails.
LEMMA FailKeeps ==
    ASSUME AnswerInv, More, NEW r \in Runs, NEW problem \in BOOLEAN, Fail(r, problem)
    PROVE  /\ More'
           /\ \A m \in Msgs : First(r, m) => row'[m] = row[m]
           /\ \A o \in Runs \ {r} : status'[o] # status[o] => status'[o] = "queued"
  <1> DEFINE rows == AfterFailed(r)
             ended == [status EXCEPT ![r] = "failed"]
  <1>0. /\ Core /\ row \in [Msgs -> RowType] /\ batch \in [Runs -> 0..MaxMsgs]
        /\ status \in [Runs -> {"absent", "queued", "running", "waiting",
                                "completed", "failed", "cancelled"}]
    BY DEF AnswerInv, Core, More, Rest
  <1>1. /\ status[r] = "running" /\ sent' = sent /\ bridged' = bridged
        /\ turn' = [turn EXCEPT ![r] = NoTurn] /\ Continue(r, rows, ended, ~problem)
        /\ lastEnd' = IF problem THEN "problem" ELSE "outcome"
    BY DEF Fail
  <1>2. \A m \in Msgs :
           rows[m] = IF m \in HeldBy(r) /\ (batch[r] = 0 \/ row[m].adopted \/ m > batch[r])
                     THEN FreeRow ELSE row[m]
    BY DEF AfterFailed
  <1>3. rows \in [Msgs -> RowType]
    BY <1>0, FreshRows DEF AfterFailed
  <1>4. /\ \A m \in Msgs : rows[m].waiting => row[m].waiting
        /\ \A m \in Msgs \ HeldBy(r) : rows[m] = row[m]
    BY <1>2 DEF HeldBy, Waiting
  <1>5. ASSUME NEW m \in HeldBy(r), rows[m].waiting, rows[m].run # NoRun
        PROVE  rows[m].run = r /\ m <= batch[r]
    <2>1. m \in Msgs /\ row[m].run = r
      BY <1>5 DEF HeldBy
    <2>2. rows[m] = row[m] /\ ~(m > batch[r])
      BY <1>2, <1>5, <2>1, FreshRows
    <2>3. m \in Nat /\ batch[r] \in Nat
      BY <1>0, <2>1, MsgsAssumption DEF Msgs
    <2> QED BY <2>1, <2>2, <2>3
  <1>6. PICK w \in BOOLEAN : w = ~problem
    OBVIOUS
  <1>7. /\ Continue(r, rows, ended, w) /\ lastEnd' \in {"outcome", "problem"}
        /\ lastEnd' = "outcome" => w
    BY <1>1, <1>6
  <1>8. NoFollowUp(r, rows, ended, w) \/ OneFollowUp(r, rows, ended)
    <2> HIDE DEF ended, rows
    <2> QED BY <1>7, ContinueCases, Zenon
  <1>9. ASSUME NEW m \in Msgs, First(r, m) PROVE row'[m] = row[m]
    <2>1. row[m].run = r /\ ~row[m].adopted /\ m <= batch[r] /\ r # NoRun
      BY <1>9, RunsAssumption DEF First
    <2>2. m \in Nat /\ batch[r] \in Nat /\ m # 0
      BY <1>0, MsgsAssumption DEF Msgs
    <2>3. rows[m] = row[m]
      BY <1>2, <2>1, <2>2
    <2> HIDE DEF ended, rows
    <2> QED BY <1>8, <2>1, <2>3 DEF NoFollowUp, OneFollowUp
  <1>10. \A o \in Runs \ {r} : status'[o] # status[o] => status'[o] = "queued"
    BY <1>0, <1>8 DEF NoFollowUp, OneFollowUp, Fresh, Unused
  <1>11. More'
    <2>1. \A m \in HeldBy(r) : rows[m].waiting /\ rows[m].run # NoRun =>
             "failed" = "failed" /\ rows[m].run = r /\ m <= batch[r]
      BY <1>5
    <2>3. status[r] = "running" /\ turn' = [turn EXCEPT ![r] = NoTurn]
          /\ sent' = sent /\ bridged' = bridged /\ "failed" \in {"completed", "failed"}
      BY <1>1
    <2>4. /\ \A m \in Msgs : rows[m].waiting => row[m].waiting
          /\ \A m \in Msgs \ HeldBy(r) : rows[m] = row[m]
      BY <1>4
    <2>2. Continue(r, rows, [status EXCEPT ![r] = "failed"], w)
      BY <1>7
    <2> HIDE DEF rows, ended
    <2> QED BY <1>3, <1>6, <1>7, <2>1, <2>2, <2>3, <2>4, EndKeeps, Zenon
  <1> QED BY <1>9, <1>10, <1>11

\* A run completes.
LEMMA CompleteKeeps ==
    ASSUME AnswerInv, More, NEW r \in Runs, Complete(r)
    PROVE  More' /\ \A o \in Runs \ {r} : status'[o] # status[o] => status'[o] = "queued"
  <1> DEFINE rows == AfterCompleted(r)
             ended == [status EXCEPT ![r] = "completed"]
  <1>0. /\ Core /\ row \in [Msgs -> RowType] /\ TurnHolds
        /\ status \in [Runs -> {"absent", "queued", "running", "waiting",
                                "completed", "failed", "cancelled"}]
    BY DEF AnswerInv, Core
  <1>1. /\ turn[r].phase = "open" /\ sent' = sent /\ bridged' = bridged
        /\ turn' = [turn EXCEPT ![r] = NoTurn] /\ Continue(r, rows, ended, TRUE)
        /\ lastEnd' = "outcome"
    BY DEF Complete
  <1>2. status[r] = "running"
    BY <1>0, <1>1 DEF TurnHolds
  <1>3. ASSUME NEW m \in Msgs
        PROVE  /\ rows[m] \in RowType
               /\ rows[m].waiting => row[m].waiting
               /\ m \notin HeldBy(r) => rows[m] = row[m]
               /\ m \in HeldBy(r) /\ rows[m].waiting => rows[m].run = NoRun
    <2>0. row[m] \in RowType /\ NoRun \in Runs \cup {NoRun} /\ TRUE \in BOOLEAN
      BY <1>0
    <2>1. row[m] \in RowType /\ [row[m] EXCEPT !.run = NoRun] \in RowType
          /\ [row[m] EXCEPT !.run = NoRun].run = NoRun
          /\ [row[m] EXCEPT !.run = NoRun].waiting = row[m].waiting
      BY <2>0 DEF RowType
    <2>2. rows[m] = IF m \notin HeldBy(r) THEN row[m]
                    ELSE IF row[m].claimed THEN NoRow ELSE [row[m] EXCEPT !.run = NoRun]
      BY DEF AfterCompleted
    <2> QED BY <2>1, <2>2, FreshRows
  <1>4. rows \in [Msgs -> RowType]
    <2>1. rows = [m \in Msgs |-> rows[m]]
      BY DEF AfterCompleted
    <2> QED BY <1>3, <2>1
  <1>5. NoFollowUp(r, rows, ended, TRUE) \/ OneFollowUp(r, rows, ended)
    <2> HIDE DEF ended, rows
    <2> QED BY <1>1, ContinueCases, Zenon
  <1>6. \A o \in Runs \ {r} : status'[o] # status[o] => status'[o] = "queued"
    BY <1>0, <1>5 DEF NoFollowUp, OneFollowUp, Fresh, Unused
  <1>7. More'
    <2>1. \A m \in HeldBy(r) : m \in Msgs
      BY DEF HeldBy
    <2> HIDE DEF rows
    <2> QED BY <1>1, <1>2, <1>3, <1>4, <2>1, EndKeeps
  <1> QED BY <1>6, <1>7

\* Every step keeps all of it.
LEMMA NextMore == AnswerInv /\ More /\ [Next]_vars => More'
  <1> SUFFICES ASSUME AnswerInv, More, [Next]_vars PROVE More'
    OBVIOUS
  <1>1. CASE Send \/ SendParallel
    BY <1>1, SendKeeps
  <1>2. CASE StopThread
    BY <1>2, StopKeeps
  <1>3. ASSUME NEW r \in Runs, AdmitPeer(r) PROVE More'
    <2>1. sent' \in 0..MaxMsgs
      BY <1>3 DEF AdmitPeer, More, Rest
    <2> QED BY <1>3, <2>1, NewRunKeeps DEF AdmitPeer
  <1>4. ASSUME NEW r \in Runs, Step(r) \/ Answer(r) \/ ConfirmStop(r) PROVE More'
    BY <1>4, WorkKeeps, CompleteKeeps, FailKeeps, StopKeeps DEF Step
  <1>5. CASE UNCHANGED vars
    BY <1>5 DEF vars, More, Rest, Held, NoneFree, FollowUps, First, Waiting, Busy, Active
  <1> QED BY <1>1, <1>2, <1>3, <1>4, <1>5 DEF Next

\* The invariant holds in every reachable state.
THEOREM SteeringInvariant == Spec => [](AnswerInv /\ More)
  BY InitAnswer, NextAnswer, InitMore, NextMore, PTL DEF Spec

\* Every reachable state is well typed; in particular a follow-up always has a last message.
THEOREM TypeCorrect == Spec => []TypeOK
  <1>1. AnswerInv /\ More => TypeOK
    BY DEF AnswerInv, More, Core, Rest, TypeOK, RowType, TurnType
  <1> QED BY <1>1, SteeringInvariant, PTL

\* Once the bot has no run left that could answer, no message waits but those that a stopped
\* run left or a failed follow-up keeps.
THEOREM NoMessageWaitsAlone == Spec => []NobodyWaitsAlone
  <1>1. AnswerInv /\ More => NobodyWaitsAlone
    <2> SUFFICES ASSUME AnswerInv, More, Busy = {}, lastEnd = "outcome", NEW m \in Msgs, Waiting(m)
                 PROVE  /\ row[m].run \in Runs
                        /\ \/ status[row[m].run] = "cancelled"
                           \/ status[row[m].run] = "failed" /\ m <= batch[row[m].run]
      BY DEF NobodyWaitsAlone
    <2>1. row[m].run # NoRun
      BY DEF More, NoneFree
    <2>2. /\ row[m].run \in Runs \ Peers
          /\ \/ Active(row[m].run)
             \/ status[row[m].run] = "cancelled"
             \/ status[row[m].run] = "failed" /\ m <= batch[row[m].run]
      BY <2>1 DEF More, Held
    <2>3. ~Active(row[m].run)
      BY <2>2 DEF Busy
    <2> QED BY <2>2, <2>3
  <1> QED BY <1>1, SteeringInvariant, PTL

\* A follow-up that completes was given a message, one that fails keeps one: no chain of
\* follow-ups is longer than the messages that were sent.
THEOREM EveryFollowUpSettles == Spec => FollowUpSettles
  <1> DEFINE P(r) == batch[r] # 0 /\ status'[r] # status[r] =>
                        /\ status'[r] = "completed" => answered'[r] # {}
                        /\ status'[r] = "failed" => HeldBy(r)' # {}
  <1>1. ASSUME AnswerInv, More, Next, NEW r \in Runs PROVE P(r)
    <2>0. /\ status \in [Runs -> {"absent", "queued", "running", "waiting",
                                  "completed", "failed", "cancelled"}]
          /\ answered \in [Runs -> SUBSET Msgs] /\ TurnHolds /\ FollowUps
      BY <1>1 DEF AnswerInv, Core, More
    <2>1. CASE Send \/ SendParallel
      BY <2>0, <2>1 DEF Send, SendParallel, StartRunFor
    <2>2. CASE StopThread
      BY <2>0, <2>2 DEF StopThread
    <2>3. ASSUME NEW o \in Runs, AdmitPeer(o) \/ StartTurn(o) \/ CallModel(o) \/ ClaimMore(o)
                                 \/ PutBack(o) \/ Pause(o) \/ Answer(o) \/ ConfirmStop(o)
          PROVE  P(r)
      BY <2>0, <2>3 DEF AdmitPeer, StartTurn, CallModel, ClaimMore, PutBack, Pause, Answer,
                        ConfirmStop
    <2>4. ASSUME NEW o \in Runs, Complete(o) PROVE P(r)
      <3>1. CASE o # r
        BY <1>1, <2>4, <3>1, CompleteKeeps
      <3>2. CASE o = r
        <4> SUFFICES ASSUME batch[r] # 0, status'[r] # status[r]
                     PROVE  answered'[r] # {} /\ status'[r] # "failed"
          OBVIOUS
        <4>1. turn[r].phase = "open" /\ answered'[r] = turn[r].given /\ Active(r)
          BY <2>0, <2>4, <3>2 DEF Complete, TurnHolds, Active
        <4>2. PICK m \in Msgs : First(r, m)
          BY <2>0, <4>1 DEF FollowUps
        <4>3. m \in answered'[r]
          BY <4>1, <4>2 DEF First
        <4>4. status'[r] # "failed"
          <5> DEFINE ended == [status EXCEPT ![r] = "completed"]
                     rows == AfterCompleted(r)
          <5>1. Continue(r, rows, ended, TRUE)
            BY <2>4, <3>2 DEF Complete
          <5>2. \A c \in Runs : ended[r] = "completed" /\ [ended EXCEPT ![c] = "queued"][r] # "failed"
            BY <2>0
          <5> HIDE DEF ended, rows
          <5>3. NoFollowUp(r, rows, ended, TRUE) \/ OneFollowUp(r, rows, ended)
            BY <5>1, ContinueCases, Zenon
          <5> QED BY <5>2, <5>3 DEF NoFollowUp, OneFollowUp, Fresh, Unused
        <4> QED BY <4>3, <4>4
      <3> QED BY <3>1, <3>2
    <2>5. ASSUME NEW o \in Runs, NEW problem \in BOOLEAN, Fail(o, problem) PROVE P(r)
      <3>1. CASE o # r
        BY <1>1, <2>5, <3>1, FailKeeps
      <3>2. CASE o = r
        <4> SUFFICES ASSUME batch[r] # 0, status'[r] # status[r]
                     PROVE  HeldBy(r)' # {} /\ status'[r] # "completed"
          OBVIOUS
        <4>1. Active(r)
          BY <2>5, <3>2 DEF Fail, Active
        <4>2. PICK m \in Msgs : First(r, m)
          BY <2>0, <4>1 DEF FollowUps
        <4>3. row'[m] = row[m]
          BY <1>1, <2>5, <3>2, <4>2, FailKeeps
        <4>4. m \in HeldBy(r)'
          BY <4>2, <4>3 DEF HeldBy, Waiting, First
        <4>5. status'[r] # "completed"
          <5> DEFINE ended == [status EXCEPT ![r] = "failed"]
                     rows == AfterFailed(r)
          <5>1. Continue(r, rows, ended, ~problem)
            BY <2>5, <3>2 DEF Fail
          <5>2. \A c \in Runs : ended[r] = "failed" /\ [ended EXCEPT ![c] = "queued"][r] # "completed"
            BY <2>0
          <5> HIDE DEF ended, rows
          <5>3. NoFollowUp(r, rows, ended, ~problem) \/ OneFollowUp(r, rows, ended)
            BY <5>1, ContinueCases, Zenon
          <5> QED BY <5>2, <5>3 DEF NoFollowUp, OneFollowUp, Fresh, Unused
        <4> QED BY <4>4, <4>5
      <3> QED BY <3>1, <3>2
    <2> HIDE DEF P
    <2> QED BY <1>1, <2>1, <2>2, <2>3, <2>4, <2>5 DEF Next, Step
  <1>2. AnswerInv /\ More /\ [Next]_vars => [\A r \in Runs : P(r)]_vars
    BY <1>1
  <1> QED BY <1>2, SteeringInvariant, PTL DEF Spec, FollowUpSettles
=============================================================================
