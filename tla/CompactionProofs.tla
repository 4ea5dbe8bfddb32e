-------------------------- MODULE CompactionProofs --------------------------
(***************************************************************************)
(* Proofs about Compaction: its types, that the summary has no gap and     *)
(* nothing that was cleared, and that a run's context has no gap.          *)
(*                                                                         *)
(* The inductive invariant says that numbers are given out once and places *)
(* are after the cursor (Places), what each kind of summary stands for     *)
(* (Summaries), what a compactor of the current generation knows (Knows)   *)
(* and what the reads of a run have in common (Reads).                     *)
(***************************************************************************)
EXTENDS Compaction, FiniteSetTheorems, TLAPS

Places ==
    /\ row.cursor < row.next
    /\ \A m \in msgs : m < row.next
    /\ \A r \in Runs : place[r] # None =>
          /\ row.cursor < place[r] /\ place[r] < row.next
          /\ place[r] \notin msgs
          /\ r \in running
    /\ \A r, q \in Runs : place[r] # None /\ place[r] = place[q] => r = q

Summaries ==
    /\ row.covers \subseteq msgs
    /\ row.kind = "marked" => \A m \in msgs : m <= row.cursor => m \in row.covers
    /\ row.kind = "none" /\ row.gen > 0 => \A m \in msgs : m > row.cursor
    /\ row.kind = "pending" => row.cursor = -1
    /\ row.kind = "old" => row.gen = 0

\* What a compactor j knows of a thread with row t, messages ms and places pl.
Knows(j, t, ms, pl) ==
    j.phase # "idle" =>
        /\ j.row \in Row /\ j.row.gen <= t.gen /\ j.row.next <= t.next
        /\ j.phase = "invalidate" => j.row.kind = "old"
        /\ j.row.gen = t.gen =>
              /\ t.kind = "old" => j.phase = "invalidate"
              /\ j.phase # "invalidate" => j.row.cursor <= t.cursor
              /\ j.row.covers \subseteq ms /\ j.batch \subseteq ms
              /\ j.phase \in {"holds", "kept", "batch"} /\ j.row.cursor = t.cursor =>
                    \A m \in ms : m <= t.cursor => m \in j.row.covers
              /\ j.phase \in {"kept", "batch"} =>
                    /\ j.upper <= t.next
                    /\ \A r \in Runs : pl[r] # None => j.upper <= pl[r]
              /\ j.phase = "write" =>
                    /\ \A k \in j.batch, r \in Runs : pl[r] # None => k < pl[r]
                    /\ \E k \in j.batch : j.row.cursor <= k
                    /\ j.row.cursor = t.cursor =>
                          \A m \in ms, k \in j.batch : m <= k => m \in j.row.covers \cup j.batch

Reads ==
    /\ \A m \in reader.since : m < row.next
    /\ \A r \in Runs : place[r] # None => place[r] \notin reader.since
    /\ reader.row # None /\ reader.row.kind = "marked" =>
          \A m \in msgs \cap reader.since : m <= reader.row.cursor => m \in reader.row.covers
    /\ reader.loaded =>
          \A m \in msgs \cap reader.since : m \notin reader.window =>
              reader.window # {} /\ \A k \in reader.window : m < k

IInv ==
    /\ TypeOK /\ Places /\ Summaries
    /\ \A c \in Compactors : Knows(job[c], row, msgs, place)
    /\ Reads

-----------------------------------------------------------------------------
(* Types.                                                                   *)

Phases == {"idle", "invalidate", "bootstrap", "holds", "kept", "batch", "write"}
Job == [phase: Phases, row: Row \cup {None}, upper: Nat, batch: SUBSET Nat]

\* The first state is well typed.
LEMMA TypeInit == Init => TypeOK
<1> SUFFICES ASSUME Init PROVE TypeOK
    OBVIOUS
<1>1. PICK first \in 0..MaxSeq, n \in 0..MaxSeq :
        /\ first <= n
        /\ msgs = first..(n - 1)
        /\ cleared = (first > 0)
        /\ \E cur \in {-1} \cup (first - 1)..(n - 1), kind \in {"none", "old"} :
              /\ first > 0 => cur # -1
              /\ kind = "old" => cur >= first
              /\ row = [cursor |-> cur, gen |-> 0, kind |-> kind, covers |-> {}, next |-> n]
      BY Zenon DEF Init, ThreadInit
<1>2. first \in Nat /\ n \in Nat
      BY TranscriptBounds
<1>3. msgs \subseteq Nat /\ row \in Row
      BY <1>1, <1>2 DEF Row
<1>4. cleared \in BOOLEAN
  <2>1. (first > 0) \in BOOLEAN
        BY <1>2
  <2> QED BY <1>1, <2>1
<1>5. /\ running = {} /\ place = [r \in Runs |-> None]
      /\ job = [c \in Compactors |-> IdleJob] /\ reader = IdleReader
      BY DEF Init, ThreadInit
<1> QED BY <1>3, <1>4, <1>5 DEF TypeOK, IdleJob, IdleReader

\* Sends, starts, ends and clears of the thread keep its part of the state well typed.
LEMMA ThreadType ==
    ASSUME TypeOK, ThreadNext
    PROVE  /\ msgs' \subseteq Nat /\ row' \in Row /\ cleared' \in BOOLEAN
           /\ running' \subseteq Runs /\ place' \in [Runs -> Nat \cup {None}]
<1> DEFINE Goal == /\ msgs' \subseteq Nat /\ row' \in Row /\ cleared' \in BOOLEAN
                   /\ running' \subseteq Runs /\ place' \in [Runs -> Nat \cup {None}]
<1> USE DEF TypeOK
<1>r. row.next \in Nat /\ row.cursor \in Nat \cup {-1} /\ row.gen \in Nat
      BY DEF Row
<1>1. CASE Post
  <2>1. row' \in Row
        BY <1>1, <1>r DEF Post, Row
  <2> QED BY <1>1, <1>r, <2>1 DEF Post
<1>2. ASSUME NEW r \in Runs, Start(r) \/ Fill(r) \/ Leave(r) PROVE Goal
      BY <1>2 DEF Start, Fill, Leave, ReleasedPlace
<1>3. ASSUME NEW r \in Runs, Hold(r) PROVE Goal
  <2>1. row' \in Row
        BY <1>3, <1>r DEF Hold, Row
  <2> QED BY <1>3, <1>r, <2>1 DEF Hold
<1>4. ASSUME NEW preserve \in BOOLEAN, Clear(preserve) PROVE Goal
  <2>5. row' \in Row
        BY <1>4, <1>r DEF Clear, ClearedRow, Row
  <2> QED BY <1>4, <2>5 DEF Clear
<1> QED BY <1>1, <1>2, <1>3, <1>4 DEF ThreadNext

\* A compactor with nothing to do is well typed.
LEMMA IdleJobType == IdleJob \in Job
BY DEF IdleJob, Job, Phases

\* A step of a compactor that has read a row writes a row and a job of the right types.
LEMMA CompactType ==
    ASSUME TypeOK, NEW c \in Compactors, Compact(c), job[c].phase # "idle" => job[c].row \in Row
    PROVE  row' \in Row /\ job' \in [Compactors -> Job]
<1>0. job \in [Compactors -> Job] /\ row \in Row /\ msgs \subseteq Nat
      BY DEF TypeOK, Job, Phases
<1>1. job[c] \in Job
      BY <1>0
<1>2. ASSUME NEW j \in Job, job' = [job EXCEPT ![c] = j]
      PROVE  job' \in [Compactors -> Job]
      BY <1>0, <1>2
<1>3. CASE ReadThread(c)
  <2>1. FirstPhase(row) \in Phases
        BY DEF FirstPhase, Phases
  <2>2. [IdleJob EXCEPT !.phase = FirstPhase(row), !.row = row] \in Job
        BY <1>0, <2>1, IdleJobType DEF Job
  <2> QED BY <1>0, <1>2, <1>3, <2>2 DEF ReadThread, thread
<1>4. CASE Bootstrap(c) \/ ReadHolds(c) \/ ReadKept(c) \/ ReadBatch(c) \/ Abandon(c)
  <2>0. row' = row
        BY <1>4 DEF Bootstrap, ReadHolds, ReadKept, ReadBatch, Abandon, thread
  <2>1. \E j \in Job : job' = [job EXCEPT ![c] = j]
    <3>1. CASE Bootstrap(c)
      <4> DEFINE old == {m \in msgs : m <= job[c].row.cursor}
      <4>1. \/ job' = [job EXCEPT ![c] = [job[c] EXCEPT !.phase = "holds"]]
            \/ job' = [job EXCEPT ![c] = [job[c] EXCEPT !.phase = "write", !.batch = old]]
            \/ job' = [job EXCEPT ![c] = IdleJob]
        <5>1. CASE old = {}
              BY <1>0, <3>1, <5>1, Zenon DEF Bootstrap
        <5>2. CASE old # {}
              BY <1>0, <3>1, <5>2, Zenon DEF Bootstrap
        <5> QED BY <5>1, <5>2
      <4>2. [job[c] EXCEPT !.phase = "holds"] \in Job
            BY <1>1 DEF Job, Phases
      <4>3. [job[c] EXCEPT !.phase = "write", !.batch = old] \in Job
            BY <1>0, <1>1 DEF Job, Phases
      <4> HIDE DEF old
      <4> QED BY <4>1, <4>2, <4>3, IdleJobType
    <3>2. CASE ReadHolds(c)
      <4>1. PICK upper \in 0..job[c].row.next :
               job' = [job EXCEPT ![c] = [job[c] EXCEPT !.phase = "kept", !.upper = upper]]
            BY <1>0, <3>2 DEF ReadHolds
      <4>2. job[c].row \in Row /\ upper \in Nat
            BY <3>2 DEF ReadHolds, Row
      <4>3. [job[c] EXCEPT !.phase = "kept", !.upper = upper] \in Job
            BY <1>1, <4>2 DEF Job, Phases
      <4> QED BY <4>1, <4>3
    <3>3. CASE ReadKept(c)
      <4>1. \/ job' = [job EXCEPT ![c] = IdleJob]
            \/ \E oldest \in msgs :
                  job' = [job EXCEPT ![c] = [job[c] EXCEPT !.phase = "batch", !.upper = oldest]]
            BY <1>0, <3>3 DEF ReadKept, Between
      <4>2. \A oldest \in msgs : [job[c] EXCEPT !.phase = "batch", !.upper = oldest] \in Job
            BY <1>0, <1>1 DEF Job, Phases
      <4> QED BY <4>1, <4>2, IdleJobType
    <3>4. CASE ReadBatch(c)
      <4>1. \/ job' = [job EXCEPT ![c] = IdleJob]
            \/ \E batch \in SUBSET msgs :
                  job' = [job EXCEPT ![c] = [job[c] EXCEPT !.phase = "write", !.batch = batch]]
            BY <1>0, <3>4 DEF ReadBatch, Between
      <4>2. \A batch \in SUBSET msgs :
               [job[c] EXCEPT !.phase = "write", !.batch = batch] \in Job
            BY <1>0, <1>1 DEF Job, Phases
      <4> QED BY <4>1, <4>2, IdleJobType
    <3>5. CASE Abandon(c)
          BY <3>5, IdleJobType DEF Abandon
    <3> QED BY <1>4, <3>1, <3>2, <3>3, <3>4, <3>5
  <2> QED BY <1>0, <1>2, <2>0, <2>1
<1>5. CASE Invalidate(c)
  <2> DEFINE t == job[c].row
  <2>0. t \in Row
        BY <1>5 DEF Invalidate
  <2>1. [row EXCEPT !.cursor = -1, !.kind = "pending", !.covers = {}] \in Row
        BY <1>0 DEF Row
  <2>2. [t EXCEPT !.cursor = -1, !.covers = {}] \in Row
        BY <2>0 DEF Row
  <2>3. [job[c] EXCEPT !.phase = "holds", !.row = [t EXCEPT !.cursor = -1, !.covers = {}]] \in Job
        BY <1>1, <2>2 DEF Job, Phases
  <2>4. CASE row.cursor = t.cursor /\ row.gen = t.gen
             /\ row.kind = t.kind /\ row.covers = t.covers
        BY <1>0, <1>2, <1>5, <2>1, <2>3, <2>4, Zenon DEF Invalidate
  <2>5. CASE ~(row.cursor = t.cursor /\ row.gen = t.gen
             /\ row.kind = t.kind /\ row.covers = t.covers)
        BY <1>0, <1>2, <1>5, <2>5, IdleJobType, Zenon DEF Invalidate
  <2> QED BY <2>4, <2>5
<1>6. CASE Write(c)
  <2>1. job' = [job EXCEPT ![c] = IdleJob]
        BY <1>6 DEF Write
  <2>2. job[c].batch \subseteq Nat /\ job[c].row \in Row
        BY <1>1, <1>6 DEF Job, Write
  <2>3. \A last \in Nat, covers \in SUBSET Nat :
           [row EXCEPT !.cursor = last, !.kind = "marked", !.covers = covers] \in Row
        BY <1>0 DEF Row
  <2>4. job[c].row.covers \cup job[c].batch \in SUBSET Nat
        BY <2>2 DEF Row
  <2>5. row' \in Row
    <3>1. PICK last \in job[c].batch :
             row' = IF Unchanged(job[c].row)
                    THEN [row EXCEPT !.cursor = last, !.kind = "marked",
                                     !.covers = job[c].row.covers \cup job[c].batch]
                    ELSE row
          BY <1>6 DEF Write
    <3>2. CASE Unchanged(job[c].row)
          BY <2>2, <2>3, <2>4, <3>1, <3>2
    <3>3. CASE ~Unchanged(job[c].row)
          BY <1>0, <3>1, <3>3
    <3> QED BY <3>2, <3>3
  <2> QED BY <1>2, <2>1, <2>5, IdleJobType
<1> QED BY <1>3, <1>4, <1>5, <1>6 DEF Compact

-----------------------------------------------------------------------------
(* Steps of the thread.                                                     *)

\* Nothing but new numbers: a message saved has a new number or one that was held.
Grown ==
    /\ row'.gen = row.gen /\ row'.cursor = row.cursor /\ row'.kind = row.kind
    /\ row'.covers = row.covers /\ row.next <= row'.next
    /\ msgs \subseteq msgs'
    /\ \A m \in msgs' : \/ m \in msgs \/ m = row.next
                        \/ \E r \in Runs : place[r] # None /\ place[r] = m
    /\ \A r \in Runs : place'[r] # None => place'[r] = place[r] \/ place'[r] = row.next

Forgotten ==
    /\ row'.gen = row.gen + 1 /\ row'.next = row.next
    /\ row'.kind \in {"none", "marked"}
    /\ row'.covers \subseteq msgs'
    /\ row'.kind = "marked" => msgs' \subseteq row'.covers
    /\ row'.kind = "none" => msgs' = {}
    /\ msgs' \subseteq msgs
    /\ \A r \in Runs : place'[r] = None

\* The fields of a thread row, and that a row is not the null value.
LEMMA RowFields ==
    ASSUME NEW t \in Row
    PROVE  /\ t.cursor \in Int /\ t.gen \in Nat /\ t.next \in Nat /\ t.covers \subseteq Nat
           /\ t.kind \in {"none", "old", "pending", "marked"} /\ t # None
BY NoneAssumption DEF Row

\* A step of the thread keeps the held places below its counter, and either adds messages or forgets them all.
LEMMA ThreadStep ==
    ASSUME TypeOK, Places, ThreadNext
    PROVE  Places' /\ (Grown \/ Forgotten)
<1>0. row \in Row /\ msgs \subseteq Nat /\ place \in [Runs -> Nat \cup {None}] /\ running \subseteq Runs
      BY DEF TypeOK
<1>r. row.next \in Nat /\ row.cursor \in Int /\ row.gen \in Nat
      BY <1>0, RowFields
<1>p. \A r \in Runs : place[r] # None => place[r] \in Nat
      BY <1>0
<1>n. None \notin Nat
      BY NoneAssumption
<1>1. CASE Post
  <2>1. /\ row'.gen = row.gen /\ row'.cursor = row.cursor /\ row'.kind = row.kind
        /\ row'.covers = row.covers /\ row'.next = row.next + 1
        BY <1>0, <1>1 DEF Post, Row
  <2>2. msgs' = msgs \cup {row.next} /\ place' = place /\ running' = running
        BY <1>1 DEF Post
  <2>3. Places'
        BY <1>0, <1>r, <1>p, <2>1, <2>2 DEF Places
  <2>4. Grown
        BY <1>r, <2>1, <2>2 DEF Grown
  <2> QED BY <2>3, <2>4
<1>2. ASSUME NEW r \in Runs, Start(r) PROVE Places' /\ Grown
  <2>1. msgs' = msgs /\ row' = row /\ place' = place /\ running' = running \cup {r}
        BY <1>2 DEF Start
  <2>2. Places'
        BY <2>1 DEF Places
  <2>3. Grown
        BY <1>r, <2>1 DEF Grown
  <2> QED BY <2>2, <2>3
<1>3. ASSUME NEW r \in Runs, Hold(r) PROVE Places' /\ Grown
  <2>1. /\ row'.gen = row.gen /\ row'.cursor = row.cursor /\ row'.kind = row.kind
        /\ row'.covers = row.covers /\ row'.next = row.next + 1
        BY <1>0, <1>3 DEF Hold, Row
  <2>2. msgs' = msgs /\ running' = running /\ r \in running
        BY <1>3 DEF Hold
  <2>3. place'[r] = row.next /\ \A q \in Runs : q # r => place'[q] = place[q]
        BY <1>0, <1>3 DEF Hold
  <2>4. Places'
        BY <1>0, <1>r, <1>p, <1>n, <2>1, <2>2, <2>3 DEF Places
  <2>5. Grown
        BY <1>r, <2>1, <2>2, <2>3 DEF Grown
  <2> QED BY <2>4, <2>5
<1>4. ASSUME NEW r \in Runs, Fill(r) PROVE Places' /\ Grown
  <2>1. /\ row' = row /\ msgs' = msgs \cup {place[r]} /\ place[r] # None
        /\ running \ {r} \subseteq running'
        BY <1>4 DEF Fill
  <2>2. place'[r] = None /\ \A q \in Runs : q # r => place'[q] = place[q]
        BY <1>0, <1>4 DEF Fill
  <2>3. Places'
        BY <1>0, <1>r, <1>p, <2>1, <2>2 DEF Places
  <2>4. Grown
        BY <1>r, <2>1, <2>2 DEF Grown
  <2> QED BY <2>3, <2>4
<1>5. ASSUME NEW r \in Runs, Leave(r) PROVE Places' /\ Grown
  <2>1. row' = row /\ msgs' = msgs /\ running' = running \ {r}
        BY <1>5 DEF Leave
  <2>2. place'[r] = None /\ \A q \in Runs : q # r => place'[q] = place[q]
        BY <1>0, <1>5 DEF Leave, ReleasedPlace
  <2>3. Places'
        BY <1>0, <1>r, <1>p, <2>1, <2>2 DEF Places
  <2>4. Grown
        BY <1>r, <2>1, <2>2 DEF Grown
  <2> QED BY <2>3, <2>4
<1>6. ASSUME NEW preserve \in BOOLEAN, Clear(preserve) PROVE Places' /\ Forgotten
  <2>1. /\ row'.gen = row.gen + 1 /\ row'.next = row.next
        /\ row'.cursor = IF row.next > 0 THEN row.next - 1 ELSE row.cursor
        /\ row'.kind = IF preserve THEN "marked" ELSE "none"
        /\ row'.covers = IF preserve THEN msgs ELSE {}
        BY <1>6 DEF Clear, ClearedRow
  <2>2. msgs' = (IF preserve THEN msgs ELSE {}) /\ \A r \in Runs : place'[r] = None
        BY <1>6 DEF Clear
  <2>3. Places'
        BY <1>0, <1>r, <2>1, <2>2 DEF Places
  <2>4. Forgotten
        BY <2>1, <2>2 DEF Forgotten
  <2> QED BY <2>3, <2>4
<1> QED BY <1>1, <1>2, <1>3, <1>4, <1>5, <1>6 DEF ThreadNext

\* A new message is behind no cursor and in no run's first look.
LEMMA NewMessage ==
    ASSUME TypeOK, Places, Grown, NEW m \in msgs', m \notin msgs
    PROVE  /\ m \in Nat /\ m > row.cursor
           /\ m = row.next \/ \E r \in Runs : place[r] # None /\ place[r] = m
           /\ Reads => m \notin reader.since
<1>0. row \in Row /\ place \in [Runs -> Nat \cup {None}]
      BY DEF TypeOK
<1>r. row.next \in Nat /\ row.cursor \in Int
      BY <1>0, RowFields
<1>1. m = row.next \/ \E r \in Runs : place[r] # None /\ place[r] = m
      BY DEF Grown
<1>2. m \in Nat /\ m > row.cursor
      BY <1>0, <1>r, <1>1 DEF Places
<1>3. ASSUME Reads PROVE m \notin reader.since
  <2>1. \A k \in reader.since : k < row.next
        BY <1>3 DEF Reads
  <2>2. CASE m = row.next
        BY <1>r, <2>1, <2>2
  <2>3. CASE \E r \in Runs : place[r] # None /\ place[r] = m
        BY <1>3, <2>3 DEF Reads
  <2> QED BY <1>1, <2>2, <2>3
<1> QED BY <1>1, <1>2, <1>3

\* What a step of the thread does leaves every summary whole.
LEMMA SummariesThread ==
    ASSUME TypeOK, Places, Summaries, Grown \/ Forgotten
    PROVE  Summaries'
<1>0. row \in Row /\ msgs \subseteq Nat
      BY DEF TypeOK
<1>r. row.next \in Nat /\ row.cursor \in Int /\ row.gen \in Nat
      BY <1>0, RowFields
<1>1. CASE Grown
  <2>1. \A m \in msgs' : m \notin msgs => m \in Nat /\ m > row.cursor
        BY <1>1, NewMessage
  <2>2. /\ row'.gen = row.gen /\ row'.cursor = row.cursor /\ row'.kind = row.kind
        /\ row'.covers = row.covers /\ msgs \subseteq msgs'
        BY <1>1 DEF Grown
  <2>3. \A m \in msgs' : m <= row.cursor => m \in msgs
        BY <1>r, <2>1
  <2>4. \A m \in msgs' : m \in Nat
        BY <1>0, <2>1
  <2>5. row.kind = "none" /\ row.gen > 0 => \A m \in msgs' : m > row.cursor
        BY <1>0, <1>r, <2>1 DEF Summaries
  <2> QED BY <2>2, <2>3, <2>5 DEF Summaries
<1>2. CASE Forgotten
      BY <1>r, <1>2 DEF Forgotten, Summaries
<1> QED BY <1>1, <1>2

\* What a step of the thread does leaves the reads of a run without a gap.
LEMMA ReadsThread ==
    ASSUME TypeOK, Places, Reads, Grown \/ Forgotten, reader' = reader, row' \in Row
    PROVE  Reads'
<1>0. row \in Row /\ msgs \subseteq Nat /\ reader.since \subseteq Nat
      BY DEF TypeOK
<1>r. row.next \in Nat /\ row'.next \in Nat /\ row.next <= row'.next
      BY <1>0, RowFields DEF Grown, Forgotten
<1>1. \A m \in msgs' \cap reader.since : m \in msgs
      BY NewMessage DEF Forgotten
<1>2. \A r \in Runs : place'[r] # None => place'[r] \notin reader.since
      BY <1>r DEF Grown, Forgotten, Reads
<1>3. \A m \in reader.since : m < row'.next
      BY <1>0, <1>r DEF Reads
<1> QED BY <1>1, <1>2, <1>3 DEF Reads

\* What a step of the thread does leaves true what a compactor knows of it.
LEMMA KnowsThread ==
    ASSUME TypeOK, Places, Grown \/ Forgotten, row' \in Row,
           NEW j \in Job, Knows(j, row, msgs, place)
    PROVE  Knows(j, row', msgs', place')
<1>0. row \in Row /\ msgs \subseteq Nat /\ place \in [Runs -> Nat \cup {None}]
      BY DEF TypeOK
<1>r. row.next \in Nat /\ row'.next \in Nat /\ row.cursor \in Int /\ row.gen \in Nat
      BY <1>0, RowFields
<1> SUFFICES ASSUME j.phase # "idle" PROVE Knows(j, row', msgs', place')
    BY DEF Knows
<1>j. /\ j.row \in Row /\ j.row.gen <= row.gen /\ j.row.next <= row.next
      /\ j.phase = "invalidate" => j.row.kind = "old"
      BY DEF Knows
<1>t. /\ j.row.gen \in Nat /\ j.row.next \in Nat /\ j.row.cursor \in Int
      /\ j.upper \in Nat /\ j.batch \subseteq Nat
      BY <1>j, RowFields DEF Job
<1>1. CASE Forgotten
  <2>1. j.row.gen <= row'.gen /\ j.row.next <= row'.next /\ j.row.gen # row'.gen
        BY <1>r, <1>j, <1>t, <1>1 DEF Forgotten
  <2> QED BY <1>j, <2>1, Zenon DEF Knows
<1>2. CASE Grown
  <2>1. j.row.gen <= row'.gen /\ j.row.next <= row'.next
        BY <1>r, <1>j, <1>t, <1>2 DEF Grown
  <2> SUFFICES ASSUME j.row.gen = row'.gen PROVE Knows(j, row', msgs', place')
      BY <1>j, <2>1 DEF Knows
  <2>2. j.row.gen = row.gen /\ row'.cursor = row.cursor /\ row'.kind = row.kind
        BY <1>2 DEF Grown
  <2>3. \A m \in msgs' : m \notin msgs =>
           m > row.cursor /\ (m = row.next \/ \E r \in Runs : place[r] # None /\ place[r] = m)
        BY <1>2, NewMessage
  <2>4. j.row.covers \subseteq msgs' /\ j.batch \subseteq msgs /\ j.batch \subseteq msgs'
        BY <1>2, <2>2 DEF Knows, Grown
  <2>5. \A k \in j.batch : k \in Nat /\ k < row.next
        BY <1>t, <2>4 DEF Places
  <2>6. ASSUME j.phase \in {"holds", "kept", "batch"}, j.row.cursor = row.cursor
        PROVE  \A m \in msgs' : m <= row.cursor => m \in j.row.covers
    <3>1. \A m \in msgs : m <= row.cursor => m \in j.row.covers
          BY <2>2, <2>6, Zenon DEF Knows
    <3>2. \A m \in msgs' : m \notin msgs => m \in Nat /\ m > row.cursor
          BY <1>2, NewMessage
    <3> QED BY <1>r, <3>1, <3>2
  <2>7. ASSUME j.phase \in {"kept", "batch"}
        PROVE  j.upper <= row'.next /\ \A r \in Runs : place'[r] # None => j.upper <= place'[r]
        BY <1>2, <1>r, <1>t, <2>2, <2>7 DEF Knows, Grown
  <2>8. ASSUME j.phase = "write"
        PROVE  /\ \A k \in j.batch, r \in Runs : place'[r] # None => k < place'[r]
               /\ \E k \in j.batch : j.row.cursor <= k
               /\ j.row.cursor = row.cursor =>
                     \A m \in msgs', k \in j.batch : m <= k => m \in j.row.covers \cup j.batch
    <3>1. /\ \A k \in j.batch, r \in Runs : place[r] # None => k < place[r]
          /\ \E k \in j.batch : j.row.cursor <= k
          /\ j.row.cursor = row.cursor =>
                \A m \in msgs, k \in j.batch : m <= k => m \in j.row.covers \cup j.batch
          BY <2>2, <2>8 DEF Knows
    <3>2. \A k \in j.batch, r \in Runs : place'[r] # None => k < place'[r]
          BY <1>2, <2>5, <3>1 DEF Grown
    <3>3. \A m \in msgs', k \in j.batch : m \notin msgs => ~(m <= k)
          BY <1>0, <1>r, <2>3, <2>5, <3>1
    <3> QED BY <3>1, <3>2, <3>3
  <2>9. /\ row'.kind = "old" => j.phase = "invalidate"
        /\ j.phase # "invalidate" => j.row.cursor <= row'.cursor
        BY <2>2 DEF Knows
  <2> QED BY <1>j, <2>1, <2>2, <2>4, <2>6, <2>7, <2>8, <2>9 DEF Knows
<1> QED BY <1>1, <1>2

-----------------------------------------------------------------------------
(* Steps of a compactor.                                                    *)

LEMMA IdleKnows == \A t, ms, pl : Knows(IdleJob, t, ms, pl)
BY DEF IdleJob, Knows

\* What a compactor knows after each of its steps that leaves the row alone.
LEMMA KnowsOwn ==
    ASSUME IInv, NEW c \in Compactors,
           \/ ReadThread(c) \/ Bootstrap(c) \/ ReadHolds(c)
           \/ ReadKept(c) \/ ReadBatch(c) \/ Abandon(c)
    PROVE  Knows(job'[c], row, msgs, place)
<1>0. /\ job \in [Compactors -> Job] /\ row \in Row /\ msgs \subseteq Nat
      /\ place \in [Runs -> Nat \cup {None}]
      BY DEF IInv, TypeOK, Job, Phases
<1>1. job[c] \in Job /\ Knows(job[c], row, msgs, place) /\ Places /\ Summaries
      BY <1>0 DEF IInv
<1>r. row.next \in Nat /\ row.cursor \in Int /\ row.gen \in Nat
      BY <1>0, RowFields
<1>2. CASE ReadThread(c)
  <2> DEFINE j == [IdleJob EXCEPT !.phase = FirstPhase(row), !.row = row]
  <2>1. job'[c] = j
        BY <1>0, <1>2 DEF ReadThread
  <2>2. j.phase = FirstPhase(row) /\ j.row = row /\ j.batch = {}
        BY DEF IdleJob
  <2>3. /\ row.kind = "old" <=> FirstPhase(row) = "invalidate"
        /\ FirstPhase(row) \in {"invalidate", "bootstrap", "holds"}
        /\ FirstPhase(row) = "holds" => row.gen # 0 \/ row.cursor = -1 \/ row.kind = "marked"
    <3>1. CASE row.kind = "old"
          BY <3>1 DEF FirstPhase
    <3>2. CASE row.kind # "old" /\ row.gen = 0 /\ row.cursor # -1 /\ row.kind # "marked"
          BY <3>2 DEF FirstPhase
    <3>3. CASE row.kind # "old" /\ ~(row.gen = 0 /\ row.cursor # -1 /\ row.kind # "marked")
      <4>1. FirstPhase(row) = "holds"
            BY <3>3 DEF FirstPhase
      <4> QED BY <3>3, <4>1
    <3> QED BY <3>1, <3>2, <3>3
  <2>4. ASSUME FirstPhase(row) = "holds"
        PROVE  \A m \in msgs : m <= row.cursor => m \in row.covers
    <3>1. row.kind # "old" /\ row.kind \in {"none", "old", "pending", "marked"}
          BY <1>0, <2>3, <2>4, RowFields
    <3>2. CASE row.kind = "marked"
          BY <1>1, <3>2 DEF Summaries
    <3>3. CASE row.kind = "pending"
      <4>1. row.cursor = -1
            BY <1>1, <3>3 DEF Summaries
      <4>2. \A m \in msgs : ~(m <= -1)
            BY <1>0
      <4> QED BY <4>1, <4>2
    <3>4. CASE row.kind = "none" /\ row.gen > 0
      <4>1. \A m \in msgs : m \in Nat /\ m > row.cursor
            BY <1>0, <1>1, <3>4 DEF Summaries
      <4> QED BY <1>r, <4>1
    <3>5. CASE row.kind = "none" /\ row.cursor = -1
          BY <1>0, <3>5
    <3> QED BY <1>r, <2>3, <2>4, <3>1, <3>2, <3>3, <3>4, <3>5
  <2>5. row.covers \subseteq msgs
        BY <1>1 DEF Summaries
  <2> HIDE DEF j
  <2>6. Knows(j, row, msgs, place)
        BY <1>0, <1>r, <2>2, <2>3, <2>4, <2>5 DEF Knows
  <2> QED BY <2>1, <2>6
<1> DEFINE t == job[c].row
<1>3. ASSUME job[c].phase # "idle"
      PROVE  /\ t \in Row /\ t.gen <= row.gen /\ t.next <= row.next
             /\ t.cursor \in Int /\ t.gen \in Nat /\ t.next \in Nat
             /\ t.gen = row.gen => t.covers \subseteq msgs /\ job[c].batch \subseteq msgs
             /\ t.gen = row.gen /\ job[c].phase # "invalidate" =>
                   row.kind # "old" /\ t.cursor <= row.cursor
  <2>1. t \in Row /\ t.gen <= row.gen /\ t.next <= row.next
        BY <1>1, <1>3 DEF Knows
  <2>2. t.cursor \in Int /\ t.gen \in Nat /\ t.next \in Nat
        BY <2>1, RowFields
  <2>3. t.gen = row.gen => t.covers \subseteq msgs /\ job[c].batch \subseteq msgs
        BY <1>1, <1>3, Zenon DEF Knows
  <2>4. t.gen = row.gen /\ job[c].phase # "invalidate" => row.kind # "old" /\ t.cursor <= row.cursor
        BY <1>1, <1>3, Zenon DEF Knows
  <2> QED BY <2>1, <2>2, <2>3, <2>4
<1>4. ASSUME job' = [job EXCEPT ![c] = IdleJob]
      PROVE  Knows(job'[c], row, msgs, place)
      BY <1>0, <1>4, IdleKnows
<1>5. CASE Abandon(c)
      BY <1>4, <1>5 DEF Abandon
<1>6. CASE Bootstrap(c)
  <2> DEFINE old == {m \in msgs : m <= t.cursor}
             whole == /\ \E first \in old : old = first..t.cursor /\ (cleared \/ first = 0)
                      /\ Cardinality(old) <= Recent
  <2>0. job[c].phase = "bootstrap"
        BY <1>6 DEF Bootstrap
  <2>1. CASE old = {}
    <3> DEFINE j == [job[c] EXCEPT !.phase = "holds"]
    <3>1. job'[c] = j
          BY <1>0, <1>6, <2>1, Zenon DEF Bootstrap
    <3>2. j.phase = "holds" /\ j.row = t /\ j.batch = job[c].batch
          BY <1>1 DEF Job
    <3>3. \A m \in msgs : ~(m <= t.cursor)
          BY <2>1
    <3> HIDE DEF j, t
    <3>4. Knows(j, row, msgs, place)
          BY <1>3, <2>0, <3>2, <3>3 DEF Knows
    <3> QED BY <3>1, <3>4
  <2>2. CASE old # {} /\ whole
    <3> DEFINE j == [job[c] EXCEPT !.phase = "write", !.batch = old]
    <3>1. job'[c] = j
          BY <1>0, <1>6, <2>2, Zenon DEF Bootstrap
    <3>2. j.phase = "write" /\ j.row = t /\ j.batch = old
          BY <1>1 DEF Job
    <3>3. PICK first \in old : old = first..t.cursor
          BY <2>2
    <3>4. t.cursor \in old
          BY <1>0, <1>3, <2>0, <3>3
    <3>5. \A k \in old : k \in Nat /\ k \in msgs /\ k <= t.cursor
          BY <1>0
    <3>6. \A m \in msgs : m \in Nat
          BY <1>0
    <3>7. \A m \in msgs : m <= t.cursor => m \in old
          OBVIOUS
    <3>8. \A r \in Runs : place[r] # None => place[r] \in Nat /\ row.cursor < place[r]
          BY <1>0, <1>1 DEF Places
    <3> HIDE DEF j, old, t
    <3>9. \A m \in msgs, k \in old : m <= k => m \in old
          BY <1>3, <2>0, <3>5, <3>6, <3>7
    <3>10. ASSUME t.gen = row.gen, NEW k \in old, NEW r \in Runs, place[r] # None
           PROVE  k < place[r]
          BY <1>3, <1>r, <2>0, <3>5, <3>8, <3>10
    <3>11. t.cursor <= t.cursor
          BY <1>3, <2>0
    <3>12. old \subseteq msgs
          BY <3>5
    <3>13. Knows(j, row, msgs, place)
          BY <1>3, <2>0, <3>2, <3>4, <3>9, <3>10, <3>11, <3>12 DEF Knows
    <3> QED BY <3>1, <3>13
  <2>3. CASE old # {} /\ ~whole
    <3>1. job' = [job EXCEPT ![c] = IdleJob]
          BY <1>6, <2>3, Zenon DEF Bootstrap
    <3> QED BY <1>4, <3>1
  <2> HIDE DEF old, whole
  <2> QED BY <2>1, <2>2, <2>3
<1>7. CASE ReadHolds(c)
  <2>0. job[c].phase = "holds"
        BY <1>7 DEF ReadHolds
  <2>1. PICK upper \in 0..t.next :
           /\ UpperSeq(upper, t)
           /\ job' = [job EXCEPT ![c] = [job[c] EXCEPT !.phase = "kept", !.upper = upper]]
        BY <1>0, <1>7 DEF ReadHolds
  <2> DEFINE j == [job[c] EXCEPT !.phase = "kept", !.upper = upper]
  <2>2. job'[c] = j
        BY <1>0, <2>1
  <2>3. j.phase = "kept" /\ j.row = t /\ j.batch = job[c].batch /\ j.upper = upper
        BY <1>1 DEF Job
  <2>4. upper \in Nat /\ upper <= row.next
        BY <1>3, <1>r, <2>0
  <2>5. ASSUME t.gen = row.gen, NEW r \in Runs, place[r] # None PROVE upper <= place[r]
    <3>1. r \in running /\ place[r] \in Nat /\ row.cursor < place[r]
          BY <1>0, <1>1, <2>5 DEF Places
    <3>2. place[r] > t.cursor
          BY <1>3, <1>r, <2>0, <2>5, <3>1
    <3> HIDE DEF t
    <3> QED BY <2>1, <2>5, <3>1, <3>2 DEF UpperSeq
  <2>6. t.gen = row.gen /\ t.cursor = row.cursor =>
           \A m \in msgs : m <= row.cursor => m \in t.covers
        BY <1>1, <2>0 DEF Knows
  <2> HIDE DEF j, t
  <2>7. Knows(j, row, msgs, place)
        BY <1>3, <2>0, <2>3, <2>4, <2>5, <2>6 DEF Knows
  <2> QED BY <2>2, <2>7
<1>8. ASSUME job[c].phase \in {"kept", "batch"}, t.gen = row.gen
      PROVE  /\ job[c].upper <= row.next
             /\ \A r \in Runs : place[r] # None => job[c].upper <= place[r]
             /\ t.cursor = row.cursor => \A m \in msgs : m <= row.cursor => m \in t.covers
      BY <1>1, <1>8 DEF Knows
<1>9. CASE ReadKept(c)
  <2>0. job[c].phase = "kept"
        BY <1>9 DEF ReadKept
  <2>1. CASE job' = [job EXCEPT ![c] = IdleJob]
        BY <1>4, <2>1
  <2>2. ASSUME NEW oldest \in Between(t.cursor, job[c].upper),
               job' = [job EXCEPT ![c] = [job[c] EXCEPT !.phase = "batch", !.upper = oldest]]
        PROVE  Knows(job'[c], row, msgs, place)
    <3> DEFINE j == [job[c] EXCEPT !.phase = "batch", !.upper = oldest]
    <3>1. job'[c] = j
          BY <1>0, <2>2
    <3>2. j.phase = "batch" /\ j.row = t /\ j.batch = job[c].batch /\ j.upper = oldest
          BY <1>1 DEF Job
    <3>3. oldest \in Nat /\ job[c].upper \in Nat /\ oldest <= job[c].upper
          BY <1>0, <1>1 DEF Between, Job
    <3>4. \A r \in Runs : place[r] # None => place[r] \in Nat
          BY <1>0
    <3> HIDE DEF j, t
    <3>5. ASSUME t.gen = row.gen
          PROVE  /\ oldest <= row.next
                 /\ \A r \in Runs : place[r] # None => oldest <= place[r]
          BY <1>8, <1>r, <2>0, <3>3, <3>4, <3>5
    <3>6. Knows(j, row, msgs, place)
          BY <1>3, <1>8, <2>0, <3>2, <3>5 DEF Knows
    <3> QED BY <3>1, <3>6
  <2>3. \/ job' = [job EXCEPT ![c] = IdleJob]
        \/ \E oldest \in Between(t.cursor, job[c].upper) :
              job' = [job EXCEPT ![c] = [job[c] EXCEPT !.phase = "batch", !.upper = oldest]]
        BY <1>0, <1>9 DEF ReadKept
  <2> QED BY <2>1, <2>2, <2>3
<1>10. CASE ReadBatch(c)
  <2>0. job[c].phase = "batch"
        BY <1>10 DEF ReadBatch
  <2> DEFINE found == Between(t.cursor, job[c].upper)
  <2>1. PICK n \in 1..BatchSize, batch \in SUBSET found :
           /\ FirstOf(batch, found, n)
           /\ job' = [job EXCEPT ![c] = IF batch = {} THEN IdleJob
                                        ELSE [job[c] EXCEPT !.phase = "write", !.batch = batch]]
        BY <1>0, <1>10 DEF ReadBatch
  <2>2. CASE batch = {}
        BY <1>4, <2>1, <2>2
  <2>3. CASE batch # {}
    <3> DEFINE j == [job[c] EXCEPT !.phase = "write", !.batch = batch]
    <3>1. job'[c] = j
          BY <1>0, <2>1, <2>3
    <3>2. j.phase = "write" /\ j.row = t /\ j.batch = batch
          BY <1>1 DEF Job
    <3>3. \A k \in found : k \in msgs /\ k \in Nat /\ t.cursor < k /\ k < job[c].upper
          BY <1>0 DEF Between
    <3>4. \A m \in msgs : m \in Nat /\ (t.cursor < m /\ m < job[c].upper => m \in found)
          BY <1>0 DEF Between
    <3>5. \A m \in batch, k \in found : k \notin batch => m < k
          BY <2>1 DEF FirstOf
    <3>6. \A r \in Runs : place[r] # None => place[r] \in Nat
          BY <1>0
    <3>7. job[c].upper \in Nat
          BY <1>1 DEF Job
    <3> HIDE DEF j, found, t
    <3>8. \A k \in batch : k \in msgs /\ k \in Nat /\ t.cursor < k /\ k < job[c].upper
          BY <3>3
    <3>9. ASSUME t.gen = row.gen, NEW k \in batch, NEW r \in Runs, place[r] # None
          PROVE  k < place[r]
          BY <1>8, <2>0, <3>6, <3>7, <3>8, <3>9
    <3>10. \E k \in batch : t.cursor <= k
          BY <1>3, <2>0, <2>3, <3>8
    <3>11. ASSUME t.gen = row.gen, t.cursor = row.cursor, NEW m \in msgs, NEW k \in batch, m <= k
           PROVE  m \in t.covers \cup batch
      <4>1. CASE m <= row.cursor
            BY <1>8, <2>0, <3>11, <4>1
      <4>2. CASE ~(m <= row.cursor)
        <5>1. t.cursor < m /\ m < job[c].upper
              BY <1>r, <3>4, <3>7, <3>8, <3>11, <4>2
        <5>2. m \in found
              BY <3>4, <5>1
        <5>3. ~(k < m)
              BY <3>4, <3>8, <3>11
        <5> QED BY <3>5, <5>2, <5>3
      <4> QED BY <4>1, <4>2
    <3>12. batch \subseteq msgs
          BY <3>8
    <3>13. Knows(j, row, msgs, place)
          BY <1>3, <2>0, <3>2, <3>9, <3>10, <3>11, <3>12 DEF Knows
    <3> QED BY <3>1, <3>13
  <2> QED BY <2>2, <2>3
<1> QED BY <1>2, <1>5, <1>6, <1>7, <1>9, <1>10

\* The two steps that change the row.
LEMMA InvalidateStep ==
    ASSUME IInv, NEW c \in Compactors, Invalidate(c), row' # row
    PROVE  /\ Places' /\ Summaries' /\ row'.next = row.next
           /\ \A d \in Compactors : Knows(job'[d], row', msgs', place')
<1>0. /\ job \in [Compactors -> Job] /\ row \in Row /\ msgs \subseteq Nat
      /\ place \in [Runs -> Nat \cup {None}] /\ Places /\ Summaries
      BY DEF IInv, TypeOK, Job, Phases
<1> DEFINE t == job[c].row
<1>1. job[c].phase = "invalidate" /\ job[c] \in Job /\ Knows(job[c], row, msgs, place)
      BY <1>0 DEF Invalidate, IInv
<1>2. t \in Row /\ t.kind = "old" /\ t.next <= row.next
      BY <1>1 DEF Knows
<1>3. row.cursor = t.cursor /\ row.gen = t.gen /\ row.kind = t.kind /\ row.covers = t.covers
      BY Zenon DEF Invalidate
<1>4. row' = [row EXCEPT !.cursor = -1, !.kind = "pending", !.covers = {}]
      BY <1>3, Zenon DEF Invalidate
<1>5. /\ row'.cursor = -1 /\ row'.kind = "pending" /\ row'.covers = {}
      /\ row'.gen = row.gen /\ row'.next = row.next
      BY <1>0, <1>4 DEF Row
<1>6. msgs' = msgs /\ place' = place /\ running' = running
      BY DEF Invalidate
<1>7. row.next \in Nat /\ row.cursor \in Int /\ row.gen \in Nat
      BY <1>0, RowFields
<1>8. \A r \in Runs : place[r] # None => place[r] \in Nat
      BY <1>0
<1>9. Places'
      BY <1>0, <1>5, <1>6, <1>7, <1>8 DEF Places
<1>10. Summaries'
      BY <1>5, <1>6 DEF Summaries
<1> DEFINE u == [t EXCEPT !.cursor = -1, !.covers = {}]
           j == [job[c] EXCEPT !.phase = "holds", !.row = u]
<1>11. job' = [job EXCEPT ![c] = j]
      BY <1>0, <1>3, Zenon DEF Invalidate
<1>12. /\ u \in Row /\ u.gen = row.gen /\ u.next <= row.next
       /\ u.cursor = -1 /\ u.covers = {}
      BY <1>2, <1>3 DEF Row
<1>13. j.phase = "holds" /\ j.row = u /\ j.batch = job[c].batch
      BY <1>1 DEF Job
<1>14. job[c].batch \subseteq msgs
      BY <1>1, <1>3 DEF Knows
<1>15. job'[c] = j /\ \A d \in Compactors : d # c => job'[d] = job[d]
      BY <1>0, <1>11
<1>16. \A m \in msgs : ~(m <= -1)
      BY <1>0
<1> HIDE DEF j, u, t
<1>17. Knows(j, row', msgs', place')
      BY <1>5, <1>6, <1>7, <1>12, <1>13, <1>14, <1>16 DEF Knows
<1>18. ASSUME NEW d \in Compactors, d # c PROVE Knows(job[d], row', msgs', place')
  <2>1. Knows(job[d], row, msgs, place) /\ row.kind = "old"
        BY <1>2, <1>3 DEF IInv
  <2>2. job[d].phase # "idle" /\ job[d].row.gen = row.gen => job[d].phase = "invalidate"
        BY <2>1 DEF Knows
  <2> QED BY <1>5, <1>6, <2>1, <2>2 DEF Knows
<1> QED BY <1>5, <1>9, <1>10, <1>15, <1>17, <1>18

\* A write whose comparison passed leaves the summary whole, and true what every other compactor knows.
LEMMA WriteStep ==
    ASSUME IInv, NEW c \in Compactors, Write(c), row' # row
    PROVE  /\ Places' /\ Summaries' /\ row'.next = row.next
           /\ \A d \in Compactors : Knows(job'[d], row', msgs', place')
<1>0. /\ job \in [Compactors -> Job] /\ row \in Row /\ msgs \subseteq Nat
      /\ place \in [Runs -> Nat \cup {None}] /\ Places /\ Summaries
      BY DEF IInv, TypeOK, Job, Phases
<1> DEFINE t == job[c].row
           b == job[c].batch
<1>1. job[c].phase = "write" /\ Knows(job[c], row, msgs, place)
      BY DEF Write, IInv
<1>2. PICK last \in b :
        /\ \A m \in b : m <= last
        /\ row' = IF Unchanged(t)
                  THEN [row EXCEPT !.cursor = last, !.kind = "marked", !.covers = t.covers \cup b]
                  ELSE row
      BY DEF Write
<1>3. row.cursor = t.cursor /\ row.gen = t.gen
      BY <1>2 DEF Unchanged
<1>4. row' = [row EXCEPT !.cursor = last, !.kind = "marked", !.covers = t.covers \cup b]
      BY <1>2
<1>5. /\ row'.cursor = last /\ row'.kind = "marked" /\ row'.covers = t.covers \cup b
      /\ row'.gen = row.gen /\ row'.next = row.next
      BY <1>0, <1>4 DEF Row
<1>6. msgs' = msgs /\ place' = place /\ running' = running /\ job' = [job EXCEPT ![c] = IdleJob]
      BY DEF Write
<1>7. row.next \in Nat /\ row.cursor \in Int /\ row.gen \in Nat
      BY <1>0, RowFields
<1>8. /\ t.covers \subseteq msgs /\ b \subseteq msgs
      /\ \A k \in b, r \in Runs : place[r] # None => k < place[r]
      /\ \E k \in b : t.cursor <= k
      /\ \A m \in msgs, k \in b : m <= k => m \in t.covers \cup b
      BY <1>1, <1>3 DEF Knows
<1>9. last \in msgs /\ last \in Nat /\ last < row.next
      BY <1>0, <1>8 DEF Places
<1>10. row.cursor <= last
  <2>1. PICK k \in b : t.cursor <= k
        BY <1>8
  <2>2. k \in Nat /\ k <= last
        BY <1>0, <1>2, <1>8
  <2> QED BY <1>3, <1>7, <1>9, <2>1, <2>2
<1> HIDE DEF t, b
<1>11. Places'
      BY <1>0, <1>5, <1>6, <1>8, <1>9 DEF Places
<1>12. Summaries'
      BY <1>5, <1>6, <1>8 DEF Summaries
<1>13. job'[c] = IdleJob /\ \A d \in Compactors : d # c => job'[d] = job[d]
      BY <1>0, <1>6
<1>14. ASSUME NEW d \in Compactors, d # c PROVE Knows(job[d], row', msgs', place')
  <2>1. Knows(job[d], row, msgs, place)
        BY DEF IInv
  <2> SUFFICES ASSUME job[d].phase # "idle" PROVE Knows(job[d], row', msgs', place')
      BY DEF Knows
  <2>2. /\ job[d].row \in Row /\ job[d].row.gen <= row.gen /\ job[d].row.next <= row.next
        /\ job[d].phase = "invalidate" => job[d].row.kind = "old"
        BY <2>1 DEF Knows
  <2>3. CASE job[d].row.gen # row.gen
        BY <1>5, <2>2, <2>3 DEF Knows
  <2>4. CASE job[d].row.gen = row.gen
    <3>1. /\ row.kind = "old" => job[d].phase = "invalidate"
          /\ job[d].phase # "invalidate" => job[d].row.cursor <= row.cursor
          /\ job[d].row.covers \subseteq msgs /\ job[d].batch \subseteq msgs
          BY <2>1, <2>4, Zenon DEF Knows
    <3>2. job[d].row.cursor \in Int
          BY <2>2, RowFields
    <3>3. job[d].phase # "invalidate" => job[d].row.cursor <= last
          BY <1>7, <1>9, <1>10, <3>1, <3>2
    <3>4. job[d].phase # "invalidate" /\ job[d].row.cursor = last =>
             job[d].row.cursor = row.cursor /\ row.cursor = last
          BY <1>7, <1>9, <1>10, <3>1, <3>2
    <3> QED BY <1>5, <1>6, <2>1, <2>2, <2>4, <3>1, <3>3, <3>4 DEF Knows
  <2> QED BY <2>3, <2>4
<1> QED BY <1>5, <1>11, <1>12, <1>13, <1>14, IdleKnows

-----------------------------------------------------------------------------
(* Steps of a run that reads.                                               *)

LEMMA ReadStep ==
    ASSUME IInv, ReadRow \/ ReadWindow \/ Assembled
    PROVE  /\ reader' \in [row: Row \cup {None}, loaded: BOOLEAN,
                           window: SUBSET Nat, since: SUBSET Nat]
           /\ Reads'
<1> DEFINE R == [row: Row \cup {None}, loaded: BOOLEAN, window: SUBSET Nat, since: SUBSET Nat]
<1>0. /\ row \in Row /\ msgs \subseteq Nat /\ reader \in R
      /\ Places /\ Summaries /\ Reads
      BY DEF IInv, TypeOK
<1>1. row' = row /\ msgs' = msgs /\ place' = place
      BY DEF ReadRow, ReadWindow, Assembled, thread
<1>2. Since = msgs \/ (Since = reader.since /\ (reader.row # None \/ reader.loaded = TRUE))
      BY <1>0 DEF Since
<1>3. reader.row # None \/ reader.loaded = TRUE => Since = reader.since
      BY DEF Since
<1>4. /\ Since \subseteq Nat
      /\ \A m \in Since : m < row.next
      /\ \A r \in Runs : place[r] # None => place[r] \notin Since
      BY <1>0, <1>2 DEF Places, Reads
<1>5. CASE Assembled
  <2>1. reader' = IdleReader
        BY <1>5 DEF Assembled
  <2> QED BY <1>1, <2>1 DEF IdleReader, Reads
<1>6. CASE ReadRow
  <2>1. reader' = [reader EXCEPT !.row = row, !.since = Since]
        BY <1>6 DEF ReadRow
  <2>2. /\ reader' \in R /\ reader'.row = row /\ reader'.since = Since
        /\ reader'.loaded = reader.loaded /\ reader'.window = reader.window
        BY <1>0, <1>4, <2>1
  <2>3. row.kind = "marked" => \A m \in msgs : m <= row.cursor => m \in row.covers
        BY <1>0 DEF Summaries
  <2>4. reader.loaded =>
          \A m \in msgs \cap Since : m \notin reader.window =>
              reader.window # {} /\ \A k \in reader.window : m < k
        BY <1>0, <1>3 DEF Reads
  <2> QED BY <1>1, <1>4, <2>2, <2>3, <2>4 DEF Reads
<1>7. CASE ReadWindow
  <2>1. PICK window \in SUBSET msgs :
          /\ LastOf(window, msgs, Recent)
          /\ reader' = [reader EXCEPT !.loaded = TRUE, !.window = window, !.since = Since]
        BY <1>7 DEF ReadWindow
  <2>2. /\ reader' \in R /\ reader'.row = reader.row /\ reader'.since = Since
        /\ reader'.loaded = TRUE /\ reader'.window = window
        BY <1>0, <1>4, <2>1
  <2>3. ASSUME NEW m \in msgs, m \notin window
        PROVE  window # {} /\ \A k \in window : m < k
    <3>1. Cardinality(window) = Recent /\ \A k \in window : m < k
          BY <2>1, <2>3 DEF LastOf
    <3>2. window # {}
          BY <3>1, FS_EmptySet, SizesAssumption
    <3> QED BY <3>1, <3>2
  <2>4. reader.row # None /\ reader.row.kind = "marked" =>
          \A m \in msgs \cap Since : m <= reader.row.cursor => m \in reader.row.covers
        BY <1>0, <1>3 DEF Reads
  <2> QED BY <1>1, <1>4, <2>2, <2>3, <2>4 DEF Reads
<1> QED BY <1>5, <1>6, <1>7

-----------------------------------------------------------------------------
(* The invariant and what follows from it.                                  *)

LEMMA InvInit == Init => IInv
<1> SUFFICES ASSUME Init PROVE IInv
    OBVIOUS
<1>1. TypeOK
      BY TypeInit
<1>2. PICK first \in 0..MaxSeq, n \in 0..MaxSeq :
        /\ first <= n
        /\ msgs = first..(n - 1)
        /\ \E cur \in {-1} \cup (first - 1)..(n - 1), kind \in {"none", "old"} :
              row = [cursor |-> cur, gen |-> 0, kind |-> kind, covers |-> {}, next |-> n]
      BY Zenon DEF Init, ThreadInit
<1>3. first \in Nat /\ n \in Nat
      BY TranscriptBounds
<1>4. /\ row.cursor < n /\ row.gen = 0 /\ row.covers = {} /\ row.next = n
      /\ row.kind \in {"none", "old"}
      BY <1>2, <1>3
<1>5. \A r \in Runs : place[r] = None
      BY DEF Init, ThreadInit
<1>6. Places
      BY <1>2, <1>3, <1>4, <1>5 DEF Places
<1>7. Summaries
      BY <1>4 DEF Summaries
<1>8. \A c \in Compactors : job[c] = IdleJob
      BY DEF Init
<1>9. reader = IdleReader
      BY DEF Init
<1>10. Reads
      BY <1>5, <1>9 DEF Reads, IdleReader
<1> QED BY <1>1, <1>6, <1>7, <1>8, <1>10, IdleKnows DEF IInv

\* A step of a compactor preserves the invariant.
LEMMA CompactStep ==
    ASSUME IInv, NEW c \in Compactors, Compact(c)
    PROVE  IInv'
<1>0. /\ TypeOK /\ Places /\ Summaries /\ Reads /\ job \in [Compactors -> Job]
      /\ row \in Row /\ place \in [Runs -> Nat \cup {None}] /\ msgs \subseteq Nat
      BY DEF IInv, TypeOK, Job, Phases
<1>1. job[c].phase # "idle" => job[c].row \in Row
      BY DEF IInv, Knows
<1>2. row' \in Row /\ job' \in [Compactors -> Job]
      BY <1>0, <1>1, CompactType
<1>3. /\ msgs' = msgs /\ cleared' = cleared /\ running' = running /\ place' = place
      /\ reader' = reader
      BY DEF Compact, ReadThread, Invalidate, Bootstrap, ReadHolds, ReadKept, ReadBatch,
             Write, Abandon, thread
<1>4. TypeOK'
      BY <1>0, <1>2, <1>3 DEF TypeOK, Job, Phases
<1>5. \A d \in Compactors : d # c => job'[d] = job[d]
  <2>1. \E j : job' = [job EXCEPT ![c] = j]
        BY Zenon DEF Compact, ReadThread, Invalidate, Bootstrap, ReadHolds, ReadKept, ReadBatch,
                     Write, Abandon
  <2> QED BY <1>0, <2>1
<1>6. ASSUME row' = row, Knows(job'[c], row, msgs, place)
      PROVE  IInv'
  <2>1. Places' /\ Summaries' /\ Reads'
        BY <1>0, <1>3, <1>6 DEF Places, Summaries, Reads
  <2>2. \A d \in Compactors : Knows(job'[d], row', msgs', place')
        BY <1>3, <1>5, <1>6 DEF IInv
  <2> QED BY <1>4, <2>1, <2>2 DEF IInv
<1>7. ASSUME /\ Places' /\ Summaries' /\ row'.next = row.next
             /\ \A d \in Compactors : Knows(job'[d], row', msgs', place')
      PROVE  IInv'
  <2>1. Reads'
        BY <1>0, <1>3, <1>7 DEF Reads
  <2> QED BY <1>4, <1>7, <2>1 DEF IInv
<1>8. CASE Invalidate(c) \/ Write(c)
  <2>1. CASE row' # row
        BY <1>7, <1>8, <2>1, InvalidateStep, WriteStep
  <2>2. CASE row' = row
    <3>1. job'[c] = IdleJob
      <4>1. CASE Write(c)
            BY <1>0, <4>1 DEF Write
      <4>2. CASE Invalidate(c)
        <5> DEFINE same == row.cursor = job[c].row.cursor /\ row.gen = job[c].row.gen
                           /\ row.kind = job[c].row.kind /\ row.covers = job[c].row.covers
        <5>1. CASE same
          <6>1. row' = [row EXCEPT !.cursor = -1, !.kind = "pending", !.covers = {}]
                BY <4>2, <5>1, Zenon DEF Invalidate
          <6>2. row'.kind = "pending"
                BY <1>0, <6>1 DEF Row
          <6>3. row.kind = "old"
            <7>1. Knows(job[c], row, msgs, place) /\ job[c].phase = "invalidate"
                  BY <4>2 DEF IInv, Invalidate
            <7> QED BY <5>1, <7>1 DEF Knows
          <6> QED BY <2>2, <6>2, <6>3
        <5>2. CASE ~same
              BY <1>0, <4>2, <5>2, Zenon DEF Invalidate
        <5> QED BY <5>1, <5>2
      <4> QED BY <1>8, <4>1, <4>2
    <3> QED BY <1>6, <2>2, <3>1, IdleKnows
  <2> QED BY <2>1, <2>2
<1>9. CASE \/ ReadThread(c) \/ Bootstrap(c) \/ ReadHolds(c)
           \/ ReadKept(c) \/ ReadBatch(c) \/ Abandon(c)
  <2>1. row' = row
        BY <1>9 DEF ReadThread, Bootstrap, ReadHolds, ReadKept, ReadBatch, Abandon, thread
  <2> QED BY <1>6, <1>9, <2>1, KnowsOwn
<1> QED BY <1>8, <1>9 DEF Compact

\* Every step preserves the invariant.
LEMMA InvNext == IInv /\ [Next]_vars => IInv'
<1> SUFFICES ASSUME IInv, [Next]_vars PROVE IInv'
    OBVIOUS
<1>0. TypeOK /\ Places /\ Summaries /\ Reads
      BY DEF IInv
<1>1. CASE ThreadNext /\ UNCHANGED <<job, reader>>
  <2>1. /\ msgs' \subseteq Nat /\ row' \in Row /\ cleared' \in BOOLEAN
        /\ running' \subseteq Runs /\ place' \in [Runs -> Nat \cup {None}]
        BY <1>0, <1>1, ThreadType
  <2>2. TypeOK'
        BY <1>0, <1>1, <2>1 DEF TypeOK
  <2>3. Places' /\ (Grown \/ Forgotten)
        BY <1>0, <1>1, ThreadStep
  <2>4. Summaries' /\ Reads'
        BY <1>0, <1>1, <2>1, <2>3, SummariesThread, ReadsThread
  <2>5. job \in [Compactors -> Job]
        BY <1>0 DEF TypeOK, Job, Phases
  <2>6. ASSUME NEW c \in Compactors PROVE Knows(job'[c], row', msgs', place')
    <3>1. job[c] \in Job /\ Knows(job[c], row, msgs, place)
          BY <2>5 DEF IInv
    <3> QED BY <1>0, <1>1, <2>1, <2>3, <3>1, KnowsThread
  <2> QED BY <2>2, <2>3, <2>4, <2>6 DEF IInv
<1>2. ASSUME NEW c \in Compactors, Compact(c) PROVE IInv'
      BY <1>2, CompactStep
<1>3. CASE ReadRow \/ ReadWindow \/ Assembled
  <2>1. /\ reader' \in [row: Row \cup {None}, loaded: BOOLEAN,
                        window: SUBSET Nat, since: SUBSET Nat]
        /\ Reads'
        BY <1>3, ReadStep
  <2>2. /\ msgs' = msgs /\ row' = row /\ cleared' = cleared /\ running' = running
        /\ place' = place /\ job' = job
        BY <1>3 DEF ReadRow, ReadWindow, Assembled, thread
  <2> QED BY <1>0, <2>1, <2>2 DEF IInv, TypeOK, Places, Summaries
<1>4. CASE UNCHANGED vars
      BY <1>0, <1>4 DEF vars, thread, IInv, TypeOK, Places, Summaries, Reads
<1> QED BY <1>1, <1>2, <1>3, <1>4 DEF Next

\* The invariant always holds.
LEMMA Invariance == Spec => []IInv
BY InvInit, InvNext, PTL DEF Spec

\* Every reachable state has the types of TypeOK, for any number of runs and compactors.
THEOREM TypeCorrect == Spec => []TypeOK
<1>1. IInv => TypeOK
      BY DEF IInv
<1> QED BY <1>1, Invariance, PTL

\* The summary never has a gap: every message behind the cursor is in it, and no reply that
\* is still to be saved has its place behind the cursor.
THEOREM CompactionLosesNothing == Spec => []SummaryIsWhole
<1>1. IInv => SummaryIsWhole
  <2> SUFFICES ASSUME IInv PROVE SummaryIsWhole
      OBVIOUS
  <2>1. row \in Row /\ place \in [Runs -> Nat \cup {None}] /\ Places /\ Summaries
        BY DEF IInv, TypeOK
  <2>2. row.cursor \in Int
        BY <2>1, RowFields
  <2>3. \A r \in Runs : place[r] # None => place[r] > row.cursor
        BY <2>1, <2>2 DEF Places
  <2> QED BY <2>1, <2>3 DEF Summaries, SummaryIsWhole
<1> QED BY <1>1, Invariance, PTL

\* The summary holds only messages of the thread: a compactor that was overtaken by a
\* clear writes nothing.
THEOREM ClearForgets == Spec => []SummaryForgets
<1>1. IInv => SummaryForgets
      BY DEF IInv, Summaries, SummaryForgets
<1> QED BY <1>1, Invariance, PTL

\* A run that uses the summary has every message in its context that was there when it
\* began to read and still is, in whatever order the row and the messages were read.
THEOREM ContextIsWhole == Spec => []ContextHasNoGap
<1>1. IInv => ContextHasNoGap
  <2> SUFFICES ASSUME IInv, reader.row # None, reader.loaded,
                      UsesSummary(reader.row, reader.window),
                      NEW m \in msgs \cap reader.since
               PROVE  m \in reader.row.covers \cup reader.window
      BY DEF ContextHasNoGap
  <2>1. /\ Reads /\ reader.row \in Row /\ m \in Nat
        /\ reader.window \subseteq Nat
        BY DEF IInv, TypeOK
  <2>2. reader.row.cursor \in Int /\ reader.row.kind = "marked"
        BY <2>1, RowFields DEF UsesSummary
  <2>3. CASE m <= reader.row.cursor
        BY <2>1, <2>2, <2>3 DEF Reads
  <2>4. ASSUME ~(m <= reader.row.cursor), m \notin reader.window PROVE FALSE
    <3>1. reader.window # {} /\ \A k \in reader.window : m < k
          BY <2>1, <2>4 DEF Reads
    <3>2. \A k \in reader.window : k \in Nat /\ ~(k <= reader.row.cursor + 1)
          BY <2>1, <2>2, <2>4, <3>1
    <3>3. \E k \in reader.window : k <= reader.row.cursor \/ k <= reader.row.cursor + 1
          BY <3>1 DEF UsesSummary
    <3> QED BY <2>2, <3>2, <3>3
  <2> QED BY <2>3, <2>4
<1> QED BY <1>1, Invariance, PTL
=============================================================================
