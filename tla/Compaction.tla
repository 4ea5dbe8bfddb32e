----------------------------- MODULE Compaction -----------------------------
(***************************************************************************)
(* Compactors fold the oldest messages of a thread into its summary and    *)
(* advance its cursor.  A run that starts reads the thread row and the     *)
(* newest messages, in either order, and puts its context together from    *)
(* the summary and the messages after the cursor.                          *)
(***************************************************************************)
EXTENDS Transcript

CONSTANTS
    Compactors, \* history.compact jobs
    Window,     \* HISTORY_WINDOW_SIZE, messages kept word for word
    BatchSize,  \* COMPACTION_BATCH_SIZE
    Recent      \* LEGACY_HISTORY_WINDOW_SIZE, messages a run reads

ASSUME SizesAssumption ==
    Window \in Nat \ {0} /\ BatchSize \in Nat \ {0} /\ Recent \in Nat \ {0}

VARIABLES
    job,        \* each compactor: its step, the row it read, its bound and its batch
    reader      \* a run's reads: the row, the messages, and those there were at the start

vars == <<thread, job, reader>>

IdleJob == [phase |-> "idle", row |-> None, upper |-> 0, batch |-> {}]
IdleReader == [row |-> None, loaded |-> FALSE, window |-> {}, since |-> {}]

Init ==
    /\ ThreadInit
    /\ job = [c \in Compactors |-> IdleJob]
    /\ reader = IdleReader

-----------------------------------------------------------------------------
(* compactHistory.                                                          *)

\* Where the compaction of a row as read begins.
FirstPhase(t) ==
    IF t.kind = "old" THEN "invalidate"
    ELSE IF t.gen = 0 /\ t.cursor # -1 /\ t.kind # "marked" THEN "bootstrap"
    ELSE "holds"

ReadThread(c) ==
    /\ job[c].phase = "idle"
    /\ job' = [job EXCEPT ![c] = [IdleJob EXCEPT !.phase = FirstPhase(row), !.row = row]]
    /\ UNCHANGED <<thread, reader>>

\* An unmarked summary is discarded, unless the row changed since it was read.
Invalidate(c) ==
    LET t == job[c].row
        same == row.cursor = t.cursor /\ row.gen = t.gen
                /\ row.kind = t.kind /\ row.covers = t.covers
    IN
    /\ job[c].phase = "invalidate"
    /\ row' = IF same THEN [row EXCEPT !.cursor = -1, !.kind = "pending", !.covers = {}] ELSE row
    /\ job' = [job EXCEPT ![c] =
                  IF same THEN [@ EXCEPT !.phase = "holds",
                                         !.row = [t EXCEPT !.cursor = -1, !.covers = {}]]
                  ELSE IdleJob]
    /\ UNCHANGED <<msgs, cleared, running, place, reader>>

\* A compacted thread without a summary: one is made from the rows up to the cursor, if
\* they are there without a gap and not too many.
Bootstrap(c) ==
    LET t == job[c].row
        old == {m \in msgs : m <= t.cursor}
        whole == \E first \in old :
                    old = first..t.cursor /\ (cleared \/ first = 0)
        few == Cardinality(old) <= Recent
    IN
    /\ job[c].phase = "bootstrap"
    /\ job' = [job EXCEPT ![c] =
                  IF old = {} THEN [@ EXCEPT !.phase = "holds"]
                  ELSE IF whole /\ few THEN [@ EXCEPT !.phase = "write", !.batch = old]
                  ELSE IdleJob]
    /\ UNCHANGED <<thread, reader>>

\* Mutant: a running reply's place does not count.
NoHolds(upper, t) == upper = t.next

\* compactionUpperSeq: nothing from the lowest place held on.
UpperSeq(upper, t) ==
    LET held == {place[r] : r \in {q \in running : place[q] # None /\ place[q] > t.cursor}} IN
    /\ upper \in held \cup {t.next}
    /\ \A h \in held \cup {t.next} : upper <= h

ReadHolds(c) ==
    /\ job[c].phase = "holds"
    /\ \E upper \in 0..job[c].row.next :
          /\ UpperSeq(upper, job[c].row)
          /\ job' = [job EXCEPT ![c] = [@ EXCEPT !.phase = "kept", !.upper = upper]]
    /\ UNCHANGED <<thread, reader>>

Between(from, to) == {m \in msgs : from < m /\ m < to}

\* S is the n first of T; n of them unless there are fewer.
FirstOf(S, T, n) ==
    /\ S \subseteq T
    /\ Cardinality(S) <= n
    /\ \A m \in S, k \in T \ S : m < k
    /\ S # T => Cardinality(S) = n

LastOf(S, T, n) ==
    /\ S \subseteq T
    /\ Cardinality(S) <= n
    /\ \A m \in S, k \in T \ S : k < m
    /\ S # T => Cardinality(S) = n

\* The newest Window messages stay; with fewer there is nothing to do.
ReadKept(c) ==
    LET found == Between(job[c].row.cursor, job[c].upper) IN
    /\ job[c].phase = "kept"
    /\ \E kept \in SUBSET found :
          /\ LastOf(kept, found, Window)
          /\ \/ Cardinality(kept) < Window /\ job' = [job EXCEPT ![c] = IdleJob]
             \/ /\ Cardinality(kept) = Window
                /\ \E oldest \in kept :
                      /\ \A m \in kept : oldest <= m
                      /\ job' = [job EXCEPT ![c] = [@ EXCEPT !.phase = "batch", !.upper = oldest]]
    /\ UNCHANGED <<thread, reader>>

\* The oldest of the others, as many as fit the transcript budget.
ReadBatch(c) ==
    LET found == Between(job[c].row.cursor, job[c].upper) IN
    /\ job[c].phase = "batch"
    /\ \E n \in 1..BatchSize, batch \in SUBSET found :
          /\ FirstOf(batch, found, n)
          /\ job' = [job EXCEPT ![c] = IF batch = {} THEN IdleJob
                                       ELSE [@ EXCEPT !.phase = "write", !.batch = batch]]
    /\ UNCHANGED <<thread, reader>>

\* Mutant: a clear that came between is not noticed.
UnchangedCursor(t) == row.cursor = t.cursor

\* The summary is written only over the cursor and the generation it was made from.
Unchanged(t) == row.cursor = t.cursor /\ row.gen = t.gen

Write(c) ==
    LET t == job[c].row IN
    /\ job[c].phase = "write"
    /\ \E last \in job[c].batch :
          /\ \A m \in job[c].batch : m <= last
          /\ row' = IF Unchanged(t)
                    THEN [row EXCEPT !.cursor = last, !.kind = "marked",
                                     !.covers = t.covers \cup job[c].batch]
                    ELSE row
    /\ job' = [job EXCEPT ![c] = IdleJob]
    /\ UNCHANGED <<msgs, cleared, running, place, reader>>

\* Nothing to summarise with, a failure, a crash.
Abandon(c) ==
    /\ job[c].phase # "idle"
    /\ job' = [job EXCEPT ![c] = IdleJob]
    /\ UNCHANGED <<thread, reader>>
-----------------------------------------------------------------------------
(* A run's context.                                                         *)

\* The first read of a run notes what was there.
Since == IF reader.row = None /\ ~reader.loaded THEN msgs ELSE reader.since

ReadRow ==
    /\ reader.row = None
    /\ reader' = [reader EXCEPT !.row = row, !.since = Since]
    /\ UNCHANGED <<thread, job>>

\* loadRunHistoryMessages
ReadWindow ==
    /\ ~reader.loaded
    /\ \E window \in SUBSET msgs :
          /\ LastOf(window, msgs, Recent)
          /\ reader' = [reader EXCEPT !.loaded = TRUE, !.window = window, !.since = Since]
    /\ UNCHANGED <<thread, job>>

\* The context is put together; another run may start.
Assembled ==
    /\ reader.row # None /\ reader.loaded
    /\ reader' = IdleReader
    /\ UNCHANGED <<thread, job>>

\* Mutant: the summary is used though the messages do not reach back to it.
UsesSummaryAlways(t, window) == t.kind = "marked" /\ t.cursor # -1

\* selectCompactedHistory: the summary is used if the messages reach back to the cursor.
UsesSummary(t, window) ==
    /\ t.kind = "marked" /\ t.cursor # -1
    /\ \/ \A m \in window : m <= t.cursor
       \/ \E m \in window : m <= t.cursor + 1

-----------------------------------------------------------------------------
Compact(c) ==
    \/ ReadThread(c) \/ Invalidate(c) \/ Bootstrap(c) \/ ReadHolds(c)
    \/ ReadKept(c) \/ ReadBatch(c) \/ Write(c) \/ Abandon(c)

Next ==
    \/ ThreadNext /\ UNCHANGED <<job, reader>>
    \/ \E c \in Compactors : Compact(c)
    \/ ReadRow \/ ReadWindow \/ Assembled

Spec == Init /\ [][Next]_vars

-----------------------------------------------------------------------------
(* Properties.                                                              *)

\* Every variable holds a value of its type.
TypeOK ==
    /\ msgs \subseteq Nat
    /\ row \in Row
    /\ cleared \in BOOLEAN
    /\ running \subseteq Runs
    /\ place \in [Runs -> Nat \cup {None}]
    /\ job \in [Compactors ->
               [phase: {"idle", "invalidate", "bootstrap", "holds", "kept", "batch", "write"},
                row: Row \cup {None}, upper: Nat, batch: SUBSET Nat]]
    /\ reader \in [row: Row \cup {None}, loaded: BOOLEAN, window: SUBSET Nat, since: SUBSET Nat]

\* No message is behind the cursor without being in the summary, and none will be: the
\* place of a reply that is still to be saved is after the cursor.
\* (compactHistory reads the holds between the row and the messages and writes over the
\* cursor and the generation it read.)
SummaryIsWhole ==
    row.kind = "marked" =>
        /\ \A m \in msgs : m <= row.cursor => m \in row.covers
        /\ \A r \in Runs : place[r] # None => place[r] > row.cursor

\* A run that uses the summary has every message of before in its context, though the row
\* and the messages are read at different times (Promise.all in executor.ts).
ContextHasNoGap ==
    reader.row # None /\ reader.loaded /\ UsesSummary(reader.row, reader.window) =>
        \A m \in msgs \cap reader.since : m \in reader.row.covers \cup reader.window

\* What was cleared does not come back: the summary is made from messages the thread still
\* has, though a compactor may have read them before the clear.
SummaryForgets == row.covers \subseteq msgs
=============================================================================
