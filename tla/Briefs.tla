------------------------------- MODULE Briefs -------------------------------
(***************************************************************************)
(* A bot's brief of a thread.  A refresh of it reads the thread row, then  *)
(* its own state, claims the brief, reads the new messages, has a model    *)
(* rewrite the document, and at the end marks how far the brief goes.      *)
(* Messages are saved, and places filled, meanwhile.                       *)
(***************************************************************************)
EXTENDS Transcript

CONSTANTS
    Sources,    \* finished runs of the bot that a refresh starts from
    MaxTries    \* bound: claims of the brief

VARIABLES
    brief,      \* the bot_briefs row, and the messages its document was made from
    refresh     \* for each source run, its refresh

vars == <<thread, brief, refresh>>

Idle == [phase |-> "idle", row |-> None, state |-> None, stamp |-> 0, seen |-> {}, covered |-> -1]

\* stamp 0 is attemptedAt null; claims counts the stamps given out.
Init ==
    /\ ThreadInit
    /\ \E s \in Sources :
          brief = [pending |-> s, seq |-> -1, gen |-> 0, stamp |-> 0, claims |-> 0, read |-> {}]
    /\ refresh = [s \in Sources |-> Idle]

-----------------------------------------------------------------------------
Becomes(s, f) == refresh' = [refresh EXCEPT ![s] = f]

\* markBriefPending: a new run of the bot is the source now.
MarkPending(s) ==
    /\ brief.pending # s
    /\ brief' = [brief EXCEPT !.pending = s]
    /\ UNCHANGED <<thread, refresh>>

\* resetBriefRetries: the model's settings were saved.
ResetRetries ==
    /\ brief.stamp # 0
    /\ brief' = [brief EXCEPT !.stamp = 0]
    /\ UNCHANGED <<thread, refresh>>

\* refreshRunBrief begins: the run with its thread.
ReadRun(s) ==
    /\ refresh[s].phase = "idle"
    /\ Becomes(s, [Idle EXCEPT !.phase = "state", !.row = row])
    /\ UNCHANGED <<thread, brief>>

\* Another source, or nothing new: the refresh is over.
ReadState(s) ==
    LET t == refresh[s].row
        upToDate == brief.gen = t.gen /\ brief.seq >= t.next - 1
    IN
    /\ refresh[s].phase = "state"
    /\ Becomes(s, IF brief.pending # s \/ upToDate THEN Idle
                  ELSE [refresh[s] EXCEPT !.phase = "claim", !.state = brief])
    /\ UNCHANGED <<thread, brief>>

\* The claim stamps the brief, if nobody else did since.
Claim(s) ==
    /\ refresh[s].phase = "claim"
    /\ brief.claims < MaxTries
    /\ IF brief.pending = s /\ brief.stamp = refresh[s].state.stamp
       THEN /\ brief' = [brief EXCEPT !.stamp = brief.claims + 1, !.claims = @ + 1]
            /\ Becomes(s, [refresh[s] EXCEPT !.phase = "messages", !.stamp = brief.claims + 1])
       ELSE UNCHANGED brief /\ Becomes(s, Idle)
    /\ UNCHANGED thread

\* The messages after the brief's own mark, up to the thread as it was read.
ReadMessages(s) ==
    LET t == refresh[s].row
        from == IF refresh[s].state.gen = t.gen THEN refresh[s].state.seq ELSE -1
    IN
    /\ refresh[s].phase = "messages"
    /\ Becomes(s, [refresh[s] EXCEPT !.phase = "rewrite",
                                     !.seen = {m \in msgs : from < m /\ m < t.next}])
    /\ UNCHANGED <<thread, brief>>

\* rewriteBrief commits in a transaction that compares the generation; with nothing new to
\* say the document already has it, and nothing is compared.
Rewrite(s) ==
    /\ refresh[s].phase = "rewrite"
    /\ \/ row.gen = refresh[s].row.gen
       \/ refresh[s].seen \subseteq brief.read
    /\ brief' = [brief EXCEPT !.read = @ \cup refresh[s].seen]
    /\ Becomes(s, [refresh[s] EXCEPT !.phase = "holds"])
    /\ UNCHANGED thread

\* The model failed, or the thread was cleared: nothing is marked.
Fail(s) ==
    /\ refresh[s].phase \in {"messages", "rewrite"}
    /\ Becomes(s, Idle)
    /\ UNCHANGED <<thread, brief>>

\* coveredMessageSeq: below the lowest place a running reply holds now.
Covered(n, t) ==
    LET held == {place[r] - 1 : r \in {q \in running : place[q] # None}} IN
    /\ n \in held \cup {t.next - 1}
    /\ \A h \in held \cup {t.next - 1} : n <= h

ReadHolds(s) ==
    /\ refresh[s].phase = "holds"
    /\ \E n \in -1..refresh[s].row.next :
          /\ Covered(n, refresh[s].row)
          /\ Becomes(s, [refresh[s] EXCEPT !.phase = "mark", !.covered = n])
    /\ UNCHANGED <<thread, brief>>

\* The mark moves if the brief is still this refresh's.
Mark(s) ==
    LET f == refresh[s] IN
    /\ f.phase = "mark"
    /\ brief' = IF brief.pending = s /\ brief.gen = f.state.gen /\ brief.stamp = f.stamp
                THEN [brief EXCEPT !.seq = f.covered, !.gen = f.row.gen]
                ELSE brief
    /\ Becomes(s, Idle)
    /\ UNCHANGED thread

Next ==
    \/ ThreadNext /\ UNCHANGED <<brief, refresh>>
    \/ ResetRetries
    \/ \E s \in Sources :
          \/ MarkPending(s) \/ ReadRun(s) \/ ReadState(s) \/ Claim(s) \/ ReadMessages(s)
          \/ Rewrite(s) \/ Fail(s) \/ ReadHolds(s) \/ Mark(s)

Spec == Init /\ [][Next]_vars

-----------------------------------------------------------------------------
\* The brief goes no further than what it was made from: every message up to its mark was
\* read for it.  (coveredMessageSeq keeps the mark below a reply that is still empty; a
\* message above the mark makes the brief dirty.)
BriefCovers ==
    brief.gen = row.gen => \A m \in msgs : m <= brief.seq => m \in brief.read
=============================================================================
