----------------------------- MODULE Transcript -----------------------------
(***************************************************************************)
(* The messages of a thread, the places its replies hold, and its row.     *)
(* A running reply holds its place in the thread from its first visible    *)
(* text and fills it later, or releases it for good.  Compaction and       *)
(* Briefs add the jobs that make digests of the messages.                  *)
(*                                                                         *)
(* A message is its sequence number.  A digest is the set of messages it   *)
(* was made from; what it says about them is left out.  -1 is the null     *)
(* cursor (NOTHING_COMPACTED).                                             *)
(***************************************************************************)
EXTENDS Integers, FiniteSets

CONSTANTS
    Runs,       \* slots for runs of the thread
    None,       \* no place, no row, nothing read
    MaxSeq,     \* bound: numbers given out
    MaxGen      \* bound: clears

ASSUME TranscriptBounds == MaxSeq \in Nat /\ MaxGen \in Nat

\* The thread row as a query returns it: the cursor, the generation, the summary (unmarked
\* ones of an earlier version are "old") and nextMessageSeq.
Row == [cursor: Nat \cup {-1}, gen: Nat, kind: {"none", "old", "pending", "marked"},
        covers: SUBSET Nat, next: Nat]

ASSUME NoneAssumption == None \notin Row /\ None \notin Nat

VARIABLES
    msgs,       \* the message rows
    row,        \* the thread row
    cleared,    \* a thread.cleared event exists
    running,    \* the runs whose status is running
    place       \* replySeq of each run

thread == <<msgs, row, cleared, running, place>>

\* A new thread, or one of the time before summaries were marked: its messages from
\* first on, compacted up to the cursor.
ThreadInit ==
    /\ \E first, n \in 0..MaxSeq :
          /\ first <= n
          /\ msgs = first..(n - 1)
          /\ cleared = (first > 0)
          /\ \E cur \in {-1} \cup (first - 1)..(n - 1), kind \in {"none", "old"} :
                /\ first > 0 => cur # -1
                /\ kind = "old" => cur >= first
                /\ row = [cursor |-> cur, gen |-> 0, kind |-> kind, covers |-> {}, next |-> n]
    /\ running = {}
    /\ place = [r \in Runs |-> None]

-----------------------------------------------------------------------------
(* Each action is one transaction under the lock of the thread row.         *)

\* The owner, or a bot without a place, posts at the end.
Post ==
    /\ row.next < MaxSeq
    /\ msgs' = msgs \cup {row.next}
    /\ row' = [row EXCEPT !.next = @ + 1]
    /\ UNCHANGED <<cleared, running, place>>

Start(r) ==
    /\ r \notin running
    /\ running' = running \cup {r}
    /\ UNCHANGED <<msgs, row, cleared, place>>

\* holdReplyPlace: the first visible text of a running run.
Hold(r) ==
    /\ r \in running /\ place[r] = None
    /\ row.next < MaxSeq
    /\ place' = [place EXCEPT ![r] = row.next]
    /\ row' = [row EXCEPT !.next = @ + 1]
    /\ UNCHANGED <<msgs, cleared, running>>

\* A run saves its text into its place, while it goes on, when it ends or when it pauses.
Fill(r) ==
    /\ place[r] # None
    /\ msgs' = msgs \cup {place[r]}
    /\ place' = [place EXCEPT ![r] = None]
    /\ running' \in {running, running \ {r}}
    /\ UNCHANGED <<row, cleared>>

\* release_run_reply_seq: the run leaves running, its place stays empty.
ReleasedPlace(r) == [place EXCEPT ![r] = None]

Leave(r) ==
    /\ r \in running
    /\ running' = running \ {r}
    /\ place' = ReleasedPlace(r)
    /\ UNCHANGED <<msgs, row, cleared>>

\* Mutant: the cursor stops one short, even of an empty thread.
ClearedRow1Short(preserve) ==
    [cursor |-> row.next - 2, gen |-> row.gen + 1, next |-> row.next,
     kind |-> IF preserve THEN "marked" ELSE "none",
     covers |-> IF preserve THEN msgs ELSE {}]

\* The cursor moves past everything; a neutral summary stands for what is left there.
ClearedRow(preserve) ==
    [cursor |-> IF row.next > 0 THEN row.next - 1 ELSE row.cursor,
     gen |-> row.gen + 1, next |-> row.next,
     kind |-> IF preserve THEN "marked" ELSE "none",
     covers |-> IF preserve THEN msgs ELSE {}]

\* clearThread: the runs are cancelled, the messages deleted or left behind the cursor.
Clear(preserve) ==
    /\ row.gen < MaxGen
    /\ row' = ClearedRow(preserve)
    /\ msgs' = IF preserve THEN msgs ELSE {}
    /\ cleared' = TRUE
    /\ running' = {}
    /\ place' = [r \in Runs |-> None]

ThreadNext ==
    \/ Post
    \/ \E r \in Runs : Start(r) \/ Hold(r) \/ Fill(r) \/ Leave(r)
    \/ \E preserve \in BOOLEAN : Clear(preserve)
=============================================================================
