----------------------------- MODULE EventFeed -----------------------------
(***************************************************************************)
(* The event log of a thread and a client that follows it.  Transactions   *)
(* number their events under the lock of the thread row; a follower on the *)
(* server reads the committed ones in batches, sleeps until a notification *)
(* or its timer wakes it, and sends them over a connection that may drop.  *)
(* The client starts from a snapshot of the thread, or from the head of    *)
(* its log while no snapshot can be had, and applies the events to it.     *)
(*                                                                         *)
(* What the thread shows is a set of items: messages, which are posted     *)
(* once, and the live drafts of runs.  Sequence numbers start at 1 here,   *)
(* so that 0 is the cursor before the first event (-1 in the code).  The   *)
(* events of a batch, of a connection and of a buffer are sent in the      *)
(* order of their numbers, so each is a set whose least element is next.   *)
(***************************************************************************)
EXTENDS Integers, FiniteSets

CONSTANTS
    Messages,   \* messages that may be posted
    Runs,       \* runs that may stream a draft
    Writers,    \* transactions that append events
    Batch,      \* EVENT_BATCH_SIZE
    None,       \* no item, no transaction, no snapshot
    MaxSeq,     \* bound: events appended
    MaxDrops    \* bound: connections and requests lost

Items == Messages \cup Runs

Event == [seq: Nat, op: {"put", "end", "clear", "again"}, item: Items \cup {None}]
Snapshot == [cursor: Nat, items: SUBSET Items]

ASSUME ItemsAssumption == Messages \cap Runs = {} /\ None \notin Items
ASSUME NoneAssumption == None \notin Event /\ None \notin Snapshot
ASSUME BatchAssumption == Batch \in Nat \ {0}
ASSUME BoundsAssumption == MaxSeq \in Nat /\ MaxDrops \in Nat

VARIABLES
    thread,     \* the items a fresh snapshot shows
    spent,      \* messages posted and runs that are over
    next,       \* nextEventSeq
    events,     \* the committed rows of the thread
    txn,        \* the open transaction of each writer
    missed,     \* observer: unread events whose notification has not come
    fol,        \* the follower: followThreadEvents and its latch
    wire,       \* events sent and not yet received
    client,     \* runThreadSubscription and the snapshot it applies events to
    reply,      \* the response of the newest threads.get
    drops       \* losses so far

server == <<thread, spent, next, events, txn>>
vars == <<thread, spent, next, events, txn, missed, fol, wire,
          client, reply, drops>>

\* The event an ordered batch or connection hands over next.
First(S) == {e \in S : \A d \in S : e.seq <= d.seq}

Shows(e, x) == e.op = "put" /\ e.item = x
Hides(e, x) == e.op = "clear" \/ (e.op = "end" /\ e.item = x)

\* The items after the events of S in the order of their numbers (reduceThreadSnapshot).
Apply(items, S) ==
    {x \in Items :
        LET of == {e \in S : Shows(e, x) \/ Hides(e, x)} IN
        IF of = {} THEN x \in items
        ELSE \E e \in of : Shows(e, x) /\ \A d \in of : d.seq <= e.seq}

Init ==
    /\ thread = {} /\ spent = {} /\ next = 1 /\ events = {}
    /\ txn = [w \in Writers |-> None]
    /\ missed = {}
    /\ fol = [phase |-> "off", seq |-> 0, batch |-> {}, full |-> FALSE, dirty |-> FALSE]
    /\ wire = {}
    /\ client = [phase |-> "loading", head |-> 0, cursor |-> 0, ready |-> FALSE,
                 pend |-> {}, view |-> None]
    /\ reply = None
    /\ drops = 0

-----------------------------------------------------------------------------
(* Appending.                                                               *)

\* Mutant: the number is taken without locking the thread.
Unlocked == TRUE

\* The update of nextEventSeq locks the thread row until its transaction ends.
Lockable == \A w \in Writers : txn[w] = None

\* What a transaction may append.  A run writes until it is over: its worker flushes its
\* progress before it ends or pauses the run, and assertRunCanWriteHistory refuses a
\* cancelled one.
MayAppend(op, x) ==
    \/ op = "put" /\ x \in Items \ spent
    \/ op = "end" /\ x \in Runs \ spent
    \/ op \in {"clear", "again"} /\ x = None

\* appendEventInTransaction up to the commit.
Begin(w, op, x) ==
    /\ txn[w] = None
    /\ Lockable
    /\ next <= MaxSeq
    /\ MayAppend(op, x)
    /\ txn' = [txn EXCEPT ![w] = [seq |-> next, op |-> op, item |-> x]]
    /\ UNCHANGED <<thread, spent, next, events, missed, fol, wire,
                   client, reply, drops>>

\* The rows after the transaction: a redelivered command leaves its number unused, a
\* run that ends takes its progress events with it, a clear leaves nothing but itself.
Rows(e, swept) ==
    CASE e.op = "again" -> events
      [] e.op = "clear" -> {e}
      [] e.op = "end" -> {d \in events : ~(swept /\ Shows(d, e.item))} \cup {e}
      [] OTHER -> events \cup {e}

\* A notification reaches the latch of the follower, if there is one.
Notified == [fol EXCEPT !.dirty = fol.phase # "off"]

\* The transaction commits, and a notification announces it, now (told) or not: it could
\* not be published, is late, or the LISTEN connection is down.
\* A Stop deletes the progress events of its run only later (swept = FALSE).
Commit(w, swept, told) ==
    LET e == txn[w] IN
    /\ e # None
    /\ swept \/ e.op = "end"
    /\ txn' = [txn EXCEPT ![w] = None]
    /\ next' = next + 1
    /\ events' = Rows(e, swept)
    /\ thread' = Apply(thread, {e})
    /\ spent' = CASE e.op = "put" /\ e.item \in Messages -> spent \cup {e.item}
                  [] e.op = "end" -> spent \cup {e.item}
                  [] e.op = "clear" -> spent \cup {r \in Runs : r \in thread}
                  [] OTHER -> spent
    /\ IF told \/ fol.phase = "off" THEN fol' = Notified /\ UNCHANGED missed
       ELSE missed' = missed \cup {e.seq} /\ UNCHANGED fol
    /\ UNCHANGED <<wire, client, reply, drops>>

Rollback(w) ==
    /\ txn[w] # None
    /\ txn' = [txn EXCEPT ![w] = None]
    /\ UNCHANGED <<thread, spent, next, events, missed, fol, wire,
                   client, reply, drops>>

\* The rest of a Stop: the progress events of the run it ended.
Sweep(r) ==
    /\ r \in spent
    /\ \E e \in events : Shows(e, r)
    /\ events' = {e \in events : ~Shows(e, r)}
    /\ UNCHANGED <<thread, spent, next, txn, missed, fol, wire,
                   client, reply, drops>>

-----------------------------------------------------------------------------
(* Notifications.                                                           *)

\* A late notification, or connectClient: the LISTEN connection is up again and every
\* subscriber is told to catch up.
CatchUp ==
    /\ fol' = Notified
    /\ UNCHANGED <<server, missed, wire, client, reply, drops>>

-----------------------------------------------------------------------------
(* The follower.                                                            *)

\* The committed events after s.
EventsAfter(s) == {e \in events : e.seq > s}

\* eventsAfter with its limit: the first Batch of the new events.
Page(page) ==
    /\ page \subseteq EventsAfter(fol.seq)
    /\ Cardinality(page) <= Batch
    /\ \A e \in page, d \in EventsAfter(fol.seq) \ page : e.seq < d.seq
    /\ page # EventsAfter(fol.seq) => Cardinality(page) = Batch

ReadBatch ==
    /\ fol.phase = "read"
    /\ \E page \in SUBSET events :
          /\ Page(page)
          /\ fol' = [fol EXCEPT !.phase = "send", !.batch = page,
                                !.full = Cardinality(page) = Batch]
          /\ missed' = missed \ {e.seq : e \in page}
    /\ UNCHANGED <<server, wire, client, reply, drops>>

Yield ==
    /\ fol.phase = "send"
    /\ \E e \in First(fol.batch) :
          /\ fol' = [fol EXCEPT !.seq = e.seq, !.batch = @ \ {e}]
          /\ wire' = wire \cup {e}
    /\ UNCHANGED <<server, missed, client, reply, drops>>

\* Mutant: the generation is noted after the read, when the sleep begins.
AfterBatchLate ==
    IF fol.full THEN [fol EXCEPT !.phase = "read"]
    ELSE [fol EXCEPT !.phase = "wait", !.dirty = FALSE]

\* A full batch is followed by another, any other by a sleep.
AfterBatch == [fol EXCEPT !.phase = IF fol.full THEN "read" ELSE "wait"]

BatchDone ==
    /\ fol.phase = "send" /\ fol.batch = {}
    /\ fol' = AfterBatch
    /\ UNCHANGED <<server, missed, wire, client, reply, drops>>

\* Mutant: only the latch wakes the follower.
AwakenedByLatch == fol.phase = "wait" /\ fol.dirty

\* The latch or its timer wakes the follower, which notes the generation and reads.
Awakened == fol.phase = "wait"

Wake ==
    /\ Awakened
    /\ fol' = [fol EXCEPT !.phase = "read", !.dirty = FALSE]
    /\ UNCHANGED <<server, missed, wire, client, reply, drops>>

-----------------------------------------------------------------------------
(* The client.                                                              *)

\* Mutant: the number before the last one.
LatestBut1(c) == \E l \in {e.seq : e \in events} \cup {0} : c = l - 1 /\ \A e \in events : e.seq <= l

\* c is the number of the last row.
Latest(c) ==
    /\ c \in {e.seq : e \in events} \cup {0}
    /\ \A e \in events : e.seq <= c

\* threadSnapshot: messages, drafts and cursor of one commit.
ThreadSnapshot(c) == [cursor |-> c, items |-> thread]

\* A threads.get is answered; only the answer to the newest one is used.  While the
\* subscription has no snapshot yet, only its own requests are considered.
Get ==
    /\ client.phase # "failed" /\ reply = None
    /\ \E c \in -1..next : Latest(c) /\ reply' = ThreadSnapshot(c)
    /\ UNCHANGED <<server, missed, fol, wire, client, drops>>

\* reconcileRefreshedThread: a snapshot older than the view is dropped.
Reconcile(v, snap) == IF v # None /\ snap.cursor < v.cursor THEN v ELSE snap

\* The buffered events the snapshot does not contain are applied to it, up to the last
\* one received.
WithPending(v, pend) ==
    LET new == {e \in pend : e.seq > v.cursor} IN
    [cursor |-> IF new = {} THEN v.cursor ELSE client.cursor, items |-> Apply(v.items, new)]

\* The answer arrives: at the start it also gives the cursor to subscribe from, after a
\* start from the head it makes the view ready, later it refreshes it.
Refresh ==
    /\ reply # None
    /\ client' =
          IF client.phase = "loading"
          THEN [client EXCEPT !.phase = "idle", !.cursor = reply.cursor, !.head = reply.cursor,
                              !.ready = TRUE, !.view = reply]
          ELSE IF client.ready
          THEN [client EXCEPT !.view = Reconcile(client.view, reply)]
          ELSE [client EXCEPT !.ready = TRUE, !.pend = {},
                              !.view = WithPending(reply, client.pend)]
    /\ reply' = None
    /\ UNCHANGED <<server, missed, fol, wire, drops>>

\* A request fails.
GetFails ==
    /\ reply # None /\ drops < MaxDrops
    /\ reply' = None
    /\ client' = IF client.phase = "loading" THEN [client EXCEPT !.phase = "failed"] ELSE client
    /\ drops' = drops + 1
    /\ UNCHANGED <<server, missed, fol, wire>>

\* loadInitial failed: the head of the log gives the cursor, without a snapshot.
LoadHead ==
    /\ client.phase = "failed"
    /\ \E c \in -1..next :
          /\ Latest(c)
          /\ client' = [client EXCEPT !.phase = "idle", !.cursor = c, !.head = c]
    /\ UNCHANGED <<server, missed, fol, wire, reply, drops>>

Subscribe ==
    /\ client.phase = "idle"
    /\ client' = [client EXCEPT !.phase = "live"]
    /\ fol' = [phase |-> "read", seq |-> client.cursor, batch |-> {}, full |-> FALSE,
               dirty |-> FALSE]
    /\ UNCHANGED <<server, missed, wire, reply, drops>>

Seen(v, e) == [cursor |-> e.seq, items |-> Apply(v.items, {e})]

Receive ==
    /\ \E e \in First(wire) :
          /\ wire' = wire \ {e}
          /\ client' = IF client.ready
                       THEN [client EXCEPT !.cursor = e.seq, !.view = Seen(client.view, e)]
                       ELSE [client EXCEPT !.cursor = e.seq, !.pend = client.pend \cup {e}]
    /\ UNCHANGED <<server, missed, fol, reply, drops>>

\* The next subscription starts after the last event received.
ResumeCursor == client.cursor

\* The connection drops with what it carried.
Drop ==
    /\ client.phase = "live" /\ drops < MaxDrops
    /\ client' = [client EXCEPT !.phase = "idle", !.cursor = ResumeCursor]
    /\ fol' = [fol EXCEPT !.phase = "off", !.batch = {}, !.dirty = FALSE]
    /\ wire' = {}
    /\ drops' = drops + 1
    /\ missed' = {}
    /\ UNCHANGED <<server, reply>>

-----------------------------------------------------------------------------
Write(w) ==
    \/ \E op \in {"put", "end", "clear", "again"}, x \in Items \cup {None} : Begin(w, op, x)
    \/ \E swept, told \in BOOLEAN : Commit(w, swept, told)
    \/ Rollback(w)

Follow == ReadBatch \/ Yield \/ BatchDone \/ Wake
Use == Get \/ Refresh \/ GetFails \/ LoadHead \/ Subscribe \/ Receive

Next ==
    \/ \E w \in Writers : Write(w)
    \/ \E r \in Runs : Sweep(r)
    \/ CatchUp \/ Follow \/ Use \/ Drop

Spec == Init /\ [][Next]_vars

\* Transactions end.  The follower runs, its timer fires, and the client retries what
\* failed: a snapshot until it has one, the subscription whenever it ended.
Fairness ==
    /\ \A w \in Writers : WF_vars(\E swept, told \in BOOLEAN : Commit(w, swept, told))
    /\ WF_vars(ReadBatch) /\ WF_vars(Yield) /\ WF_vars(BatchDone) /\ WF_vars(Wake)
    /\ WF_vars(~client.ready /\ Get) /\ WF_vars(Refresh)
    /\ WF_vars(LoadHead) /\ WF_vars(Subscribe) /\ WF_vars(Receive)

FairSpec == Spec /\ Fairness

-----------------------------------------------------------------------------
(* Properties.                                                              *)

\* Every variable holds a value of its type.
TypeOK ==
    /\ thread \subseteq Items /\ spent \subseteq Items
    /\ next \in Nat
    /\ events \subseteq Event
    /\ txn \in [Writers -> Event \cup {None}]
    /\ missed \subseteq Nat
    /\ fol \in [phase: {"off", "read", "send", "wait"}, seq: Nat, batch: SUBSET Event,
                full: BOOLEAN, dirty: BOOLEAN]
    /\ wire \subseteq Event
    /\ client \in [phase: {"loading", "failed", "idle", "live"}, head: Nat, cursor: Nat,
                   ready: BOOLEAN, pend: SUBSET Event, view: Snapshot \cup {None}]
    /\ reply \in Snapshot \cup {None}
    /\ drops \in Nat

\* The client is brought up to date by what comes after its cursor alone: an item it does
\* not show and the thread has, and one it shows and the thread has no more, is the
\* subject of an event it has still to be sent (followThreadEvents, threadSnapshot and
\* runThreadSubscription together, over drops, batches, refreshes and deleted events).
NothingMissed ==
    client.ready =>
        \A x \in Items :
            /\ x \in thread \ client.view.items =>
                  \E e \in EventsAfter(client.cursor) : Shows(e, x)
            /\ x \in client.view.items \ thread =>
                  \E e \in EventsAfter(client.cursor) : Hides(e, x)

\* The follower never sleeps through a notification: while it sleeps unsignalled, every
\* event it has not read is one whose notification has not come
\* (ChangeLatch: the generation is noted before the read, not after it).
NoMissedWake ==
    fol.phase = "wait" /\ ~fol.dirty =>
        \A e \in EventsAfter(fol.seq) : e.seq \in missed

\* Once nothing more is written the client shows exactly what the thread shows, whatever
\* notifications, connections and requests were lost.
Converges == <>[](client.ready /\ client.view.items = thread)
=============================================================================
