-------------------------- MODULE EventFeedProofs --------------------------
(***************************************************************************)
(* Proofs about EventFeed: its types, that a follower never sleeps through *)
(* a notification, and that a client misses nothing.                       *)
(*                                                                         *)
(* The inductive invariant says who holds the number of the next event,    *)
(* that the last event about an item is a committed row that says what the *)
(* thread shows (LastWord), that each copy of the log on its way to the    *)
(* client is gapless (Chain, Buffered), and that the client's view and the *)
(* snapshot on its way differ from the thread only by rows after their     *)
(* cursors (Cut).                                                          *)
(***************************************************************************)
EXTENDS EventFeed, TLAPS

Known == events \cup wire \cup fol.batch \cup client.pend

Touches(e, x) == Shows(e, x) \/ Hides(e, x)

\* An open transaction holds the lock, and what it may append is still so.
Locked ==
    /\ \A w, v \in Writers : txn[w] # None /\ txn[v] # None => w = v
    /\ \A w \in Writers : txn[w] # None =>
          txn[w].seq = next /\ MayAppend(txn[w].op, txn[w].item)

\* Every number in use was given out, to one event.
Numbers ==
    /\ \A e \in Known : e.seq < next
    /\ \A e, d \in Known : e.seq = d.seq => e = d

\* No cursor is ahead of the log.
Cursors ==
    /\ fol.seq < next /\ client.cursor < next /\ client.head < next
    /\ reply # None => reply.cursor < next

\* A run that is over has no draft.
RunsOver == \A r \in Runs : r \in spent => r \notin thread

\* d is at or after the last event of K about x.
LastAbout(K, d, x) == \A e \in K : Touches(e, x) => e.seq <= d.seq

LastWord ==
    \A x \in Items :
        /\ x \in thread => \E d \in events : Shows(d, x) /\ LastAbout(Known, d, x)
        /\ x \notin thread =>
              \A e \in Known : Touches(e, x) => \E d \in events : Hides(d, x) /\ LastAbout(Known, d, x)

\* The rows from the client's cursor to the follower's batch are on their way.
Chain ==
    /\ fol.phase = "off" <=> client.phase # "live"
    /\ fol.phase = "off" => wire = {} /\ fol.batch = {}
    /\ fol.phase \in {"read", "wait"} => fol.batch = {}
    /\ client.phase = "live" =>
          /\ client.cursor <= fol.seq
          /\ \A e \in wire : client.cursor < e.seq /\ e.seq <= fol.seq
          /\ \A e \in events : client.cursor < e.seq /\ e.seq <= fol.seq => e \in wire
          /\ \A b \in fol.batch : fol.seq < b.seq
          /\ \A b \in fol.batch, e \in events : fol.seq < e.seq /\ e.seq <= b.seq => e \in fol.batch

\* The rows from the head to the client's cursor are buffered while it has no snapshot.
Buffered ==
    /\ client.phase \in {"loading", "failed"} => ~client.ready
    /\ client.ready \/ client.phase \in {"loading", "failed"} => client.pend = {}
    /\ client.phase = "failed" => reply = None
    /\ client.phase \in {"idle", "live"} /\ ~client.ready =>
          /\ \A e \in client.pend : client.head < e.seq /\ e.seq <= client.cursor
          /\ \A e \in events : client.head < e.seq /\ e.seq <= client.cursor => e \in client.pend
          /\ client.cursor = client.head \/ \E p \in client.pend : p.seq = client.cursor
          /\ reply # None => client.head <= reply.cursor
          /\ client.head = 0 \/ \E e \in events : client.head <= e.seq

\* The items differ from the thread th only by rows of ev after c.
Cut(th, ev, items, c) ==
    \A x \in Items :
        /\ x \in th /\ x \notin items => \E e \in ev : e.seq > c /\ Shows(e, x)
        /\ x \in items /\ x \notin th => \E e \in ev : e.seq > c /\ Hides(e, x)

Current ==
    /\ reply # None => Cut(thread, events, reply.items, reply.cursor)
    /\ client.ready =>
          /\ client.view \in Snapshot
          /\ client.cursor <= client.view.cursor
          /\ Cut(thread, events, client.view.items, client.cursor)

IInv ==
    /\ TypeOK /\ Locked
    /\ Numbers /\ Cursors /\ RunsOver /\ LastWord
    /\ Chain /\ Buffered /\ Current

\* What a sleep may begin with.
WakeInv ==
    /\ fol.phase # "send" => fol.batch = {}
    /\ \A b \in fol.batch : b.seq >= fol.seq
    /\ fol.phase = "wait" => ~fol.full
    /\ fol.phase \in {"send", "wait"} /\ ~fol.full /\ ~fol.dirty =>
          \A e \in EventsAfter(fol.seq) : e \in fol.batch \/ e.seq \in missed

-----------------------------------------------------------------------------
(* Types.                                                                   *)

LEMMA ApplyItems ==
    ASSUME NEW items, NEW S
    PROVE  Apply(items, S) \subseteq Items
BY DEF Apply

\* The number of the last event of the log is a natural number.
LEMMA LatestIsNat ==
    ASSUME TypeOK, NEW c, Latest(c)
    PROVE  c \in Nat
BY DEF TypeOK, Latest, Event

\* Appending an event, with or without deleting progress before it, leaves a set of events.
LEMMA RowsType ==
    ASSUME events \subseteq Event, NEW e \in Event, NEW swept
    PROVE  Rows(e, swept) \subseteq Event
BY DEF Rows

\* The first state is well typed.
LEMMA TypeInit == Init => TypeOK
BY DEF Init, TypeOK

\* The first event of a set is an element of it.
LEMMA FirstType ==
    ASSUME NEW S, NEW e \in First(S)
    PROVE  e \in S
BY DEF First

\* Every step keeps the types; that one transaction holds the thread lock is needed for its commit.
LEMMA TypeStep == TypeOK /\ Locked /\ [Next]_vars => TypeOK'
<1> SUFFICES ASSUME TypeOK, Locked, [Next]_vars PROVE TypeOK'
    OBVIOUS
<1> USE DEF TypeOK
<1>1. ASSUME NEW w \in Writers, NEW op \in {"put", "end", "clear", "again"},
             NEW x \in Items \cup {None}, Begin(w, op, x)
      PROVE  TypeOK'
  <2>1. [seq |-> next, op |-> op, item |-> x] \in Event
        BY DEF Event
  <2>2. txn' \in [Writers -> Event \cup {None}]
        BY <1>1, <2>1 DEF Begin
  <2> QED BY <1>1, <2>2 DEF Begin
<1>2. ASSUME NEW w \in Writers, NEW swept \in BOOLEAN, NEW told \in BOOLEAN,
             Commit(w, swept, told)
      PROVE  TypeOK'
  <2>1. txn[w] \in Event
        BY <1>2 DEF Commit
  <2>2. txn[w].seq \in Nat /\ txn[w].item \in Items \cup {None}
        BY <2>1 DEF Event
  <2>3. /\ next' = next + 1 /\ events' = Rows(txn[w], swept)
        /\ thread' = Apply(thread, {txn[w]})
        /\ txn' = [txn EXCEPT ![w] = None]
        /\ UNCHANGED <<wire, client, reply, drops>>
        BY <1>2 DEF Commit
  <2>4. txn' \in [Writers -> Event \cup {None}] /\ next' \in Nat
        BY <2>3
  <2>5. events' \subseteq Event
        BY <2>1, <2>3, RowsType
  <2>6. thread' \subseteq Items
        BY <2>3, ApplyItems
  <2>7. spent' \subseteq Items
    <3>1. txn[w].op = "end" => txn[w].item \in Runs
          BY <1>2 DEF Commit, Locked, MayAppend
    <3> QED BY <1>2, <3>1 DEF Commit, Items
  <2>8. missed' \subseteq Nat
        BY <1>2, <2>2 DEF Commit
  <2>9. fol' \in [phase: {"off", "read", "send", "wait"}, seq: Nat, batch: SUBSET Event,
                  full: BOOLEAN, dirty: BOOLEAN]
        BY <1>2, Zenon DEF Commit, Notified
  <2> QED BY <2>3, <2>4, <2>5, <2>6, <2>7, <2>8, <2>9
<1>3. ASSUME NEW w \in Writers, Rollback(w) PROVE TypeOK'
      BY <1>3 DEF Rollback
<1>4. ASSUME NEW r \in Runs, Sweep(r) PROVE TypeOK'
      BY <1>4 DEF Sweep
<1>5. CASE CatchUp
      BY <1>5 DEF CatchUp, server, Notified
<1>6. CASE ReadBatch
  <2>1. PICK page \in SUBSET events :
              /\ fol' = [fol EXCEPT !.phase = "send", !.batch = page,
                                    !.full = Cardinality(page) = Batch]
              /\ missed' = missed \ {e.seq : e \in page}
        BY <1>6 DEF ReadBatch
  <2>2. fol' \in [phase: {"off", "read", "send", "wait"}, seq: Nat, batch: SUBSET Event,
                  full: BOOLEAN, dirty: BOOLEAN]
    <3>1. (Cardinality(page) = Batch) \in BOOLEAN
          OBVIOUS
    <3>2. page \in SUBSET Event
          OBVIOUS
    <3>3. "send" \in {"off", "read", "send", "wait"}
          OBVIOUS
    <3> QED BY <2>1, <3>1, <3>2, <3>3, Zenon
  <2> QED BY <1>6, <2>1, <2>2 DEF ReadBatch, server
<1>7. CASE Yield
  <2>1. PICK e \in First(fol.batch) :
              /\ fol' = [fol EXCEPT !.seq = e.seq, !.batch = @ \ {e}]
              /\ wire' = wire \cup {e}
        BY <1>7 DEF Yield
  <2>2. e \in Event /\ e.seq \in Nat
        BY FirstType DEF Event
  <2> QED BY <1>7, <2>1, <2>2 DEF Yield, server
<1>8. CASE BatchDone
      BY <1>8 DEF BatchDone, server, AfterBatch
<1>9. CASE Wake
      BY <1>9 DEF Wake, server
<1>10. CASE Get
      BY <1>10, LatestIsNat DEF Get, server, ThreadSnapshot, Snapshot
<1>11. CASE Refresh
      BY <1>11, ApplyItems DEF Refresh, server, Reconcile, WithPending, Snapshot
<1>12. CASE GetFails
      BY <1>12 DEF GetFails, server
<1>13. CASE LoadHead
      BY <1>13, LatestIsNat DEF LoadHead, server
<1>14. CASE Subscribe
      BY <1>14 DEF Subscribe, server
<1>15. CASE Receive
  <2>1. PICK e \in First(wire) :
              client' = IF client.ready
                        THEN [client EXCEPT !.cursor = e.seq, !.view = Seen(client.view, e)]
                        ELSE [client EXCEPT !.cursor = e.seq, !.pend = client.pend \cup {e}]
        BY <1>15 DEF Receive
  <2>2. e \in Event /\ e.seq \in Nat
        BY FirstType DEF Event
  <2>3. Seen(client.view, e) \in Snapshot
        BY <2>2, ApplyItems DEF Seen, Snapshot
  <2>4. wire' \subseteq Event /\ UNCHANGED <<server, missed, fol, reply, drops>>
        BY <1>15 DEF Receive
  <2>5. client.pend \cup {e} \in SUBSET Event
        BY <2>2
  <2>6. client' \in [phase: {"loading", "failed", "idle", "live"}, head: Nat, cursor: Nat,
                     ready: BOOLEAN, pend: SUBSET Event, view: Snapshot \cup {None}]
        BY <2>1, <2>2, <2>3, <2>5
  <2> QED BY <2>4, <2>6 DEF server
<1>16. CASE Drop
  <2>1. client' \in [phase: {"loading", "failed", "idle", "live"}, head: Nat, cursor: Nat,
                     ready: BOOLEAN, pend: SUBSET Event, view: Snapshot \cup {None}]
        BY <1>16 DEF Drop, ResumeCursor
  <2>2. fol' \in [phase: {"off", "read", "send", "wait"}, seq: Nat, batch: SUBSET Event,
                  full: BOOLEAN, dirty: BOOLEAN]
        BY <1>16 DEF Drop
  <2>3. /\ wire' = {} /\ missed' = {} /\ drops' \in Nat
        /\ UNCHANGED <<thread, spent, next, events, txn, reply>>
        BY <1>16 DEF Drop, server
  <2> QED BY <2>1, <2>2, <2>3
<1>17. CASE UNCHANGED vars
      BY <1>17 DEF vars
<1> QED BY <1>1, <1>2, <1>3, <1>4, <1>5, <1>6, <1>7, <1>8, <1>9, <1>10, <1>11, <1>12,
           <1>13, <1>14, <1>15, <1>16, <1>17 DEF Next, Write, Follow, Use

\* At most one transaction is inside the thread lock (appendEventTx), before and after a step.
LEMMA LockedStep == TypeOK /\ Locked /\ [Next]_vars => Locked'
<1> SUFFICES ASSUME TypeOK, Locked, [Next]_vars PROVE Locked'
    OBVIOUS
<1>t. txn \in [Writers -> Event \cup {None}] /\ next \in Nat
      BY DEF TypeOK
<1>1. ASSUME NEW w \in Writers, NEW op \in {"put", "end", "clear", "again"},
             NEW x \in Items \cup {None}, Begin(w, op, x)
      PROVE  Locked'
  <2>1. \A v \in Writers : txn'[v] # None => v = w
        BY <1>1, <1>t DEF Begin, Lockable
  <2>2. txn'[w] = [seq |-> next, op |-> op, item |-> x] /\ UNCHANGED <<next, spent>>
        BY <1>1, <1>t DEF Begin
  <2>3. MayAppend(op, x)
        BY <1>1 DEF Begin
  <2> QED BY <2>1, <2>2, <2>3 DEF Locked, MayAppend
<1>2. ASSUME NEW w \in Writers, txn[w] # None, txn' = [txn EXCEPT ![w] = None]
      PROVE  Locked'
  <2>1. \A v \in Writers : txn'[v] = None
        BY <1>2, <1>t DEF Locked
  <2> QED BY <2>1 DEF Locked
<1>3. ASSUME UNCHANGED <<txn, next, spent>> PROVE Locked'
      BY <1>3 DEF Locked, MayAppend
<1>4. ASSUME NEW w \in Writers, Write(w) PROVE Locked'
      BY <1>1, <1>2, <1>4 DEF Write, Commit, Rollback
<1>5. ASSUME NEW r \in Runs, Sweep(r) PROVE Locked'
      BY <1>3, <1>5 DEF Sweep
<1>6. CASE CatchUp \/ Follow
      BY <1>3, <1>6 DEF CatchUp, Follow, ReadBatch, Yield, BatchDone, Wake, server
<1>7. CASE Use \/ Drop
      BY <1>3, <1>7 DEF Use, Get, Refresh, GetFails, LoadHead, Subscribe, Receive, Drop, server
<1>8. CASE UNCHANGED vars
      BY <1>3, <1>8 DEF vars
<1> QED BY <1>4, <1>5, <1>6, <1>7, <1>8 DEF Next

\* Every variable of the feed keeps its type, in the writers, the follower and the client.
THEOREM TypeCorrect == Spec => []TypeOK
<1>1. Init => TypeOK /\ Locked
      BY TypeInit DEF Init, Locked
<1> QED BY <1>1, TypeStep, LockedStep, PTL DEF Spec

-----------------------------------------------------------------------------
(* Waking.                                                                  *)

LEMMA WakeStep == TypeOK /\ Locked /\ WakeInv /\ [Next]_vars => WakeInv'
<1> SUFFICES ASSUME TypeOK, Locked, WakeInv, [Next]_vars PROVE WakeInv'
    OBVIOUS
<1>f. fol \in [phase: {"off", "read", "send", "wait"}, seq: Nat, batch: SUBSET Event,
               full: BOOLEAN, dirty: BOOLEAN]
      BY DEF TypeOK
<1>e. \A e \in events : e.seq \in Nat
      BY DEF TypeOK, Event
<1>1. ASSUME NEW w \in Writers, Write(w) PROVE WakeInv'
  <2>1. ASSUME NEW swept \in BOOLEAN, NEW told \in BOOLEAN, Commit(w, swept, told)
        PROVE  WakeInv'
    <3>1. \A e \in events' : e \in events \/ e = txn[w]
          BY <2>1 DEF Commit, Rows
    <3>2. CASE fol' = fol /\ missed' = missed \cup {txn[w].seq}
          BY <3>1, <3>2 DEF WakeInv, EventsAfter
    <3>3. CASE fol' = Notified
      <4>1. /\ fol'.phase = fol.phase /\ fol'.seq = fol.seq /\ fol'.batch = fol.batch
            /\ fol'.full = fol.full
            BY <1>f, <3>3 DEF Notified
      <4>2. fol.phase # "off" => fol'.dirty
            BY <1>f, <3>3, Zenon DEF Notified
      <4> QED BY <4>1, <4>2 DEF WakeInv
    <3> QED BY <2>1, <3>2, <3>3 DEF Commit
  <2>2. ASSUME UNCHANGED <<fol, missed, events>> PROVE WakeInv'
        BY <2>2 DEF WakeInv, EventsAfter
  <2> QED BY <1>1, <2>1, <2>2 DEF Write, Begin, Rollback
<1>2. ASSUME NEW r \in Runs, Sweep(r) PROVE WakeInv'
      BY <1>2 DEF Sweep, WakeInv, EventsAfter
<1>3. CASE CatchUp
  <2>1. /\ fol'.phase = fol.phase /\ fol'.seq = fol.seq /\ fol'.batch = fol.batch
        /\ fol'.full = fol.full
        BY <1>f, <1>3 DEF CatchUp, Notified
  <2>2. fol.phase # "off" => fol'.dirty
        BY <1>f, <1>3, Zenon DEF CatchUp, Notified
  <2> QED BY <2>1, <2>2 DEF WakeInv
<1>4. CASE ReadBatch
  <2>1. PICK page \in SUBSET events :
              /\ Page(page)
              /\ fol' = [fol EXCEPT !.phase = "send", !.batch = page,
                                    !.full = Cardinality(page) = Batch]
        BY <1>4 DEF ReadBatch
  <2>2. fol'.phase = "send" /\ fol'.seq = fol.seq /\ fol'.batch = page
        BY <1>f, <2>1
  <2>3. fol'.full <=> Cardinality(page) = Batch
        BY <1>f, <2>1, Zenon
  <2>4. events' = events
        BY <1>4 DEF ReadBatch, server
  <2> QED BY <2>1, <2>2, <2>3, <2>4, <1>e, <1>f DEF WakeInv, Page, EventsAfter
<1>5. CASE Yield
  <2>1. PICK e \in First(fol.batch) : fol' = [fol EXCEPT !.seq = e.seq, !.batch = @ \ {e}]
        BY <1>5 DEF Yield
  <2>2. e \in fol.batch /\ e.seq \in Nat
        BY <2>1, <1>f, FirstType DEF Event
  <2>3. /\ fol'.phase = "send" /\ fol'.seq = e.seq /\ fol'.batch = fol.batch \ {e}
        /\ fol'.full = fol.full /\ fol'.dirty = fol.dirty
        BY <1>5, <1>f, <2>1 DEF Yield
  <2>4. UNCHANGED <<events, missed>>
        BY <1>5 DEF Yield, server
  <2>5. ASSUME ~fol.full, ~fol.dirty, NEW d \in events, d.seq > e.seq
        PROVE  d \in fol.batch \ {e} \/ d.seq \in missed
    <3>1. d.seq > fol.seq
          BY <2>2, <2>5, <1>e, <1>f DEF WakeInv
    <3> QED BY <1>5, <2>2, <2>5, <3>1, <1>e DEF Yield, WakeInv, EventsAfter
  <2>6. \A b \in fol.batch : b.seq >= e.seq
        BY <2>1, <2>2, <1>f DEF First, Event
  <2> QED BY <2>3, <2>4, <2>5, <2>6 DEF WakeInv, EventsAfter
<1>6. CASE BatchDone
      BY <1>6, <1>f DEF BatchDone, AfterBatch, server, WakeInv, EventsAfter
<1>7. CASE Wake
      BY <1>7, <1>f DEF Wake, Awakened, server, WakeInv, EventsAfter
<1>8. ASSUME UNCHANGED <<fol, missed, events>> PROVE WakeInv'
      BY <1>8 DEF WakeInv, EventsAfter
<1>9. CASE Get \/ Refresh \/ GetFails \/ LoadHead \/ Receive \/ UNCHANGED vars
      BY <1>8, <1>9 DEF Get, Refresh, GetFails, LoadHead, Receive, server, vars
<1>10. CASE Subscribe
      BY <1>10 DEF Subscribe, WakeInv
<1>11. CASE Drop
      BY <1>11, <1>f DEF Drop, WakeInv
<1> QED BY <1>1, <1>2, <1>3, <1>4, <1>5, <1>6, <1>7, <1>9, <1>10, <1>11 DEF Next, Follow, Use

\* A follower that sleeps unsignalled has read every event whose notification came, for
\* any number of writers, any batch size and any loss of notifications.
THEOREM NeverSleepsThrough == Spec => []NoMissedWake
<1>1. Init => TypeOK /\ Locked /\ WakeInv
      BY TypeInit DEF Init, Locked, WakeInv
<1>2. TypeOK /\ WakeInv => NoMissedWake
      BY DEF TypeOK, WakeInv, NoMissedWake
<1> QED BY <1>1, <1>2, TypeStep, LockedStep, WakeStep, PTL DEF Spec

-----------------------------------------------------------------------------
(* The log, its copies and the cuts.                                        *)

LEMMA KnownType ==
    ASSUME TypeOK
    PROVE  \A e \in Known : e \in Event /\ e.seq \in Nat
BY DEF TypeOK, Known, Event

\* Applying every row from c to d to items cut at c gives items cut at d, even when rows
\* of the copy Q were deleted since.
LEMMA ApplyCut ==
    ASSUME TypeOK, Numbers, LastWord,
           NEW items, NEW c \in Nat, NEW d \in Nat, NEW Q \in SUBSET Known,
           \A e \in Q : c < e.seq /\ e.seq <= d,
           \A e \in events : c < e.seq /\ e.seq <= d => e \in Q,
           Cut(thread, events, items, c)
    PROVE  Cut(thread, events, Apply(items, Q), d)
<1> DEFINE of(x) == {e \in Q : Touches(e, x)}
<1> DEFINE new == Apply(items, Q)
<1>k. \A e \in Known : e.seq \in Nat
      BY KnownType
<1>e. events \subseteq Known
      BY DEF Known
<1>1. \A x \in Items : of(x) = {} => (x \in new <=> x \in items)
      BY DEF Apply, Touches
<1>2. \A x \in Items : of(x) # {} =>
          (x \in new <=> \E e \in of(x) : Shows(e, x) /\ \A f \in of(x) : f.seq <= e.seq)
      BY DEF Apply, Touches
<1>3. ASSUME NEW x \in Items, x \in thread, x \notin new
      PROVE  \E e \in events : e.seq > d /\ Shows(e, x)
  <2>1. CASE of(x) = {}
    <3>1. PICK e \in events : e.seq > c /\ Shows(e, x)
          BY <1>1, <1>3, <2>1 DEF Cut
    <3>2. e \notin Q
          BY <2>1, <3>1 DEF Touches
    <3> QED BY <3>1, <3>2, <1>e, <1>k
  <2>2. CASE of(x) # {}
    <3>1. PICK l \in events : Shows(l, x) /\ LastAbout(Known, l, x)
          BY <1>3 DEF LastWord
    <3>2. PICK f \in of(x) : TRUE
          BY <2>2
    <3>3. \A g \in of(x) : g.seq <= l.seq
          BY <3>1 DEF LastAbout
    <3>4. c < l.seq
          BY <3>2, <3>3, <1>k, <1>e
    <3>5. l \notin of(x)
          BY <1>2, <1>3, <2>2, <3>1, <3>3
    <3>6. l \notin Q
          BY <3>1, <3>5 DEF Touches
    <3> QED BY <3>1, <3>4, <3>6, <1>k, <1>e
  <2> QED BY <2>1, <2>2
<1>4. ASSUME NEW x \in Items, x \in new, x \notin thread
      PROVE  \E e \in events : e.seq > d /\ Hides(e, x)
  <2>1. CASE of(x) = {}
    <3>1. PICK e \in events : e.seq > c /\ Hides(e, x)
          BY <1>1, <1>4, <2>1 DEF Cut
    <3>2. e \notin Q
          BY <2>1, <3>1 DEF Touches
    <3> QED BY <3>1, <3>2, <1>e, <1>k
  <2>2. CASE of(x) # {}
    <3>1. PICK f \in of(x) : Shows(f, x) /\ \A g \in of(x) : g.seq <= f.seq
          BY <1>2, <1>4, <2>2
    <3>2. f \in Known /\ Touches(f, x)
          OBVIOUS
    <3>3. PICK l \in events : Hides(l, x) /\ LastAbout(Known, l, x)
          BY <1>4, <3>2 DEF LastWord
    <3>4. f.seq <= l.seq /\ c < f.seq
          BY <3>2, <3>3 DEF LastAbout
    <3>5. l # f
          BY <3>1, <3>3 DEF Shows, Hides
    <3>6. l.seq # f.seq
          BY <3>2, <3>5, <1>e DEF Numbers
    <3>7. l \notin of(x)
          BY <3>1, <3>4, <3>6, <1>k, <1>e, <3>2
    <3>8. l \notin Q
          BY <3>3, <3>7 DEF Touches
    <3> QED BY <3>3, <3>4, <3>8, <1>k, <1>e, <3>2
  <2> QED BY <2>1, <2>2
<1> QED BY <1>3, <1>4 DEF Cut

\* A cut at d is one at every earlier c.
LEMMA CutEarlier ==
    ASSUME TypeOK, NEW items, NEW c \in Nat, NEW d \in Nat, c <= d,
           Cut(thread, events, items, d)
    PROVE  Cut(thread, events, items, c)
BY KnownType DEF Cut, Known

\* A step that only moves or forgets copies of events keeps what the log says.
LEMMA LogKept ==
    ASSUME Numbers, RunsOver, LastWord,
           UNCHANGED <<thread, spent, next, events>>, Known' \subseteq Known
    PROVE  Numbers' /\ RunsOver' /\ LastWord'
<1>1. Numbers' /\ RunsOver'
      BY DEF Numbers, RunsOver
<1>2. \A d, x : LastAbout(Known, d, x) => LastAbout(Known', d, x)
      BY DEF LastAbout, Touches, Shows, Hides
<1>3. LastWord'
      BY <1>2 DEF LastWord, Touches, Shows, Hides
<1> QED BY <1>1, <1>3

\* What a commit does to the log, whoever follows it.
LEMMA CommitFacts ==
    ASSUME TypeOK, Locked, Numbers, NEW w \in Writers, NEW swept \in BOOLEAN,
           NEW told \in BOOLEAN, Commit(w, swept, told)
    PROVE  /\ txn[w] \in Event /\ txn[w].seq = next /\ next' = next + 1
           /\ MayAppend(txn[w].op, txn[w].item)
           /\ events' = Rows(txn[w], swept)
           /\ thread' = Apply(thread, {txn[w]})
           /\ fol'.phase = fol.phase /\ fol'.seq = fol.seq /\ fol'.batch = fol.batch
           /\ UNCHANGED <<wire, client, reply>>
           /\ Known' \subseteq Known \cup {txn[w]}
           /\ txn[w].op # "again" => txn[w] \in events'
           /\ \A e \in events' : e \in events \/ e = txn[w]
<1>1. txn[w] \in Event /\ txn[w].seq = next /\ MayAppend(txn[w].op, txn[w].item)
      BY DEF Commit, TypeOK, Locked
<1>2. /\ next' = next + 1 /\ events' = Rows(txn[w], swept)
      /\ thread' = Apply(thread, {txn[w]}) /\ UNCHANGED <<wire, client, reply>>
      BY DEF Commit
<1>3. fol'.phase = fol.phase /\ fol'.seq = fol.seq /\ fol'.batch = fol.batch
      BY DEF Commit, Notified, TypeOK
<1>4. \A e \in events' : e \in events \/ e = txn[w]
      BY <1>2 DEF Rows
<1>5. txn[w].op # "again" => txn[w] \in events'
      BY <1>1, <1>2 DEF Rows, Event
<1>6. Known' \subseteq Known \cup {txn[w]}
      BY <1>2, <1>3, <1>4 DEF Known
<1> QED BY <1>1, <1>2, <1>3, <1>4, <1>5, <1>6

\* The thread after a commit.
LEMMA ApplyOne ==
    ASSUME NEW items \in SUBSET Items, NEW e \in Event, NEW x \in Items
    PROVE  /\ Shows(e, x) => x \in Apply(items, {e})
           /\ Hides(e, x) => x \notin Apply(items, {e})
           /\ ~Touches(e, x) => (x \in Apply(items, {e}) <=> x \in items)
<1>1. e.seq \in Nat
      BY DEF Event
<1> QED BY <1>1 DEF Apply, Touches, Shows, Hides

\* A commit deletes no row that shows what the thread still shows, and none that hides
\* something unless it hides it as well.
LEMMA RowsKept ==
    ASSUME TypeOK, Locked, Numbers, NEW w \in Writers, NEW swept \in BOOLEAN,
           NEW told \in BOOLEAN, Commit(w, swept, told), NEW x \in Items
    PROVE  /\ \A d \in events : Shows(d, x) /\ x \in thread' => d \in events'
           /\ \A d \in events : Hides(d, x) => d \in events' \/ Hides(txn[w], x)
<1>1. /\ txn[w] \in Event /\ events' = Rows(txn[w], swept)
      /\ thread' = Apply(thread, {txn[w]})
      BY CommitFacts
<1>2. Hides(txn[w], x) => x \notin thread'
      BY <1>1, ApplyOne DEF TypeOK
<1>3. \A d \in events : d \in events' \/ txn[w].op = "clear"
                          \/ (txn[w].op = "end" /\ Shows(d, txn[w].item))
      BY <1>1 DEF Rows, Event
<1> QED BY <1>2, <1>3 DEF Hides, Shows

\* A commit leaves what a client saw up to a cursor consistent with the log: its event comes after.
LEMMA CommitCut ==
    ASSUME TypeOK, Locked, Numbers, NEW w \in Writers, NEW swept \in BOOLEAN,
           NEW told \in BOOLEAN, Commit(w, swept, told),
           NEW items, NEW c \in Nat, c < next, Cut(thread, events, items, c)
    PROVE  Cut(thread', events', items, c)
<1>1. /\ txn[w] \in Event /\ txn[w].seq = next
      /\ thread' = Apply(thread, {txn[w]})
      /\ txn[w].op # "again" => txn[w] \in events'
      BY CommitFacts
<1>t. thread \in SUBSET Items /\ next \in Nat
      BY DEF TypeOK
<1>2. ASSUME NEW x \in Items, x \in thread', x \notin items
      PROVE  \E e \in events' : e.seq > c /\ Shows(e, x)
  <2>1. CASE x \in thread
        BY <1>2, <2>1, RowsKept DEF Cut
  <2>2. CASE x \notin thread
    <3>1. Shows(txn[w], x)
          BY <1>1, <1>2, <1>t, <2>2, ApplyOne DEF Touches
    <3> QED BY <1>1, <1>t, <3>1 DEF Shows
  <2> QED BY <2>1, <2>2
<1>3. ASSUME NEW x \in Items, x \in items, x \notin thread'
      PROVE  \E e \in events' : e.seq > c /\ Hides(e, x)
  <2>1. CASE Hides(txn[w], x)
        BY <1>1, <1>t, <2>1 DEF Hides
  <2>2. CASE ~Hides(txn[w], x)
    <3>1. x \notin thread
          BY <1>1, <1>3, <1>t, <2>2, ApplyOne DEF Touches
    <3> QED BY <1>3, <2>2, <3>1, RowsKept DEF Cut
  <2> QED BY <2>1, <2>2
<1> QED BY <1>2, <1>3 DEF Cut

\* A commit keeps the numbering, the runs that are over, and the last word on each item.
LEMMA CommitLog ==
    ASSUME TypeOK, Locked, Numbers, RunsOver, LastWord, NEW w \in Writers,
           NEW swept \in BOOLEAN, NEW told \in BOOLEAN, Commit(w, swept, told)
    PROVE  Numbers' /\ RunsOver' /\ LastWord'
<1> DEFINE t == txn[w]
<1>1. /\ t \in Event /\ t.seq = next /\ next' = next + 1
      /\ MayAppend(t.op, t.item)
      /\ thread' = Apply(thread, {t})
      /\ Known' \subseteq Known \cup {t}
      /\ t.op # "again" => t \in events'
      /\ \A e \in events' : e \in events \/ e = t
      BY CommitFacts
<1>t. thread \in SUBSET Items /\ next \in Nat
      BY DEF TypeOK
<1>k. \A e \in Known : e.seq \in Nat /\ e.seq < next
      BY KnownType DEF Numbers
<1>s. spent' = CASE t.op = "put" /\ t.item \in Messages -> spent \cup {t.item}
                 [] t.op = "end" -> spent \cup {t.item}
                 [] t.op = "clear" -> spent \cup {r \in Runs : r \in thread}
                 [] OTHER -> spent
      BY DEF Commit
<1> HIDE DEF t
<1>2. Numbers'
      BY <1>1, <1>t, <1>k DEF Numbers
<1>3. RunsOver'
  <2> SUFFICES ASSUME NEW r \in Runs, r \in spent', r \in thread'
               PROVE  FALSE
      BY DEF RunsOver
  <2>0. r \in Items /\ r \notin Messages
        BY ItemsAssumption DEF Items
  <2>1. ~Hides(t, r)
        BY <1>1, <1>t, <2>0, ApplyOne
  <2>2. r \in spent
        BY <1>s, <2>0, <2>1, <1>1 DEF Hides, Event
  <2>3. Shows(t, r)
        BY <1>1, <1>t, <2>0, <2>1, <2>2, ApplyOne DEF Touches, RunsOver
  <2> QED BY <1>1, <2>2, <2>3 DEF Shows, MayAppend
<1>4. ASSUME NEW x \in Items, NEW d \in events', d \in Known, LastAbout(Known, d, x), ~Touches(t, x)
      PROVE  LastAbout(Known', d, x)
      BY <1>1, <1>4 DEF LastAbout, Touches, Shows, Hides
<1>5. ASSUME NEW x \in Items, Touches(t, x) PROVE t \in events' /\ LastAbout(Known', t, x)
  <2>1. t \in events'
        BY <1>1, <1>5 DEF Touches, Shows, Hides
  <2>2. \A e \in Known' : e.seq <= t.seq
        BY <1>1, <1>k, <1>t
  <2> QED BY <2>1, <2>2 DEF LastAbout, t
<1>6. ASSUME NEW x \in Items, x \in thread'
      PROVE  \E d \in events' : Shows(d, x) /\ LastAbout(Known', d, x)
  <2>0. ~Hides(t, x)
        BY <1>1, <1>t, <1>6, ApplyOne
  <2>1. CASE Touches(t, x)
        BY <2>0, <2>1, <1>5 DEF Touches
  <2>2. CASE ~Touches(t, x)
    <3>1. x \in thread
          BY <1>1, <1>t, <1>6, <2>2, ApplyOne
    <3>2. PICK d \in events : Shows(d, x) /\ LastAbout(Known, d, x)
          BY <3>1 DEF LastWord
    <3>3. d \in events' /\ d \in Known
          BY <1>6, <3>2, RowsKept DEF Known
    <3> QED BY <1>4, <2>2, <3>2, <3>3
  <2> QED BY <2>1, <2>2
<1>7. ASSUME NEW x \in Items, x \notin thread', NEW e \in Known', Touches(e, x)
      PROVE  \E d \in events' : Hides(d, x) /\ LastAbout(Known', d, x)
  <2>0. ~Shows(t, x)
        BY <1>1, <1>t, <1>7, ApplyOne
  <2>1. CASE Touches(t, x)
        BY <2>0, <2>1, <1>5 DEF Touches
  <2>2. CASE ~Touches(t, x)
    <3>1. x \notin thread /\ e \in Known
          BY <1>1, <1>t, <1>7, <2>2, ApplyOne
    <3>2. PICK d \in events : Hides(d, x) /\ LastAbout(Known, d, x)
          BY <1>7, <3>1 DEF LastWord
    <3>3. d \in events' /\ d \in Known
          BY <2>2, <3>2, RowsKept DEF Known, Touches, t
    <3> QED BY <1>4, <2>2, <3>2, <3>3
  <2> QED BY <2>1, <2>2
<1>8. LastWord'
      BY <1>6, <1>7 DEF LastWord, Touches, Shows, Hides
<1> QED BY <1>2, <1>3, <1>8

\* A commit preserves the invariant.
LEMMA CommitStep ==
    ASSUME IInv, NEW w \in Writers, NEW swept \in BOOLEAN, NEW told \in BOOLEAN,
           Commit(w, swept, told)
    PROVE  Numbers' /\ Cursors' /\ RunsOver' /\ LastWord' /\ Chain' /\ Buffered' /\ Current'
<1> DEFINE t == txn[w]
<1>0. TypeOK /\ Locked /\ Numbers /\ RunsOver /\ LastWord
      BY DEF IInv
<1>1. /\ t \in Event /\ t.seq = next /\ next' = next + 1
      /\ fol'.phase = fol.phase /\ fol'.seq = fol.seq /\ fol'.batch = fol.batch
      /\ UNCHANGED <<wire, client, reply>>
      /\ t.op # "again" => t \in events'
      /\ \A e \in events' : e \in events \/ e = t
      BY <1>0, CommitFacts
<1>2. t.op = "again" => events' = events
      BY <1>0, CommitFacts DEF Rows
<1>c. /\ next \in Nat /\ fol.seq \in Nat /\ client.cursor \in Nat /\ client.head \in Nat
      /\ reply # None => reply.cursor \in Nat
      BY <1>0 DEF TypeOK, Snapshot
<1>d. /\ fol.seq < next /\ client.cursor < next /\ client.head < next
      /\ reply # None => reply.cursor < next
      BY DEF IInv, Cursors
<1>k. \A b \in fol.batch : b.seq \in Nat /\ b.seq < next
      BY <1>0, KnownType DEF Known, Numbers
<1>e. Chain /\ Buffered /\ Current
      BY DEF IInv
<1>3. Numbers' /\ RunsOver' /\ LastWord'
      BY <1>0, CommitLog
<1>7. ASSUME NEW items, NEW c \in Nat, c < next, Cut(thread, events, items, c)
      PROVE  Cut(thread', events', items, c)
      BY <1>0, <1>7, CommitCut
<1> HIDE DEF t
<1>4. Cursors'
      BY <1>1, <1>c, <1>d DEF Cursors
<1>5. Chain'
      BY <1>1, <1>c, <1>d, <1>e, <1>k DEF Chain
<1>6. Buffered'
  <2>1. \A e \in events' : e.seq <= client.cursor => e \in events
        BY <1>1, <1>c, <1>d
  <2>2. (client.head = 0 \/ \E e \in events : client.head <= e.seq)
          => (client.head = 0 \/ \E e \in events' : client.head <= e.seq)
        BY <1>1, <1>2, <1>c, <1>d
  <2> QED BY <1>1, <1>e, <2>1, <2>2 DEF Buffered
<1>8. Current'
      BY <1>1, <1>7, <1>c, <1>d, <1>e DEF Current
<1> QED BY <1>3, <1>4, <1>5, <1>6, <1>8

\* Deleting the progress of a finished run preserves the invariant.
LEMMA SweepStep ==
    ASSUME IInv, NEW r \in Runs, Sweep(r)
    PROVE  Numbers' /\ Cursors' /\ RunsOver' /\ LastWord' /\ Chain' /\ Buffered' /\ Current'
<1>1. /\ r \in spent /\ events' = {e \in events : ~Shows(e, r)}
      /\ UNCHANGED <<thread, spent, next, txn, fol, wire, client, reply>>
      BY DEF Sweep
<1>2. r \notin thread /\ r \in Items
      BY <1>1 DEF IInv, RunsOver, Items
<1>3. Known' \subseteq Known
      BY <1>1 DEF Known
<1>4. \A x \in Items, d \in events : Hides(d, x) => d \in events'
      BY <1>1 DEF Hides, Shows
<1>5. \A x \in Items, d \in events : Shows(d, x) /\ x \in thread => d \in events'
      BY <1>1, <1>2 DEF Shows
<1>6. Numbers' /\ RunsOver'
      BY <1>1, <1>3 DEF IInv, Numbers, RunsOver
<1>7. LastWord'
  <2>1. \A d, x : LastAbout(Known, d, x) => LastAbout(Known', d, x)
        BY <1>3 DEF LastAbout
  <2>2. LastWord
        BY DEF IInv
  <2> QED BY <1>1, <1>3, <1>4, <1>5, <2>1, <2>2 DEF LastWord
<1>8. Cursors' /\ Chain'
      BY <1>1 DEF IInv, Cursors, Chain
<1>9. Buffered'
  <2>1. ASSUME NEW e \in events, client.head <= e.seq
        PROVE  \E d \in events' : client.head <= d.seq
    <3>1. CASE ~Shows(e, r)
          BY <1>1, <2>1, <3>1
    <3>2. CASE Shows(e, r)
      <4>1. e \in Known /\ Touches(e, r)
            BY <3>2 DEF Known, Touches
      <4>2. PICK d \in events : Hides(d, r) /\ LastAbout(Known, d, r)
            BY <1>2, <4>1 DEF IInv, LastWord
      <4>3. e.seq <= d.seq /\ d \in events'
            BY <1>2, <1>4, <4>1, <4>2 DEF LastAbout
      <4>4. e.seq \in Nat /\ d.seq \in Nat /\ client.head \in Nat
            BY DEF IInv, TypeOK, Event
      <4> QED BY <2>1, <4>3, <4>4
    <3> QED BY <3>1, <3>2
  <2>2. Buffered
        BY DEF IInv
  <2> QED BY <1>1, <2>1, <2>2 DEF Buffered
<1>10. Current'
  <2>1. ASSUME NEW items, NEW c, Cut(thread, events, items, c)
        PROVE  Cut(thread', events', items, c)
        BY <1>1, <1>4, <1>5, <2>1 DEF Cut
  <2> QED BY <1>1, <2>1 DEF IInv, Current
<1> QED BY <1>6, <1>7, <1>8, <1>9, <1>10

\* The steps of the follower.
LEMMA FollowStep ==
    ASSUME IInv, CatchUp \/ Follow
    PROVE  Numbers' /\ Cursors' /\ RunsOver' /\ LastWord' /\ Chain' /\ Buffered' /\ Current'
<1>0. TypeOK /\ Numbers /\ RunsOver /\ LastWord /\ Cursors /\ Chain /\ Buffered /\ Current
      BY DEF IInv
<1>f. fol \in [phase: {"off", "read", "send", "wait"}, seq: Nat, batch: SUBSET Event,
               full: BOOLEAN, dirty: BOOLEAN]
      BY <1>0 DEF TypeOK
<1>c. next \in Nat /\ client.cursor \in Nat
      BY <1>0 DEF TypeOK
<1>k. \A e \in Known : e.seq \in Nat /\ e.seq < next
      BY <1>0, KnownType DEF Numbers
<1>1. UNCHANGED <<thread, spent, next, events, txn, client, reply>>
      BY DEF CatchUp, Follow, ReadBatch, Yield, BatchDone, Wake, server
<1>2. Buffered' /\ Current'
      BY <1>0, <1>1 DEF Buffered, Current
<1>3. ASSUME fol'.seq = fol.seq, fol'.batch = fol.batch, wire' = wire,
             fol'.phase = "off" <=> fol.phase = "off",
             fol'.phase \in {"read", "wait"} => fol.batch = {}
      PROVE  Numbers' /\ Cursors' /\ RunsOver' /\ LastWord' /\ Chain'
  <2>1. Known' \subseteq Known
        BY <1>1, <1>3 DEF Known
  <2>2. Cursors' /\ Chain'
        BY <1>0, <1>1, <1>3 DEF Cursors, Chain
  <2> QED BY <1>0, <1>1, <2>1, <2>2, LogKept
<1>4. CASE CatchUp
  <2>1. /\ fol'.phase = fol.phase /\ fol'.seq = fol.seq /\ fol'.batch = fol.batch
        /\ wire' = wire
        BY <1>f, <1>4 DEF CatchUp, Notified
  <2> QED BY <1>0, <1>2, <1>3, <2>1 DEF Chain
<1>5. CASE BatchDone
  <2>1. /\ fol'.phase \in {"read", "wait"} /\ fol'.seq = fol.seq /\ fol'.batch = fol.batch
        /\ wire' = wire /\ fol.batch = {} /\ fol.phase = "send"
        BY <1>f, <1>5 DEF BatchDone, AfterBatch
  <2> QED BY <1>2, <1>3, <2>1
<1>6. CASE Wake
  <2>1. /\ fol'.phase = "read" /\ fol'.seq = fol.seq /\ fol'.batch = fol.batch
        /\ wire' = wire /\ fol.phase = "wait"
        BY <1>f, <1>6 DEF Wake, Awakened
  <2> QED BY <1>0, <1>2, <1>3, <2>1 DEF Chain
<1>7. CASE ReadBatch
  <2>1. PICK page \in SUBSET events :
              /\ Page(page)
              /\ fol' = [fol EXCEPT !.phase = "send", !.batch = page,
                                    !.full = Cardinality(page) = Batch]
        BY <1>7 DEF ReadBatch
  <2>2. /\ fol'.phase = "send" /\ fol'.seq = fol.seq /\ fol'.batch = page
        /\ wire' = wire /\ fol.phase = "read"
        BY <1>f, <1>7, <2>1 DEF ReadBatch
  <2>3. Known' \subseteq Known
        BY <1>1, <2>2 DEF Known
  <2>4. \A b \in page : fol.seq < b.seq
        BY <2>1, <1>k, <1>f DEF Page, EventsAfter, Known
  <2>5. \A b \in page, e \in events : fol.seq < e.seq /\ e.seq <= b.seq => e \in page
    <3> SUFFICES ASSUME NEW b \in page, NEW e \in events, fol.seq < e.seq, e.seq <= b.seq,
                        e \notin page
                 PROVE  FALSE
        OBVIOUS
    <3>1. e.seq \in Nat /\ b.seq \in Nat
          BY <1>k DEF Known
    <3>2. b.seq < e.seq
          BY <2>1, <3>1, <1>f DEF Page, EventsAfter
    <3> QED BY <3>1, <3>2
  <2>6. Cursors' /\ Chain'
        BY <1>0, <1>1, <2>2, <2>4, <2>5 DEF Cursors, Chain
  <2> QED BY <1>0, <1>1, <1>2, <2>3, <2>6, LogKept
<1>8. CASE Yield
  <2>1. PICK e \in First(fol.batch) :
              /\ fol' = [fol EXCEPT !.seq = e.seq, !.batch = @ \ {e}]
              /\ wire' = wire \cup {e}
        BY <1>8 DEF Yield
  <2>2. e \in fol.batch /\ e \in Known /\ e.seq \in Nat /\ e.seq < next
        BY <1>k, FirstType DEF Known
  <2>3. /\ fol'.phase = "send" /\ fol'.seq = e.seq /\ fol'.batch = fol.batch \ {e}
        /\ fol.phase = "send"
        BY <1>f, <1>8, <2>1 DEF Yield
  <2>4. Known' \subseteq Known
        BY <1>1, <2>1, <2>2, <2>3 DEF Known
  <2>5. Cursors'
        BY <1>0, <1>1, <2>2, <2>3 DEF Cursors
  <2>6. \A b \in fol.batch : b.seq \in Nat /\ e.seq <= b.seq
        BY <2>1, <1>k DEF First, Known
  <2>7. \A b \in fol.batch \ {e} : e.seq < b.seq
        BY <1>0, <2>2, <2>6 DEF Numbers, Known
  <2>8. ASSUME client.phase = "live"
        PROVE  /\ client.cursor <= e.seq
               /\ \A d \in wire \cup {e} : client.cursor < d.seq /\ d.seq <= e.seq
               /\ \A d \in events : client.cursor < d.seq /\ d.seq <= e.seq => d \in wire \cup {e}
               /\ \A b \in fol.batch \ {e}, d \in events :
                     e.seq < d.seq /\ d.seq <= b.seq => d \in fol.batch \ {e}
    <3>1. /\ client.cursor <= fol.seq /\ fol.seq < e.seq
          /\ \A d \in wire : client.cursor < d.seq /\ d.seq <= fol.seq
          /\ \A d \in events : client.cursor < d.seq /\ d.seq <= fol.seq => d \in wire
          /\ \A b \in fol.batch, d \in events : fol.seq < d.seq /\ d.seq <= b.seq => d \in fol.batch
          BY <1>0, <2>2, <2>8 DEF Chain
    <3>2. \A d \in wire \cup events : d.seq \in Nat
          BY <1>k DEF Known
    <3>3. ASSUME NEW d \in events, client.cursor < d.seq, d.seq <= e.seq
          PROVE  d \in wire \cup {e}
      <4>1. CASE d.seq <= fol.seq
            BY <3>1, <3>3, <4>1
      <4>2. CASE ~(d.seq <= fol.seq)
        <5>1. d \in fol.batch
              BY <2>2, <3>1, <3>2, <3>3, <4>2, <1>f
        <5> QED BY <2>2, <2>7, <3>2, <3>3, <5>1
      <4> QED BY <4>1, <4>2
    <3>4. \A b \in fol.batch \ {e}, d \in events :
             e.seq < d.seq /\ d.seq <= b.seq => d \in fol.batch \ {e}
          BY <2>2, <3>1, <3>2, <1>f
    <3> QED BY <2>2, <3>1, <3>2, <3>3, <3>4, <1>f, <1>c
  <2>9. Chain'
        BY <1>0, <1>1, <2>1, <2>3, <2>7, <2>8 DEF Chain
  <2> QED BY <1>0, <1>1, <1>2, <2>4, <2>5, <2>9, LogKept
<1> QED BY <1>4, <1>5, <1>6, <1>7, <1>8 DEF Follow

\* Requests and their answers.
LEMMA SnapshotStep ==
    ASSUME IInv, Get \/ Refresh \/ GetFails \/ LoadHead
    PROVE  Numbers' /\ Cursors' /\ RunsOver' /\ LastWord' /\ Chain' /\ Buffered' /\ Current'
<1>0. TypeOK /\ Numbers /\ RunsOver /\ LastWord /\ Cursors /\ Chain /\ Buffered /\ Current
      BY DEF IInv
<1>t. client \in [phase: {"loading", "failed", "idle", "live"}, head: Nat, cursor: Nat,
                  ready: BOOLEAN, pend: SUBSET Event, view: Snapshot \cup {None}]
      BY <1>0 DEF TypeOK
<1>r. reply # None => reply \in Snapshot /\ reply.cursor \in Nat /\ reply.cursor < next
      BY <1>0 DEF TypeOK, Cursors, Snapshot
<1>k. \A e \in Known : e.seq \in Nat /\ e.seq < next
      BY <1>0, KnownType DEF Numbers
<1>n. next \in Nat /\ fol.seq < next /\ fol.seq \in Nat
      BY <1>0 DEF TypeOK, Cursors
<1>1. UNCHANGED <<thread, spent, next, events, txn, fol, wire>>
      BY DEF Get, Refresh, GetFails, LoadHead, server
<1>2. ASSUME NEW c, Latest(c)
      PROVE  c \in Nat /\ c <= next - 1 /\ c < next /\ (\A e \in events : e.seq <= c)
             /\ (c = 0 \/ \E e \in events : c <= e.seq)
  <2>1. c \in Nat
        BY <1>0, <1>2, LatestIsNat
  <2>2. CASE c = 0
        BY <1>2, <2>2, <1>n, <1>k DEF Latest
  <2>3. CASE \E e \in events : c = e.seq
        BY <1>2, <2>1, <2>3, <1>n, <1>k DEF Latest, Known
  <2> QED BY <1>2, <2>2, <2>3 DEF Latest
<1>3. CASE Get
  <2>1. PICK c : Latest(c) /\ reply' = [cursor |-> c, items |-> thread]
        BY <1>3 DEF Get, ThreadSnapshot
  <2>2. reply'.cursor = c /\ reply'.items = thread /\ UNCHANGED client /\ client.phase # "failed"
        BY <1>3, <2>1 DEF Get
  <2>3. Known' \subseteq Known
        BY <1>1, <2>2 DEF Known
  <2>4. Cursors' /\ Chain'
        BY <1>0, <1>1, <1>2, <2>1, <2>2 DEF Cursors, Chain
  <2>5. client.phase \in {"idle", "live"} /\ ~client.ready => client.head <= c
    <3> SUFFICES ASSUME client.phase \in {"idle", "live"}, ~client.ready
                 PROVE  client.head <= c
        OBVIOUS
    <3>1. client.head = 0 \/ \E e \in events : client.head <= e.seq
          BY <1>0 DEF Buffered
    <3>2. client.head \in Nat
          BY <1>t
    <3> QED BY <1>2, <1>k, <2>1, <3>1, <3>2 DEF Known
  <2>6. Buffered'
        BY <1>0, <1>1, <2>2, <2>5 DEF Buffered
  <2>7. Current'
        BY <1>0, <1>1, <2>2 DEF Current, Cut
  <2> QED BY <1>0, <1>1, <2>3, <2>4, <2>6, <2>7, LogKept
<1>4. CASE GetFails
  <2>1. /\ reply' = None /\ client'.pend = client.pend /\ client'.ready = client.ready
        /\ client'.cursor = client.cursor /\ client'.head = client.head
        /\ client'.view = client.view
        /\ \/ client'.phase = client.phase /\ client.phase # "loading"
           \/ client.phase = "loading" /\ client'.phase = "failed"
        BY <1>4, <1>t DEF GetFails
  <2>2. Known' \subseteq Known
        BY <1>1, <2>1 DEF Known
  <2>3. Cursors' /\ Chain'
        BY <1>0, <1>1, <2>1 DEF Cursors, Chain
  <2>4. Buffered' /\ Current'
        BY <1>0, <1>1, <2>1 DEF Buffered, Current
  <2> QED BY <1>0, <1>1, <2>2, <2>3, <2>4, LogKept
<1>5. CASE LoadHead
  <2>1. PICK c : Latest(c) /\ client' = [client EXCEPT !.phase = "idle", !.cursor = c, !.head = c]
        BY <1>5 DEF LoadHead
  <2>2. /\ client'.phase = "idle" /\ client'.cursor = c /\ client'.head = c
        /\ client'.pend = client.pend /\ client'.ready = client.ready
        /\ client.phase = "failed" /\ reply' = reply
        BY <1>5, <1>t, <2>1 DEF LoadHead
  <2>3. ~client.ready /\ client.pend = {} /\ reply = None
        BY <1>0, <2>2 DEF Buffered
  <2>4. Known' \subseteq Known
        BY <1>1, <2>2 DEF Known
  <2>5. Cursors' /\ Chain'
        BY <1>0, <1>1, <1>2, <2>1, <2>2, <2>3 DEF Cursors, Chain
  <2>6. Buffered'
    <3>1. \A e \in events : ~(c < e.seq /\ e.seq <= c)
          BY <1>2, <2>1, <1>k DEF Known
    <3> QED BY <1>1, <1>2, <2>1, <2>2, <2>3, <3>1 DEF Buffered
  <2>7. Current'
        BY <1>1, <2>2, <2>3 DEF Current
  <2> QED BY <1>0, <1>1, <2>4, <2>5, <2>6, <2>7, LogKept
<1>6. CASE Refresh
  <2>0. reply # None /\ reply' = None
        BY <1>6 DEF Refresh
  <2>r. /\ reply.cursor \in Nat /\ reply.cursor < next /\ reply \in Snapshot
        /\ Cut(thread, events, reply.items, reply.cursor)
        BY <1>0, <1>r, <2>0 DEF Current
  <2>1. CASE client.phase = "loading"
    <3>1. /\ client'.phase = "idle" /\ client'.cursor = reply.cursor
          /\ client'.head = reply.cursor /\ client'.ready /\ client'.view = reply
          /\ client'.pend = client.pend
          BY <1>6, <1>t, <2>1 DEF Refresh
    <3>2. client.pend = {}
          BY <1>0, <2>1 DEF Buffered
    <3>3. Known' \subseteq Known
          BY <1>1, <3>1 DEF Known
    <3>4. Cursors' /\ Chain'
          BY <1>0, <1>1, <2>0, <2>1, <2>r, <3>1 DEF Cursors, Chain
    <3>5. Buffered' /\ Current'
          BY <1>1, <2>0, <2>r, <3>1, <3>2 DEF Buffered, Current
    <3> QED BY <1>0, <1>1, <3>3, <3>4, <3>5, LogKept
  <2>2. CASE client.phase # "loading" /\ client.ready
    <3>1. /\ client'.phase = client.phase /\ client'.cursor = client.cursor
          /\ client'.head = client.head /\ client'.ready = client.ready
          /\ client'.pend = client.pend /\ client'.view = Reconcile(client.view, reply)
          BY <1>6, <1>t, <2>2 DEF Refresh
    <3>2. Known' \subseteq Known
          BY <1>1, <3>1 DEF Known
    <3>3. Cursors' /\ Chain' /\ Buffered'
          BY <1>0, <1>1, <2>0, <2>2, <3>1 DEF Cursors, Chain, Buffered
    <3>4. /\ client.view \in Snapshot /\ client.cursor <= client.view.cursor
          /\ Cut(thread, events, client.view.items, client.cursor)
          BY <1>0, <2>2 DEF Current
    <3>5. client.view.cursor \in Nat /\ client.cursor \in Nat /\ client.view # None
          BY <1>t, <3>4, NoneAssumption DEF Snapshot
    <3>6. Current'
      <4>1. CASE reply.cursor < client.view.cursor
        <5>1. client'.view = client.view
              BY <3>1, <3>5, <4>1 DEF Reconcile
        <5> QED BY <1>1, <2>0, <3>1, <3>4, <5>1 DEF Current
      <4>2. CASE ~(reply.cursor < client.view.cursor)
        <5>1. client.cursor <= reply.cursor
              BY <2>r, <3>4, <3>5, <4>2
        <5>2. Cut(thread, events, reply.items, client.cursor)
              BY <1>0, <2>r, <3>5, <5>1, CutEarlier
        <5>3. client'.view = reply
              BY <3>1, <4>2 DEF Reconcile
        <5> QED BY <1>1, <2>0, <2>r, <3>1, <5>1, <5>2, <5>3 DEF Current
      <4> QED BY <4>1, <4>2
    <3> QED BY <1>0, <1>1, <3>2, <3>3, <3>6, LogKept
  <2>3. CASE client.phase # "loading" /\ ~client.ready
    <3> DEFINE new == {e \in client.pend : e.seq > reply.cursor}
    <3>1. /\ client'.phase = client.phase /\ client'.cursor = client.cursor
          /\ client'.head = client.head /\ client'.ready
          /\ client'.pend = {} /\ client'.view = WithPending(reply, client.pend)
          BY <1>6, <1>t, <2>3 DEF Refresh
    <3>2. client.phase \in {"idle", "live"}
          BY <1>0, <1>t, <2>0, <2>3 DEF Buffered
    <3>3. /\ \A e \in client.pend : client.head < e.seq /\ e.seq <= client.cursor
          /\ \A e \in events : client.head < e.seq /\ e.seq <= client.cursor => e \in client.pend
          /\ client.cursor = client.head \/ \E p \in client.pend : p.seq = client.cursor
          /\ client.head <= reply.cursor
          BY <1>0, <2>0, <2>3, <3>2 DEF Buffered
    <3>4. client.head \in Nat /\ client.cursor \in Nat
          BY <1>t
    <3>5. Known' \subseteq Known
          BY <1>1, <3>1 DEF Known
    <3>6. Cursors' /\ Chain' /\ Buffered'
          BY <1>0, <1>1, <2>0, <3>1, <3>2 DEF Cursors, Chain, Buffered
    <3>7. /\ client'.view.items = Apply(reply.items, new)
          /\ client'.view.cursor = IF new = {} THEN reply.cursor ELSE client.cursor
          BY <3>1 DEF WithPending
    <3>8. client'.view \in Snapshot
          BY <2>r, <3>1, <3>4, ApplyItems DEF WithPending, Snapshot
    <3>9. Current'
      <4>k. \A e \in client.pend : e.seq \in Nat
            BY <1>k DEF Known
      <4>e. \A e \in events : e.seq \in Nat
            BY <1>k DEF Known
      <4>1. CASE new = {}
        <5>1. client.cursor <= reply.cursor
              BY <2>r, <3>3, <3>4, <4>1, <4>k
        <5>2. Apply(reply.items, new) = {x \in Items : x \in reply.items}
              BY <4>1 DEF Apply
        <5>3. Apply(reply.items, new) = reply.items
              BY <2>r, <5>2 DEF Snapshot
        <5>4. Cut(thread, events, reply.items, client.cursor)
              BY <1>0, <2>r, <3>4, <5>1, CutEarlier
        <5> QED BY <1>1, <2>0, <3>1, <3>7, <3>8, <4>1, <5>1, <5>3, <5>4 DEF Current
      <4>2. CASE new # {}
        <5>1. \A e \in new : reply.cursor < e.seq /\ e.seq <= client.cursor
              BY <3>3, <4>k, <2>r
        <5>2. \A e \in events : reply.cursor < e.seq /\ e.seq <= client.cursor => e \in new
              BY <2>r, <3>3, <3>4, <4>e
        <5>3. new \in SUBSET Known
              BY DEF Known
        <5> HIDE DEF new
        <5>4. Cut(thread, events, Apply(reply.items, new), client.cursor)
              BY <1>0, <2>r, <3>4, <5>1, <5>2, <5>3, ApplyCut
        <5> QED BY <1>1, <2>0, <3>1, <3>4, <3>7, <3>8, <4>2, <5>4 DEF Current
      <4> QED BY <4>1, <4>2
    <3> QED BY <1>0, <1>1, <3>5, <3>6, <3>9, LogKept
  <2> QED BY <2>1, <2>2, <2>3
<1> QED BY <1>3, <1>4, <1>5, <1>6

\* The subscription.
LEMMA SubscriptionStep ==
    ASSUME IInv, Subscribe \/ Receive \/ Drop
    PROVE  Numbers' /\ Cursors' /\ RunsOver' /\ LastWord' /\ Chain' /\ Buffered' /\ Current'
<1>0. TypeOK /\ Numbers /\ RunsOver /\ LastWord /\ Cursors /\ Chain /\ Buffered /\ Current
      BY DEF IInv
<1>t. client \in [phase: {"loading", "failed", "idle", "live"}, head: Nat, cursor: Nat,
                  ready: BOOLEAN, pend: SUBSET Event, view: Snapshot \cup {None}]
      BY <1>0 DEF TypeOK
<1>f. fol \in [phase: {"off", "read", "send", "wait"}, seq: Nat, batch: SUBSET Event,
               full: BOOLEAN, dirty: BOOLEAN]
      BY <1>0 DEF TypeOK
<1>k. \A e \in Known : e.seq \in Nat /\ e.seq < next
      BY <1>0, KnownType DEF Numbers
<1>1. UNCHANGED <<thread, spent, next, events, txn, reply>>
      BY DEF Subscribe, Receive, Drop, server
<1>2. CASE Subscribe
  <2>1. /\ client'.phase = "live" /\ client'.cursor = client.cursor
        /\ client'.head = client.head /\ client'.ready = client.ready
        /\ client'.pend = client.pend /\ client'.view = client.view
        /\ client.phase = "idle" /\ wire' = wire
        BY <1>2, <1>t DEF Subscribe
  <2>2. fol'.phase = "read" /\ fol'.seq = client.cursor /\ fol'.batch = {}
        BY <1>2 DEF Subscribe
  <2>3. wire = {}
        BY <1>0, <2>1 DEF Chain
  <2>4. Known' \subseteq Known
        BY <1>1, <2>1, <2>2 DEF Known
  <2>5. Cursors' /\ Buffered' /\ Current'
        BY <1>0, <1>1, <2>1, <2>2 DEF Cursors, Buffered, Current
  <2>6. Chain'
    <3>1. client.cursor \in Nat /\ \A e \in events : e.seq \in Nat
          BY <1>k, <1>t DEF Known
    <3> QED BY <1>1, <2>1, <2>2, <2>3, <3>1 DEF Chain
  <2> QED BY <1>0, <1>1, <2>4, <2>5, <2>6, LogKept
<1>3. CASE Drop
  <2>1. /\ client'.phase = "idle" /\ client'.cursor = client.cursor
        /\ client'.head = client.head /\ client'.ready = client.ready
        /\ client'.pend = client.pend /\ client'.view = client.view
        /\ client.phase = "live" /\ wire' = {}
        BY <1>3, <1>t DEF Drop, ResumeCursor
  <2>2. fol'.phase = "off" /\ fol'.seq = fol.seq /\ fol'.batch = {}
        BY <1>3, <1>f DEF Drop
  <2>3. Known' \subseteq Known
        BY <1>1, <2>1, <2>2 DEF Known
  <2>4. Cursors' /\ Chain' /\ Buffered' /\ Current'
        BY <1>0, <1>1, <2>1, <2>2 DEF Cursors, Chain, Buffered, Current
  <2> QED BY <1>0, <1>1, <2>3, <2>4, LogKept
<1>4. CASE Receive
  <2>1. PICK e \in First(wire) :
              /\ wire' = wire \ {e}
              /\ client' = IF client.ready
                           THEN [client EXCEPT !.cursor = e.seq, !.view = Seen(client.view, e)]
                           ELSE [client EXCEPT !.cursor = e.seq, !.pend = client.pend \cup {e}]
        BY <1>4 DEF Receive
  <2>2. e \in wire /\ e \in Known /\ e.seq \in Nat /\ e.seq < next
        BY <1>k, FirstType DEF Known
  <2>3. client.phase = "live" /\ fol' = fol
        BY <1>0, <1>4, <1>t, <2>2 DEF Chain, Receive
  <2>4. /\ client.cursor <= fol.seq
        /\ \A d \in wire : client.cursor < d.seq /\ d.seq <= fol.seq
        /\ \A d \in events : client.cursor < d.seq /\ d.seq <= fol.seq => d \in wire
        BY <1>0, <2>3 DEF Chain
  <2>5. \A d \in wire : d.seq \in Nat /\ e.seq <= d.seq
        BY <2>1, <1>k DEF First, Known
  <2>6. \A d \in wire \ {e} : e.seq < d.seq
        BY <1>0, <2>2, <2>5 DEF Numbers, Known
  <2>7. \A d \in events : client.cursor < d.seq /\ d.seq <= e.seq => d = e
    <3> SUFFICES ASSUME NEW d \in events, client.cursor < d.seq, d.seq <= e.seq, d # e
                 PROVE  FALSE
        OBVIOUS
    <3>1. d.seq \in Nat /\ fol.seq \in Nat
          BY <1>k, <1>f DEF Known
    <3>2. d \in wire
          BY <2>2, <2>4, <3>1
    <3> QED BY <2>2, <2>6, <3>1, <3>2
  <2>8. /\ client'.phase = client.phase /\ client'.head = client.head
        /\ client'.ready = client.ready /\ client'.cursor = e.seq
        BY <2>1, <1>t
  <2>9. Cursors'
        BY <1>0, <1>1, <2>2, <2>3, <2>8 DEF Cursors
  <2>10. Chain'
    <3>1. client.cursor < e.seq /\ e.seq <= fol.seq /\ client.cursor \in Nat
          BY <2>2, <2>4, <1>t
    <3>2. \A d \in wire \ {e} : e.seq < d.seq /\ d.seq <= fol.seq
          BY <2>4, <2>6
    <3>3. \A d \in events : e.seq < d.seq /\ d.seq <= fol.seq => d \in wire \ {e}
          BY <1>k, <2>2, <2>4, <3>1 DEF Known
    <3> QED BY <1>0, <1>1, <2>1, <2>2, <2>3, <2>8, <3>1, <3>2, <3>3 DEF Chain
  <2>11. CASE client.ready
    <3>1. client'.pend = client.pend /\ client'.view = Seen(client.view, e)
          BY <2>1, <2>11, <1>t
    <3>2. Known' \subseteq Known
          BY <1>1, <2>1, <2>3, <3>1 DEF Known
    <3>3. Buffered'
          BY <1>0, <1>1, <2>8, <2>11, <3>1 DEF Buffered
    <3>4. client'.view \in Snapshot
          BY <2>2, <3>1, ApplyItems DEF Seen, Snapshot
    <3>5. client'.view.cursor = e.seq /\ client'.view.items = Apply(client.view.items, {e})
          BY <3>1 DEF Seen
    <3>6. Cut(thread, events, client.view.items, client.cursor)
          BY <1>0, <2>11 DEF Current
    <3>7. Cut(thread, events, Apply(client.view.items, {e}), e.seq)
      <4>1. {e} \in SUBSET Known /\ client.cursor \in Nat
            BY <2>2, <1>t
      <4>2. \A d \in {e} : client.cursor < d.seq /\ d.seq <= e.seq
            BY <2>2, <2>4
      <4>3. \A d \in events : client.cursor < d.seq /\ d.seq <= e.seq => d \in {e}
            BY <2>7
      <4> QED BY <1>0, <2>2, <3>6, <4>1, <4>2, <4>3, ApplyCut
    <3>8. Current'
          BY <1>0, <1>1, <2>2, <2>8, <3>4, <3>5, <3>7 DEF Current
    <3> QED BY <1>0, <1>1, <2>9, <2>10, <3>2, <3>3, <3>8, LogKept
  <2>12. CASE ~client.ready
    <3>1. client'.pend = client.pend \cup {e}
          BY <2>1, <2>12, <1>t
    <3>2. Known' \subseteq Known
          BY <1>1, <2>1, <2>2, <2>3, <3>1 DEF Known
    <3>3. /\ \A d \in client.pend : client.head < d.seq /\ d.seq <= client.cursor
          /\ \A d \in events : client.head < d.seq /\ d.seq <= client.cursor => d \in client.pend
          /\ client.cursor = client.head \/ \E p \in client.pend : p.seq = client.cursor
          BY <1>0, <2>3, <2>12 DEF Buffered
    <3>4. /\ client.head \in Nat /\ client.cursor \in Nat
          /\ \A d \in client.pend \cup events : d.seq \in Nat
          BY <1>t, <1>k DEF Known
    <3>5. client.cursor < e.seq
          BY <2>2, <2>4
    <3>6. client.head <= client.cursor
          BY <3>3, <3>4
    <3>7. \A d \in client.pend \cup {e} : client.head < d.seq /\ d.seq <= e.seq
          BY <2>2, <3>3, <3>4, <3>5, <3>6
    <3>8. \A d \in events : client.head < d.seq /\ d.seq <= e.seq => d \in client.pend \cup {e}
          BY <2>7, <3>3, <3>4
    <3>9. Buffered'
          BY <1>0, <1>1, <2>3, <2>8, <2>12, <3>1, <3>7, <3>8 DEF Buffered
    <3>10. Current'
          BY <1>0, <1>1, <2>8, <2>12 DEF Current
    <3> QED BY <1>0, <1>1, <2>9, <2>10, <3>2, <3>9, <3>10, LogKept
  <2> QED BY <2>11, <2>12
<1> QED BY <1>2, <1>3, <1>4

\* The invariant holds in the first state.
LEMMA IInvInit == Init => IInv
<1> SUFFICES ASSUME Init PROVE IInv
    OBVIOUS
<1>1. Known = {}
      BY DEF Init, Known
<1>2. TypeOK /\ Locked
      BY TypeInit DEF Init, Locked
<1>3. Numbers /\ Cursors /\ RunsOver /\ LastWord
      BY <1>1 DEF Init, Numbers, Cursors, RunsOver, LastWord
<1>4. Chain /\ Buffered /\ Current
      BY DEF Init, Chain, Buffered, Current
<1> QED BY <1>2, <1>3, <1>4 DEF IInv

\* Every step preserves the invariant.
LEMMA IInvStep == IInv /\ [Next]_vars => IInv'
<1> SUFFICES ASSUME IInv, [Next]_vars PROVE IInv'
    OBVIOUS
<1> DEFINE Rest == /\ Numbers /\ Cursors /\ RunsOver /\ LastWord
                   /\ Chain /\ Buffered /\ Current
<1>1. TypeOK' /\ Locked'
      BY TypeStep, LockedStep DEF IInv
<1>2. ASSUME UNCHANGED <<thread, spent, next, events, fol, wire, client, reply>>
      PROVE  Rest'
      BY <1>2 DEF IInv, Numbers, Cursors, RunsOver, LastWord, Chain, Buffered, Current,
                  Known, LastAbout, Touches
<1>3. ASSUME NEW w \in Writers, Write(w) PROVE Rest'
      BY <1>2, <1>3, CommitStep DEF Write, Begin, Rollback
<1>4. ASSUME NEW r \in Runs, Sweep(r) PROVE Rest'
      BY <1>4, SweepStep
<1>5. ASSUME CatchUp \/ Follow PROVE Rest'
      BY <1>5, FollowStep
<1>6. ASSUME Use \/ Drop PROVE Rest'
      BY <1>6, SnapshotStep, SubscriptionStep DEF Use
<1>7. ASSUME UNCHANGED vars PROVE Rest'
      BY <1>2, <1>7 DEF vars
<1>8. Rest'
      BY <1>3, <1>4, <1>5, <1>6, <1>7 DEF Next
<1> QED BY <1>1, <1>8 DEF IInv

\* A client misses nothing: whatever it does not show as the thread does is the subject of
\* a row after its cursor, for any number of writers, messages and runs and any batch
\* size, over lost connections, failed requests, refreshes and deleted rows.
THEOREM ClientMissesNothing == Spec => []NothingMissed
<1>1. IInv => NothingMissed
      BY DEF IInv, Current, Cut, NothingMissed, EventsAfter
<1> QED BY <1>1, IInvInit, IInvStep, PTL DEF Spec
=============================================================================
