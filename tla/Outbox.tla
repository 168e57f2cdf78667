------------------------------- MODULE Outbox -------------------------------
(***************************************************************************)
(* The producer side of the event system (besdk/events/outbox.py), for one *)
(* partition of one stream: events inserted by business transactions, the  *)
(* numbering transaction under the partition counter's lock, the           *)
(* forwarders of the member's replicas, and the database's recoveries      *)
(* (a failover or a restore) that lose commits and start a new epoch.      *)
(***************************************************************************)
EXTENDS Naturals, FiniteSets

CONSTANTS
  Event,          \* event ids (uuid7: an id is used once)
  Forwarder,      \* one Forwarder, with its Producer, per replica of the member
  Batch,          \* Forwarder.batch
  OrdReuse,       \* may a recovered database hand out again the identity
                  \* values (be_outbox.ord) of transactions it lost?
  MaxRecoveries,  \* bound: recoveries of the database
  MaxFaults,      \* bound: failed calls and crashes of forwarders
  NoOne,          \* no lock holder, no lease
  Gone            \* the lease owner id of a forwarder that has crashed

ASSUME OutboxAssumption ==
  /\ Batch \in Nat \ {0}
  /\ OrdReuse \in BOOLEAN
  /\ MaxRecoveries \in Nat
  /\ MaxFaults \in Nat
  /\ NoOne \notin Forwarder
  /\ Gone \notin Forwarder
  /\ NoOne # Gone

VARIABLES
  ord,      \* ord[e]: the identity value of e's row, 0 before its INSERT
  open,     \* events of business transactions that have not ended
  db,       \* the primary's committed content, see Database
  saved,    \* the copy a recovery starts from (a standby, a backup)
  epochNow, \* be_current_db_epoch(): every recovery makes it larger
  lock,     \* who holds the partition counter's row lock
  seen,     \* seen[f]: the counter row and epoch f read under the lock
  pc,       \* where each forwarder is in _run / _partition
  todo,     \* the rows of its pass a forwarder still has to publish
  done,     \* the rows of its pass it has published
  held,     \* Forwarder._held: f believes it is in its lease's first half
  dirty,    \* Producer._dirty / written of each replica
  sent,     \* the messages the transport accepted
  assigned, \* history: every position ever given by a committed numbering
  before,   \* history: before[e]: what was committed when e was inserted
  faults    \* history: failed calls and crashes so far

vars == <<ord, open, db, saved, epochNow, lock, seen, pc, todo, done, held,
          dirty, sent, assigned, before, faults>>

business == <<ord, open, before>>
server == <<saved, epochNow>>
counter == <<lock, seen>>
pass == <<pc, todo, done>>
hints == <<held, dirty>>
transport == <<sent, assigned>>

\* An epoch is (recovery generation, timeline), compared in that order; the
\* model numbers the epochs in that order from 1, 0 is a NULL epoch.
Position == [ev: Event, epoch: Nat, seq: Nat]
Fork == [old: Nat, fork: Nat, new: Nat]

\* be_outbox, be_outbox_partition and be_epoch_history. A row's position is
\* the element of assigned for its event; committed and the positions of
\* purged rows are kept as history.
Database ==
  [rows: SUBSET Event,      \* rows of be_outbox
   pub: SUBSET Event,       \* rows whose published_at is set
   assigned: SUBSET Position,
   committed: SUBSET Event,
   epoch: Nat, last: Nat,   \* the partition counter
   history: SUBSET Fork,    \* be_epoch_history
   nextOrd: Nat \ {0},      \* the identity sequence of ord
   lease: Forwarder \cup {NoOne, Gone}]

EmptyDatabase ==
  [rows |-> {}, pub |-> {}, assigned |-> {}, committed |-> {}, epoch |-> 0,
   last |-> 0, history |-> {}, nextOrd |-> 1, lease |-> NoOne]

NotSeen == [epoch |-> 0, last |-> 0, now |-> 0]
Stage == {"idle", "lease", "lock", "number", "publish", "mark"}

TypeOK ==
  /\ ord \in [Event -> Nat]
  /\ open \in SUBSET Event
  /\ db \in Database
  /\ saved \in Database
  /\ epochNow \in Nat
  /\ lock \in Forwarder \cup {NoOne}
  /\ seen \in [Forwarder -> [epoch: Nat, last: Nat, now: Nat]]
  /\ pc \in [Forwarder -> Stage]
  /\ todo \in [Forwarder -> SUBSET Position]
  /\ done \in [Forwarder -> SUBSET Position]
  /\ held \in [Forwarder -> BOOLEAN]
  /\ dirty \in [Forwarder -> BOOLEAN]
  /\ sent \in SUBSET Position
  /\ assigned \in SUBSET Position
  /\ before \in [Event -> SUBSET Event]
  /\ faults \in Nat

Init ==
  /\ ord = [e \in Event |-> 0]
  /\ open = {}
  /\ db = EmptyDatabase
  /\ saved = EmptyDatabase
  /\ epochNow = 1
  /\ lock = NoOne
  /\ seen = [f \in Forwarder |-> NotSeen]
  /\ pc = [f \in Forwarder |-> "idle"]
  /\ todo = [f \in Forwarder |-> {}]
  /\ done = [f \in Forwarder |-> {}]
  /\ held = [f \in Forwarder |-> FALSE]
  /\ dirty = [f \in Forwarder |-> FALSE]
  /\ sent = {}
  /\ assigned = {}
  /\ before = [e \in Event |-> {}]
  /\ faults = 0

SentEvents == {m.ev : m \in sent}
Numbered(d) == {a.ev : a \in d.assigned}
Unnumbered(d) == d.rows \ Numbered(d)
Before(a, b) == a.epoch < b.epoch \/ (a.epoch = b.epoch /\ a.seq < b.seq)

-----------------------------------------------------------------------------
(* The business transaction.                                               *)

\* Producer.emit: the row is inserted in the caller's transaction. Its ord is
\* taken from the identity sequence, which no rollback gives back.
Emit(e) ==
  /\ ord[e] = 0
  /\ ord' = [ord EXCEPT ![e] = db.nextOrd]
  /\ db' = [db EXCEPT !.nextOrd = @ + 1]
  /\ open' = open \cup {e}
  /\ before' = [before EXCEPT ![e] = db.committed]
  /\ UNCHANGED <<faults, server, counter, pass, hints, transport>>

\* The transaction commits and its after_commit callback wakes the forwarder
\* of the replica that ran it.
Commit(e, f) ==
  /\ e \in open
  /\ open' = open \ {e}
  /\ db' = [db EXCEPT !.rows = @ \cup {e}, !.committed = @ \cup {e}]
  /\ dirty' = [dirty EXCEPT ![f] = TRUE]
  /\ UNCHANGED <<ord, held, faults, before, server, counter, pass, transport>>

Rollback(e) ==
  /\ e \in open
  /\ open' = open \ {e}
  /\ UNCHANGED <<ord, db, before, faults, server, counter, pass, hints, transport>>

-----------------------------------------------------------------------------
(* One pass of a forwarder: _run, _forward, _partition.                    *)

\* _run woken by a commit: the partitions written to are taken and forgotten.
Wake(f) ==
  /\ pc[f] = "idle"
  /\ dirty[f]
  /\ dirty' = [dirty EXCEPT ![f] = FALSE]
  /\ pc' = [pc EXCEPT ![f] = "lease"]
  /\ UNCHANGED <<db, todo, done, held, faults, business, server, counter, transport>>

\* Faulty variant: the poll looks at unnumbered rows only.
PendingUnnumbered(d) == Unnumbered(d) # {}

\* _pending: unnumbered rows, or numbered ones that are not published.
Pending(d) == d.rows \ d.pub # {}

\* _run at its poll: it too forgets what was written, then takes the
\* partition if it has rows to forward.
Poll(f) ==
  /\ pc[f] = "idle"
  /\ dirty' = [dirty EXCEPT ![f] = FALSE]
  /\ pc' = [pc EXCEPT ![f] = IF Pending(db) THEN "lease" ELSE "idle"]
  /\ UNCHANGED <<db, todo, done, held, faults, business, server, counter, transport>>

\* _lease: nothing is asked within the first half of a held lease; otherwise
\* the row is updated (so it waits for the row lock) unless another owner's
\* lease is live, which ends the pass.
TakeLease(f) ==
  /\ pc[f] = "lease"
  /\ \/ /\ held[f]
        /\ pc' = [pc EXCEPT ![f] = "lock"]
        /\ UNCHANGED <<db, held>>
     \/ /\ ~held[f]
        /\ lock = NoOne
        /\ db.lease \in {NoOne, f}
        /\ db' = [db EXCEPT !.lease = f]
        /\ held' = [held EXCEPT ![f] = TRUE]
        /\ pc' = [pc EXCEPT ![f] = "lock"]
     \/ /\ ~held[f]
        /\ lock = NoOne
        /\ db.lease \notin {NoOne, f}
        /\ pc' = [pc EXCEPT ![f] = "idle"]
        /\ UNCHANGED <<db, held>>
  /\ UNCHANGED <<todo, done, dirty, faults, business, server, counter, transport>>

\* number_in, first half: SELECT ... FOR UPDATE of the counter, then the
\* database epoch.
LockCounter(f) ==
  /\ pc[f] = "lock"
  /\ lock = NoOne
  /\ lock' = f
  /\ seen' = [seen EXCEPT ![f] =
                [epoch |-> db.epoch, last |-> db.last, now |-> epochNow]]
  /\ pc' = [pc EXCEPT ![f] = "number"]
  /\ UNCHANGED <<db, todo, done, faults, business, server, hints, transport>>

\* Faulty variant: numbering without ORDER BY ord.
RowNumberUnordered(d, n, rn) ==
  /\ n = Batch \/ DOMAIN rn = Unnumbered(d)
  /\ \A i \in 1..n : \E e \in DOMAIN rn : rn[e] = i
  /\ \A e1, e2 \in DOMAIN rn : e1 # e2 => rn[e1] # rn[e2]

\* The rows number_in picks: the unnumbered rows that are visible to a fresh
\* snapshot, in ord order, at most Batch; rn is row_number() over them.
RowNumber(d, n, rn) ==
  LET picked == DOMAIN rn
  IN  /\ n = Batch \/ picked = Unnumbered(d)
      /\ \A i \in 1..n : \E e \in picked : rn[e] = i
      /\ \A e1, e2 \in picked : e1 # e2 => rn[e1] # rn[e2]
      /\ \A e1, e2 \in picked : ord[e1] < ord[e2] => rn[e1] < rn[e2]
      /\ \A e1 \in picked, e2 \in Unnumbered(d) \ picked : ord[e1] < ord[e2]

\* Faulty variant: the counter goes on in a new epoch.
StartOfOldCounter(s) == s.last

\* A counter of another epoch starts again at 0.
StartOf(s) == IF s.epoch = s.now THEN s.last ELSE 0

\* Faulty variant: the fork is recorded after the counter was reset.
ForkOfReset(s) ==
  IF s.epoch # s.now /\ s.epoch # 0
    THEN {[old |-> s.epoch, fork |-> StartOf(s), new |-> s.now]}
    ELSE {}

\* The fork that is recorded when a used counter moves to a new epoch.
ForkOf(s) ==
  IF s.epoch # s.now /\ s.epoch # 0
    THEN {[old |-> s.epoch, fork |-> s.last, new |-> s.now]}
    ELSE {}

\* number_in's writes, under the lock, from what was read when it was taken.
NumberedWith(d, s, n, rn) ==
  [d EXCEPT
     !.assigned = @ \cup {[ev |-> e, epoch |-> s.now, seq |-> StartOf(s) + rn[e]]
                            : e \in DOMAIN rn},
     !.history = @ \cup ForkOf(s),
     !.epoch = s.now,
     !.last = StartOf(s) + n]

Unpublished(d) == {a \in d.assigned : a.ev \in d.rows \ d.pub}

\* _unpublished: the positions of numbered rows that are not published, the
\* first Batch of them.
FirstUnpublished(d, q) ==
  /\ q \subseteq Unpublished(d)
  /\ q = Unpublished(d) \/ Cardinality(q) = Batch
  /\ \A a \in q, b \in Unpublished(d) \ q : Before(a, b)

\* number_in, second half, and _unpublished in the same transaction, with its
\* commit. A pass with no rows ends here.
NumberAndRead(f) ==
  /\ pc[f] = "number"
  /\ lock' = NoOne
  /\ seen' = [seen EXCEPT ![f] = NotSeen]
  /\ \E picked \in SUBSET Unnumbered(db), n \in 0..Batch :
       \E rn \in [picked -> 1..n] :
         /\ RowNumber(db, n, rn)
         /\ db' = NumberedWith(db, seen[f], n, rn)
         /\ assigned' = assigned \cup db'.assigned
  /\ \E q \in SUBSET Unpublished(db') :
       /\ FirstUnpublished(db', q)
       /\ todo' = [todo EXCEPT ![f] = q]
       /\ pc' = [pc EXCEPT ![f] = IF q = {} THEN "idle" ELSE "publish"]
  /\ UNCHANGED <<done, sent, faults, business, server, hints>>

\* transport.publish (pgqueue.py): a repeated message id is a no-op. The
\* message id is the event id.
Accepted(m) == IF m.ev \in SentEvents THEN sent ELSE sent \cup {m}

\* Faulty variant: the rows are published as they are ready.
PublishAny(f) ==
  /\ pc[f] = "publish"
  /\ \E m \in todo[f] :
       /\ sent' = Accepted(m)
       /\ todo' = [todo EXCEPT ![f] = @ \ {m}]
       /\ done' = [done EXCEPT ![f] = @ \cup {m}]
       /\ pc' = [pc EXCEPT ![f] = IF todo[f] = {m} THEN "mark" ELSE "publish"]
  /\ UNCHANGED <<db, assigned, faults, business, server, counter, hints>>

\* The rows are published one after another in position order.
Publish(f) ==
  /\ pc[f] = "publish"
  /\ \E m \in todo[f] :
       /\ \A q \in todo[f] \ {m} : Before(m, q)
       /\ sent' = Accepted(m)
       /\ todo' = [todo EXCEPT ![f] = @ \ {m}]
       /\ done' = [done EXCEPT ![f] = @ \cup {m}]
       /\ pc' = [pc EXCEPT ![f] = IF todo[f] = {m} THEN "mark" ELSE "publish"]
  /\ UNCHANGED <<db, assigned, faults, business, server, counter, hints>>

\* The UPDATE of published_at names the rows by their ord.
MarkedBy(f) == {e \in db.rows : \E m \in done[f] : ord[m.ev] = ord[e]}

\* _partition's finally: the published rows are marked in a transaction of
\* their own; a pass that published a full batch is followed by another.
MarkPublished(f) ==
  /\ pc[f] = "mark"
  /\ db' = [db EXCEPT !.pub = @ \cup MarkedBy(f)]
  /\ pc' = [pc EXCEPT ![f] = IF Cardinality(done[f]) = Batch THEN "lease" ELSE "idle"]
  /\ done' = [done EXCEPT ![f] = {}]
  /\ UNCHANGED <<todo, faults, business, server, counter, hints, transport>>

-----------------------------------------------------------------------------
(* Failures, time and upkeep.                                              *)

\* A call of the pass raises. What was published before a failed publish is
\* still marked; a failed mark leaves the rows to be published again. The
\* transaction that holds the lock is rolled back.
Fail(f) ==
  /\ faults < MaxFaults
  /\ faults' = faults + 1
  /\ pc[f] # "idle"
  /\ pc[f] = "lease" => ~held[f]
  /\ lock' = IF lock = f THEN NoOne ELSE lock
  /\ seen' = [seen EXCEPT ![f] = NotSeen]
  /\ todo' = [todo EXCEPT ![f] = {}]
  /\ IF pc[f] = "publish" /\ done[f] # {}
       THEN pc' = [pc EXCEPT ![f] = "mark"] /\ UNCHANGED done
       ELSE pc' = [pc EXCEPT ![f] = "idle"] /\ done' = [done EXCEPT ![f] = {}]
  /\ UNCHANGED <<db, business, server, hints, transport>>

\* A publish raises though the transport has the message: its answer was lost,
\* and the row is not among those marked.
PublishAnswerLost(f) ==
  /\ faults < MaxFaults
  /\ faults' = faults + 1
  /\ pc[f] = "publish"
  /\ \E m \in todo[f] :
       /\ \A q \in todo[f] \ {m} : Before(m, q)
       /\ sent' = Accepted(m)
  /\ todo' = [todo EXCEPT ![f] = {}]
  /\ pc' = [pc EXCEPT ![f] = IF done[f] = {} THEN "idle" ELSE "mark"]
  /\ UNCHANGED <<db, done, assigned, business, server, counter, hints>>

\* The replica's process ends and starts again: what it had in memory is
\* gone, and it comes back under a new lease owner id.
Crash(f) ==
  /\ faults < MaxFaults
  /\ faults' = faults + 1
  /\ lock' = IF lock = f THEN NoOne ELSE lock
  /\ seen' = [seen EXCEPT ![f] = NotSeen]
  /\ pc' = [pc EXCEPT ![f] = "idle"]
  /\ todo' = [todo EXCEPT ![f] = {}]
  /\ done' = [done EXCEPT ![f] = {}]
  /\ held' = [held EXCEPT ![f] = FALSE]
  /\ dirty' = [dirty EXCEPT ![f] = FALSE]
  /\ db' = [db EXCEPT !.lease = IF @ = f THEN Gone ELSE @]
  /\ saved' = [saved EXCEPT !.lease = IF @ = f THEN Gone ELSE @]
  /\ UNCHANGED <<epochNow, business, transport>>

\* f's lease runs out, on its own clock and in the database. The owner asks
\* again from half of it on and is granted it again: that half is no state of
\* its own here.
LeaseRunsOut(f) ==
  /\ held[f]
  /\ held' = [held EXCEPT ![f] = FALSE]
  /\ db' = [db EXCEPT !.lease = IF @ = f THEN NoOne ELSE @]
  /\ UNCHANGED <<dirty, faults, business, server, counter, pass, transport>>

\* A lease in the database that no running forwarder believes to hold (its
\* owner crashed, or a recovery brought it back) runs out.
LeaseExpires ==
  /\ db.lease # NoOne
  /\ \A f \in Forwarder : db.lease = f => ~held[f]
  /\ db' = [db EXCEPT !.lease = NoOne]
  /\ UNCHANGED <<faults, business, server, counter, pass, hints, transport>>

\* Faulty variant: the purge does not ask whether the row is published.
PurgeAny(e) ==
  /\ e \in db.rows
  /\ db' = [db EXCEPT !.rows = @ \ {e}, !.pub = @ \ {e}]
  /\ UNCHANGED <<faults, business, server, counter, pass, hints, transport>>

\* purge: a published row past the retention is deleted.
Purge(e) ==
  /\ e \in db.rows \cap db.pub
  /\ db' = [db EXCEPT !.rows = @ \ {e}, !.pub = @ \ {e}]
  /\ UNCHANGED <<faults, business, server, counter, pass, hints, transport>>

\* External: the standby or the backup catches up with the primary.
Save ==
  /\ epochNow <= MaxRecoveries
  /\ saved # db
  /\ saved' = db
  /\ UNCHANGED <<db, epochNow, faults, business, counter, pass, hints, transport>>

\* External: the database comes back as the saved copy, in a new epoch. Open
\* transactions end; forwarders that are publishing go on with their rows.
\* The identity sequence goes on from the lost transactions' values or, when
\* its own change was lost with them, hands those values out again. After the
\* last recovery of the bound the copy is of no more use.
Recover ==
  /\ epochNow <= MaxRecoveries
  /\ epochNow' = epochNow + 1
  /\ \E n \in {db.nextOrd} \cup (IF OrdReuse THEN {saved.nextOrd} ELSE {}) :
       db' = [saved EXCEPT !.nextOrd = n]
  /\ open' = {}
  /\ lock' = NoOne
  /\ seen' = [f \in Forwarder |-> NotSeen]
  /\ pc' = [f \in Forwarder |-> IF pc[f] = "number" THEN "idle" ELSE pc[f]]
  /\ saved' = IF epochNow = MaxRecoveries THEN EmptyDatabase ELSE saved
  /\ UNCHANGED <<ord, todo, done, faults, before, hints, transport>>

-----------------------------------------------------------------------------
Business == \E e \in Event : Emit(e) \/ Rollback(e) \/ \E f \in Forwarder : Commit(e, f)

Pass(f) ==
  \/ Wake(f)
  \/ Poll(f)
  \/ TakeLease(f)
  \/ LockCounter(f)
  \/ NumberAndRead(f)
  \/ Publish(f)
  \/ MarkPublished(f)

Failure(f) == Fail(f) \/ PublishAnswerLost(f) \/ Crash(f)

Upkeep ==
  \/ LeaseExpires
  \/ \E e \in Event : Purge(e)
  \/ Save
  \/ Recover

Next ==
  \/ Business
  \/ Upkeep
  \/ \E f \in Forwarder : Pass(f) \/ LeaseRunsOut(f) \/ Failure(f)

Spec == Init /\ [][Next]_vars

\* Each replica's forwarder task runs on (its poll included), and leases run
\* out with time; nothing is assumed of business transactions or recoveries.
FairSpec ==
  /\ Spec
  /\ \A f \in Forwarder : WF_vars(Pass(f))
  /\ WF_vars(LeaseExpires)

-----------------------------------------------------------------------------
\* A position (epoch, seq) names one event for ever: also when a recovery lost
\* the numbering transaction after its messages were published, and the lost
\* numbers are given out again in the new epoch.
PositionsUnique ==
  \A a, b \in assigned : a.epoch = b.epoch /\ a.seq = b.seq => a = b

\* be_epoch_history tells the surviving positions of an epoch from the lost
\* ones: up to fork_seq every position of the old epoch belongs to this
\* branch of the database, beyond it none does.
ForkSound ==
  \A h \in db.history, a \in assigned :
    a.epoch = h.old => (a.seq <= h.fork <=> a \in db.assigned)

\* The transport never has a message without the events of every smaller
\* position of its epoch, however many forwarders with lapsed leases publish
\* at the same time and wherever they fail.
NoOvertaking ==
  \A m \in sent, a \in assigned :
    a.epoch = m.epoch /\ a.seq < m.seq => a.ev \in SentEvents

\* An event whose transaction is part of the database is in the transport or
\* is still an unpublished row: a row is marked, and then purged, only after
\* its message was accepted (purge: "unpublished rows are never deleted").
NoEventLost ==
  \A e \in db.committed : e \in db.rows \ db.pub \/ e \in SentEvents

\* Numbering keeps cause before effect: an event that was committed when
\* another was inserted has the smaller position wherever both are numbered.
CommitOrder ==
  \A a, b \in db.assigned : a.ev \in before[b.ev] => Before(a, b)

\* The numbering implements the abstract log: numbers are given without gaps
\* and never twice in an epoch, over all branches of the database.
Log == INSTANCE PositionLog WITH log <- assigned, epoch <- epochNow
ImplementsPositionLog == Log!Spec

\* A committed event reaches the transport unless a recovery loses its commit:
\* a wake lost in a crash, a failed publish or a failed mark is made up for by
\* the poll of any replica.
EventuallySent ==
  \A e \in Event : (e \in db.rows) ~> (e \in SentEvents \/ e \notin db.committed)
-----------------------------------------------------------------------------
(* The inductive invariant behind PositionsUnique and ForkSound.           *)

\* A copy of the database (the primary or the saved one) is a branch: of each
\* epoch it has a prefix of the positions ever given, of the counter's epoch
\* exactly those up to the counter, of an epoch it left those up to the fork.
Branch(d) ==
  /\ d.assigned \subseteq assigned
  /\ d.epoch <= epochNow
  /\ \A a \in d.assigned : a.epoch <= d.epoch
  /\ \A a \in assigned : a.epoch = d.epoch => (a.seq <= d.last <=> a \in d.assigned)
  /\ \A r \in d.assigned, a \in assigned :
       a.epoch = r.epoch /\ a.seq < r.seq => a \in d.assigned
  /\ \A h \in d.history :
       /\ h.old < d.epoch
       /\ \A a \in assigned : a.epoch = h.old => (a.seq <= h.fork <=> a \in d.assigned)

\* The numbering transaction's reads stay true while it holds the lock.
LockInv ==
  \A f \in Forwarder : pc[f] = "number" =>
    /\ lock = f
    /\ seen[f] = [epoch |-> db.epoch, last |-> db.last, now |-> epochNow]

\* What was numbered in the current epoch is all in the primary, and a saved
\* copy of the current epoch is not ahead of it.
PositionInv ==
  /\ PositionsUnique
  /\ epochNow >= 1
  /\ \A a \in assigned : a.epoch >= 1 /\ a.epoch <= epochNow /\ a.seq >= 1
  /\ \A a \in assigned : a.epoch = epochNow => a \in db.assigned
  /\ Branch(db)
  /\ Branch(saved)
  /\ saved.epoch = epochNow => db.epoch = epochNow /\ saved.last <= db.last

\* A counter that is not 0 stands at a position of its epoch.
CounterInv ==
  \A d \in {db, saved} :
    d.last = 0 \/ \E a \in d.assigned : a.epoch = d.epoch /\ a.seq = d.last

\* Everything an event's transaction could see is in the same branch of the
\* database, with a smaller identity value.
Caused(d, e) == \A c \in before[e] : c \in d.committed /\ ord[c] # 0 /\ ord[c] < ord[e]

\* Identity values follow the commits of a branch and positions follow the
\* identity values: no row waits for its number while one it caused has it.
CausalBranch(d) ==
  /\ d.rows \subseteq d.committed
  /\ \A e \in d.committed : ord[e] # 0 /\ ord[e] < d.nextOrd /\ Caused(d, e)
  /\ \A a \in d.assigned : a.ev \in d.committed
  /\ \A b \in d.assigned : before[b.ev] \cap Unnumbered(d) = {}
  /\ \A a, b \in d.assigned : a.ev \in before[b.ev] => Before(a, b)

CausalInv ==
  /\ \A e \in open : ord[e] # 0 /\ ord[e] < db.nextOrd /\ e \notin db.committed /\ Caused(db, e)
  /\ CausalBranch(db)
  /\ CausalBranch(saved)
  /\ saved.nextOrd <= db.nextOrd

\* Without reuse, an identity value names one row for ever.
OrdInv ==
  /\ \A e \in Event : ord[e] < db.nextOrd
  /\ \A e1, e2 \in Event : ord[e1] = ord[e2] /\ ord[e1] # 0 => e1 = e2
  /\ \A e \in open : ord[e] # 0
  /\ \A d \in {db, saved} : \A e \in d.committed : ord[e] # 0
  /\ \A d \in {db, saved} : d.pub \subseteq d.rows /\ d.rows \subseteq d.committed
  /\ \A e \in open : e \notin db.committed

\* What is lost to neither copy of the database, nor to a forwarder's list:
\* an event that is no unpublished row was sent; below a row that a forwarder
\* is about to publish everything is sent or in its list.
SendInv ==
  /\ sent \subseteq assigned
  /\ \A d \in {db, saved} : \A e \in d.committed : e \in d.rows \ d.pub \/ e \in SentEvents
  /\ \A d \in {db, saved} : \A a \in d.assigned : a.ev \in d.committed
  /\ \A f \in Forwarder :
       /\ \A m \in done[f] : m.ev \in SentEvents
       /\ todo[f] \subseteq assigned
       /\ \A m \in todo[f], a \in assigned :
            a.epoch = m.epoch /\ a.seq < m.seq => a \in todo[f] \/ a.ev \in SentEvents
  /\ NoOvertaking

=============================================================================
