------------------------------ MODULE PgQueue ------------------------------
(***************************************************************************)
(* The PostgreSQL queue transport (besdk/events/pgqueue.py), for one       *)
(* durable subscription: concurrent inserts of messages, the read position *)
(* that the subscription's workers move over them, and the deliveries they *)
(* claim, handle and settle under leases. A worker is one reader task of   *)
(* any instance of the subscription; a call to the database that commits   *)
(* is one step.                                                            *)
(***************************************************************************)
EXTENDS Naturals, FiniteSets

CONSTANTS
  Message,       \* message ids
  Matching,      \* the messages whose subject the subscription matches
  Worker,        \* the reader tasks of all its instances
  StoredMax,     \* max_deliver as stored with the durable
  AdvanceBatch,  \* ADVANCE_BATCH
  Ordered,       \* SubscriptionSpec.ordered
  Concurrent,    \* may inserts overlap (several publishers)?
  Retention,     \* may messages grow older than the retention?
  FaultKinds,    \* which calls fail, see Faults
  MaxFaults,     \* bound: how many do
  NoOne, NoMessage

\* An insert that ends without commit, a database call of a worker that
\* raises, a worker that is cancelled or dies.
Faults == {"insert", "call", "crash"}

ASSUME QueueAssumption ==
  /\ Matching \subseteq Message
  /\ StoredMax \in Nat \ {0}
  /\ AdvanceBatch \in Nat \ {0}
  /\ Ordered \in BOOLEAN
  /\ Concurrent \in BOOLEAN
  /\ Retention \in BOOLEAN
  /\ FaultKinds \subseteq Faults
  /\ MaxFaults \in Nat
  /\ NoOne \notin Worker
  /\ NoMessage \notin Message

VARIABLES
  stage,     \* stage[m]: of be_bus_message's row
  seq, xid,  \* its identity value and transaction id, 0 while not taken
  nextSeq, nextXid,
  pos,       \* pos_xid, pos_seq of be_bus_subscription
  subLock,   \* who holds the lock of the subscription's row
  batch,     \* batch[w]: the rows w's advance has read
  queued,    \* history: the messages a delivery was inserted for
  row,       \* row[m]: state of be_bus_delivery's row, see Delivery
  attempts,  \* its attempts; kept when the row is deleted
  pc,        \* where each worker is in _work
  job,       \* the message it claimed, with the attempt's number
  out,       \* the outcome its handler returned
  faults

inserts == <<stage, seq, xid, nextSeq, nextXid>>
reader == <<pos, subLock, batch, queued>>
delivery == <<row, attempts>>
worker == <<pc, job, out>>
queueVars == <<inserts, reader, delivery, worker, faults>>

\* not_before and lease_until against the clock: waiting for the backoff, due,
\* in flight under a live lease, in flight past its lease.
Delivery == {"none", "backoff", "ready", "leased", "expired"}
InFlight == {m \in Message : row[m] \in {"leased", "expired"}}

\* attempts grows with every claim of a row and a row is inserted once, so the
\* number of an attempt stands for its lease_token.
Job == [msg: Message \cup {NoMessage}, attempt: Nat]
NoJob == [msg |-> NoMessage, attempt |-> 0]

QueueTypeOK ==
  /\ stage \in [Message -> {"new", "inserting", "committed", "purged"}]
  /\ seq \in [Message -> Nat]
  /\ xid \in [Message -> Nat]
  /\ nextSeq \in Nat
  /\ nextXid \in Nat
  /\ pos \in [xid: Nat, seq: Nat]
  /\ subLock \in Worker \cup {NoOne}
  /\ batch \in [Worker -> SUBSET Message]
  /\ queued \in SUBSET Matching
  /\ row \in [Message -> Delivery]
  /\ attempts \in [Message -> Nat]
  /\ pc \in [Worker -> {"claim", "advance", "write", "handling", "settle"}]
  /\ job \in [Worker -> Job]
  /\ out \in [Worker -> {"none", "ack", "nak", "term"}]
  /\ faults \in Nat

QueueInit ==
  /\ stage = [m \in Message |-> "new"]
  /\ seq = [m \in Message |-> 0]
  /\ xid = [m \in Message |-> 0]
  /\ nextSeq = 1
  /\ nextXid = 1
  /\ pos = [xid |-> 0, seq |-> 0]
  /\ subLock = NoOne
  /\ batch = [w \in Worker |-> {}]
  /\ queued = {}
  /\ row = [m \in Message |-> "none"]
  /\ attempts = [m \in Message |-> 0]
  /\ pc = [w \in Worker |-> "claim"]
  /\ job = [w \in Worker |-> NoJob]
  /\ out = [w \in Worker |-> "none"]
  /\ faults = 0

Fault(kind) ==
  /\ kind \in FaultKinds
  /\ faults < MaxFaults
  /\ faults' = faults + 1

-----------------------------------------------------------------------------
(* publish: the INSERT takes its column defaults in column order, seq      *)
(* first and then xid; its commit is the acknowledgement. A repeated       *)
(* message id is a no-op.                                                  *)

TakeSeq(m) ==
  /\ stage[m] = "new"
  /\ Concurrent \/ \A q \in Message : stage[q] # "inserting"
  /\ stage' = [stage EXCEPT ![m] = "inserting"]
  /\ seq' = [seq EXCEPT ![m] = nextSeq]
  /\ nextSeq' = nextSeq + 1
  /\ UNCHANGED <<xid, nextXid, faults, reader, delivery, worker>>

TakeXid(m) ==
  /\ stage[m] = "inserting"
  /\ xid[m] = 0
  /\ xid' = [xid EXCEPT ![m] = nextXid]
  /\ nextXid' = nextXid + 1
  /\ UNCHANGED <<stage, seq, nextSeq, faults, reader, delivery, worker>>

CommitInsert(m) ==
  /\ stage[m] = "inserting"
  /\ xid[m] # 0
  /\ stage' = [stage EXCEPT ![m] = "committed"]
  /\ UNCHANGED <<seq, xid, nextSeq, nextXid, faults, reader, delivery, worker>>

\* The insert fails or its connection is lost: the publisher may try again.
AbortInsert(m) ==
  /\ Fault("insert")
  /\ stage[m] = "inserting"
  /\ stage' = [stage EXCEPT ![m] = "new"]
  /\ seq' = [seq EXCEPT ![m] = 0]
  /\ xid' = [xid EXCEPT ![m] = 0]
  /\ UNCHANGED <<nextSeq, nextXid, reader, delivery, worker>>

-----------------------------------------------------------------------------
(* _claim and _claim_ordered.                                              *)

\* Ready past its backoff, or past its lease with deliveries left.
Due(m) ==
  \/ row[m] = "ready"
  \/ row[m] = "expired" /\ attempts[m] < StoredMax

\* The rows FOR UPDATE SKIP LOCKED passes over: another worker's settle has
\* them.
MayBeLocked(w, m) == \E v \in Worker \ {w} : pc[v] = "settle" /\ job[v].msg = m

\* The first due delivery in seq order that is not locked.
Claimable(w, m) ==
  /\ Due(m)
  /\ \A q \in Message : Due(q) /\ seq[q] < seq[m] => MayBeLocked(w, q)

\* Faulty variant: a first delivery that waits does not hold the ones after
\* while none is in flight.
OrderedClaimableIdle(m) ==
  /\ Due(m)
  /\ \A q \in Message \ {m} : Due(q) => seq[m] < seq[q]
  /\ InFlight \subseteq {m}

\* The earliest delivery of all, if it is due.
OrderedClaimable(m) ==
  /\ Due(m)
  /\ \A q \in Message \ {m} : row[q] # "none" => seq[m] < seq[q]

\* _claim: the row is leased and counted. A delivery whose message the purge
\* removed is deleted instead, and the claim returns nothing.
Claim(w) ==
  /\ pc[w] = "claim"
  /\ Ordered => subLock = NoOne
  /\ \E m \in Message :
       /\ IF Ordered THEN OrderedClaimable(m) ELSE Claimable(w, m)
       /\ attempts' = [attempts EXCEPT ![m] = @ + 1]
       /\ IF stage[m] = "purged"
            THEN /\ row' = [row EXCEPT ![m] = "none"]
                 /\ pc' = [pc EXCEPT ![w] = "advance"]
                 /\ UNCHANGED job
            ELSE /\ row' = [row EXCEPT ![m] = "leased"]
                 /\ pc' = [pc EXCEPT ![w] = "handling"]
                 /\ job' = [job EXCEPT ![w] = [msg |-> m, attempt |-> attempts[m] + 1]]
  /\ UNCHANGED <<out, faults, inserts, reader>>

\* Nothing is due, or all that is due is locked: the worker moves the read
\* position.
ClaimNone(w) ==
  /\ pc[w] = "claim"
  /\ Ordered => subLock = NoOne
  /\ \A m \in Message :
       IF Ordered THEN ~OrderedClaimable(m) ELSE Due(m) => MayBeLocked(w, m)
  /\ pc' = [pc EXCEPT ![w] = "advance"]
  /\ UNCHANGED <<job, out, faults, inserts, reader, delivery>>

-----------------------------------------------------------------------------
(* _advance, one transaction under the lock of the subscription's row.     *)

After(m, p) == xid[m] > p.xid \/ (xid[m] = p.xid /\ seq[m] > p.seq)

\* Faulty variant: everything committed is read.
VisibleCommitted(m) == stage[m] = "committed" /\ After(m, pos)

\* Committed, beyond the position and below pg_snapshot_xmin: every insert
\* still running has a larger xid, or none yet.
Visible(m) ==
  /\ stage[m] = "committed"
  /\ After(m, pos)
  /\ \A q \in Message : stage[q] = "inserting" /\ xid[q] # 0 => xid[m] < xid[q]

\* ORDER BY xid, seq LIMIT AdvanceBatch.
FirstVisible(b) ==
  /\ \A m \in b : Visible(m)
  /\ \/ Cardinality(b) = AdvanceBatch
     \/ Cardinality(b) < AdvanceBatch /\ \A m \in Message \ b : ~Visible(m)
  /\ \A m \in b, q \in Message \ b :
       Visible(q) => After(q, [xid |-> xid[m], seq |-> seq[m]])

\* Faulty variant: the subscription's row is read without FOR UPDATE.
AdvanceReadUnlocked(w) ==
  /\ pc[w] = "advance"
  /\ \E b \in SUBSET Message :
       /\ FirstVisible(b)
       /\ b # {}
       /\ batch' = [batch EXCEPT ![w] = b]
       /\ pc' = [pc EXCEPT ![w] = "write"]
  /\ UNCHANGED <<pos, subLock, queued, job, out, faults, inserts, delivery>>

AdvanceRead(w) ==
  /\ pc[w] = "advance"
  /\ subLock = NoOne
  /\ \E b \in SUBSET Message :
       /\ FirstVisible(b)
       /\ b # {}
       /\ batch' = [batch EXCEPT ![w] = b]
       /\ subLock' = w
       /\ pc' = [pc EXCEPT ![w] = "write"]
  /\ UNCHANGED <<pos, queued, job, out, faults, inserts, delivery>>

\* Nothing to read: an idle round, which waits for a wake or the poll.
AdvanceIdle(w) ==
  /\ pc[w] = "advance"
  /\ subLock = NoOne
  /\ \A m \in Message : ~Visible(m)
  /\ pc' = [pc EXCEPT ![w] = "claim"]
  /\ UNCHANGED <<job, out, faults, inserts, reader, delivery>>

\* The messages whose subject matches are queued (ON CONFLICT DO NOTHING), the
\* others passed over; the position becomes the last row's.
AdvanceWrite(w) ==
  /\ pc[w] = "write"
  /\ LET new == batch[w] \cap Matching
     IN  /\ row' = [m \in Message |->
                     IF m \in new /\ row[m] = "none" THEN "ready" ELSE row[m]]
         /\ queued' = queued \cup new
  /\ \E m \in batch[w] :
       /\ \A q \in batch[w] \ {m} : After(m, [xid |-> xid[q], seq |-> seq[q]])
       /\ pos' = [xid |-> xid[m], seq |-> seq[m]]
  /\ batch' = [batch EXCEPT ![w] = {}]
  /\ subLock' = NoOne
  /\ pc' = [pc EXCEPT ![w] = "claim"]
  /\ UNCHANGED <<attempts, job, out, faults, inserts>>

-----------------------------------------------------------------------------
(* Handling and settling.                                                  *)

\* Faulty variant: the lease_token is not compared.
HoldsLeaseAny(w) == job[w].msg \in InFlight

\* WHERE lease_token = ... AND in_flight.
HoldsLease(w) ==
  /\ job[w].msg \in InFlight
  /\ attempts[job[w].msg] = job[w].attempt

\* d.in_progress extends the lease, also one that has run out meanwhile.
InProgress(w) ==
  /\ pc[w] = "handling"
  /\ HoldsLease(w)
  /\ row' = [row EXCEPT ![job[w].msg] = "leased"]
  /\ UNCHANGED <<attempts, faults, inserts, reader, worker>>

\* The handler returns, or raises, which is a nak.
Return(w, o) ==
  /\ pc[w] = "handling"
  /\ pc' = [pc EXCEPT ![w] = "settle"]
  /\ out' = [out EXCEPT ![w] = o]
  /\ UNCHANGED job

\* Faulty variant: the last attempt's nak is queued again.
EndsDeliveryPastLimit(w) == out[w] \in {"ack", "term"} \/ job[w].attempt > StoredMax

\* An acknowledgement, a term or the last attempt's nak deletes the row.
EndsDelivery(w) == out[w] \in {"ack", "term"} \/ job[w].attempt >= StoredMax

Settle(w) ==
  /\ pc[w] = "settle"
  /\ row' = IF HoldsLease(w)
              THEN [row EXCEPT ![job[w].msg] = IF EndsDelivery(w) THEN "none" ELSE "backoff"]
              ELSE row
  /\ pc' = [pc EXCEPT ![w] = "claim"]
  /\ job' = [job EXCEPT ![w] = NoJob]
  /\ out' = [out EXCEPT ![w] = "none"]
  /\ UNCHANGED <<attempts, faults, inserts, reader>>

Exhausted(m) == row[m] = "expired" /\ attempts[m] >= StoredMax

\* Faulty variants: every lapsed delivery goes; exhausted ones never do.
GiveUpLapsed(w) ==
  /\ pc[w] = "claim"
  /\ \E m \in Message : row[m] = "expired"
  /\ row' = [m \in Message |-> IF row[m] = "expired" THEN "none" ELSE row[m]]
  /\ UNCHANGED <<attempts, faults, inserts, reader, worker>>
GiveUpNever(w) ==
  /\ pc[w] = "claim"
  /\ \E m \in Message : Exhausted(m) /\ attempts[m] > StoredMax
  /\ UNCHANGED queueVars

\* _give_up, before a claim: exhausted deliveries past their lease go.
GiveUp(w) ==
  /\ pc[w] = "claim"
  /\ \E m \in Message : Exhausted(m)
  /\ row' = [m \in Message |-> IF Exhausted(m) THEN "none" ELSE row[m]]
  /\ UNCHANGED <<attempts, faults, inserts, reader, worker>>

-----------------------------------------------------------------------------
(* Failures, time and the purge.                                           *)

\* The worker's transaction is rolled back, what it held in memory is gone.
Drop(w) ==
  /\ subLock' = IF subLock = w THEN NoOne ELSE subLock
  /\ batch' = [batch EXCEPT ![w] = {}]
  /\ pc' = [pc EXCEPT ![w] = "claim"]
  /\ job' = [job EXCEPT ![w] = NoJob]
  /\ out' = [out EXCEPT ![w] = "none"]
  /\ UNCHANGED <<pos, queued>>

\* A failed advance is rolled back; a failed settle leaves the lease to run
\* out. Both are reported and the worker goes on.
CallFails(w) ==
  /\ Fault("call")
  /\ pc[w] \in {"write", "settle"}
  /\ Drop(w)
  /\ UNCHANGED <<inserts, delivery>>

\* The deletion of a claimed delivery whose message is gone fails: without a
\* transaction around it, the claim stands.
DropGoneFails(w) ==
  /\ Fault("call")
  /\ pc[w] = "claim"
  /\ ~Ordered
  /\ \E m \in Message :
       /\ Claimable(w, m)
       /\ stage[m] = "purged"
       /\ attempts' = [attempts EXCEPT ![m] = @ + 1]
       /\ row' = [row EXCEPT ![m] = "leased"]
  /\ UNCHANGED <<inserts, reader, worker>>

\* The worker is cancelled (_Workers.stop) or its process dies, and it is
\* started again.
Crash(w) ==
  /\ Fault("crash")
  /\ Drop(w)
  /\ UNCHANGED <<inserts, delivery>>

LeaseRunsOut(m) ==
  /\ row[m] = "leased"
  /\ row' = [row EXCEPT ![m] = "expired"]
  /\ UNCHANGED <<attempts, faults, inserts, reader, worker>>

BackoffEnds(m) ==
  /\ row[m] = "backoff"
  /\ row' = [row EXCEPT ![m] = "ready"]
  /\ UNCHANGED <<attempts, faults, inserts, reader, worker>>

\* purge: an old message goes with its deliveries, read or not.
Purge(m) ==
  /\ Retention
  /\ stage[m] = "committed"
  /\ stage' = [stage EXCEPT ![m] = "purged"]
  /\ row' = [row EXCEPT ![m] = "none"]
  /\ UNCHANGED <<seq, xid, nextSeq, nextXid, attempts, faults, reader, worker>>

-----------------------------------------------------------------------------
InsertStep(m) == TakeSeq(m) \/ TakeXid(m) \/ CommitInsert(m) \/ AbortInsert(m)

TimeStep(m) == LeaseRunsOut(m) \/ BackoffEnds(m) \/ Purge(m)

\* The worker's own steps but the handler's and its crash.
WorkStep(w) ==
  \/ Claim(w)
  \/ ClaimNone(w)
  \/ AdvanceRead(w)
  \/ AdvanceIdle(w)
  \/ AdvanceWrite(w)
  \/ Settle(w)
  \/ GiveUp(w)
  \/ CallFails(w)
  \/ DropGoneFails(w)

\* Any handler: what it returns is its own affair.
HandlerStep(w) ==
  \/ InProgress(w)
  \/ \E o \in {"ack", "nak", "term"} :
       Return(w, o) /\ UNCHANGED <<faults, inserts, reader, delivery>>

QueueNext ==
  \/ \E m \in Message : InsertStep(m) \/ TimeStep(m)
  \/ \E w \in Worker : WorkStep(w) \/ HandlerStep(w) \/ Crash(w)

QueueSpec == QueueInit /\ [][QueueNext]_queueVars

-----------------------------------------------------------------------------
\* The reader never skips a message that commits later: every committed,
\* matching message at or below the read position was queued, in whatever
\* order concurrent inserts took their seq and xid and committed.
NoSkip ==
  \A m \in Matching :
    stage[m] = "committed" /\ ~After(m, pos) => m \in queued

\* A delivery that ended (acknowledged, refused for good, given up or purged)
\* is never queued again, whatever the workers read at the same time.
EndedForGood ==
  [][\A m \in Message : m \in queued /\ row[m] = "none" => row'[m] = "none"]_queueVars

\* A delivery under a live lease is taken from its worker by nothing but the
\* lease's end and the purge: the late outcome of an earlier attempt, whose
\* lease ran out, changes nothing.
LateOutcomeIsIgnored ==
  [][\A m \in Message :
       row[m] = "leased" /\ row'[m] # "leased" =>
         \/ row'[m] = "expired"
         \/ stage'[m] = "purged"
         \/ \E w \in Worker : job[w] = [msg |-> m, attempt |-> attempts[m]] /\ job'[w] = NoJob]_queueVars

\* An ordered subscription has one message in flight across its instances
\* ("only while none of it is in flight", _claim_ordered).
OneInFlight == Ordered => Cardinality(InFlight) <= 1

-----------------------------------------------------------------------------
(* The inductive invariant behind NoSkip.                                  *)

\* A transaction id is given once, and none that is still to commit is at or
\* below the read position.
XidInv ==
  /\ \A m \in Message : xid[m] < nextXid
  /\ \A m, q \in Message : xid[m] = xid[q] /\ xid[m] # 0 => m = q
  /\ \A m \in Message : stage[m] = "new" => xid[m] = 0
  /\ \A m \in Message : stage[m] \in {"committed", "purged"} => xid[m] # 0
  /\ pos.xid < nextXid
  /\ \A q \in Message : stage[q] = "inserting" /\ xid[q] # 0 => pos.xid < xid[q]

\* What an advance has read under its lock stays everything up to the last row
\* of the batch.
BatchInv ==
  /\ \A w \in Worker : batch[w] # {} => pc[w] = "write"
  /\ \A w \in Worker : pc[w] = "write" => subLock = w
  /\ \A w \in Worker : \A m \in batch[w] :
       /\ stage[m] \in {"committed", "purged"}
       /\ \A q \in Message : stage[q] = "inserting" /\ xid[q] # 0 => xid[m] < xid[q]
       /\ \A q \in Message :
            stage[q] = "committed" /\ After(q, pos) /\ xid[q] <= xid[m] => q \in batch[w]

\* The inductive invariant behind EndedForGood: what was queued is at or below
\* the read position, what an advance has read is beyond it.
QueuedInv ==
  /\ \A m \in queued : stage[m] \in {"committed", "purged"} /\ ~After(m, pos)
  /\ \A w \in Worker : \A m \in batch[w] : After(m, pos)
  /\ \A m \in Message : row[m] # "none" => m \in queued
=============================================================================
