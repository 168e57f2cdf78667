--------------------------- MODULE ConsumerProofs ---------------------------
(***************************************************************************)
(* Proofs about the PostgreSQL queue and the consumer on it, for any       *)
(* number of events, workers, attempts and faults. Of the queue, with any  *)
(* handler: type correctness, that the reader skips nothing, that a        *)
(* delivery that ended stays so, and that leases protect. Of the consumer, *)
(* which implements the queue: that an event takes effect once, is not     *)
(* dropped early, is kept when its handlers fail, and takes effect in      *)
(* order in an ordered subscription.                                       *)
(***************************************************************************)
EXTENDS Consumer, TLAPS

\* An INSERT's steps keep the types.
LEMMA InsertTypes ==
  ASSUME QueueTypeOK, NEW m \in Message, InsertStep(m)
  PROVE  QueueTypeOK'
<1> USE QueueAssumption DEF QueueTypeOK, reader, delivery, worker
<1>1. CASE TakeSeq(m)
  BY <1>1 DEF TakeSeq
<1>2. CASE TakeXid(m)
  BY <1>2 DEF TakeXid
<1>3. CASE CommitInsert(m)
  BY <1>3 DEF CommitInsert
<1>4. CASE AbortInsert(m)
  BY <1>4 DEF AbortInsert, Fault
<1>5. QED
  BY <1>1, <1>2, <1>3, <1>4 DEF InsertStep

\* The passing of time and the purge keep the types.
LEMMA TimeTypes ==
  ASSUME QueueTypeOK, NEW m \in Message, TimeStep(m)
  PROVE  QueueTypeOK'
<1> USE QueueAssumption DEF QueueTypeOK, inserts, reader, worker, Delivery
<1>1. CASE LeaseRunsOut(m)
  BY <1>1 DEF LeaseRunsOut
<1>2. CASE BackoffEnds(m)
  BY <1>2 DEF BackoffEnds
<1>3. CASE Purge(m)
  BY <1>3 DEF Purge
<1>4. QED
  BY <1>1, <1>2, <1>3 DEF TimeStep

\* A worker that gives up what it was doing keeps the types.
LEMMA DropTypes ==
  ASSUME QueueTypeOK, NEW w \in Worker, Drop(w), UNCHANGED <<inserts, delivery>>, faults' \in Nat
  PROVE  QueueTypeOK'
  BY QueueAssumption DEF QueueTypeOK, inserts, delivery, Drop, Job, NoJob

\* A worker's own steps keep the types.
LEMMA WorkTypes ==
  ASSUME QueueTypeOK, NEW w \in Worker, WorkStep(w)
  PROVE  QueueTypeOK'
<1> USE QueueAssumption DEF inserts, reader, delivery, worker, Delivery
<1>1. CASE Claim(w)
  <2>1. PICK m \in Message :
          /\ attempts' = [attempts EXCEPT ![m] = @ + 1]
          /\ IF stage[m] = "purged"
               THEN /\ row' = [row EXCEPT ![m] = "none"]
                    /\ pc' = [pc EXCEPT ![w] = "advance"]
                    /\ UNCHANGED job
               ELSE /\ row' = [row EXCEPT ![m] = "leased"]
                    /\ pc' = [pc EXCEPT ![w] = "handling"]
                    /\ job' = [job EXCEPT ![w] = [msg |-> m, attempt |-> attempts[m] + 1]]
    BY <1>1 DEF Claim
  <2>2. /\ attempts' \in [Message -> Nat]
        /\ row' \in [Message -> Delivery]
        /\ pc' \in [Worker -> {"claim", "advance", "write", "handling", "settle"}]
    BY <2>1 DEF QueueTypeOK
  <2>3. [msg |-> m, attempt |-> attempts[m] + 1] \in Job
    BY DEF QueueTypeOK, Job
  <2>4. job' \in [Worker -> Job]
    BY <2>1, <2>3 DEF QueueTypeOK
  <2>5. QED
    BY <1>1, <2>2, <2>4 DEF Claim, QueueTypeOK
<1>2. CASE ClaimNone(w)
  BY <1>2 DEF ClaimNone, QueueTypeOK
<1>3. CASE AdvanceRead(w)
  BY <1>3 DEF AdvanceRead, QueueTypeOK
<1>4. CASE AdvanceIdle(w)
  BY <1>4 DEF AdvanceIdle, QueueTypeOK
<1>5. CASE AdvanceWrite(w)
  <2>1. PICK m \in batch[w] : pos' = [xid |-> xid[m], seq |-> seq[m]]
    BY <1>5 DEF AdvanceWrite
  <2>2. pos' \in [xid: Nat, seq: Nat]
    BY <2>1 DEF QueueTypeOK
  <2>3. QED
    BY <1>5, <2>2 DEF AdvanceWrite, QueueTypeOK
<1>6. CASE Settle(w)
  <2>1. row' \in [Message -> Delivery]
    BY <1>6 DEF Settle, QueueTypeOK
  <2>2. QED
    BY <1>6, <2>1 DEF Settle, QueueTypeOK, Job, NoJob
<1>7. CASE GiveUp(w)
  BY <1>7 DEF GiveUp, QueueTypeOK
<1>8. CASE CallFails(w)
  BY <1>8, DropTypes DEF CallFails, Fault, QueueTypeOK
<1>9. CASE DropGoneFails(w)
  BY <1>9 DEF DropGoneFails, Fault, QueueTypeOK
<1>10. QED
  BY <1>1, <1>2, <1>3, <1>4, <1>5, <1>6, <1>7, <1>8, <1>9 DEF WorkStep

\* Any handler's steps keep the types.
LEMMA HandlerTypes ==
  ASSUME QueueTypeOK, NEW w \in Worker, HandlerStep(w)
  PROVE  QueueTypeOK'
  BY QueueAssumption
     DEF HandlerStep, InProgress, Return, QueueTypeOK, inserts, reader, delivery, worker, Delivery

\* Every step of the queue keeps the types.
LEMMA QueueStepTypes == QueueTypeOK /\ [QueueNext]_queueVars => QueueTypeOK'
<1> SUFFICES ASSUME QueueTypeOK, [QueueNext]_queueVars PROVE QueueTypeOK'
  OBVIOUS
<1>1. ASSUME NEW w \in Worker, Crash(w) PROVE QueueTypeOK'
  BY <1>1, DropTypes DEF Crash, Fault, QueueTypeOK
<1>2. CASE UNCHANGED queueVars
  BY <1>2 DEF queueVars, inserts, reader, delivery, worker, QueueTypeOK
<1>3. QED
  BY <1>1, <1>2, InsertTypes, TimeTypes, WorkTypes, HandlerTypes DEF QueueNext

\* Type correctness of the queue.
THEOREM QueueTypes == QueueSpec => []QueueTypeOK
<1>1. QueueInit => QueueTypeOK
  BY QueueAssumption DEF QueueInit, QueueTypeOK, Delivery, Job, NoJob
<1>2. QED
  BY <1>1, QueueStepTypes, PTL DEF QueueSpec

-----------------------------------------------------------------------------
(* The reader skips nothing.                                               *)

ReaderInv == XidInv /\ BatchInv /\ NoSkip

\* Steps that touch neither the messages nor the reader, and neither begin nor
\* end an advance: claims, handlers, outcomes, leases.
LEMMA OtherSteps ==
  ASSUME QueueTypeOK, BatchInv, [QueueNext]_queueVars
  PROVE  \/ \E m \in Message : InsertStep(m) \/ Purge(m)
         \/ \E w \in Worker : AdvanceRead(w) \/ AdvanceWrite(w)
         \/ \E w \in Worker : Drop(w) /\ UNCHANGED inserts
         \/ /\ UNCHANGED <<inserts, reader>>
            /\ \A v \in Worker : pc'[v] = "write" <=> pc[v] = "write"
<1> DEFINE Quiet == /\ UNCHANGED <<inserts, reader>>
                    /\ \A v \in Worker : pc'[v] = "write" <=> pc[v] = "write"
<1> USE DEF QueueTypeOK, worker
<1>1. ASSUME NEW w \in Worker, Claim(w) PROVE Quiet
  BY <1>1 DEF Claim
<1>2. ASSUME NEW w \in Worker, ClaimNone(w) PROVE Quiet
  BY <1>2 DEF ClaimNone
<1>3. ASSUME NEW w \in Worker, AdvanceIdle(w) PROVE Quiet
  BY <1>3 DEF AdvanceIdle
<1>4. ASSUME NEW w \in Worker, Settle(w) PROVE Quiet
  BY <1>4 DEF Settle
<1>5. ASSUME NEW w \in Worker, GiveUp(w) \/ DropGoneFails(w) PROVE Quiet
  BY <1>5 DEF GiveUp, DropGoneFails
<1>6. ASSUME NEW w \in Worker, HandlerStep(w) PROVE Quiet
  BY <1>6 DEF HandlerStep, InProgress, Return
<1>7. ASSUME NEW m \in Message, LeaseRunsOut(m) \/ BackoffEnds(m) PROVE Quiet
  BY <1>7 DEF LeaseRunsOut, BackoffEnds
<1>8. ASSUME NEW w \in Worker, CallFails(w) \/ Crash(w) PROVE Drop(w) /\ UNCHANGED inserts
  BY <1>8 DEF CallFails, Crash
<1>9. CASE UNCHANGED queueVars
  BY <1>9 DEF queueVars
<1>10. QED
  BY <1>1, <1>2, <1>3, <1>4, <1>5, <1>6, <1>7, <1>8, <1>9 DEF QueueNext, TimeStep, WorkStep

\* An insert takes an id above the position and above every batch, and commits
\* above them.
LEMMA InsertReads ==
  ASSUME QueueTypeOK, ReaderInv, NEW m \in Message, InsertStep(m)
  PROVE  ReaderInv'
<1> USE DEF QueueTypeOK, reader, worker, ReaderInv, XidInv, BatchInv, NoSkip, After
<1>1. CASE TakeSeq(m)
  BY <1>1 DEF TakeSeq
<1>2. CASE TakeXid(m)
  BY <1>2 DEF TakeXid
<1>3. CASE CommitInsert(m)
  BY <1>3 DEF CommitInsert
<1>4. CASE AbortInsert(m)
  BY <1>4 DEF AbortInsert
<1>5. QED
  BY <1>1, <1>2, <1>3, <1>4 DEF InsertStep

\* What an advance reads is everything up to the last row it reads.
LEMMA ReadReads ==
  ASSUME QueueTypeOK, ReaderInv, NEW w \in Worker, AdvanceRead(w)
  PROVE  ReaderInv'
<1>1. PICK b \in SUBSET Message :
        /\ FirstVisible(b)
        /\ batch' = [batch EXCEPT ![w] = b]
  BY DEF AdvanceRead
<1>2. UNCHANGED <<inserts, pos, queued>> /\ subLock = NoOne /\ subLock' = w
  BY DEF AdvanceRead
<1>3. pc' = [pc EXCEPT ![w] = "write"]
  BY DEF AdvanceRead
<1>4. XidInv' /\ NoSkip'
  BY <1>2 DEF ReaderInv, XidInv, NoSkip, inserts, After
<1>5. \A v \in Worker : pc[v] # "write" /\ batch[v] = {}
  BY <1>2, QueueAssumption DEF ReaderInv, BatchInv
<1>6. \A v \in Worker : batch'[v] = IF v = w THEN b ELSE {}
  BY <1>1, <1>5 DEF QueueTypeOK
<1>7. \A v \in Worker : pc'[v] = "write" <=> v = w
  BY <1>3, <1>5 DEF QueueTypeOK
<1>8. ASSUME NEW m \in b
      PROVE  /\ stage[m] = "committed"
             /\ \A q \in Message : stage[q] = "inserting" /\ xid[q] # 0 => xid[m] < xid[q]
  BY <1>1, <1>8 DEF FirstVisible, Visible
<1>9. ASSUME NEW m \in b, NEW q \in Message, stage[q] = "committed", After(q, pos), xid[q] <= xid[m]
      PROVE  q \in b
  <2> SUFFICES ASSUME q \notin b PROVE FALSE
    OBVIOUS
  <2>1. Visible(q)
    BY <1>8, <1>9 DEF Visible, QueueTypeOK
  <2>2. After(q, [xid |-> xid[m], seq |-> seq[m]])
    BY <1>1, <2>1, <1>9 DEF FirstVisible
  <2>3. xid[q] = xid[m] /\ xid[m] # 0
    BY <2>2, <1>8, <1>9 DEF After, QueueTypeOK, ReaderInv, XidInv
  <2>4. QED
    BY <2>3, <1>9 DEF ReaderInv, XidInv
<1>10. BatchInv'
  BY <1>2, <1>6, <1>7, <1>8, <1>9 DEF BatchInv, inserts, After
<1>11. QED
  BY <1>4, <1>10 DEF ReaderInv

\* Moving the position over the batch skips nothing.
LEMMA WriteReads ==
  ASSUME QueueTypeOK, ReaderInv, NEW w \in Worker, AdvanceWrite(w)
  PROVE  ReaderInv'
<1>1. PICK m \in batch[w] : pos' = [xid |-> xid[m], seq |-> seq[m]]
  BY DEF AdvanceWrite
<1>2. /\ UNCHANGED inserts
      /\ queued' = queued \cup (batch[w] \cap Matching)
      /\ batch' = [batch EXCEPT ![w] = {}]
      /\ pc' = [pc EXCEPT ![w] = "claim"]
      /\ pc[w] = "write"
  BY DEF AdvanceWrite
<1>3. \A v \in Worker : batch'[v] = {} /\ pc'[v] # "write"
  BY <1>2 DEF QueueTypeOK, ReaderInv, BatchInv
<1>4. m \in Message /\ xid[m] \in Nat /\ seq[m] \in Nat /\ pos'.xid = xid[m] /\ pos'.seq = seq[m]
  BY <1>1 DEF QueueTypeOK
<1>5. XidInv'
  BY <1>1, <1>2, <1>4 DEF XidInv, BatchInv, ReaderInv, inserts
<1>6. ASSUME NEW q \in Matching, stage[q] = "committed",
             ~(xid[q] > xid[m] \/ (xid[q] = xid[m] /\ seq[q] > seq[m]))
      PROVE  q \in queued'
  <2>1. q \in Message /\ xid[q] \in Nat /\ xid[q] <= xid[m]
    BY <1>6, <1>4, QueueAssumption DEF QueueTypeOK
  <2>2. CASE After(q, pos)
    BY <1>1, <1>2, <1>6, <2>1, <2>2 DEF ReaderInv, BatchInv
  <2>3. CASE ~After(q, pos)
    BY <1>2, <1>6, <2>3 DEF ReaderInv, NoSkip
  <2>4. QED
    BY <2>2, <2>3
<1>7. NoSkip'
  BY <1>2, <1>4, <1>6 DEF NoSkip, After, inserts
<1>8. BatchInv'
  BY <1>3 DEF BatchInv
<1>9. QED
  BY <1>5, <1>7, <1>8 DEF ReaderInv

\* The other steps: a purge, an advance that fails, and those that touch
\* neither messages nor reader.
LEMMA OtherReads ==
  ASSUME QueueTypeOK, ReaderInv
  PROVE  /\ \A m \in Message : Purge(m) => ReaderInv'
         /\ \A w \in Worker : Drop(w) /\ UNCHANGED inserts => ReaderInv'
         /\ /\ UNCHANGED <<inserts, reader>>
            /\ \A v \in Worker : pc'[v] = "write" <=> pc[v] = "write"
            => ReaderInv'
<1> USE DEF QueueTypeOK, reader, inserts, worker, ReaderInv, XidInv, BatchInv, NoSkip, After
<1>1. ASSUME NEW m \in Message, Purge(m) PROVE ReaderInv'
  BY <1>1 DEF Purge
<1>2. ASSUME NEW w \in Worker, Drop(w), UNCHANGED inserts PROVE ReaderInv'
  BY <1>2 DEF Drop
<1>3. ASSUME UNCHANGED <<inserts, reader>>,
             \A v \in Worker : pc'[v] = "write" <=> pc[v] = "write"
      PROVE  ReaderInv'
  BY <1>3
<1>4. QED
  BY <1>1, <1>2, <1>3

\* Every step of the queue keeps what the reader has read in order.
LEMMA ReaderStep == QueueTypeOK /\ ReaderInv /\ [QueueNext]_queueVars => ReaderInv'
  BY OtherSteps, InsertReads, ReadReads, WriteReads, OtherReads DEF ReaderInv

\* A reader never skips a message that commits later: for any number of
\* concurrent inserts and workers, whatever fails.
THEOREM SkipsNothing == QueueSpec => []NoSkip
<1>1. QueueInit => ReaderInv
  BY QueueAssumption DEF QueueInit, ReaderInv, XidInv, BatchInv, NoSkip
<1>2. ReaderInv => NoSkip
  BY DEF ReaderInv
<1>3. QED
  BY <1>1, <1>2, ReaderStep, QueueTypes, PTL DEF QueueSpec

-----------------------------------------------------------------------------
(* A delivery that ended stays so, and leases protect.                     *)

\* Only an advance gives a message a delivery that has none.
LEMMA RowsComeFromAdvance ==
  ASSUME QueueTypeOK, [QueueNext]_queueVars, NEW m \in Message, row[m] = "none"
  PROVE  \/ row'[m] = "none"
         \/ \E w \in Worker : AdvanceWrite(w) /\ m \in batch[w] \cap Matching
<1> DEFINE Same == row'[m] = "none"
<1> USE DEF QueueTypeOK, delivery
<1>1. ASSUME NEW q \in Message, InsertStep(q) \/ TimeStep(q) PROVE Same
  BY <1>1 DEF InsertStep, TimeStep, TakeSeq, TakeXid, CommitInsert, AbortInsert,
              LeaseRunsOut, BackoffEnds, Purge
<1>2. ASSUME NEW w \in Worker, Claim(w) PROVE Same
  <2>1. PICK q \in Message :
          /\ Due(q) /\ row' \in {[row EXCEPT ![q] = "none"], [row EXCEPT ![q] = "leased"]}
    BY <1>2 DEF Claim, Claimable, OrderedClaimable
  <2>2. QED
    BY <2>1 DEF Due
<1>3. ASSUME NEW w \in Worker,
             ClaimNone(w) \/ AdvanceRead(w) \/ AdvanceIdle(w) \/ CallFails(w) \/ Crash(w)
      PROVE  Same
  BY <1>3 DEF ClaimNone, AdvanceRead, AdvanceIdle, CallFails, Crash
<1>4. ASSUME NEW w \in Worker, AdvanceWrite(w)
      PROVE  Same \/ m \in batch[w] \cap Matching
  BY <1>4 DEF AdvanceWrite
<1>5. ASSUME NEW w \in Worker, Settle(w) PROVE Same
  BY <1>5 DEF Settle, HoldsLease, InFlight
<1>6. ASSUME NEW w \in Worker, GiveUp(w) PROVE Same
  BY <1>6 DEF GiveUp
<1>7. ASSUME NEW w \in Worker, DropGoneFails(w) PROVE Same
  <2>1. PICK q \in Message : Due(q) /\ row' = [row EXCEPT ![q] = "leased"]
    BY <1>7 DEF DropGoneFails, Claimable
  <2>2. QED
    BY <2>1 DEF Due
<1>8. ASSUME NEW w \in Worker, HandlerStep(w) PROVE Same
  BY <1>8 DEF HandlerStep, InProgress, HoldsLease, InFlight
<1>9. CASE UNCHANGED queueVars
  BY <1>9 DEF queueVars
<1>10. QED
  BY <1>1, <1>2, <1>3, <1>4, <1>5, <1>6, <1>7, <1>8, <1>9 DEF QueueNext, WorkStep

\* The reader's order of messages, by xid and then by seq.
LEMMA AfterOrder ==
  ASSUME QueueTypeOK
  PROVE  /\ \A m, q \in Message : After(m, [xid |-> xid[q], seq |-> seq[q]])
                                    => ~After(q, [xid |-> xid[m], seq |-> seq[m]])
         /\ \A m \in Message : ~After(m, [xid |-> xid[m], seq |-> seq[m]])
         /\ \A m, q \in Message : After(m, pos) /\ ~After(q, pos)
                                    => ~After(q, [xid |-> xid[m], seq |-> seq[m]])
<1>1. \A m \in Message : xid[m] \in Nat /\ seq[m] \in Nat
  BY DEF QueueTypeOK
<1>2. pos.xid \in Nat /\ pos.seq \in Nat
  BY DEF QueueTypeOK
<1>3. QED
  BY <1>1, <1>2 DEF After

\* An advance leaves everything it queued, and what was queued before, at or
\* below the position.
LEMMA WriteQueued ==
  ASSUME QueueTypeOK, ReaderInv, QueuedInv, NEW w \in Worker, AdvanceWrite(w)
  PROVE  QueuedInv'
<1>1. PICK m \in batch[w] :
        /\ \A q \in batch[w] \ {m} : After(m, [xid |-> xid[q], seq |-> seq[q]])
        /\ pos' = [xid |-> xid[m], seq |-> seq[m]]
  BY DEF AdvanceWrite
<1>2. /\ UNCHANGED inserts
      /\ queued' = queued \cup (batch[w] \cap Matching)
      /\ batch' = [batch EXCEPT ![w] = {}]
      /\ pc[w] = "write"
      /\ row' = [q \in Message |-> IF q \in batch[w] \cap Matching /\ row[q] = "none"
                                     THEN "ready" ELSE row[q]]
  BY DEF AdvanceWrite
<1>3. \A v \in Worker : batch'[v] = {}
  BY <1>2 DEF QueueTypeOK, ReaderInv, BatchInv
<1>4. batch[w] \subseteq Message /\ queued \subseteq Message /\ m \in Message /\ After(m, pos)
  BY <1>1, QueueAssumption DEF QueueTypeOK, QueuedInv
<1>5. ASSUME NEW q \in queued'
      PROVE  /\ stage[q] \in {"committed", "purged"}
             /\ ~After(q, [xid |-> xid[m], seq |-> seq[m]])
  <2>1. CASE q \in queued
    BY <1>4, <2>1, AfterOrder DEF QueuedInv
  <2>2. CASE q \in batch[w]
    BY <1>1, <1>4, <2>2, AfterOrder DEF ReaderInv, BatchInv
  <2>3. QED
    BY <1>2, <2>1, <2>2
<1>6. \A q \in queued' : stage'[q] \in {"committed", "purged"} /\ ~After(q, pos)'
  BY <1>1, <1>2, <1>5 DEF After, inserts
<1>7. \A q \in Message : row'[q] # "none" => q \in queued'
  BY <1>2 DEF QueueTypeOK, QueuedInv
<1>8. QED
  BY <1>3, <1>6, <1>7 DEF QueuedInv

\* No other step moves a message or the position between them.
LEMMA QueuedStep ==
  ASSUME QueueTypeOK, ReaderInv, QueuedInv, [QueueNext]_queueVars
  PROVE  QueuedInv'
<1>1. CASE \E w \in Worker : AdvanceWrite(w)
  BY <1>1, WriteQueued
<1>2. CASE ~(\E w \in Worker : AdvanceWrite(w))
  <2>1. \A m \in Message : row'[m] # "none" => m \in queued
    BY <1>2, RowsComeFromAdvance DEF QueuedInv
  <2>2. /\ UNCHANGED <<pos, queued>>
        /\ \A m \in Message : stage[m] \in {"committed", "purged"} =>
             stage'[m] \in {"committed", "purged"} /\ xid'[m] = xid[m] /\ seq'[m] = seq[m]
        /\ \A w \in Worker : \A m \in batch'[w] : m \in batch[w] \/ Visible(m)
    <3> USE DEF QueueTypeOK, inserts, reader
    <3>1. CASE \E m \in Message : InsertStep(m) \/ Purge(m)
      BY <3>1 DEF InsertStep, TakeSeq, TakeXid, CommitInsert, AbortInsert, Purge
    <3>2. CASE \E w \in Worker : AdvanceRead(w)
      BY <3>2 DEF AdvanceRead, FirstVisible
    <3>3. CASE \E w \in Worker : Drop(w) /\ UNCHANGED inserts
      BY <3>3 DEF Drop
    <3>4. CASE UNCHANGED <<inserts, reader>>
      BY <3>4
    <3>5. QED
      BY <1>2, <3>1, <3>2, <3>3, <3>4, OtherSteps DEF ReaderInv
  <2>3. queued \subseteq Message /\ \A w \in Worker : batch[w] \subseteq Message /\ batch'[w] \subseteq Message
    <3>1. QueueTypeOK'
      BY QueueStepTypes
    <3>2. QED
      BY <3>1, QueueAssumption DEF QueueTypeOK
  <2>4. \A m \in queued : stage'[m] \in {"committed", "purged"} /\ ~After(m, pos)'
    BY <2>2, <2>3 DEF QueuedInv, After
  <2>5. ASSUME NEW w \in Worker, NEW m \in batch'[w]
        PROVE  After(m, pos)'
    <3>1. m \in Message /\ stage[m] \in {"committed", "purged"} /\ After(m, pos)
      BY <2>2, <2>3 DEF QueuedInv, ReaderInv, BatchInv, Visible
    <3>2. QED
      BY <2>2, <3>1 DEF After
  <2>6. QED
    BY <2>1, <2>2, <2>4, <2>5 DEF QueuedInv
<1>3. QED
  BY <1>1, <1>2

\* The reader's invariants hold of the queue in every state.
LEMMA QueueInvariants == QueueSpec => [](QueueTypeOK /\ ReaderInv /\ QueuedInv)
<1>1. QueueInit => ReaderInv /\ QueuedInv
  BY QueueAssumption DEF QueueInit, ReaderInv, XidInv, BatchInv, NoSkip, QueuedInv
<1>2. QueueTypeOK /\ ReaderInv /\ QueuedInv /\ [QueueNext]_queueVars => ReaderInv' /\ QueuedInv'
  BY ReaderStep, QueuedStep
<1>3. QED
  BY <1>1, <1>2, QueueTypes, PTL DEF QueueSpec

\* A delivery that ended is never queued again, for any number of messages and
\* workers and whatever fails.
THEOREM EndedDeliveriesStay == QueueSpec => EndedForGood
<1>1. ASSUME QueueTypeOK, ReaderInv, QueuedInv, [QueueNext]_queueVars,
             NEW m \in Message, m \in queued, row[m] = "none"
      PROVE  row'[m] = "none"
  <2>1. \A w \in Worker : m \notin batch[w]
    BY <1>1 DEF QueuedInv
  <2>2. QED
    BY <1>1, <2>1, RowsComeFromAdvance
<1>2. QueueTypeOK /\ ReaderInv /\ QueuedInv /\ [QueueNext]_queueVars =>
        [\A m \in Message : m \in queued /\ row[m] = "none" => row'[m] = "none"]_queueVars
  BY <1>1
<1>3. QED
  BY <1>2, QueueInvariants, PTL DEF QueueSpec, EndedForGood

\* A live lease ends by its time, by the purge or by its own worker's outcome,
\* never by the late outcome of an earlier attempt.
THEOREM LeasesProtect == QueueSpec => LateOutcomeIsIgnored
<1> DEFINE Excused(m) ==
      \/ row'[m] = "expired"
      \/ stage'[m] = "purged"
      \/ \E w \in Worker : job[w] = [msg |-> m, attempt |-> attempts[m]] /\ job'[w] = NoJob
<1>1. ASSUME QueueTypeOK, [QueueNext]_queueVars, NEW m \in Message,
             row[m] = "leased", row'[m] # "leased"
      PROVE  Excused(m)
  <2> USE <1>1 DEF QueueTypeOK, delivery
  <2>1. ASSUME NEW q \in Message, InsertStep(q) \/ TimeStep(q) PROVE Excused(m)
    BY <2>1 DEF InsertStep, TimeStep, TakeSeq, TakeXid, CommitInsert, AbortInsert,
                LeaseRunsOut, BackoffEnds, Purge
  <2>2. ASSUME NEW w \in Worker, Claim(w) PROVE FALSE
    <3>1. PICK q \in Message :
            /\ Due(q) /\ row' \in {[row EXCEPT ![q] = "none"], [row EXCEPT ![q] = "leased"]}
      BY <2>2 DEF Claim, Claimable, OrderedClaimable
    <3>2. QED
      BY <3>1 DEF Due
  <2>3. ASSUME NEW w \in Worker,
               ClaimNone(w) \/ AdvanceRead(w) \/ AdvanceIdle(w) \/ CallFails(w) \/ Crash(w)
        PROVE  FALSE
    BY <2>3 DEF ClaimNone, AdvanceRead, AdvanceIdle, CallFails, Crash
  <2>4. ASSUME NEW w \in Worker, AdvanceWrite(w) PROVE FALSE
    BY <2>4 DEF AdvanceWrite
  <2>5. ASSUME NEW w \in Worker, Settle(w) PROVE Excused(m)
    <3>1. HoldsLease(w) /\ job[w].msg = m /\ attempts[m] = job[w].attempt
      BY <2>5 DEF Settle, HoldsLease
    <3>2. job[w] \in Job /\ job'[w] = NoJob
      BY <2>5 DEF Settle
    <3>3. job[w] = [msg |-> m, attempt |-> attempts[m]]
      BY <3>1, <3>2 DEF Job
    <3>4. QED
      BY <3>2, <3>3
  <2>6. ASSUME NEW w \in Worker, GiveUp(w) PROVE FALSE
    BY <2>6 DEF GiveUp, Exhausted
  <2>7. ASSUME NEW w \in Worker, DropGoneFails(w) PROVE FALSE
    BY <2>7 DEF DropGoneFails
  <2>8. ASSUME NEW w \in Worker, HandlerStep(w) PROVE FALSE
    BY <2>8 DEF HandlerStep, InProgress
  <2>9. CASE UNCHANGED queueVars
    BY <2>9 DEF queueVars
  <2>10. QED
    BY <2>1, <2>2, <2>3, <2>4, <2>5, <2>6, <2>7, <2>8, <2>9 DEF QueueNext, WorkStep
<1>2. QueueTypeOK /\ [QueueNext]_queueVars =>
        [\A m \in Message : row[m] = "leased" /\ row'[m] # "leased" => Excused(m)]_queueVars
  BY <1>1
<1>3. QED
  BY <1>2, QueueTypes, PTL DEF QueueSpec, LateOutcomeIsIgnored

-----------------------------------------------------------------------------
(* The consumer.                                                           *)

\* The consumer is one of the handlers the transport allows: every step of it
\* is a step of the queue or leaves the queue alone.
LEMMA ConsumerStepIsQueueStep ==
  ASSUME [Next]_vars
  PROVE  [QueueNext]_queueVars
<1> USE DEF store, worker, queueVars, consumer
<1>1. ASSUME Transport PROVE QueueNext
  BY <1>1 DEF Transport, QueueNext
<1>2. ASSUME NEW w \in Worker, Handle(w) PROVE [QueueNext]_queueVars
  <2>1. CASE BeginApply(w)
    BY <2>1 DEF BeginApply
  <2>2. CASE SkipApplied(w)
    BY <2>2 DEF SkipApplied, QueueNext, HandlerStep
  <2>3. CASE Apply(w)
    BY <2>3 DEF Apply, QueueNext, HandlerStep
  <2>4. CASE ProcessFails(w)
    BY <2>4 DEF ProcessFails, AfterFailure, QueueNext, HandlerStep
  <2>5. CASE CommitAnswerLost(w)
    BY <2>5 DEF CommitAnswerLost, AfterFailure, QueueNext, HandlerStep
  <2>6. CASE RecordDeadLetter(w)
    BY <2>6 DEF RecordDeadLetter, QueueNext, HandlerStep
  <2>7. CASE DeadLetterFails(w)
    BY <2>7 DEF DeadLetterFails, QueueNext, HandlerStep
  <2>8. QED
    BY <1>2, <2>1, <2>2, <2>3, <2>4, <2>5, <2>6, <2>7 DEF Handle
<1>3. ASSUME NEW w \in Worker, CrashHandling(w) PROVE QueueNext
  BY <1>3 DEF CrashHandling, QueueNext
<1>4. CASE UNCHANGED vars
  BY <1>4 DEF vars
<1>5. QED
  BY <1>1, <1>2, <1>3, <1>4 DEF Next

\* The consumer with its workers implements the queue, so what holds of the
\* queue with any handler holds of it.
THEOREM ConsumerImplementsQueue == Spec => QueueSpec
<1>1. Init => QueueInit
  BY DEF Init
<1>2. QED
  BY <1>1, ConsumerStepIsQueueStep, PTL DEF Spec, QueueSpec

\* The types of the consumer's own variables.
ConsumerTypeOK ==
  /\ at \in [Worker -> {"start", "applying", "failed"}]
  /\ inbox \in SUBSET Message
  /\ keyLock \in [Message -> Worker \cup {NoOne}]
  /\ effects \in [Message -> Nat]
  /\ dead \in SUBSET Message
  /\ failures \in Nat

\* A worker that handles has claimed a message.
JobInv == \A w \in Worker : pc[w] \in {"handling", "settle"} => job[w].msg \in Message

\* What a transport step can do to a worker that handles: nothing.
LEMMA TransportJobs ==
  ASSUME QueueTypeOK, JobInv, Transport
  PROVE  /\ JobInv'
         /\ \A v \in Worker : pc[v] = "handling" => pc'[v] = "handling" /\ job'[v] = job[v]
<1> DEFINE Goal == /\ JobInv'
                   /\ \A v \in Worker : pc[v] = "handling" => pc'[v] = "handling" /\ job'[v] = job[v]
<1> USE DEF QueueTypeOK, JobInv, worker
<1>1. ASSUME NEW m \in Message, InsertStep(m) \/ TimeStep(m) PROVE Goal
  BY <1>1 DEF InsertStep, TimeStep, TakeSeq, TakeXid, CommitInsert, AbortInsert,
              LeaseRunsOut, BackoffEnds, Purge
<1>2. ASSUME NEW w \in Worker, WorkStep(w) PROVE Goal
  <2>1. CASE Claim(w)
    <3>1. pc[w] = "claim"
      BY <2>1 DEF Claim
    <3>2. PICK m \in Message :
            \/ pc' = [pc EXCEPT ![w] = "advance"] /\ UNCHANGED job
            \/ /\ pc' = [pc EXCEPT ![w] = "handling"]
               /\ job' = [job EXCEPT ![w] = [msg |-> m, attempt |-> attempts[m] + 1]]
      BY <2>1 DEF Claim
    <3>3. QED
      BY <3>1, <3>2
  <2>2. CASE ClaimNone(w) \/ AdvanceRead(w) \/ AdvanceIdle(w) \/ AdvanceWrite(w)
    BY <2>2 DEF ClaimNone, AdvanceRead, AdvanceIdle, AdvanceWrite
  <2>3. CASE Settle(w) \/ GiveUp(w) \/ DropGoneFails(w)
    BY <2>3 DEF Settle, GiveUp, DropGoneFails
  <2>4. CASE CallFails(w)
    BY <2>4 DEF CallFails, Drop
  <2>5. QED
    BY <1>2, <2>1, <2>2, <2>3, <2>4 DEF WorkStep
<1>3. QED
  BY <1>1, <1>2 DEF Transport

\* Why an event takes effect once: the worker that applies it holds the key of
\* its inbox row, and the row is not there yet.
OnceInv ==
  /\ JobInv
  /\ \A w \in Worker : at[w] = "applying" =>
       /\ pc[w] = "handling"
       /\ keyLock[job[w].msg] = w
       /\ job[w].msg \notin inbox
  /\ \A m \in Message : effects[m] <= 1 /\ (effects[m] = 1 => m \in inbox)

\* One worker's handler step keeps the types and the invariant.
LEMMA HandleOnce ==
  ASSUME QueueTypeOK, ConsumerTypeOK, OnceInv, NEW w \in Worker, Handle(w)
  PROVE  ConsumerTypeOK' /\ OnceInv'
<1>1. pc[w] = "handling" /\ job[w].msg \in Message
  BY DEF Handle, BeginApply, SkipApplied, Apply, ProcessFails, CommitAnswerLost,
         RecordDeadLetter, DeadLetterFails, OnceInv, JobInv
<1>2. job' = job
  BY DEF Handle, BeginApply, SkipApplied, Apply, ProcessFails, CommitAnswerLost, AfterFailure,
         RecordDeadLetter, DeadLetterFails, Return, worker
<1>3. \/ UNCHANGED pc
      \/ pc' = [pc EXCEPT ![w] = "settle"] /\ at' = [at EXCEPT ![w] = "start"]
      \/ pc' = [pc EXCEPT ![w] = "settle"] /\ at' = at /\ at[w] = "start"
  BY DEF Handle, BeginApply, SkipApplied, Apply, ProcessFails, CommitAnswerLost, AfterFailure,
         RecordDeadLetter, DeadLetterFails, Return, worker
<1>4. JobInv'
  BY <1>1, <1>2, <1>3 DEF OnceInv, JobInv, QueueTypeOK
<1> DEFINE m == job[w].msg
<1>5. CASE BeginApply(w)
  <2>1. /\ keyLock[m] = NoOne /\ keyLock' = [keyLock EXCEPT ![m] = w]
        /\ at' = [at EXCEPT ![w] = "applying"] /\ m \notin inbox
        /\ UNCHANGED <<inbox, effects, dead, failures, pc, job>>
    BY <1>5 DEF BeginApply, worker
  <2>2. QED
    BY <1>1, <1>4, <2>1, QueueAssumption DEF ConsumerTypeOK, OnceInv
<1>6. CASE SkipApplied(w) \/ RecordDeadLetter(w) \/ DeadLetterFails(w)
  <2>1. /\ at[w] \in {"start", "failed"} /\ at' \in {at, [at EXCEPT ![w] = "start"]}
        /\ dead' \in {dead, dead \cup {m}} /\ failures' \in {failures, failures + 1}
        /\ UNCHANGED <<inbox, effects, keyLock>>
        /\ pc' = [pc EXCEPT ![w] = "settle"]
    BY <1>6 DEF SkipApplied, RecordDeadLetter, DeadLetterFails, Return, StoreFault, store
  <2>2. QED
    BY <1>1, <1>2, <1>4, <2>1 DEF ConsumerTypeOK, OnceInv, QueueTypeOK
<1>7. CASE Apply(w) \/ CommitAnswerLost(w)
  <2>1. /\ at[w] = "applying" /\ inbox' = inbox \cup {m}
        /\ effects' = [effects EXCEPT ![m] = @ + 1]
        /\ keyLock' = [keyLock EXCEPT ![m] = NoOne] /\ dead' = dead
    BY <1>7 DEF Apply, CommitAnswerLost, CommitEffect
  <2>2. /\ at' \in {[at EXCEPT ![w] = "start"], [at EXCEPT ![w] = "failed"]}
        /\ failures' \in {failures, failures + 1}
        /\ pc' \in {pc, [pc EXCEPT ![w] = "settle"]}
    BY <1>7 DEF Apply, CommitAnswerLost, AfterFailure, Return, StoreFault, worker
  <2>3. effects[m] = 0 /\ keyLock[m] = w
    BY <1>1, <2>1 DEF ConsumerTypeOK, OnceInv
  <2>4. ConsumerTypeOK'
    BY <1>1, <2>1, <2>2 DEF ConsumerTypeOK
  <2>5. \A x \in Message : effects'[x] <= 1 /\ (effects'[x] = 1 => x \in inbox')
    BY <1>1, <2>1, <2>3 DEF ConsumerTypeOK, OnceInv
  <2>6. ASSUME NEW v \in Worker, at'[v] = "applying"
        PROVE  /\ pc'[v] = "handling"
               /\ keyLock'[job'[v].msg] = v
               /\ job'[v].msg \notin inbox'
    <3>1. v # w /\ at[v] = "applying"
      BY <2>2, <2>6 DEF ConsumerTypeOK
    <3>2. job[v].msg \in Message /\ job[v].msg # m
      BY <2>3, <3>1 DEF OnceInv, JobInv
    <3>3. QED
      BY <1>1, <1>2, <2>1, <2>2, <3>1, <3>2 DEF OnceInv, ConsumerTypeOK, QueueTypeOK
  <2>7. QED
    BY <1>4, <2>4, <2>5, <2>6 DEF OnceInv
<1>8. CASE ProcessFails(w)
  <2>1. /\ keyLock' = Unlocked(w) /\ UNCHANGED <<inbox, effects, dead, failures>>
        /\ at' \in {[at EXCEPT ![w] = "start"], [at EXCEPT ![w] = "failed"]}
        /\ pc' \in {pc, [pc EXCEPT ![w] = "settle"]}
    BY <1>8 DEF ProcessFails, AfterFailure, Return, worker
  <2>2. ConsumerTypeOK'
    BY <2>1 DEF ConsumerTypeOK, Unlocked
  <2>3. ASSUME NEW v \in Worker, at'[v] = "applying"
        PROVE  /\ pc'[v] = "handling"
               /\ keyLock'[job'[v].msg] = v
               /\ job'[v].msg \notin inbox'
    <3>1. v # w /\ at[v] = "applying"
      BY <2>1, <2>3 DEF ConsumerTypeOK
    <3>2. job[v].msg \in Message
      BY <3>1 DEF OnceInv, JobInv
    <3>3. QED
      BY <1>2, <2>1, <3>1, <3>2 DEF OnceInv, ConsumerTypeOK, QueueTypeOK, Unlocked
  <2>4. QED
    BY <1>4, <2>1, <2>2, <2>3 DEF OnceInv
<1>9. QED
  BY <1>5, <1>6, <1>7, <1>8 DEF Handle

\* So do the crash of a handling worker and every step of the transport.
LEMMA OthersOnce ==
  ASSUME QueueTypeOK, ConsumerTypeOK, OnceInv,
         Transport \/ (\E w \in Worker : CrashHandling(w)) \/ UNCHANGED vars
  PROVE  ConsumerTypeOK' /\ OnceInv'
<1>1. CASE Transport
  <2>1. UNCHANGED <<at, inbox, keyLock, effects, dead, failures>>
    BY <1>1 DEF Transport, consumer, store
  <2>2. /\ JobInv'
        /\ \A v \in Worker : pc[v] = "handling" => pc'[v] = "handling" /\ job'[v] = job[v]
    BY <1>1, TransportJobs DEF OnceInv
  <2>3. QED
    BY <2>1, <2>2 DEF ConsumerTypeOK, OnceInv
<1>2. ASSUME NEW w \in Worker, CrashHandling(w) PROVE ConsumerTypeOK' /\ OnceInv'
  <2>1. /\ at' = [at EXCEPT ![w] = "start"] /\ keyLock' = Unlocked(w)
        /\ UNCHANGED <<inbox, effects, dead, failures>>
        /\ pc' = [pc EXCEPT ![w] = "claim"] /\ job' = [job EXCEPT ![w] = NoJob]
    BY <1>2 DEF CrashHandling, Crash, Drop
  <2>2. ConsumerTypeOK'
    BY <2>1 DEF ConsumerTypeOK, Unlocked
  <2>3. JobInv'
    BY <2>1 DEF OnceInv, JobInv, QueueTypeOK
  <2>4. ASSUME NEW v \in Worker, at'[v] = "applying"
        PROVE  /\ pc'[v] = "handling"
               /\ keyLock'[job'[v].msg] = v
               /\ job'[v].msg \notin inbox'
    <3>1. v # w /\ at[v] = "applying"
      BY <2>1, <2>4 DEF ConsumerTypeOK
    <3>2. job[v].msg \in Message
      BY <3>1 DEF OnceInv, JobInv
    <3>3. QED
      BY <2>1, <3>1, <3>2 DEF OnceInv, ConsumerTypeOK, QueueTypeOK, Unlocked
  <2>5. QED
    BY <2>1, <2>2, <2>3, <2>4 DEF OnceInv
<1>3. CASE UNCHANGED vars
  BY <1>3 DEF vars, queueVars, worker, consumer, store, ConsumerTypeOK, OnceInv, JobInv
<1>4. QED
  BY <1>1, <1>2, <1>3

\* What the consumer's invariants rest on, of the queue and of its own.
LEMMA ConsumerInvariants ==
  Spec => [](QueueTypeOK /\ ReaderInv /\ QueuedInv /\ ConsumerTypeOK /\ OnceInv)
<1>1. Init => ConsumerTypeOK /\ OnceInv
  BY QueueAssumption DEF Init, QueueInit, ConsumerTypeOK, OnceInv, JobInv, NoJob
<1>2. QueueTypeOK /\ ConsumerTypeOK /\ OnceInv /\ [Next]_vars => ConsumerTypeOK' /\ OnceInv'
  BY HandleOnce, OthersOnce DEF Next
<1>3. Spec => [](QueueTypeOK /\ ReaderInv /\ QueuedInv)
  BY ConsumerImplementsQueue, QueueInvariants, PTL
<1>4. QED
  BY <1>1, <1>2, <1>3, PTL DEF Spec

\* An event takes effect at most once, whatever leases run out, workers crash
\* or answers are lost.
THEOREM EffectsOnce == Spec => [](TypeOK /\ EffectOnce)
<1>1. QueueTypeOK /\ ConsumerTypeOK /\ OnceInv => TypeOK /\ EffectOnce
  BY DEF TypeOK, ConsumerTypeOK, OnceInv, EffectOnce
<1>2. QED
  BY <1>1, ConsumerInvariants, PTL

\* The reader of the consumer's subscription skips nothing.
COROLLARY ConsumerSkipsNothing == Spec => []NoSkip
  BY ConsumerImplementsQueue, SkipsNothing, PTL

-----------------------------------------------------------------------------
(* No event is dropped early.                                              *)

\* What only grows: an event stays purged, queued, applied or dead, and its
\* attempts are never taken back.
LEMMA NothingIsTakenBack ==
  ASSUME QueueTypeOK, ConsumerTypeOK, [Next]_vars, NEW m \in Message
  PROVE  /\ stage[m] = "purged" => stage'[m] = "purged"
         /\ queued \subseteq queued'
         /\ inbox \subseteq inbox' /\ dead \subseteq dead'
         /\ attempts'[m] >= attempts[m]
<1> DEFINE Same == stage' = stage /\ queued' = queued /\ attempts' = attempts
<1> DEFINE Goal == /\ stage[m] = "purged" => stage'[m] = "purged"
                   /\ queued \subseteq queued' /\ attempts'[m] >= attempts[m]
<1>0. Same => Goal
  BY DEF QueueTypeOK
<1>1. inbox \subseteq inbox' /\ dead \subseteq dead'
  BY DEF Next, vars, Transport, consumer, store, Handle, BeginApply, SkipApplied, Apply, CommitEffect,
         ProcessFails, CommitAnswerLost, RecordDeadLetter, DeadLetterFails, CrashHandling
<1>2. ASSUME NEW q \in Message, InsertStep(q) \/ TimeStep(q) PROVE Goal
  BY <1>2 DEF InsertStep, TimeStep, TakeSeq, TakeXid, CommitInsert, AbortInsert, LeaseRunsOut,
              BackoffEnds, Purge, QueueTypeOK, reader, delivery, inserts
<1>3. ASSUME NEW w \in Worker, WorkStep(w) PROVE Goal
  <2>1. CASE Claim(w) \/ DropGoneFails(w)
    <3>1. PICK q \in Message : attempts' = [attempts EXCEPT ![q] = @ + 1]
      BY <2>1 DEF Claim, DropGoneFails
    <3>2. stage' = stage /\ queued' = queued
      BY <2>1 DEF Claim, DropGoneFails, inserts, reader
    <3>3. QED
      BY <3>1, <3>2 DEF QueueTypeOK
  <2>2. CASE AdvanceWrite(w)
    BY <2>2 DEF AdvanceWrite, QueueTypeOK, inserts
  <2>3. CASE ClaimNone(w) \/ AdvanceRead(w) \/ AdvanceIdle(w) \/ Settle(w) \/ GiveUp(w) \/ CallFails(w)
    BY <1>0, <2>3 DEF ClaimNone, AdvanceRead, AdvanceIdle, Settle, GiveUp, CallFails, Drop,
                      inserts, reader, delivery
  <2>4. QED
    BY <1>3, <2>1, <2>2, <2>3 DEF WorkStep
<1>4. ASSUME NEW w \in Worker, Handle(w) PROVE Goal
  BY <1>0, <1>4 DEF Handle, BeginApply, SkipApplied, Apply, ProcessFails, CommitAnswerLost,
                    RecordDeadLetter, DeadLetterFails, inserts, reader, delivery
<1>5. ASSUME NEW w \in Worker, CrashHandling(w) PROVE Goal
  BY <1>0, <1>5 DEF CrashHandling, Crash, Drop, inserts, delivery
<1>6. CASE UNCHANGED vars
  BY <1>0, <1>1, <1>6 DEF vars, queueVars, inserts, reader, delivery
<1>7. QED
  BY <1>1, <1>2, <1>3, <1>4, <1>5, <1>6 DEF Next, Transport

\* How a delivery comes to be over: it was, its message is purged, a worker
\* that holds its lease settles it, or it is given up.
LEMMA WaysToEnd ==
  ASSUME QueueTypeOK, [Next]_vars, NEW m \in Message, Ended(m)'
  PROVE  \/ Ended(m)
         \/ stage'[m] = "purged"
         \/ \E w \in Worker : Settle(w) /\ HoldsLease(w) /\ EndsDelivery(w) /\ job[w].msg = m
         \/ Exhausted(m) /\ \E w \in Worker : GiveUp(w)
<1> DEFINE Goal == \/ Ended(m)
                   \/ stage'[m] = "purged"
                   \/ \E w \in Worker : Settle(w) /\ HoldsLease(w) /\ EndsDelivery(w) /\ job[w].msg = m
                   \/ Exhausted(m) /\ \E w \in Worker : GiveUp(w)
<1>0. m \in queued' /\ row'[m] = "none"
  BY DEF Ended
<1>1. ASSUME queued' = queued, row' = row PROVE Ended(m)
  BY <1>0, <1>1 DEF Ended
<1>2. ASSUME NEW q \in Message, InsertStep(q) \/ TimeStep(q) PROVE Goal
  BY <1>0, <1>2 DEF InsertStep, TimeStep, TakeSeq, TakeXid, CommitInsert, AbortInsert, LeaseRunsOut,
                    BackoffEnds, Purge, QueueTypeOK, reader, delivery, Ended
<1>3. ASSUME NEW w \in Worker, WorkStep(w) PROVE Goal
  <2>1. CASE Claim(w)
    <3>1. PICK q \in Message :
            \/ stage[q] = "purged" /\ row' = [row EXCEPT ![q] = "none"]
            \/ row' = [row EXCEPT ![q] = "leased"]
      BY <2>1 DEF Claim
    <3>2. stage' = stage /\ queued' = queued
      BY <2>1 DEF Claim, inserts, reader
    <3>3. QED
      BY <1>0, <3>1, <3>2 DEF QueueTypeOK, Ended
  <2>2. CASE DropGoneFails(w)
    <3>1. PICK q \in Message : row' = [row EXCEPT ![q] = "leased"]
      BY <2>2 DEF DropGoneFails
    <3>2. queued' = queued
      BY <2>2 DEF DropGoneFails, reader
    <3>3. QED
      BY <1>0, <3>1, <3>2 DEF QueueTypeOK, Ended
  <2>3. CASE AdvanceWrite(w)
    BY <1>0, <2>3 DEF AdvanceWrite, QueueTypeOK, Ended
  <2>4. CASE Settle(w)
    <3>1. queued' = queued
      BY <2>4 DEF Settle, reader
    <3>2. CASE row[m] = "none"
      BY <1>0, <3>1, <3>2 DEF Ended
    <3>3. CASE row[m] # "none"
      <4>1. HoldsLease(w) /\ job[w].msg = m /\ EndsDelivery(w)
        BY <1>0, <2>4, <3>3 DEF Settle, QueueTypeOK
      <4>2. QED
        BY <2>4, <4>1
    <3>4. QED
      BY <3>2, <3>3
  <2>5. CASE GiveUp(w)
    BY <1>0, <2>5 DEF GiveUp, reader, Ended
  <2>6. CASE ClaimNone(w) \/ AdvanceRead(w) \/ AdvanceIdle(w) \/ CallFails(w)
    BY <1>1, <2>6 DEF ClaimNone, AdvanceRead, AdvanceIdle, CallFails, Drop, reader, delivery
  <2>7. QED
    BY <1>3, <2>1, <2>2, <2>3, <2>4, <2>5, <2>6 DEF WorkStep
<1>4. ASSUME NEW w \in Worker, Handle(w) PROVE Goal
  BY <1>1, <1>4 DEF Handle, BeginApply, SkipApplied, Apply, ProcessFails, CommitAnswerLost,
                    RecordDeadLetter, DeadLetterFails, reader, delivery
<1>5. ASSUME NEW w \in Worker, CrashHandling(w) PROVE Goal
  BY <1>1, <1>5 DEF CrashHandling, Crash, Drop, delivery
<1>6. CASE UNCHANGED vars
  BY <1>1, <1>6 DEF vars, queueVars, reader, delivery
<1>7. QED
  BY <1>2, <1>3, <1>4, <1>5, <1>6 DEF Next, Transport

\* The workers' outcomes go on saying what the member's database has.
LEMMA OutcomeStep ==
  ASSUME QueueTypeOK, ConsumerTypeOK, QueuedInv, OutcomeInv, [Next]_vars
  PROVE  OutcomeInv'
<1> DEFINE Good(w) ==
      /\ IF pc[w] \in {"handling", "settle"} THEN job[w].msg \in queued ELSE job[w] = NoJob
      /\ pc[w] = "settle" =>
           /\ out[w] \in {"ack", "nak", "term"}
           /\ out[w] = "ack" => job[w].msg \in inbox
           /\ out[w] = "term" => job[w].msg \in dead
<1>1. /\ queued \subseteq queued' /\ inbox \subseteq inbox' /\ dead \subseteq dead'
  <2>1. ASSUME NEW m \in Message
        PROVE  queued \subseteq queued' /\ inbox \subseteq inbox' /\ dead \subseteq dead'
    BY NothingIsTakenBack
  <2>2. CASE Message = {}
    BY <2>2, QueueAssumption DEF QueueTypeOK, ConsumerTypeOK
  <2>3. QED
    BY <2>1, <2>2
<1>2. ASSUME NEW v \in Worker, pc'[v] = pc[v], job'[v] = job[v], out'[v] = out[v] PROVE Good(v)'
  BY <1>1, <1>2 DEF OutcomeInv
<1> DEFINE Others(w) == \A v \in Worker \ {w} : pc'[v] = pc[v] /\ job'[v] = job[v] /\ out'[v] = out[v]
<1>3. ASSUME NEW w \in Worker, Others(w), Good(w)' PROVE OutcomeInv'
  BY <1>2, <1>3 DEF OutcomeInv
<1>4. ASSUME UNCHANGED worker PROVE OutcomeInv'
  BY <1>2, <1>4 DEF OutcomeInv, worker
<1>5. ASSUME NEW q \in Message, InsertStep(q) \/ TimeStep(q) PROVE UNCHANGED worker
  BY <1>5 DEF InsertStep, TimeStep, TakeSeq, TakeXid, CommitInsert, AbortInsert, LeaseRunsOut,
              BackoffEnds, Purge, worker
<1>6. ASSUME NEW w \in Worker, WorkStep(w) \/ CrashHandling(w) PROVE OutcomeInv'
  <2>1. CASE Claim(w)
    <3>1. PICK m \in Message :
            /\ Due(m)
            /\ \/ pc' = [pc EXCEPT ![w] = "advance"] /\ UNCHANGED job
               \/ /\ pc' = [pc EXCEPT ![w] = "handling"]
                  /\ job' = [job EXCEPT ![w] = [msg |-> m, attempt |-> attempts[m] + 1]]
      BY <2>1 DEF Claim, OrderedClaimable, Claimable
    <3>2. m \in queued /\ pc[w] = "claim" /\ out' = out
      BY <2>1, <3>1 DEF Due, QueuedInv, Claim
    <3>3. Others(w)
      BY <3>1, <3>2 DEF QueueTypeOK
    <3>4. Good(w)'
      BY <1>1, <3>1, <3>2 DEF QueueTypeOK, OutcomeInv
    <3>5. QED
      BY <1>3, <3>3, <3>4
  <2>2. CASE ClaimNone(w) \/ AdvanceRead(w) \/ AdvanceIdle(w) \/ AdvanceWrite(w)
    <3>1. /\ pc[w] \in {"claim", "advance", "write"} /\ job' = job /\ out' = out
          /\ \E p \in {"claim", "advance", "write"} : pc' = [pc EXCEPT ![w] = p]
      BY <2>2 DEF ClaimNone, AdvanceRead, AdvanceIdle, AdvanceWrite
    <3>2. Others(w) /\ Good(w)'
      BY <3>1 DEF QueueTypeOK, OutcomeInv
    <3>3. QED
      BY <1>3, <3>2
  <2>3. CASE Settle(w) \/ CallFails(w) \/ CrashHandling(w)
    <3>1. /\ pc' = [pc EXCEPT ![w] = "claim"] /\ job' = [job EXCEPT ![w] = NoJob]
          /\ out' = [out EXCEPT ![w] = "none"]
      BY <2>3 DEF Settle, CallFails, CrashHandling, Crash, Drop
    <3>2. Others(w) /\ Good(w)'
      BY <3>1 DEF QueueTypeOK
    <3>3. QED
      BY <1>3, <3>2
  <2>4. CASE GiveUp(w) \/ DropGoneFails(w)
    BY <1>4, <2>4 DEF GiveUp, DropGoneFails
  <2>5. QED
    BY <1>6, <2>1, <2>2, <2>3, <2>4 DEF WorkStep
<1>7. ASSUME NEW w \in Worker, Handle(w) PROVE OutcomeInv'
  <2>1. CASE UNCHANGED worker
    BY <1>4, <2>1
  <2>2. CASE ~UNCHANGED worker
    <3>1. /\ pc[w] = "handling" /\ job' = job /\ pc' = [pc EXCEPT ![w] = "settle"]
          /\ \E o \in {"ack", "nak", "term"} :
               /\ out' = [out EXCEPT ![w] = o]
               /\ o = "ack" => job[w].msg \in inbox'
               /\ o = "term" => job[w].msg \in dead'
      BY <1>7, <2>2 DEF Handle, BeginApply, SkipApplied, Apply, CommitEffect, ProcessFails,
                        CommitAnswerLost, AfterFailure, RecordDeadLetter, DeadLetterFails, Return, store
    <3>2. PICK o \in {"ack", "nak", "term"} :
               /\ out' = [out EXCEPT ![w] = o]
               /\ o = "ack" => job[w].msg \in inbox'
               /\ o = "term" => job[w].msg \in dead'
      BY <3>1
    <3>3. Others(w)
      BY <3>1, <3>2 DEF QueueTypeOK
    <3>4. Good(w)'
      BY <1>1, <3>1, <3>2 DEF QueueTypeOK, OutcomeInv
    <3>5. QED
      BY <1>3, <3>3, <3>4
  <2>3. QED
    BY <2>1, <2>2
<1>8. CASE UNCHANGED vars
  BY <1>4, <1>8 DEF vars, queueVars
<1>9. QED
  BY <1>4, <1>5, <1>6, <1>7, <1>8 DEF Next, Transport

\* A step that ends a delivery has a reason: the event was applied or is a
\* dead letter, its message is purged, or its attempts are spent.
LEMMA DropStep ==
  ASSUME QueueTypeOK, ConsumerTypeOK, QueuedInv, OutcomeInv, NotDroppedEarly, [Next]_vars
  PROVE  NotDroppedEarly'
<1> SUFFICES ASSUME NEW m \in Message, Ended(m)'
             PROVE  (m \in inbox \/ m \in dead \/ stage[m] = "purged" \/ attempts[m] >= StoredMax)'
  BY DEF NotDroppedEarly
<1>1. /\ stage[m] = "purged" => stage'[m] = "purged"
      /\ inbox \subseteq inbox' /\ dead \subseteq dead'
      /\ attempts'[m] >= attempts[m]
  BY NothingIsTakenBack
<1>2. attempts[m] \in Nat /\ attempts'[m] \in Nat /\ StoredMax \in Nat
  BY QueueAssumption, QueueStepTypes, ConsumerStepIsQueueStep DEF QueueTypeOK
<1>3. m \in inbox \/ m \in dead \/ stage[m] = "purged" \/ stage'[m] = "purged" \/ attempts[m] >= StoredMax
  <2>1. CASE Ended(m)
    BY <2>1 DEF NotDroppedEarly
  <2>2. CASE stage'[m] = "purged"
    BY <2>2
  <2>3. ASSUME NEW w \in Worker, Settle(w), HoldsLease(w), EndsDelivery(w), job[w].msg = m
        PROVE  m \in inbox \/ m \in dead \/ attempts[m] >= StoredMax
    BY <2>3 DEF Settle, HoldsLease, EndsDelivery, OutcomeInv
  <2>4. CASE Exhausted(m)
    BY <2>4 DEF Exhausted
  <2>5. QED
    BY <2>1, <2>2, <2>3, <2>4, WaysToEnd
<1>4. QED
  BY <1>1, <1>2, <1>3

\* An event is dropped without its effect or a dead letter only when its
\* deliveries are used up or the retention takes it.
THEOREM NothingDroppedEarly == Spec => []NotDroppedEarly
<1>1. Init => OutcomeInv /\ NotDroppedEarly
  BY DEF Init, QueueInit, OutcomeInv, NotDroppedEarly, Ended, NoJob
<1>2. /\ QueueTypeOK /\ ConsumerTypeOK /\ QueuedInv /\ OutcomeInv /\ NotDroppedEarly /\ [Next]_vars
      => OutcomeInv' /\ NotDroppedEarly'
  BY OutcomeStep, DropStep
<1>3. QED
  BY <1>1, <1>2, ConsumerInvariants, PTL DEF Spec

-----------------------------------------------------------------------------
(* Failures of handlers lose no event.                                     *)

\* While nothing but handlers has failed, none of the faults is a step.
LEMMA NoFaultStep ==
  ASSUME QueueTypeOK, ConsumerTypeOK, [Next]_vars, faults' = 0, failures' = 0
  PROVE  /\ faults = 0 /\ failures = 0
         /\ \/ \E q \in Message : \/ TakeSeq(q) \/ TakeXid(q) \/ CommitInsert(q) \/ TimeStep(q)
            \/ \E w \in Worker : \/ Claim(w) \/ ClaimNone(w) \/ AdvanceRead(w) \/ AdvanceIdle(w)
                                 \/ AdvanceWrite(w) \/ Settle(w) \/ GiveUp(w)
            \/ \E w \in Worker : \/ BeginApply(w) \/ SkipApplied(w) \/ Apply(w) \/ ProcessFails(w)
                                 \/ RecordDeadLetter(w)
            \/ UNCHANGED vars
<1>1. /\ \A k : ~Fault(k)
      /\ \A k : ~StoreFault(k)
  BY DEF Fault, StoreFault, QueueTypeOK, ConsumerTypeOK
<1>2. ~(\E q \in Message : AbortInsert(q))
  BY <1>1 DEF AbortInsert
<1>3. ~(\E w \in Worker : CallFails(w) \/ DropGoneFails(w) \/ CrashHandling(w))
  BY <1>1 DEF CallFails, DropGoneFails, CrashHandling, Crash
<1>4. ~(\E w \in Worker : CommitAnswerLost(w) \/ DeadLetterFails(w))
  BY <1>1 DEF CommitAnswerLost, DeadLetterFails
<1> DEFINE Rest ==
      \/ \E q \in Message : \/ TakeSeq(q) \/ TakeXid(q) \/ CommitInsert(q) \/ TimeStep(q)
      \/ \E w \in Worker : \/ Claim(w) \/ ClaimNone(w) \/ AdvanceRead(w) \/ AdvanceIdle(w)
                           \/ AdvanceWrite(w) \/ Settle(w) \/ GiveUp(w)
      \/ \E w \in Worker : \/ BeginApply(w) \/ SkipApplied(w) \/ Apply(w) \/ ProcessFails(w)
                           \/ RecordDeadLetter(w)
      \/ UNCHANGED vars
<1>5. Rest
  BY <1>2, <1>3, <1>4 DEF Next, Transport, InsertStep, WorkStep, Handle
<1>6. faults' = faults
  BY <1>5 DEF TakeSeq, TakeXid, CommitInsert, TimeStep, LeaseRunsOut, BackoffEnds, Purge,
              Claim, ClaimNone, AdvanceRead, AdvanceIdle, AdvanceWrite, Settle, GiveUp,
              BeginApply, SkipApplied, Apply, ProcessFails, RecordDeadLetter, vars, queueVars
<1>7. failures' = failures
  BY <1>2, <1>3, <1>4 DEF Next, Transport, Handle, consumer,
              BeginApply, SkipApplied, Apply, ProcessFails, RecordDeadLetter, vars
<1>8. QED
  BY <1>5, <1>6, <1>7

\* A job of a worker with an event in hand stays while the worker handles and
\* goes when it settles; the outcome it returns is a nak only before the limit.
LEMMA JobStays ==
  ASSUME QueueTypeOK, ConsumerTypeOK, OutcomeInv, [Next]_vars, faults' = 0, failures' = 0,
         NEW w \in Worker, job[w].msg \in Message
  PROVE  job'[w] = job[w] \/ Settle(w)
<1>0. pc[w] \in {"handling", "settle"}
  BY QueueAssumption DEF OutcomeInv, NoJob
<1>1. ASSUME NEW q \in Message, TakeSeq(q) \/ TakeXid(q) \/ CommitInsert(q) \/ TimeStep(q)
      PROVE  job' = job
  BY <1>1 DEF TakeSeq, TakeXid, CommitInsert, TimeStep, LeaseRunsOut, BackoffEnds, Purge, worker
<1>2. ASSUME NEW v \in Worker, Claim(v) PROVE job'[w] = job[w]
  <2>1. v # w
    BY <1>0, <1>2 DEF Claim
  <2>2. PICK m \in Message :
          UNCHANGED job \/ job' = [job EXCEPT ![v] = [msg |-> m, attempt |-> attempts[m] + 1]]
    BY <1>2 DEF Claim
  <2>3. QED
    BY <2>1, <2>2 DEF QueueTypeOK
<1>3. ASSUME NEW v \in Worker,
             ClaimNone(v) \/ AdvanceRead(v) \/ AdvanceIdle(v) \/ AdvanceWrite(v) \/ GiveUp(v)
      PROVE  job' = job
  BY <1>3 DEF ClaimNone, AdvanceRead, AdvanceIdle, AdvanceWrite, GiveUp, worker
<1>4. ASSUME NEW v \in Worker, Settle(v) PROVE job'[w] = job[w] \/ Settle(w)
  <2>1. job' = [job EXCEPT ![v] = NoJob]
    BY <1>4 DEF Settle
  <2>2. QED
    BY <1>4, <2>1 DEF QueueTypeOK
<1>5. ASSUME NEW v \in Worker,
             BeginApply(v) \/ SkipApplied(v) \/ Apply(v) \/ ProcessFails(v) \/ RecordDeadLetter(v)
      PROVE  job' = job
  BY <1>5 DEF BeginApply, SkipApplied, Apply, ProcessFails, AfterFailure, RecordDeadLetter, Return, worker
<1>6. CASE UNCHANGED vars
  BY <1>6 DEF vars, queueVars, worker
<1>7. QED
  BY <1>1, <1>2, <1>3, <1>4, <1>5, <1>6, NoFaultStep

\* A worker about to settle with a nak had attempts left.
LastNak == \A w \in Worker : pc[w] = "settle" /\ out[w] = "nak" => job[w].attempt < InstanceMax

\* Only a failure before the limit makes a nak.
LEMMA NakStep ==
  ASSUME QueueTypeOK, ConsumerTypeOK, LastNak, [Next]_vars, faults' = 0, failures' = 0
  PROVE  LastNak'
<1>1. ASSUME NEW w \in Worker,
             \/ BeginApply(w) \/ SkipApplied(w) \/ Apply(w) \/ ProcessFails(w) \/ RecordDeadLetter(w)
      PROVE  LastNak'
  <2>1. CASE UNCHANGED worker
    BY <2>1 DEF LastNak, worker
  <2>2. CASE ~UNCHANGED worker
    <3>1. PICK o \in {"ack", "nak", "term"} :
            /\ job' = job /\ pc' = [pc EXCEPT ![w] = "settle"] /\ out' = [out EXCEPT ![w] = o]
            /\ o = "nak" => job[w].attempt < InstanceMax
      BY <1>1, <2>2 DEF BeginApply, SkipApplied, Apply, ProcessFails, AfterFailure, RecordDeadLetter, Return
    <3>2. QED
      BY <3>1 DEF LastNak, QueueTypeOK
  <2>3. QED
    BY <2>1, <2>2
<1>2. ASSUME NEW q \in Message, TakeSeq(q) \/ TakeXid(q) \/ CommitInsert(q) \/ TimeStep(q)
      PROVE  LastNak'
  BY <1>2 DEF TakeSeq, TakeXid, CommitInsert, TimeStep, LeaseRunsOut, BackoffEnds, Purge, worker, LastNak
<1>3. ASSUME NEW w \in Worker,
             \/ Claim(w) \/ ClaimNone(w) \/ AdvanceRead(w) \/ AdvanceIdle(w)
             \/ AdvanceWrite(w) \/ Settle(w)
      PROVE  LastNak'
  <2>1. /\ \E p \in {"claim", "advance", "write", "handling"} : pc' = [pc EXCEPT ![w] = p]
        /\ \A v \in Worker \ {w} : job'[v] = job[v] /\ out'[v] = out[v]
    <3>1. CASE Claim(w)
      <4>1. PICK m \in Message :
              \/ pc' = [pc EXCEPT ![w] = "advance"] /\ UNCHANGED job
              \/ /\ pc' = [pc EXCEPT ![w] = "handling"]
                 /\ job' = [job EXCEPT ![w] = [msg |-> m, attempt |-> attempts[m] + 1]]
        BY <3>1 DEF Claim
      <4>2. out' = out
        BY <3>1 DEF Claim
      <4>3. QED
        BY <4>1, <4>2 DEF QueueTypeOK
    <3>2. CASE ~Claim(w)
      BY <1>3, <3>2 DEF ClaimNone, AdvanceRead, AdvanceIdle, AdvanceWrite, Settle, QueueTypeOK
    <3>3. QED
      BY <3>1, <3>2
  <2>2. PICK p \in {"claim", "advance", "write", "handling"} : pc' = [pc EXCEPT ![w] = p]
    BY <2>1
  <2>3. QED
    BY <2>1, <2>2 DEF LastNak, QueueTypeOK
<1>4. CASE \E w \in Worker : GiveUp(w)
  BY <1>4 DEF GiveUp, worker, LastNak
<1>5. CASE UNCHANGED vars
  BY <1>5 DEF vars, queueVars, worker, LastNak
<1>6. QED
  BY <1>1, <1>2, <1>3, <1>4, <1>5, NoFaultStep

\* A delivery in flight was so before, under the same attempt, or a worker has
\* just claimed it.
LEMMA WaysToFly ==
  ASSUME QueueTypeOK, ConsumerTypeOK, [Next]_vars, faults' = 0, failures' = 0,
         NEW m \in Message, m \in InFlight'
  PROVE  \/ /\ m \in InFlight /\ attempts'[m] = attempts[m]
            /\ \A w \in Worker : Settle(w) => job[w] # [msg |-> m, attempt |-> attempts[m]]
         \/ \E w \in Worker : job'[w] = [msg |-> m, attempt |-> attempts'[m]]
<1> DEFINE NoneSettles == \A w \in Worker : Settle(w) => job[w] # [msg |-> m, attempt |-> attempts[m]]
<1> DEFINE Claimed == \E w \in Worker : job'[w] = [msg |-> m, attempt |-> attempts'[m]]
<1> DEFINE Goal == \/ m \in InFlight /\ attempts'[m] = attempts[m] /\ NoneSettles
                   \/ Claimed
<1>0. row'[m] \in {"leased", "expired"}
  BY DEF InFlight
<1>1. NoneSettles
  <2> SUFFICES ASSUME NEW w \in Worker, Settle(w), job[w] = [msg |-> m, attempt |-> attempts[m]]
               PROVE  FALSE
    OBVIOUS
  <2>1. job[w].msg = m /\ job[w].attempt = attempts[m]
    OBVIOUS
  <2>2. CASE HoldsLease(w)
    <3>1. row'[m] \in {"none", "backoff"}
      BY <2>1, <2>2 DEF Settle, QueueTypeOK
    <3>2. QED
      BY <1>0, <3>1
  <2>3. CASE ~HoldsLease(w)
    <3>1. row' = row
      BY <2>3 DEF Settle
    <3>2. QED
      BY <1>0, <2>1, <2>3, <3>1 DEF HoldsLease, InFlight
  <2>4. QED
    BY <2>2, <2>3
<1>2. ASSUME row' = row, attempts' = attempts PROVE Goal
  BY <1>0, <1>1, <1>2 DEF InFlight
<1>3. ASSUME NEW q \in Message, TakeSeq(q) \/ TakeXid(q) \/ CommitInsert(q) PROVE Goal
  BY <1>2, <1>3 DEF TakeSeq, TakeXid, CommitInsert, delivery
<1>4. ASSUME NEW q \in Message, TimeStep(q) PROVE Goal
  <2>1. attempts' = attempts
    BY <1>4 DEF TimeStep, LeaseRunsOut, BackoffEnds, Purge
  <2>2. m \in InFlight
    BY <1>0, <1>4 DEF TimeStep, LeaseRunsOut, BackoffEnds, Purge, InFlight, QueueTypeOK
  <2>3. QED
    BY <1>1, <2>1, <2>2
<1>5. ASSUME NEW w \in Worker, Claim(w) PROVE Goal
  <2>1. PICK q \in Message :
          /\ attempts' = [attempts EXCEPT ![q] = @ + 1]
          /\ \/ row' = [row EXCEPT ![q] = "none"]
             \/ /\ row' = [row EXCEPT ![q] = "leased"]
                /\ job' = [job EXCEPT ![w] = [msg |-> q, attempt |-> attempts[q] + 1]]
    BY <1>5 DEF Claim
  <2>2. CASE q = m
    <3>1. job'[w] = [msg |-> m, attempt |-> attempts'[m]]
      BY <1>0, <2>1, <2>2 DEF QueueTypeOK
    <3>2. QED
      BY <3>1
  <2>3. CASE q # m
    <3>1. m \in InFlight /\ attempts'[m] = attempts[m]
      BY <1>0, <2>1, <2>3 DEF QueueTypeOK, InFlight
    <3>2. QED
      BY <1>1, <3>1
  <2>4. QED
    BY <2>2, <2>3
<1>6. ASSUME NEW w \in Worker, AdvanceWrite(w) \/ Settle(w) \/ GiveUp(w) PROVE Goal
  <2>1. attempts' = attempts
    BY <1>6 DEF AdvanceWrite, Settle, GiveUp
  <2>2. m \in InFlight
    <3>1. CASE AdvanceWrite(w)
      BY <1>0, <3>1 DEF AdvanceWrite, InFlight
    <3>2. CASE Settle(w)
      BY <1>0, <3>2 DEF Settle, InFlight, QueueTypeOK
    <3>3. CASE GiveUp(w)
      BY <1>0, <3>3 DEF GiveUp, InFlight
    <3>4. QED
      BY <1>6, <3>1, <3>2, <3>3
  <2>3. QED
    BY <1>1, <2>1, <2>2
<1>7. ASSUME NEW w \in Worker, ClaimNone(w) \/ AdvanceRead(w) \/ AdvanceIdle(w) PROVE Goal
  BY <1>2, <1>7 DEF ClaimNone, AdvanceRead, AdvanceIdle, delivery
<1>8. ASSUME NEW w \in Worker,
             BeginApply(w) \/ SkipApplied(w) \/ Apply(w) \/ ProcessFails(w) \/ RecordDeadLetter(w)
      PROVE  Goal
  BY <1>2, <1>8 DEF BeginApply, SkipApplied, Apply, ProcessFails, RecordDeadLetter, delivery
<1>9. CASE UNCHANGED vars
  BY <1>2, <1>9 DEF vars, queueVars, delivery
<1>10. QED
  BY <1>3, <1>4, <1>5, <1>6, <1>7, <1>8, <1>9, NoFaultStep

\* One step keeps every event that is not purged: a delivery that ends was
\* applied, is a dead letter or has its last worker still at it.
LEMMA KeptStep ==
  ASSUME InstanceMax <= StoredMax,
         QueueTypeOK, ConsumerTypeOK, QueuedInv, OutcomeInv, KeptInv, [Next]_vars
  PROVE  KeptInv'
<1> SUFFICES ASSUME faults' = 0, failures' = 0
             PROVE  /\ \A m \in Message :
                         stage'[m] # "purged" =>
                           /\ m \in InFlight' =>
                                \E w \in Worker : job'[w] = [msg |-> m, attempt |-> attempts'[m]]
                           /\ Ended(m)' => \/ Kept(m)'
                                           \/ \E w \in Worker : job'[w].msg = m /\ job'[w].attempt >= InstanceMax
                    /\ LastNak'
  BY DEF KeptInv, LastNak
<1>0. faults = 0 /\ failures = 0
  BY NoFaultStep
<1>1. LastNak
  BY <1>0 DEF KeptInv, LastNak
<1>2. LastNak'
  BY <1>1, NakStep
<1>3. StoredMax \in Nat /\ InstanceMax \in Nat
  BY QueueAssumption, ConsumerAssumption
<1>4. ASSUME NEW m \in Message, stage'[m] # "purged"
      PROVE  /\ stage[m] # "purged"
             /\ Kept(m) => Kept(m)'
  BY <1>4, NothingIsTakenBack DEF Kept
<1>5. ASSUME NEW m \in Message, stage'[m] # "purged", m \in InFlight'
      PROVE  \E w \in Worker : job'[w] = [msg |-> m, attempt |-> attempts'[m]]
  <2>1. CASE \E w \in Worker : job'[w] = [msg |-> m, attempt |-> attempts'[m]]
    BY <2>1
  <2>2. CASE /\ m \in InFlight /\ attempts'[m] = attempts[m]
             /\ \A w \in Worker : Settle(w) => job[w] # [msg |-> m, attempt |-> attempts[m]]
    <3>1. PICK w \in Worker : job[w] = [msg |-> m, attempt |-> attempts[m]]
      BY <1>0, <1>4, <1>5, <2>2 DEF KeptInv
    <3>2. job'[w] = job[w]
      BY <2>2, <3>1, JobStays
    <3>3. QED
      BY <2>2, <3>1, <3>2
  <2>3. QED
    BY <1>5, <2>1, <2>2, WaysToFly
<1>6. ASSUME NEW m \in Message, stage'[m] # "purged", Ended(m)'
      PROVE  \/ Kept(m)'
             \/ \E w \in Worker : job'[w].msg = m /\ job'[w].attempt >= InstanceMax
  <2>0. ASSUME NEW w \in Worker, job[w].msg = m, job[w].attempt >= InstanceMax
        PROVE  \/ Kept(m)'
               \/ \E v \in Worker : job'[v].msg = m /\ job'[v].attempt >= InstanceMax
    <3>1. CASE job'[w] = job[w]
      BY <2>0, <3>1
    <3>2. CASE Settle(w)
      <4>1. out[w] # "nak"
        BY <1>1, <1>3, <2>0, <3>2 DEF LastNak, Settle, QueueTypeOK, Job
      <4>2. Kept(m)
        BY <2>0, <3>2, <4>1 DEF OutcomeInv, Kept, Settle
      <4>3. QED
        BY <1>4, <1>6, <4>2
    <3>3. QED
      BY <2>0, <3>1, <3>2, JobStays
  <2>1. CASE Ended(m)
    <3>1. \/ Kept(m)
          \/ \E w \in Worker : job[w].msg = m /\ job[w].attempt >= InstanceMax
      BY <1>0, <1>4, <1>6, <2>1 DEF KeptInv
    <3>2. QED
      BY <1>4, <1>6, <2>0, <3>1
  <2>2. ASSUME NEW w \in Worker, Settle(w), HoldsLease(w), EndsDelivery(w), job[w].msg = m
        PROVE  Kept(m)'
    <3>1. out[w] # "nak"
      BY <1>1, <1>3, <2>2 DEF LastNak, Settle, EndsDelivery, QueueTypeOK, Job
    <3>2. Kept(m)
      BY <2>2, <3>1 DEF OutcomeInv, Kept, Settle
    <3>3. QED
      BY <1>4, <1>6, <3>2
  <2>3. CASE Exhausted(m)
    <3>1. m \in InFlight /\ attempts[m] >= InstanceMax
      BY <1>3, <2>3 DEF Exhausted, InFlight, QueueTypeOK
    <3>2. PICK w \in Worker : job[w] = [msg |-> m, attempt |-> attempts[m]]
      BY <1>0, <1>4, <1>6, <3>1 DEF KeptInv
    <3>3. job[w].msg = m /\ job[w].attempt >= InstanceMax
      BY <3>1, <3>2
    <3>4. QED
      BY <2>0, <3>3
  <2>4. QED
    BY <1>6, <2>1, <2>2, <2>3, WaysToEnd
<1>7. QED
  BY <1>2, <1>5, <1>6

\* Where no worker dies and no call or write fails, a handler that fails and
\* leases that run out lose no event: it was applied or is a dead letter once
\* its delivery is over. The declared limit must not exceed the stored one;
\* with a declared limit above it the last failure is a nak.
THEOREM FailuresAreKept ==
  ASSUME InstanceMax <= StoredMax
  PROVE  Spec => []FailuresBecomeDeadLetters
<1>1. Init => OutcomeInv /\ KeptInv
  BY DEF Init, QueueInit, OutcomeInv, KeptInv, Ended, InFlight, NoJob
<1>2. /\ QueueTypeOK /\ ConsumerTypeOK /\ QueuedInv /\ OutcomeInv /\ KeptInv /\ [Next]_vars
      => OutcomeInv' /\ KeptInv'
  BY OutcomeStep, KeptStep
<1>3. KeptInv => FailuresBecomeDeadLetters
  BY DEF KeptInv, FailuresBecomeDeadLetters, LastFailureIsDeadLetter, Kept
<1>4. QED
  BY <1>1, <1>2, <1>3, ConsumerInvariants, PTL DEF Spec

-----------------------------------------------------------------------------
(* An ordered subscription takes effect in order.                          *)

\* Every event before m in the publishing order is over, as OrderInv has it.
Before(m, q) == stage[q] = "committed" /\ xid[q] < xid[m] /\ seq[q] < seq[m]
Spent(q) == Kept(q) \/ attempts[q] >= StoredMax

\* No step puts an event before one that was queued.
LEMMA NothingComesBefore ==
  ASSUME QueueTypeOK, ReaderInv, QueuedInv, [QueueNext]_queueVars,
         NEW m \in queued, NEW q \in Message, Before(m, q)'
  PROVE  Before(m, q)
<1>0. /\ m \in Message /\ stage[m] \in {"committed", "purged"} /\ xid[m] <= pos.xid
      /\ pos.xid \in Nat /\ xid[m] \in Nat /\ xid[q] \in Nat
  BY QueueAssumption DEF QueuedInv, After, QueueTypeOK
<1>1. CASE UNCHANGED inserts
  BY <1>1 DEF Before, inserts
<1>2. ASSUME NEW p \in Message, InsertStep(p) PROVE Before(m, q)
  <2>1. CASE TakeSeq(p) \/ TakeXid(p) \/ AbortInsert(p)
    <3>1. /\ stage[p] \in {"new", "inserting"} /\ stage'[p] \in {"new", "inserting"}
          /\ \A x \in Message \ {p} : stage'[x] = stage[x] /\ seq'[x] = seq[x] /\ xid'[x] = xid[x]
      BY <2>1 DEF TakeSeq, TakeXid, AbortInsert, QueueTypeOK
    <3>2. p # m /\ p # q
      BY <1>0, <3>1 DEF Before
    <3>3. QED
      BY <1>0, <3>1, <3>2 DEF Before
  <2>2. CASE CommitInsert(p)
    <3>1. /\ stage' = [stage EXCEPT ![p] = "committed"] /\ seq' = seq /\ xid' = xid
          /\ stage[p] = "inserting" /\ xid[p] # 0
      BY <2>2 DEF CommitInsert
    <3>2. CASE p = q
      <4>1. pos.xid < xid[q] /\ xid[q] < xid[m]
        BY <3>1, <3>2 DEF ReaderInv, XidInv, Before
      <4>2. QED
        BY <1>0, <4>1
    <3>3. CASE p # q
      BY <3>1, <3>3 DEF Before, QueueTypeOK
    <3>4. QED
      BY <3>2, <3>3
  <2>3. QED
    BY <1>2, <2>1, <2>2 DEF InsertStep
<1>3. ASSUME NEW p \in Message, TimeStep(p) PROVE Before(m, q)
  BY <1>3 DEF TimeStep, LeaseRunsOut, BackoffEnds, Purge, Before, inserts, QueueTypeOK
<1>4. ASSUME NEW w \in Worker, WorkStep(w) \/ HandlerStep(w) \/ Crash(w) PROVE UNCHANGED inserts
  BY <1>4 DEF WorkStep, Claim, ClaimNone, AdvanceRead, AdvanceIdle, AdvanceWrite, Settle, GiveUp,
              CallFails, DropGoneFails, HandlerStep, InProgress, Crash, inserts
<1>5. CASE UNCHANGED queueVars
  BY <1>1, <1>5 DEF queueVars
<1>6. QED
  BY <1>1, <1>2, <1>3, <1>4, <1>5 DEF QueueNext

\* A worker of an ordered subscription claims an event only when every one
\* before it is over.
LEMMA ClaimsInOrder ==
  ASSUME QueueTypeOK, ConsumerTypeOK, ReaderInv, QueuedInv, NotDroppedEarly, Ordered,
         NEW m \in Message, OrderedClaimable(m), NEW q \in Matching, Before(m, q)
  PROVE  Spent(q)
<1>1. q \in Message
  BY QueueAssumption
<1>2. m \in queued
  BY DEF OrderedClaimable, Due, QueuedInv
<1>3. ~After(q, pos)
  BY <1>1, <1>2 DEF QueuedInv, After, Before, QueueTypeOK
<1>4. q \in queued
  BY <1>3 DEF ReaderInv, NoSkip, Before
<1>5. row[q] = "none"
  BY <1>1 DEF OrderedClaimable, Before, QueueTypeOK
<1>6. QED
  BY <1>1, <1>4, <1>5 DEF NotDroppedEarly, Ended, Spent, Kept, Before

\* What a step adds to the events handled or applied: the one it claims.
LEMMA WaysToHandle ==
  ASSUME QueueTypeOK, ConsumerTypeOK, OnceInv, OutcomeInv, [Next]_vars, NEW m \in Message,
         (\E w \in Worker : job'[w].msg = m) \/ effects'[m] > 0
  PROVE  \/ (\E w \in Worker : job[w].msg = m) \/ effects[m] > 0
         \/ \E w \in Worker : Claim(w) /\ IF Ordered THEN OrderedClaimable(m) ELSE Claimable(w, m)
<1> DEFINE Old == (\E w \in Worker : job[w].msg = m) \/ effects[m] > 0
<1> DEFINE Goal == \/ Old
                   \/ \E w \in Worker : Claim(w) /\ IF Ordered THEN OrderedClaimable(m) ELSE Claimable(w, m)
<1>0. NoJob.msg # m
  BY QueueAssumption DEF NoJob
<1>1. ASSUME effects' = effects, \A w \in Worker : job'[w] \in {job[w], NoJob} PROVE Old
  BY <1>0, <1>1
<1>2. ASSUME NEW q \in Message, InsertStep(q) \/ TimeStep(q), UNCHANGED consumer PROVE Old
  BY <1>1, <1>2 DEF InsertStep, TimeStep, TakeSeq, TakeXid, CommitInsert, AbortInsert, LeaseRunsOut,
                    BackoffEnds, Purge, worker, consumer, store
<1>3. ASSUME NEW w \in Worker, WorkStep(w), UNCHANGED consumer PROVE Goal
  <2>0. effects' = effects
    BY <1>3 DEF consumer, store
  <2>1. CASE Claim(w)
    <3>1. PICK q \in Message :
            /\ IF Ordered THEN OrderedClaimable(q) ELSE Claimable(w, q)
            /\ \/ UNCHANGED job
               \/ job' = [job EXCEPT ![w] = [msg |-> q, attempt |-> attempts[q] + 1]]
      BY <2>1 DEF Claim
    <3>2. CASE q = m
      BY <2>1, <3>1, <3>2
    <3>3. CASE q # m
      BY <2>0, <3>1, <3>3 DEF QueueTypeOK
    <3>4. QED
      BY <3>2, <3>3
  <2>2. CASE ~Claim(w)
    <3>1. \A v \in Worker : job'[v] \in {job[v], NoJob}
      BY <1>3, <2>2 DEF WorkStep, ClaimNone, AdvanceRead, AdvanceIdle, AdvanceWrite, Settle, GiveUp,
                        CallFails, Drop, DropGoneFails, worker, QueueTypeOK
    <3>2. QED
      BY <1>1, <2>0, <3>1
  <2>3. QED
    BY <2>1, <2>2
<1>4. ASSUME NEW w \in Worker, Handle(w) PROVE Old
  <2>1. job' = job
    BY <1>4 DEF Handle, BeginApply, SkipApplied, Apply, ProcessFails, CommitAnswerLost, AfterFailure,
                RecordDeadLetter, DeadLetterFails, Return, worker
  <2>2. \/ effects' = effects
        \/ effects' = [effects EXCEPT ![job[w].msg] = @ + 1]
    BY <1>4 DEF Handle, BeginApply, SkipApplied, Apply, CommitEffect, ProcessFails, CommitAnswerLost,
                RecordDeadLetter, DeadLetterFails, store
  <2>3. QED
    BY <2>1, <2>2 DEF ConsumerTypeOK
<1>5. ASSUME NEW w \in Worker, CrashHandling(w) PROVE Old
  BY <1>1, <1>5 DEF CrashHandling, Crash, Drop, QueueTypeOK
<1>6. CASE UNCHANGED vars
  BY <1>1, <1>6 DEF vars, queueVars, worker, consumer, store
<1>7. QED
  BY <1>2, <1>3, <1>4, <1>5, <1>6 DEF Next, Transport

\* Every step keeps the order.
LEMMA OrderStep ==
  ASSUME QueueTypeOK, ConsumerTypeOK, ReaderInv, QueuedInv, OnceInv, OutcomeInv, NotDroppedEarly,
         OrderInv, [Next]_vars
  PROVE  OrderInv'
<1> SUFFICES ASSUME NEW m \in Message,
                    (\E w \in Worker : job'[w].msg = m) \/ effects'[m] > 0
             PROVE  /\ m \in queued'
                    /\ Ordered => \A q \in Matching : Before(m, q)' => Spent(q)'
  BY DEF OrderInv, Before, Spent
<1>0. queued \subseteq queued'
  BY NothingIsTakenBack
<1>1. ASSUME m \in queued, Ordered => \A q \in Matching : Before(m, q) => Spent(q)
      PROVE  /\ m \in queued'
             /\ Ordered => \A q \in Matching : Before(m, q)' => Spent(q)'
  <2> SUFFICES ASSUME Ordered, NEW q \in Matching, Before(m, q)' PROVE Spent(q)'
    BY <1>0, <1>1
  <2>1. q \in Message
    BY QueueAssumption
  <2>2. Before(m, q)
    BY <1>1, <2>1, NothingComesBefore, ConsumerStepIsQueueStep
  <2>3. Spent(q)
    BY <1>1, <2>2
  <2>4. /\ inbox \subseteq inbox' /\ dead \subseteq dead' /\ attempts'[q] >= attempts[q]
    BY <2>1, NothingIsTakenBack
  <2>5. attempts[q] \in Nat /\ attempts'[q] \in Nat /\ StoredMax \in Nat
    BY <2>1, QueueAssumption, QueueStepTypes, ConsumerStepIsQueueStep DEF QueueTypeOK
  <2>6. QED
    BY <2>3, <2>4, <2>5 DEF Spent, Kept
<1>2. CASE (\E w \in Worker : job[w].msg = m) \/ effects[m] > 0
  BY <1>1, <1>2 DEF OrderInv, Before, Spent
<1>3. ASSUME NEW w \in Worker, IF Ordered THEN OrderedClaimable(m) ELSE Claimable(w, m)
      PROVE  /\ m \in queued'
             /\ Ordered => \A q \in Matching : Before(m, q)' => Spent(q)'
  <2>1. m \in queued
    BY <1>3 DEF OrderedClaimable, Claimable, Due, QueuedInv
  <2>2. Ordered => \A q \in Matching : Before(m, q) => Spent(q)
    BY <1>3, ClaimsInOrder
  <2>3. QED
    BY <1>1, <2>1, <2>2
<1>4. QED
  BY <1>2, <1>3, WaysToHandle

\* In an ordered subscription an event takes effect only after every event
\* published before it was applied, became a dead letter or was given up: for
\* any number of workers and instances, whatever leases run out or fail.
THEOREM EffectsInOrder == Spec => []OrderedEffects
<1>1. Init => OutcomeInv /\ NotDroppedEarly /\ OrderInv
  BY QueueAssumption DEF Init, QueueInit, OutcomeInv, NotDroppedEarly, Ended, OrderInv, NoJob
<1>2. /\ QueueTypeOK /\ ConsumerTypeOK /\ ReaderInv /\ QueuedInv /\ OnceInv /\ OutcomeInv
      /\ NotDroppedEarly /\ OrderInv /\ [Next]_vars
      => OutcomeInv' /\ NotDroppedEarly' /\ OrderInv'
  BY OutcomeStep, DropStep, OrderStep
<1>3. OrderInv => OrderedEffects
  BY QueueAssumption DEF OrderInv, OrderedEffects, Kept
<1>4. QED
  BY <1>1, <1>2, <1>3, ConsumerInvariants, PTL DEF Spec

\* The transport's promises to its workers hold of the consumer's: a delivery
\* that ended stays so, and a live lease protects its delivery.
COROLLARY ConsumerKeepsLeases == Spec => EndedForGood /\ LateOutcomeIsIgnored
  BY ConsumerImplementsQueue, EndedDeliveriesStay, LeasesProtect, PTL
=============================================================================
