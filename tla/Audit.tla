------------------------------- MODULE Audit -------------------------------
(***************************************************************************)
(* Reliable audit (besdk/audit.py): the rows of be_audit_log, which are    *)
(* written with the business change, numbered, sent to the audit component *)
(* and deleted once its backup covers their receipts, while the audit      *)
(* component's own database may be recovered and lose what its backup does *)
(* not have. Replicas of the member run the transfer at the same time; a   *)
(* transaction of the member's database is one step.                       *)
(***************************************************************************)
EXTENDS Integers, FiniteSets

CONSTANTS
  Record,         \* audit records
  Replica,        \* the member's replicas, each with its Auditor.run task
  Batch,          \* BATCH
  Capacity,       \* Auditor.capacity
  MaxRecoveries,  \* bound: recoveries of the audit component
  MaxFaults       \* bound: failed calls and crashes

ASSUME AuditAssumption ==
  /\ IsFiniteSet(Record)
  /\ Batch \in Nat \ {0}
  /\ Capacity \in Nat
  /\ MaxRecoveries \in Nat
  /\ MaxFaults \in Nat

VARIABLES
  row,       \* row[r]: transfer_state of r's row, see RowState
  ord,       \* its identity value, 0 before its INSERT
  numbered,  \* the rows whose seq is set
  receipt,   \* receipt[r]: receipt_epoch and receipt_seq
  pc,        \* where each replica is in run_once
  more,      \* more[p]: p's last numbering took a full batch
  sending,   \* the rows p has read to send
  answer,    \* the receipts p has got for them
  mark,      \* the watermark p has got
  seen,      \* Auditor.backlog_seen
  log,       \* log[r]: r's place on the audit component's current history
  top,       \* top[e]: the last seq of epoch e on it
  backup,    \* backup[e]: the last one its last backup has
  epoch,     \* its database epoch
  backedUp,  \* backed_up_in_epoch
  faults

table == <<row, ord, numbered, receipt>>
receiver == <<log, top, backup, epoch, backedUp>>
task == <<pc, more, sending, answer, mark>>
vars == <<table, receiver, task, seen, faults>>

\* A row of a transaction that has not ended is "open". History: a row whose
\* transaction was rolled back is "void", one that was purged "deleted".
RowState == {"none", "open", "void", "pending", "received", "conflict", "deleted"}

\* Epochs are numbered in their order; 0 is a NULL receipt_epoch.
Epoch == 0..MaxRecoveries + 1
Place == [epoch: Epoch, seq: Nat]
NoPlace == [epoch |-> 0, seq |-> 0]
Receipt == [rec: Record, status: {"received", "conflict"}, at: Place]

\* The backed-up seq of the current epoch, and the ancestors with their forks.
Watermark == [epoch: Epoch, seq: Nat, ancestors: SUBSET Place, backedUp: BOOLEAN]
NoMark == [epoch |-> 0, seq |-> 0, ancestors |-> {}, backedUp |-> FALSE]

Stage == {"start", "drain", "transfer", "send", "store", "watermark", "purge", "backlog"}

TypeOK ==
  /\ row \in [Record -> RowState]
  /\ ord \in [Record -> Nat]
  /\ numbered \in SUBSET Record
  /\ receipt \in [Record -> Place]
  /\ pc \in [Replica -> Stage]
  /\ more \in [Replica -> BOOLEAN]
  /\ sending \in [Replica -> SUBSET Record]
  /\ answer \in [Replica -> SUBSET Receipt]
  /\ mark \in [Replica -> Watermark]
  /\ seen \in [Replica -> Nat]
  /\ log \in [Record -> Place]
  /\ top \in [Epoch -> Nat]
  /\ backup \in [Epoch -> Nat]
  /\ epoch \in Epoch
  /\ backedUp \in BOOLEAN
  /\ faults \in Nat

Init ==
  /\ row = [r \in Record |-> "none"]
  /\ ord = [r \in Record |-> 0]
  /\ numbered = {}
  /\ receipt = [r \in Record |-> NoPlace]
  /\ pc = [p \in Replica |-> "start"]
  /\ more = [p \in Replica |-> FALSE]
  /\ sending = [p \in Replica |-> {}]
  /\ answer = [p \in Replica |-> {}]
  /\ mark = [p \in Replica |-> NoMark]
  /\ seen = [p \in Replica |-> 0]
  /\ log = [r \in Record |-> NoPlace]
  /\ top = [e \in Epoch |-> 0]
  /\ backup = [e \in Epoch |-> 0]
  /\ epoch = 1
  /\ backedUp = FALSE
  /\ faults = 0

-----------------------------------------------------------------------------
(* write: the record is inserted in the transaction of the change it is    *)
(* about. read is the same in a transaction of its own.                    *)

\* _capacity_check, by the backlog the replica has last seen, and _insert.
Write(p, r) ==
  /\ row[r] = "none"
  /\ Capacity > 0 => seen[p] < Capacity
  /\ row' = [row EXCEPT ![r] = "open"]
  /\ ord' = [ord EXCEPT ![r] = 1 + Cardinality({q \in Record : ord[q] # 0})]
  /\ UNCHANGED <<numbered, receipt, receiver, task, seen, faults>>

\* The change commits, or is rolled back and its record with it.
EndWrite(r) ==
  /\ row[r] = "open"
  /\ \E s \in {"pending", "void"} : row' = [row EXCEPT ![r] = s]
  /\ UNCHANGED <<ord, numbered, receipt, receiver, task, seen, faults>>

-----------------------------------------------------------------------------
(* run_once: number, then drain, which numbers and transfers batch after   *)
(* batch, then purge and backlog.                                          *)

\* ORDER BY ord LIMIT BATCH.
FirstOf(rows, q) ==
  /\ q \subseteq rows
  /\ Cardinality(q) = Batch \/ (q = rows /\ Cardinality(q) < Batch)
  /\ \A a \in q, b \in rows \ q : ord[a] < ord[b]

Committed == {r \in Record : row[r] \in {"pending", "received", "conflict"}}

\* number, of run_once and of drain.
Number(p) ==
  /\ pc[p] \in {"start", "drain"}
  /\ \E q \in SUBSET Committed :
       /\ FirstOf(Committed \ numbered, q)
       /\ numbered' = numbered \cup q
       /\ more' = [more EXCEPT ![p] = Cardinality(q) = Batch]
  /\ pc' = [pc EXCEPT ![p] = IF @ = "start" THEN "drain" ELSE "transfer"]
  /\ UNCHANGED <<row, ord, receipt, sending, answer, mark, receiver, seen, faults>>

\* After a transfer of n rows.
Transferred(p, n) ==
  CASE n >= Batch -> "transfer"
    [] n < Batch /\ more[p] -> "drain"
    [] OTHER -> "watermark"

\* transfer, its first transaction.
ReadPending(p) ==
  /\ pc[p] = "transfer"
  /\ \E q \in SUBSET Committed :
       /\ FirstOf({r \in numbered : row[r] = "pending"}, q)
       /\ sending' = [sending EXCEPT ![p] = q]
       /\ pc' = [pc EXCEPT ![p] = IF q = {} THEN Transferred(p, 0) ELSE "send"]
  /\ UNCHANGED <<more, answer, mark, table, receiver, seen, faults>>

\* External: the audit component keeps a record once, by its id.
Submitted(rows) ==
  LET new == {r \in rows : log[r] = NoPlace}
  IN  /\ log' = [r \in Record |->
                   IF r \in new
                     THEN [epoch |-> epoch,
                           seq |-> top[epoch] + Cardinality({q \in new : ord[q] <= ord[r]})]
                     ELSE log[r]]
      /\ top' = [top EXCEPT ![epoch] = @ + Cardinality(new)]
      /\ UNCHANGED <<backup, epoch, backedUp>>

\* Those it refuses (conflict, invalid, an unknown status) are bad.
Send(p) ==
  /\ pc[p] = "send"
  /\ \E bad \in SUBSET sending[p] :
       /\ Submitted(sending[p] \ bad)
       /\ answer' = [answer EXCEPT ![p] =
            {[rec |-> r, status |-> "conflict", at |-> NoPlace] : r \in bad}
              \cup {[rec |-> r, status |-> "received", at |-> log'[r]] : r \in sending[p] \ bad}]
  /\ sending' = [sending EXCEPT ![p] = {}]
  /\ pc' = [pc EXCEPT ![p] = "store"]
  /\ UNCHANGED <<more, mark, table, seen, faults>>

AnswerFor(p, r) == CHOOSE rc \in answer[p] : rc.rec = r

\* transfer, its second transaction: only pending rows take their receipt.
Store(p) ==
  LET mine == {r \in Record : row[r] = "pending" /\ \E rc \in answer[p] : rc.rec = r}
  IN  /\ pc[p] = "store"
      /\ row' = [r \in Record |-> IF r \in mine THEN AnswerFor(p, r).status ELSE row[r]]
      /\ receipt' = [r \in Record |-> IF r \in mine THEN AnswerFor(p, r).at ELSE receipt[r]]
      /\ pc' = [pc EXCEPT ![p] = Transferred(p, Cardinality(answer[p]))]
      /\ answer' = [answer EXCEPT ![p] = {}]
      /\ UNCHANGED <<ord, numbered, more, sending, mark, receiver, seen, faults>>

\* External: the audit component's watermark.
CurrentMark ==
  [epoch |-> epoch,
   seq |-> backup[epoch],
   ancestors |-> {[epoch |-> e, seq |-> top[e]] : e \in {a \in 1..epoch - 1 : top[a] > 0}},
   backedUp |-> backedUp]

GetWatermark(p) ==
  /\ pc[p] = "watermark"
  /\ mark' = [mark EXCEPT ![p] = CurrentMark]
  /\ pc' = [pc EXCEPT ![p] = "purge"]
  /\ UNCHANGED <<more, sending, answer, table, receiver, seen, faults>>

\* Faulty variant: an ancestor's fork covers without a backup of the epoch.
CoveredByFork(w, at) ==
  \/ at.epoch = w.epoch /\ at.seq <= w.seq
  \/ \E a \in w.ancestors : at.epoch = a.epoch /\ at.seq <= a.seq

\* The receipt is at or below the watermark, or at or below the fork of an
\* ancestor that a backup of the current epoch has.
Covered(w, at) ==
  \/ at.epoch = w.epoch /\ at.seq <= w.seq
  \/ w.backedUp /\ \E a \in w.ancestors : at.epoch = a.epoch /\ at.seq <= a.seq

\* Faulty variant: lost branches are forgotten.
LostPastFork(w, at) == \E a \in w.ancestors : at.epoch = a.epoch /\ at.seq > a.seq

\* The receipt is past an ancestor's fork, or of an epoch that is neither the
\* watermark's, nor an ancestor, nor later.
Lost(w, at) ==
  \/ \E a \in w.ancestors : at.epoch = a.epoch /\ at.seq > a.seq
  \/ /\ at.epoch \notin {0, w.epoch}
     /\ \A a \in w.ancestors : at.epoch # a.epoch
     /\ at.epoch <= w.epoch

\* purge: covered rows past the retention are deleted, lost ones are sent
\* again.
Purge(p) ==
  LET received == {r \in Record : row[r] = "received"}
      lost == {r \in received : Lost(mark[p], receipt[r])}
  IN  /\ pc[p] = "purge"
      /\ \E old \in SUBSET {r \in received : Covered(mark[p], receipt[r])} :
           row' = [r \in Record |-> CASE r \in old -> "deleted"
                                     [] r \in lost -> "pending"
                                     [] OTHER -> row[r]]
      /\ receipt' = [r \in Record |-> IF r \in lost THEN NoPlace ELSE receipt[r]]
      /\ mark' = [mark EXCEPT ![p] = NoMark]
      /\ pc' = [pc EXCEPT ![p] = "backlog"]
      /\ UNCHANGED <<ord, numbered, more, sending, answer, receiver, seen, faults>>

\* Faulty variant: refused rows count as well.
BacklogOfAll(p) ==
  /\ pc[p] = "backlog"
  /\ seen' = [seen EXCEPT ![p] = Cardinality({r \in Record : row[r] \in {"pending", "conflict"}})]
  /\ pc' = [pc EXCEPT ![p] = "start"]
  /\ UNCHANGED <<more, sending, answer, mark, table, receiver, faults>>

\* backlog, and the wait for the next run.
Backlog(p) ==
  /\ pc[p] = "backlog"
  /\ seen' = [seen EXCEPT ![p] = Cardinality({r \in Record : row[r] = "pending"})]
  /\ pc' = [pc EXCEPT ![p] = "start"]
  /\ UNCHANGED <<more, sending, answer, mark, table, receiver, faults>>

-----------------------------------------------------------------------------
(* Failures.                                                               *)

Fault ==
  /\ faults < MaxFaults
  /\ faults' = faults + 1

Forget(p) ==
  /\ sending' = [sending EXCEPT ![p] = {}]
  /\ answer' = [answer EXCEPT ![p] = {}]
  /\ mark' = [mark EXCEPT ![p] = NoMark]

\* A call of the run fails: an errs.Error or OSError while the audit component
\* is served skips the rest of that for this run, another failure ends the run.
\* A submission may have been taken though its answer is lost.
Fail(p) ==
  /\ Fault
  /\ Forget(p)
  /\ \E s \in {"start"} \cup IF pc[p] \in {"start", "backlog"} THEN {} ELSE {"backlog"} :
       pc' = [pc EXCEPT ![p] = s]
  /\ \/ UNCHANGED receiver
     \/ pc[p] = "send" /\ Submitted(sending[p])
  /\ UNCHANGED <<more, table, seen>>

\* The replica's process ends and starts again, with a backlog of 0 seen.
Crash(p) ==
  /\ Fault
  /\ Forget(p)
  /\ pc' = [pc EXCEPT ![p] = "start"]
  /\ more' = [more EXCEPT ![p] = FALSE]
  /\ seen' = [seen EXCEPT ![p] = 0]
  /\ UNCHANGED <<table, receiver>>

\* External: the audit component completes a backup.
Backup ==
  /\ backup' = top
  /\ backedUp' = TRUE
  /\ UNCHANGED <<log, top, epoch, table, task, seen, faults>>

\* External: the audit component is recovered: of its history it keeps a
\* prefix, with at least what the backup has, and goes on in a new epoch.
Recover ==
  /\ epoch <= MaxRecoveries
  /\ \E e \in 1..epoch : \E s \in 0..top[e] :
       /\ s >= backup[e]
       /\ \A a \in e + 1..epoch : backup[a] = 0
       /\ top' = [a \in Epoch |-> CASE a < e -> top[a] [] a = e -> s [] OTHER -> 0]
  /\ log' = [r \in Record |-> IF log[r].seq <= top'[log[r].epoch] THEN log[r] ELSE NoPlace]
  /\ epoch' = epoch + 1
  /\ backedUp' = FALSE
  /\ UNCHANGED <<backup, table, task, seen, faults>>

-----------------------------------------------------------------------------
RunStep(p) ==
  \/ Number(p)
  \/ ReadPending(p)
  \/ Send(p)
  \/ Store(p)
  \/ GetWatermark(p)
  \/ Purge(p)
  \/ Backlog(p)

Next ==
  \/ \E r \in Record : EndWrite(r) \/ \E p \in Replica : Write(p, r)
  \/ \E p \in Replica : RunStep(p) \/ Fail(p) \/ Crash(p)
  \/ Backup
  \/ Recover

Spec == Init /\ [][Next]_vars

\* The tasks of the replicas run on, and the audit component is backed up
\* again and again.
FairSpec ==
  /\ Spec
  /\ \A p \in Replica : WF_vars(RunStep(p))
  /\ WF_vars(Backup)

-----------------------------------------------------------------------------
\* r is in the audit component's backup: no recovery loses it.
Safe(r) == log[r] # NoPlace /\ log[r].seq <= backup[log[r].epoch]

\* "deletion only once a receipt is covered by the audit component's backup"
\* (audit.py): a deleted row's record survives every recovery, though the
\* receipt and the watermark may be of epochs that ended meanwhile.
DeletedIsSafe == \A r \in Record : row[r] = "deleted" => Safe(r)

\* Every committed record that the audit component does not refuse gets into
\* its backup: a receipt on a lost branch does not keep it from being sent
\* again.
EventuallySafe ==
  \A r \in Record : row[r] \in {"pending", "received"} ~> Safe(r) \/ row[r] = "conflict"

\* Audited operations are refused only until the backlog drains: refused
\* records and lost receipts do not hold the capacity for ever.
PauseEnds == \A p \in Replica : seen[p] >= Capacity ~> seen[p] < Capacity

-----------------------------------------------------------------------------
(* The inductive invariant behind DeletedIsSafe.                           *)

\* The backup has a part of the current history, and of its ancestors all of
\* it once it was made in the current epoch.
ReceiverInv ==
  /\ epoch >= 1
  /\ top[0] = 0
  /\ \A e \in Epoch : backup[e] <= top[e]
  /\ \A e \in Epoch : e > epoch => top[e] = 0
  /\ backedUp => \A e \in Epoch : e < epoch => backup[e] = top[e]

\* A receipt tells r's place as long as that place is on the history.
Sound(r, at) ==
  /\ at.epoch >= 1
  /\ at.epoch <= epoch
  /\ at.epoch = epoch => log[r] = at
  /\ at.seq <= top[at.epoch] => log[r] = at

ReceiptInv ==
  /\ \A r \in Record : row[r] = "received" => Sound(r, receipt[r])
  /\ \A p \in Replica : \A rc \in answer[p] :
       rc.status = "received" => Sound(rc.rec, rc.at)

\* What a watermark covers is in the backup, however old it is.
MarkInv ==
  \A p \in Replica :
    /\ mark[p].seq <= backup[mark[p].epoch]
    /\ mark[p].backedUp => \A a \in mark[p].ancestors : a.seq <= backup[a.epoch]

AuditInv ==
  /\ ReceiverInv
  /\ \A r \in Record : log[r] # NoPlace =>
       log[r].epoch >= 1 /\ log[r].epoch <= epoch /\ log[r].seq <= top[log[r].epoch]
  /\ ReceiptInv
  /\ MarkInv
  /\ DeletedIsSafe
=============================================================================
