---------------------------- MODULE AuditProofs ----------------------------
(***************************************************************************)
(* Proofs about reliable audit, for any number of records, replicas,       *)
(* recoveries of the audit component and failures: type correctness, and   *)
(* that a deleted record is in the audit component's backup; and about the *)
(* budget of denials (Denials).                                            *)
(***************************************************************************)
EXTENDS Audit, Denials, FiniteSetTheorems, TLAPS

\* Sets of records can be counted.
LEMMA RecordsFinite ==
  ASSUME NEW S \in SUBSET Record
  PROVE  IsFiniteSet(S) /\ Cardinality(S) \in Nat
  BY AuditAssumption, FS_Subset, FS_CardinalityType

\* What the audit component does with a batch: the new records get places of
\* the current epoch after all that were given, the others keep theirs.
LEMMA SubmitFacts ==
  ASSUME TypeOK, NEW rows \in SUBSET Record, Submitted(rows)
  PROVE  /\ log' \in [Record -> Place]
         /\ top' \in [Epoch -> Nat]
         /\ UNCHANGED <<backup, epoch, backedUp>>
         /\ top'[epoch] >= top[epoch]
         /\ \A e \in Epoch : e # epoch => top'[e] = top[e]
         /\ \A r \in Record : log[r] # NoPlace => log'[r] = log[r]
         /\ \A r \in Record : r \in rows \/ log'[r] = log[r]
         /\ \A r \in rows : log[r] = NoPlace =>
              log'[r].epoch = epoch /\ log'[r].seq <= top'[epoch]
<1> DEFINE new == {r \in rows : log[r] = NoPlace}
           upTo(r) == {q \in new : ord[q] <= ord[r]}
<1>1. Cardinality(new) \in Nat
  BY RecordsFinite
<1>2. \A r \in Record : Cardinality(upTo(r)) \in Nat /\ Cardinality(upTo(r)) <= Cardinality(new)
  <2> TAKE r \in Record
  <2>1. upTo(r) \subseteq new
    OBVIOUS
  <2>2. IsFiniteSet(new) /\ Cardinality(upTo(r)) \in Nat
    BY RecordsFinite
  <2> QED
    BY <2>1, <2>2, FS_Subset
<1>3. /\ log' = [r \in Record |->
                  IF r \in new
                    THEN [epoch |-> epoch, seq |-> top[epoch] + Cardinality(upTo(r))]
                    ELSE log[r]]
      /\ top' = [top EXCEPT ![epoch] = @ + Cardinality(new)]
      /\ UNCHANGED <<backup, epoch, backedUp>>
  BY DEF Submitted
<1>4. epoch \in Epoch /\ top \in [Epoch -> Nat] /\ log \in [Record -> Place]
  BY DEF TypeOK
<1> HIDE DEF new, upTo
<1>5. log' \in [Record -> Place] /\ top' \in [Epoch -> Nat]
  BY <1>1, <1>2, <1>3, <1>4 DEF Place
<1>6. top'[epoch] = top[epoch] + Cardinality(new) /\ \A e \in Epoch : e # epoch => top'[e] = top[e]
  BY <1>1, <1>3, <1>4
<1>7. \A r \in Record : log[r] # NoPlace => log'[r] = log[r]
  BY <1>3 DEF new
<1>8. \A r \in Record : r \in rows \/ log'[r] = log[r]
  BY <1>3 DEF new
<1>9. \A r \in rows : log[r] = NoPlace =>
        log'[r].epoch = epoch /\ log'[r].seq = top[epoch] + Cardinality(upTo(r))
  BY <1>3 DEF new
<1> QED
  BY <1>1, <1>2, <1>3, <1>4, <1>5, <1>6, <1>7, <1>8, <1>9

\* A replica's own steps keep the types.
LEMMA RunTypes ==
  ASSUME TypeOK, NEW p \in Replica, RunStep(p)
  PROVE  TypeOK'
<1> USE AuditAssumption DEF table, receiver, Stage
<1>1. CASE Number(p)
  BY <1>1 DEF Number, FirstOf, Committed, TypeOK
<1>2. \A n \in Nat : Transferred(p, n) \in Stage
  BY DEF Transferred, TypeOK
<1>3. CASE ReadPending(p)
  BY <1>2, <1>3 DEF ReadPending, FirstOf, Committed, TypeOK
<1>4. CASE Send(p)
  <2>1. PICK bad \in SUBSET sending[p] :
          /\ Submitted(sending[p] \ bad)
          /\ answer' = [answer EXCEPT ![p] =
               {[rec |-> r, status |-> "conflict", at |-> NoPlace] : r \in bad}
                 \cup {[rec |-> r, status |-> "received", at |-> log'[r]] : r \in sending[p] \ bad}]
    BY <1>4 DEF Send
  <2>2. sending[p] \in SUBSET Record
    BY DEF TypeOK
  <2>3. log' \in [Record -> Place] /\ top' \in [Epoch -> Nat] /\ UNCHANGED <<backup, epoch, backedUp>>
    BY <2>1, <2>2, SubmitFacts
  <2>4. NoPlace \in Place
    BY DEF NoPlace, Place, Epoch
  <2>5. answer' \in [Replica -> SUBSET Receipt]
    <3>1. {[rec |-> r, status |-> "conflict", at |-> NoPlace] : r \in bad} \in SUBSET Receipt
      BY <2>2, <2>4 DEF Receipt
    <3>2. {[rec |-> r, status |-> "received", at |-> log'[r]] : r \in sending[p] \ bad} \in SUBSET Receipt
      BY <2>2, <2>3 DEF Receipt
    <3>3. QED
      BY <2>1, <3>1, <3>2 DEF TypeOK
  <2>6. QED
    BY <1>4, <2>3, <2>5 DEF Send, TypeOK
<1>5. CASE Store(p)
  <2> DEFINE mine == {r \in Record : row[r] = "pending" /\ \E rc \in answer[p] : rc.rec = r}
  <2>1. \A r \in mine : AnswerFor(p, r) \in Receipt
    BY DEF AnswerFor, TypeOK
  <2>2. \A rc \in Receipt : rc.status \in RowState /\ rc.at \in Place
    BY DEF Receipt, RowState
  <2>3. row' \in [Record -> RowState] /\ receipt' \in [Record -> Place]
    BY <1>5, <2>1, <2>2 DEF Store, TypeOK
  <2>4. answer[p] \in SUBSET Receipt /\ pc' = [pc EXCEPT ![p] = Transferred(p, Cardinality(answer[p]))]
    BY <1>5 DEF Store, TypeOK
  <2>5. \A n : Transferred(p, n) \in Stage
    BY DEF Transferred, TypeOK
  <2>6. QED
    BY <1>5, <2>3, <2>4, <2>5 DEF Store, TypeOK
<1>6. CASE GetWatermark(p)
  <2>1. CurrentMark \in Watermark
    <3> DEFINE old == {a \in 1..epoch - 1 : top[a] > 0}
               forks == {[epoch |-> e, seq |-> top[e]] : e \in old}
    <3>1. \A e \in old : e \in Epoch /\ top[e] \in Nat
      BY DEF Epoch, TypeOK
    <3>2. forks \in SUBSET Place
      BY <3>1 DEF Place
    <3>3. CurrentMark = [epoch |-> epoch, seq |-> backup[epoch],
                         ancestors |-> forks, backedUp |-> backedUp]
      BY DEF CurrentMark
    <3>4. epoch \in Epoch /\ backup[epoch] \in Nat /\ backedUp \in BOOLEAN
      BY DEF TypeOK
    <3> HIDE DEF forks
    <3>5. QED
      BY <3>2, <3>3, <3>4 DEF Watermark
  <2>2. QED
    BY <1>6, <2>1 DEF GetWatermark, TypeOK
<1>7. CASE Purge(p)
  <2>1. NoMark \in Watermark /\ NoPlace \in Place
    BY DEF NoMark, Watermark, NoPlace, Place, Epoch
  <2>2. row' \in [Record -> RowState]
    BY <1>7 DEF Purge, RowState, TypeOK
  <2>3. QED
    BY <1>7, <2>1, <2>2 DEF Purge, TypeOK
<1>8. CASE Backlog(p)
  <2>1. Cardinality({r \in Record : row[r] = "pending"}) \in Nat
    BY RecordsFinite
  <2>2. QED
    BY <1>8, <2>1 DEF Backlog, TypeOK
<1>9. QED
  BY <1>1, <1>3, <1>4, <1>5, <1>6, <1>7, <1>8 DEF RunStep

\* Every step keeps the types.
LEMMA TypeStep ==
  ASSUME TypeOK, [Next]_vars
  PROVE  TypeOK'
<1> USE AuditAssumption DEF table, receiver, task
<1>1. ASSUME NEW r \in Record, NEW p \in Replica, Write(p, r) PROVE TypeOK'
  <2>1. Cardinality({q \in Record : ord[q] # 0}) \in Nat
    BY RecordsFinite
  <2>2. QED
    BY <1>1, <2>1 DEF Write, RowState, TypeOK
<1>2. ASSUME NEW r \in Record, EndWrite(r) PROVE TypeOK'
  BY <1>2 DEF EndWrite, RowState, TypeOK
<1>3. ASSUME NEW p \in Replica, Fail(p) PROVE TypeOK'
  <2>1. NoMark \in Watermark
    BY DEF NoMark, Watermark, Epoch
  <2>2. /\ log' \in [Record -> Place] /\ top' \in [Epoch -> Nat]
        /\ UNCHANGED <<backup, epoch, backedUp>>
    <3>1. sending[p] \in SUBSET Record
      BY DEF TypeOK
    <3>2. CASE Submitted(sending[p])
      BY <3>1, <3>2, SubmitFacts
    <3>3. QED
      BY <1>3, <3>2 DEF Fail, TypeOK
  <2>3. QED
    BY <1>3, <2>1, <2>2 DEF Fail, Fault, Forget, Stage, TypeOK
<1>4. ASSUME NEW p \in Replica, Crash(p) PROVE TypeOK'
  <2>1. NoMark \in Watermark
    BY DEF NoMark, Watermark, Epoch
  <2>2. QED
    BY <1>4, <2>1 DEF Crash, Fault, Forget, Stage, TypeOK
<1>5. CASE Backup
  BY <1>5 DEF Backup, TypeOK
<1>6. CASE Recover
  <2>1. top' \in [Epoch -> Nat]
    BY <1>6 DEF Recover, TypeOK
  <2>2. NoPlace \in Place
    BY DEF NoPlace, Place, Epoch
  <2>3. log' \in [Record -> Place]
    BY <1>6, <2>2 DEF Recover, TypeOK
  <2>4. epoch' \in Epoch
    BY <1>6 DEF Recover, Epoch, TypeOK
  <2>5. QED
    BY <1>6, <2>1, <2>3, <2>4 DEF Recover, TypeOK
<1>7. CASE UNCHANGED vars
  BY <1>7 DEF vars, TypeOK
<1>8. QED
  BY <1>1, <1>2, <1>3, <1>4, <1>5, <1>6, <1>7, RunTypes DEF Next

\* Type correctness of the audit's tables, transfers and the audit component.
THEOREM TypeCorrect == Spec => []TypeOK
<1>1. Init => TypeOK
  <2>1. NoPlace \in Place /\ NoMark \in Watermark /\ 1 \in Epoch
    BY AuditAssumption DEF NoPlace, Place, NoMark, Watermark, Epoch
  <2> HAVE Init
  <2>2. {} \in SUBSET Receipt
    OBVIOUS
  <2>3. /\ row \in [Record -> RowState] /\ ord \in [Record -> Nat] /\ numbered \in SUBSET Record
        /\ pc \in [Replica -> Stage] /\ seen \in [Replica -> Nat] /\ faults \in Nat
    BY DEF Init, RowState, Stage
  <2>4. /\ more \in [Replica -> BOOLEAN] /\ sending \in [Replica -> SUBSET Record]
        /\ backedUp \in BOOLEAN
    BY DEF Init
  <2>5. answer \in [Replica -> SUBSET Receipt]
    BY <2>2 DEF Init
  <2>6. /\ receipt \in [Record -> Place] /\ mark \in [Replica -> Watermark]
        /\ log \in [Record -> Place]
    BY <2>1 DEF Init
  <2>7. top \in [Epoch -> Nat] /\ backup \in [Epoch -> Nat] /\ epoch \in Epoch
    BY <2>1 DEF Init
  <2>8. QED
    BY <2>3, <2>4, <2>5, <2>6, <2>7 DEF TypeOK
<1>2. TypeOK /\ [Next]_vars => TypeOK'
  BY TypeStep
<1>3. QED
  BY <1>1, <1>2, PTL DEF Spec

-----------------------------------------------------------------------------
(* The inductive invariant. Its parts about the audit component's history  *)
(* and about one record are shown to survive what that component does;     *)
(* the member's own steps are then taken one by one.                       *)

LogInv == \A r \in Record : log[r] # NoPlace =>
            log[r].epoch >= 1 /\ log[r].epoch <= epoch /\ log[r].seq <= top[log[r].epoch]

\* A submitted batch: what is on the history stays there, and the receipts of
\* the batch are sound.
LEMMA SubmitKeeps ==
  ASSUME TypeOK, AuditInv, NEW rows \in SUBSET Record, Submitted(rows)
  PROVE  /\ ReceiverInv' /\ LogInv'
         /\ \A r \in Record, at \in Place : Sound(r, at) => Sound(r, at)'
         /\ \A r \in Record : Safe(r) => Safe(r)'
         /\ \A r \in rows : Sound(r, log[r])'
<1>1. /\ log' \in [Record -> Place]
      /\ top' \in [Epoch -> Nat]
      /\ backup' = backup /\ epoch' = epoch /\ backedUp' = backedUp
      /\ top'[epoch] >= top[epoch]
      /\ \A e \in Epoch : e # epoch => top'[e] = top[e]
      /\ \A r \in Record : log[r] # NoPlace => log'[r] = log[r]
      /\ \A r \in Record : r \in rows \/ log'[r] = log[r]
      /\ \A r \in rows : log[r] = NoPlace =>
           log'[r].epoch = epoch /\ log'[r].seq <= top'[epoch]
  BY SubmitFacts
<1>2. /\ epoch \in Epoch /\ epoch \in Nat /\ top \in [Epoch -> Nat] /\ backup \in [Epoch -> Nat]
      /\ log \in [Record -> Place] /\ 0 \in Epoch /\ Epoch \subseteq Nat
      /\ backedUp \in BOOLEAN
  BY AuditAssumption DEF TypeOK, Epoch
<1>3. ReceiverInv /\ LogInv
  BY DEF AuditInv, LogInv
<1>4. ReceiverInv'
  BY <1>1, <1>2, <1>3 DEF ReceiverInv
<1>5. \A at \in Place : at.epoch \in Epoch /\ at.seq \in Nat
  BY DEF Place
<1>6. \A e \in Epoch : top[e] <= top'[e]
  BY <1>1, <1>2
<1>7. LogInv'
  <2> SUFFICES ASSUME NEW r \in Record, log'[r] # NoPlace
               PROVE  log'[r].epoch >= 1 /\ log'[r].epoch <= epoch /\ log'[r].seq <= top'[log'[r].epoch]
    BY <1>1 DEF LogInv
  <2>1. log[r] \in Place /\ log[r].epoch \in Epoch /\ log[r].seq \in Nat
    BY <1>2, <1>5
  <2>2. CASE log[r] # NoPlace
    <3>1. log'[r] = log[r]
      BY <1>1, <2>2
    <3>2. log[r].epoch >= 1 /\ log[r].epoch <= epoch /\ log[r].seq <= top[log[r].epoch]
      BY <1>3, <2>2 DEF LogInv
    <3>3. top[log[r].epoch] \in Nat /\ top'[log[r].epoch] \in Nat /\ top[log[r].epoch] <= top'[log[r].epoch]
      BY <1>1, <1>2, <1>6, <2>1
    <3>4. QED
      BY <2>1, <3>1, <3>2, <3>3
  <2>3. CASE log[r] = NoPlace
    BY <1>1, <1>2, <1>3, <2>3 DEF ReceiverInv
  <2>4. QED
    BY <2>2, <2>3
<1>8. ASSUME NEW r \in Record, NEW at \in Place, Sound(r, at)
      PROVE  Sound(r, at)'
  <2>1. at.epoch >= 1 /\ at.epoch <= epoch /\ (at.epoch = epoch => log[r] = at)
        /\ (at.seq <= top[at.epoch] => log[r] = at) /\ at.epoch \in Epoch /\ at.seq \in Nat
    BY <1>5, <1>8 DEF Sound
  <2>2. log[r] = at => log'[r] = at
    <3>1. at # NoPlace
      BY <1>2, <2>1 DEF NoPlace
    <3>2. QED
      BY <1>1, <3>1
  <2>3. at.seq <= top'[at.epoch] => log[r] = at
    BY <1>1, <2>1
  <2>4. QED
    BY <1>1, <2>1, <2>2, <2>3 DEF Sound
<1>9. ASSUME NEW r \in Record, Safe(r) PROVE Safe(r)'
  BY <1>1, <1>9 DEF Safe
<1>10. ASSUME NEW r \in rows PROVE Sound(r, log[r])'
  <2>1. log'[r] # NoPlace
    BY <1>1, <1>2, <1>3 DEF ReceiverInv, NoPlace
  <2>2. log'[r].epoch >= 1 /\ log'[r].epoch <= epoch'
    BY <1>7, <2>1 DEF LogInv
  <2>3. QED
    BY <2>2 DEF Sound
<1>11. QED
  BY <1>4, <1>7, <1>8, <1>9, <1>10

\* A recovery: what the backup has stays, and a receipt past the fork is of
\* no later use.
LEMMA RecoverKeeps ==
  ASSUME TypeOK, AuditInv, Recover
  PROVE  /\ ReceiverInv' /\ LogInv'
         /\ \A r \in Record, at \in Place : Sound(r, at) => Sound(r, at)'
         /\ \A r \in Record : Safe(r) => Safe(r)'
<1>1. PICK e \in 1..epoch : \E s \in 0..top[e] :
        /\ s >= backup[e]
        /\ \A a \in e + 1..epoch : backup[a] = 0
        /\ top' = [a \in Epoch |-> CASE a < e -> top[a] [] a = e -> s [] OTHER -> 0]
  BY DEF Recover
<1>2. PICK s \in 0..top[e] :
        /\ s >= backup[e]
        /\ \A a \in e + 1..epoch : backup[a] = 0
        /\ top' = [a \in Epoch |-> CASE a < e -> top[a] [] a = e -> s [] OTHER -> 0]
  BY <1>1
<1>3. /\ epoch \in Epoch /\ epoch \in Nat /\ top \in [Epoch -> Nat] /\ backup \in [Epoch -> Nat]
      /\ log \in [Record -> Place] /\ 0 \in Epoch /\ Epoch \subseteq Nat /\ e \in Epoch
  BY AuditAssumption DEF TypeOK, Epoch
<1>4. /\ log' = [r \in Record |-> IF log[r].seq <= top'[log[r].epoch] THEN log[r] ELSE NoPlace]
      /\ epoch' = epoch + 1 /\ backedUp' = FALSE /\ backup' = backup
  BY DEF Recover
<1>5. ReceiverInv /\ LogInv
  BY DEF AuditInv, LogInv
<1>6. \A a \in Epoch : /\ top'[a] \in Nat
                        /\ top'[a] <= top[a]
                        /\ backup[a] <= top'[a]
  <2> TAKE a \in Epoch
  <2>1. CASE a < e
    BY <1>2, <1>3, <1>5, <2>1 DEF ReceiverInv
  <2>2. CASE a = e
    BY <1>2, <1>3, <1>5, <2>2 DEF ReceiverInv
  <2>3. CASE a > e
    <3>1. top'[a] = 0
      BY <1>2, <1>3, <2>3
    <3>2. backup[a] = 0
      <4>1. CASE a \in e + 1..epoch
        BY <1>2, <4>1
      <4>2. CASE a > epoch
        BY <1>3, <1>5, <4>2 DEF ReceiverInv
      <4>3. QED
        BY <1>3, <2>3, <4>1, <4>2
    <3>3. QED
      BY <1>3, <3>1, <3>2
  <2>4. QED
    BY <1>3, <2>1, <2>2, <2>3
<1>7. ReceiverInv'
  <2>1. \A a \in Epoch : a > epoch + 1 => top'[a] = 0
    BY <1>3, <1>5, <1>6 DEF ReceiverInv
  <2>2. top'[0] = 0
    BY <1>3, <1>5, <1>6 DEF ReceiverInv
  <2>3. QED
    BY <1>3, <1>4, <1>6, <2>1, <2>2 DEF ReceiverInv
<1>8. LogInv'
  <2> SUFFICES ASSUME NEW r \in Record, log'[r] # NoPlace
               PROVE  log'[r].epoch >= 1 /\ log'[r].epoch <= epoch' /\ log'[r].seq <= top'[log'[r].epoch]
    BY DEF LogInv
  <2>1. log'[r] = log[r] /\ log[r].seq <= top'[log[r].epoch] /\ log[r] # NoPlace
    BY <1>4
  <2>2. log[r].epoch >= 1 /\ log[r].epoch <= epoch
    BY <1>5, <2>1 DEF LogInv
  <2>3. log[r].epoch \in Nat
    BY <1>3 DEF Place
  <2>4. log[r].epoch <= epoch'
    BY <1>3, <1>4, <2>2, <2>3
  <2>5. QED
    BY <2>1, <2>2, <2>4
<1>9. ASSUME NEW r \in Record, NEW at \in Place, Sound(r, at)
      PROVE  Sound(r, at)'
  <2>1. at.epoch \in Epoch /\ at.epoch \in Nat /\ at.seq \in Nat
    BY <1>3 DEF Place
  <2>2. at.epoch >= 1 /\ at.epoch <= epoch /\ (at.seq <= top[at.epoch] => log[r] = at)
    BY <1>9 DEF Sound
  <2>3. at.seq <= top'[at.epoch] => log'[r] = at
    <3> HAVE at.seq <= top'[at.epoch]
    <3>1. log[r] = at
      <4>1. top'[at.epoch] \in Nat /\ top[at.epoch] \in Nat /\ top'[at.epoch] <= top[at.epoch]
        BY <1>3, <1>6, <2>1
      <4>2. at.seq <= top[at.epoch]
        BY <2>1, <4>1
      <4>3. QED
        BY <2>2, <4>2
    <3>2. QED
      BY <1>4, <3>1
  <2>4. at.epoch <= epoch' /\ at.epoch # epoch'
    BY <1>3, <1>4, <2>1, <2>2
  <2>5. QED
    BY <2>2, <2>3, <2>4 DEF Sound
<1>10. ASSUME NEW r \in Record, Safe(r) PROVE Safe(r)'
  <2>1. log[r].epoch \in Epoch /\ log[r].seq \in Nat
    BY <1>3 DEF Place
  <2>2. log[r] # NoPlace /\ log[r].seq <= backup[log[r].epoch]
    BY <1>10 DEF Safe
  <2>3. log[r].seq <= top'[log[r].epoch]
    <3>1. /\ top'[log[r].epoch] \in Nat /\ backup[log[r].epoch] \in Nat
          /\ backup[log[r].epoch] <= top'[log[r].epoch]
      BY <1>3, <1>6, <2>1
    <3>2. QED
      BY <2>1, <2>2, <3>1
  <2>4. log'[r] = log[r]
    BY <1>4, <2>3
  <2>5. QED
    BY <1>4, <2>2, <2>4 DEF Safe
<1>11. QED
  BY <1>7, <1>8, <1>9, <1>10

\* A step of the member: the audit component's history stays as it is.
LEMMA MemberKeeps ==
  ASSUME UNCHANGED receiver
  PROVE  /\ (ReceiverInv => ReceiverInv') /\ (LogInv => LogInv')
         /\ \A r, at : Sound(r, at) => Sound(r, at)'
         /\ \A r : Safe(r) => Safe(r)'
  BY DEF receiver, ReceiverInv, LogInv, Sound, Safe

\* A sound receipt that a watermark covers is of a record in the backup.
LEMMA CoveredIsSafe ==
  ASSUME TypeOK, AuditInv, NEW p \in Replica, NEW r \in Record,
         row[r] = "received", Covered(mark[p], receipt[r])
  PROVE  Safe(r)
<1> DEFINE at == receipt[r]
           w == mark[p]
<1>1. /\ at \in Place /\ at.epoch \in Epoch /\ at.epoch \in Nat /\ at.seq \in Nat
      /\ top[at.epoch] \in Nat /\ backup[at.epoch] \in Nat
  BY AuditAssumption DEF TypeOK, Place, Epoch
<1>2. w \in Watermark /\ w.seq \in Nat /\ \A a \in w.ancestors : a.seq \in Nat
  BY DEF TypeOK, Watermark, Place
<1>3. Sound(r, at) /\ backup[at.epoch] <= top[at.epoch]
  BY <1>1 DEF AuditInv, ReceiptInv, ReceiverInv
<1>4. at.seq <= backup[at.epoch]
  <2>1. CASE at.epoch = w.epoch /\ at.seq <= w.seq
    <3>1. w.seq <= backup[at.epoch]
      BY <2>1 DEF AuditInv, MarkInv
    <3>2. QED
      BY <1>1, <1>2, <2>1, <3>1
  <2>2. CASE w.backedUp /\ \E a \in w.ancestors : at.epoch = a.epoch /\ at.seq <= a.seq
    <3>1. PICK a \in w.ancestors : at.epoch = a.epoch /\ at.seq <= a.seq
      BY <2>2
    <3>2. a.seq <= backup[at.epoch]
      BY <2>2, <3>1 DEF AuditInv, MarkInv
    <3>3. QED
      BY <1>1, <1>2, <3>1, <3>2
  <2>3. QED
    BY <2>1, <2>2 DEF Covered
<1>5. log[r] = at
  <2>1. at.seq <= top[at.epoch]
    BY <1>1, <1>3, <1>4
  <2>2. QED
    BY <1>3, <2>1 DEF Sound
<1>6. at # NoPlace
  BY <1>1, <1>3 DEF Sound, NoPlace
<1>7. QED
  BY <1>4, <1>5, <1>6 DEF Safe

\* The steps of a run keep the invariant.
LEMMA RunKeeps ==
  ASSUME TypeOK, AuditInv, NEW p \in Replica, RunStep(p)
  PROVE  AuditInv'
<1> USE DEF table
<1>1. ReceiverInv /\ LogInv /\ ReceiptInv /\ MarkInv /\ DeletedIsSafe
  BY DEF AuditInv, LogInv
<1>2. SUFFICES ReceiverInv' /\ LogInv' /\ ReceiptInv' /\ MarkInv' /\ DeletedIsSafe'
  BY DEF AuditInv, LogInv
<1>3. ASSUME UNCHANGED <<row, receipt, answer, mark, receiver>>
      PROVE  ReceiptInv' /\ MarkInv' /\ DeletedIsSafe'
  BY <1>1, <1>3, MemberKeeps DEF receiver, ReceiptInv, MarkInv, DeletedIsSafe
<1>4. CASE Number(p)
  BY <1>1, <1>3, <1>4, MemberKeeps DEF Number
<1>5. CASE ReadPending(p)
  BY <1>1, <1>3, <1>5, MemberKeeps DEF ReadPending
<1>6. CASE Send(p)
  <2>1. PICK bad \in SUBSET sending[p] :
          /\ Submitted(sending[p] \ bad)
          /\ answer' = [answer EXCEPT ![p] =
               {[rec |-> r, status |-> "conflict", at |-> NoPlace] : r \in bad}
                 \cup {[rec |-> r, status |-> "received", at |-> log'[r]] : r \in sending[p] \ bad}]
    BY <1>6 DEF Send
  <2>2. sending[p] \ bad \in SUBSET Record
    BY DEF TypeOK
  <2>3. /\ ReceiverInv' /\ LogInv'
        /\ \A r \in Record, at \in Place : Sound(r, at) => Sound(r, at)'
        /\ \A r \in Record : Safe(r) => Safe(r)'
        /\ \A r \in sending[p] \ bad : Sound(r, log[r])'
    BY <2>1, <2>2, SubmitKeeps
  <2>4. UNCHANGED <<row, receipt, mark, backup>>
    BY <1>6, <2>1 DEF Send, Submitted
  <2>5. ReceiptInv'
    <3>1. \A r \in Record : row'[r] = "received" => Sound(r, receipt[r])'
      <4> SUFFICES ASSUME NEW r \in Record, row[r] = "received" PROVE Sound(r, receipt[r])'
        BY <2>4
      <4>1. receipt[r] \in Place /\ Sound(r, receipt[r])
        BY <1>1 DEF TypeOK, ReceiptInv
      <4>2. QED
        BY <2>3, <2>4, <4>1 DEF Sound
    <3>2. ASSUME NEW q \in Replica, NEW rc \in answer'[q], rc.status = "received"
          PROVE  Sound(rc.rec, rc.at)'
      <4>1. CASE rc \in answer[q]
        <5>1. rc.rec \in Record /\ rc.at \in Place /\ Sound(rc.rec, rc.at)
          BY <1>1, <3>2, <4>1 DEF TypeOK, Receipt, ReceiptInv
        <5>2. QED
          BY <2>3, <5>1
      <4>2. CASE rc \notin answer[q]
        <5>1. q = p /\ rc \in {[rec |-> r, status |-> "conflict", at |-> NoPlace] : r \in bad}
                         \cup {[rec |-> r, status |-> "received", at |-> log'[r]] : r \in sending[p] \ bad}
          BY <2>1, <3>2, <4>2 DEF TypeOK
        <5>2. PICK r \in sending[p] \ bad : rc = [rec |-> r, status |-> "received", at |-> log'[r]]
          BY <3>2, <5>1
        <5>3. rc.rec = r /\ rc.at = log'[r] /\ Sound(r, log[r])'
          BY <2>3, <5>2
        <5>4. QED
          BY <5>3 DEF Sound
      <4>3. QED
        BY <4>1, <4>2
    <3>3. QED
      BY <3>1, <3>2 DEF ReceiptInv
  <2>6. MarkInv' /\ DeletedIsSafe'
    BY <1>1, <2>3, <2>4 DEF MarkInv, DeletedIsSafe
  <2>7. QED
    BY <2>3, <2>5, <2>6
<1>7. CASE Store(p)
  <2> DEFINE mine == {r \in Record : row[r] = "pending" /\ \E rc \in answer[p] : rc.rec = r}
  <2>1. UNCHANGED <<mark, receiver>>
    BY <1>7 DEF Store
  <2>2. /\ row' = [r \in Record |-> IF r \in mine THEN AnswerFor(p, r).status ELSE row[r]]
        /\ receipt' = [r \in Record |-> IF r \in mine THEN AnswerFor(p, r).at ELSE receipt[r]]
        /\ answer' = [answer EXCEPT ![p] = {}]
    BY <1>7 DEF Store
  <2>3. \A r \in mine : AnswerFor(p, r) \in answer[p] /\ AnswerFor(p, r).rec = r
    BY DEF AnswerFor
  <2>4. \A r \in mine : AnswerFor(p, r).status \in {"received", "conflict"}
    BY <2>3 DEF TypeOK, Receipt
  <2> HIDE DEF mine
  <2>5. \A r \in Record : row'[r] = "received" => Sound(r, receipt'[r])
    BY <1>1, <2>2, <2>3 DEF ReceiptInv
  <2>6. \A q \in Replica : \A rc \in answer'[q] : rc \in answer[q]
    BY <2>2 DEF TypeOK
  <2>7. ReceiptInv'
    BY <1>1, <2>1, <2>5, <2>6 DEF ReceiptInv, Sound, receiver
  <2>8. DeletedIsSafe'
    <3>1. \A r \in Record : row'[r] = "deleted" => row[r] = "deleted"
      BY <2>2, <2>4
    <3>2. QED
      BY <1>1, <2>1, <3>1, MemberKeeps DEF DeletedIsSafe
  <2>9. MarkInv'
    BY <1>1, <2>1 DEF MarkInv, receiver
  <2>10. QED
    BY <1>1, <2>1, <2>7, <2>8, <2>9, MemberKeeps
<1>8. CASE GetWatermark(p)
  <2>1. UNCHANGED <<row, receipt, answer, receiver>> /\ mark' = [mark EXCEPT ![p] = CurrentMark]
    BY <1>8 DEF GetWatermark
  <2>2. CurrentMark.seq <= backup[CurrentMark.epoch]
    BY DEF CurrentMark, TypeOK
  <2>3. CurrentMark.backedUp => \A a \in CurrentMark.ancestors : a.seq <= backup[a.epoch]
    <3> SUFFICES ASSUME backedUp, NEW a \in CurrentMark.ancestors PROVE a.seq <= backup[a.epoch]
      BY DEF CurrentMark
    <3>1. PICK e \in 1..epoch - 1 : a = [epoch |-> e, seq |-> top[e]]
      BY DEF CurrentMark
    <3>2. e \in Epoch /\ e < epoch /\ top[e] \in Nat
      BY AuditAssumption DEF TypeOK, Epoch
    <3>3. backup[e] = top[e]
      BY <1>1, <3>2 DEF ReceiverInv
    <3>4. QED
      BY <3>1, <3>2, <3>3
  <2>4. MarkInv'
    BY <1>1, <2>1, <2>2, <2>3 DEF MarkInv, receiver, TypeOK
  <2>5. ReceiptInv' /\ DeletedIsSafe'
    BY <1>1, <2>1, MemberKeeps DEF ReceiptInv, DeletedIsSafe
  <2>6. QED
    BY <1>1, <2>1, <2>4, <2>5, MemberKeeps
<1>9. CASE Purge(p)
  <2> DEFINE received == {r \in Record : row[r] = "received"}
             lost == {r \in received : Lost(mark[p], receipt[r])}
  <2>1. PICK old \in SUBSET {r \in received : Covered(mark[p], receipt[r])} :
          row' = [r \in Record |-> CASE r \in old -> "deleted"
                                   [] r \in lost -> "pending"
                                   [] OTHER -> row[r]]
    BY <1>9 DEF Purge
  <2>2. /\ receipt' = [r \in Record |-> IF r \in lost THEN NoPlace ELSE receipt[r]]
        /\ mark' = [mark EXCEPT ![p] = NoMark]
        /\ UNCHANGED <<answer, receiver>>
    BY <1>9 DEF Purge
  <2>3. \A r \in old : Safe(r)
    BY CoveredIsSafe
  <2> HIDE DEF received, lost
  <2>4. \A r \in Record : row'[r] = "received" => row[r] = "received" /\ receipt'[r] = receipt[r]
    <3> SUFFICES ASSUME NEW r \in Record, row'[r] = "received"
                 PROVE  row[r] = "received" /\ receipt'[r] = receipt[r]
      OBVIOUS
    <3>1. r \notin old /\ r \notin lost
      BY <2>1
    <3>2. QED
      BY <2>1, <2>2, <3>1
  <2>5. \A r \in Record : row'[r] = "deleted" => Safe(r)
    <3> SUFFICES ASSUME NEW r \in Record, row'[r] = "deleted" PROVE Safe(r)
      OBVIOUS
    <3>1. r \in old \/ row[r] = "deleted"
      BY <2>1
    <3>2. QED
      BY <1>1, <2>3, <3>1 DEF DeletedIsSafe
  <2>6. ReceiptInv'
    BY <1>1, <2>2, <2>4 DEF ReceiptInv, Sound, receiver
  <2>7. DeletedIsSafe'
    BY <2>2, <2>5, MemberKeeps DEF DeletedIsSafe
  <2>8. MarkInv'
    <3>1. NoMark.seq <= backup[NoMark.epoch] /\ ~NoMark.backedUp
      BY AuditAssumption DEF NoMark, TypeOK, Epoch
    <3>2. QED
      BY <1>1, <2>2, <3>1 DEF MarkInv, receiver, TypeOK
  <2>9. QED
    BY <1>1, <2>2, <2>6, <2>7, <2>8, MemberKeeps
<1>10. CASE Backlog(p)
  BY <1>1, <1>3, <1>10, MemberKeeps DEF Backlog
<1>11. QED
  BY <1>4, <1>5, <1>6, <1>7, <1>8, <1>9, <1>10 DEF RunStep

\* Every step keeps the invariant.
LEMMA InvStep ==
  ASSUME TypeOK, AuditInv, [Next]_vars
  PROVE  AuditInv'
<1> USE DEF table
<1>1. ReceiverInv /\ LogInv /\ ReceiptInv /\ MarkInv /\ DeletedIsSafe
  BY DEF AuditInv, LogInv
<1>2. SUFFICES ReceiverInv' /\ LogInv' /\ ReceiptInv' /\ MarkInv' /\ DeletedIsSafe'
  BY DEF AuditInv, LogInv
<1>3. ASSUME NEW r \in Record, NEW p \in Replica, Write(p, r)
      PROVE  ReceiverInv' /\ LogInv' /\ ReceiptInv' /\ MarkInv' /\ DeletedIsSafe'
  <2>1. UNCHANGED <<receipt, receiver, answer, mark>>
    BY <1>3 DEF Write, task
  <2>2. \A q \in Record : row'[q] \in {"received", "deleted"} => row'[q] = row[q]
    BY <1>3 DEF Write, TypeOK
  <2>3. QED
    BY <1>1, <2>1, <2>2, MemberKeeps DEF receiver, ReceiptInv, MarkInv, DeletedIsSafe
<1>4. ASSUME NEW r \in Record, EndWrite(r)
      PROVE  ReceiverInv' /\ LogInv' /\ ReceiptInv' /\ MarkInv' /\ DeletedIsSafe'
  <2>1. UNCHANGED <<receipt, receiver, answer, mark>>
    BY <1>4 DEF EndWrite, task
  <2>2. \A q \in Record : row'[q] \in {"received", "deleted"} => row'[q] = row[q]
    BY <1>4 DEF EndWrite, TypeOK
  <2>3. QED
    BY <1>1, <2>1, <2>2, MemberKeeps DEF receiver, ReceiptInv, MarkInv, DeletedIsSafe
<1>5. ASSUME NEW p \in Replica, RunStep(p)
      PROVE  ReceiverInv' /\ LogInv' /\ ReceiptInv' /\ MarkInv' /\ DeletedIsSafe'
  BY <1>5, RunKeeps DEF AuditInv, LogInv
<1>6. ASSUME NEW p \in Replica, Fail(p) \/ Crash(p)
      PROVE  ReceiverInv' /\ LogInv' /\ ReceiptInv' /\ MarkInv' /\ DeletedIsSafe'
  <2>1. UNCHANGED <<row, receipt, backup>>
    BY <1>6 DEF Fail, Crash, receiver, Submitted
  <2>2. /\ answer' = [answer EXCEPT ![p] = {}]
        /\ mark' = [mark EXCEPT ![p] = NoMark]
    BY <1>6 DEF Fail, Crash, Forget
  <2>3. /\ ReceiverInv' /\ LogInv'
        /\ \A r \in Record, at \in Place : Sound(r, at) => Sound(r, at)'
        /\ \A r \in Record : Safe(r) => Safe(r)'
    <3>1. CASE UNCHANGED receiver
      BY <1>1, <3>1, MemberKeeps
    <3>2. CASE Submitted(sending[p])
      <4>1. sending[p] \in SUBSET Record
        BY DEF TypeOK
      <4>2. QED
        BY <3>2, <4>1, SubmitKeeps
    <3>3. QED
      BY <1>6, <3>1, <3>2 DEF Fail, Crash
  <2>4. \A r \in Record : row'[r] = "received" => Sound(r, receipt[r])'
    <3> SUFFICES ASSUME NEW r \in Record, row[r] = "received" PROVE Sound(r, receipt[r])'
      BY <2>1
    <3>1. receipt[r] \in Place /\ Sound(r, receipt[r])
      BY <1>1 DEF TypeOK, ReceiptInv
    <3>2. QED
      BY <2>1, <2>3, <3>1 DEF Sound
  <2>5. \A q \in Replica : \A rc \in answer'[q] : rc.status = "received" => Sound(rc.rec, rc.at)'
    <3> SUFFICES ASSUME NEW q \in Replica, NEW rc \in answer'[q], rc.status = "received"
                 PROVE  Sound(rc.rec, rc.at)'
      OBVIOUS
    <3>1. rc \in answer[q] /\ rc.rec \in Record /\ rc.at \in Place
      BY <2>2 DEF TypeOK, Receipt
    <3>2. QED
      BY <1>1, <2>3, <3>1 DEF ReceiptInv
  <2>6. MarkInv'
    <3>1. NoMark.seq <= backup[NoMark.epoch] /\ ~NoMark.backedUp
      BY AuditAssumption DEF NoMark, TypeOK, Epoch
    <3>2. QED
      BY <1>1, <2>1, <2>2, <3>1 DEF MarkInv, TypeOK
  <2>7. QED
    BY <1>1, <2>1, <2>3, <2>4, <2>5, <2>6 DEF ReceiptInv, DeletedIsSafe
<1>7. CASE Backup
  <2>1. backup' = top /\ backedUp' = TRUE /\ UNCHANGED <<log, top, epoch, row, receipt, answer, mark>>
    BY <1>7 DEF Backup, task
  <2>2. top \in [Epoch -> Nat] /\ backup \in [Epoch -> Nat] /\ \A e \in Epoch : backup[e] <= top[e]
    BY <1>1 DEF ReceiverInv, TypeOK
  <2>3. ReceiverInv' /\ LogInv' /\ ReceiptInv'
    BY <1>1, <2>1, <2>2 DEF ReceiverInv, LogInv, ReceiptInv, Sound
  <2>4. MarkInv'
    <3> SUFFICES ASSUME NEW p \in Replica
                 PROVE  /\ mark[p].seq <= top[mark[p].epoch]
                        /\ mark[p].backedUp => \A a \in mark[p].ancestors : a.seq <= top[a.epoch]
      BY <2>1 DEF MarkInv
    <3>1. /\ mark[p].seq \in Nat /\ mark[p].epoch \in Epoch
          /\ \A a \in mark[p].ancestors : a.seq \in Nat /\ a.epoch \in Epoch
      BY DEF TypeOK, Watermark, Place
    <3>2. \A e \in Epoch, n \in Nat : n <= backup[e] => n <= top[e]
      BY <2>2
    <3>3. QED
      BY <1>1, <3>1, <3>2 DEF MarkInv
  <2>5. DeletedIsSafe'
    <3>1. \A r \in Record : log[r].seq \in Nat /\ log[r].epoch \in Epoch
      BY DEF TypeOK, Place
    <3>2. \A e \in Epoch, n \in Nat : n <= backup[e] => n <= top[e]
      BY <2>2
    <3>3. QED
      BY <1>1, <2>1, <3>1, <3>2 DEF DeletedIsSafe, Safe
  <2>6. QED
    BY <2>3, <2>4, <2>5
<1>8. CASE Recover
  <2>1. UNCHANGED <<row, receipt, answer, mark, backup>>
    BY <1>8 DEF Recover, task
  <2>2. /\ ReceiverInv' /\ LogInv'
        /\ \A r \in Record, at \in Place : Sound(r, at) => Sound(r, at)'
        /\ \A r \in Record : Safe(r) => Safe(r)'
    BY <1>8, RecoverKeeps
  <2>3. \A r \in Record : row[r] = "received" => receipt[r] \in Place /\ Sound(r, receipt[r])
    BY <1>1 DEF TypeOK, ReceiptInv
  <2>4. \A p \in Replica : \A rc \in answer[p] : rc.rec \in Record /\ rc.at \in Place
    BY DEF TypeOK, Receipt
  <2>5. ReceiptInv'
    <3>1. ASSUME NEW r \in Record, row[r] = "received" PROVE Sound(r, receipt[r])'
      BY <2>1, <2>2, <2>3, <3>1 DEF Sound
    <3>2. ASSUME NEW p \in Replica, NEW rc \in answer[p], rc.status = "received"
          PROVE  Sound(rc.rec, rc.at)'
      BY <1>1, <2>2, <2>4, <3>2 DEF ReceiptInv
    <3>3. QED
      BY <2>1, <3>1, <3>2 DEF ReceiptInv
  <2>6. MarkInv' /\ DeletedIsSafe'
    BY <1>1, <2>1, <2>2 DEF MarkInv, DeletedIsSafe
  <2>7. QED
    BY <2>2, <2>5, <2>6
<1>9. CASE UNCHANGED vars
  BY <1>1, <1>9, MemberKeeps DEF vars, receiver, task, ReceiptInv, MarkInv, DeletedIsSafe
<1>10. QED
  BY <1>3, <1>4, <1>5, <1>6, <1>7, <1>8, <1>9 DEF Next

\* A row of be_audit_log is deleted only when its record is in the audit
\* component's backup, and stays there: however many recoveries that component
\* goes through, and however old the receipt and the watermark of the deletion
\* (Auditor.purge) were.
THEOREM DeletedStaysSafe == Spec => []DeletedIsSafe
<1>1. Init => AuditInv
  <2> SUFFICES ASSUME Init PROVE AuditInv
    OBVIOUS
  <2>1. ReceiverInv
    BY AuditAssumption DEF Init, ReceiverInv, Epoch
  <2>2. ReceiptInv /\ DeletedIsSafe
    BY DEF Init, ReceiptInv, DeletedIsSafe
  <2>3. MarkInv
    BY AuditAssumption DEF Init, MarkInv, NoMark, Epoch
  <2>4. QED
    BY <2>1, <2>2, <2>3 DEF AuditInv, Init
<1>2. TypeOK /\ AuditInv /\ [Next]_vars => AuditInv'
  BY InvStep
<1>3. AuditInv => DeletedIsSafe
  BY DEF AuditInv
<1>4. QED
  BY <1>1, <1>2, <1>3, TypeCorrect, PTL DEF Spec

------------------------------------------------------------------------------
(* Denials                                                                   *)

\* A step that records nothing and leaves the rows alone keeps every count.
LEMMA UnrecordedStep ==
  ASSUME DenialInv, UNCHANGED <<window, details, summary, within>>,
         denial' \in [Denied -> Taken], minute' \in Minutes, minute <= minute',
         \A d \in Denied : denial'[d].pc # "none" => denial'[d].minute \in Minutes,
         \A d \in Denied : denial'[d] = denial[d] \/ "recorded" \notin {denial[d].pc, denial'[d].pc}
  PROVE  DenialInv'
<1>1. \A w \in Minutes : RecordedIn(w)' = RecordedIn(w)
  BY DEF RecordedIn
<1>2. \A w \in Minutes : w < minute => w < minute'
  BY DenialsAssumption DEF Minutes, DenialInv, DenialTypeOK
<1>3. \A w \in Minutes : Counted(w)'
  BY <1>1, <1>2 DEF DenialInv, Counted
<1>4. QED
  BY <1>3 DEF DenialInv, DenialTypeOK

\* The record of a denial is one more in its window.
LEMMA RecordedStep ==
  ASSUME DenialInv, NEW d \in Denied, Recorded(d)
  PROVE  DenialInv'
<1>w. PICK w \in Minutes : w = denial[d].minute
  BY DEF DenialInv, DenialTypeOK, Recorded
<1>n. PICK n : n = window[w].detailed + 1
  OBVIOUS
<1>1. /\ Counted(w) /\ denial[d] \in Taken /\ denial[d].pc = "counting"
      /\ window[w] \in Window /\ details[w] \in Nat /\ within[w] \in Nat /\ summary[w] \subseteq Nat
      /\ DenialTypeOK /\ minute \in Nat /\ w \in Nat
  BY <1>w, DenialsAssumption DEF DenialInv, DenialTypeOK, Recorded, Minutes
<1>2. /\ window[w].detailed \in Nat /\ window[w].overflow \in Nat /\ n \in Nat
      /\ window[w].overflow + 1 \in Nat /\ details[w] + 1 \in Nat /\ within[w] + 1 \in Nat
  BY <1>1, <1>n DEF Window
<1>3. /\ denial' \in [Denied -> Taken] /\ denial'[d] = [pc |-> "recorded", minute |-> w]
      /\ \A e \in Denied \ {d} : denial'[e] = denial[e]
  <2>1. denial' = [denial EXCEPT ![d] = [denial[d] EXCEPT !.pc = "recorded"]]
    BY DEF Recorded
  <2>2. [denial[d] EXCEPT !.pc = "recorded"] = [pc |-> "recorded", minute |-> w]
    BY <1>w, <1>1 DEF Taken
  <2>3. [pc |-> "recorded", minute |-> w] \in Taken
    BY <1>w, <1>1 DEF Taken
  <2>4. QED
    BY <1>1, <2>1, <2>2, <2>3 DEF DenialTypeOK
<1>4. /\ d \notin RecordedIn(w) /\ RecordedIn(w)' = RecordedIn(w) \cup {d}
      /\ \A v \in Minutes \ {w} : RecordedIn(v)' = RecordedIn(v)
  BY <1>1, <1>3 DEF RecordedIn
<1>5. IsFiniteSet(RecordedIn(w)') /\ Cardinality(RecordedIn(w)') = n
  BY <1>n, <1>1, <1>4, FS_AddElement DEF Counted
<1>6. UNCHANGED <<minute, summary>>
  BY DEF Recorded
<1>7. CASE InBudget(n)
  <2>1. /\ window' = [window EXCEPT ![w] = [window[w] EXCEPT !.detailed = n]]
        /\ details' = [details EXCEPT ![w] = details[w] + 1] /\ within' = within
    BY <1>w, <1>n, <1>7 DEF Recorded
  <2>2. /\ window' \in [Minutes -> Window] /\ window'[w].detailed = n
        /\ window'[w].overflow = window[w].overflow /\ window'[w].summarized = window[w].summarized
        /\ \A v \in Minutes \ {w} : window'[v] = window[v]
    BY <1>1, <1>2, <2>1 DEF DenialTypeOK, Window
  <2>3. /\ details' \in [Minutes -> Nat] /\ details'[w] = details[w] + 1
        /\ \A v \in Minutes \ {w} : details'[v] = details[v]
    BY <1>1, <1>2, <2>1 DEF DenialTypeOK
  <2>4. /\ window'[w].detailed = details'[w] + window'[w].overflow
        /\ details'[w] <= DenialBudget
        /\ details'[w] < DenialBudget => window'[w].overflow = 0
    BY <1>n, <1>1, <1>2, <1>7, <2>2, <2>3, DenialsAssumption DEF Counted, InBudget
  <2>5. Counted(w)'
    BY <1>1, <1>5, <1>6, <2>1, <2>2, <2>4 DEF Counted
  <2>6. \A v \in Minutes \ {w} : Counted(v)'
    BY <1>4, <1>6, <2>1, <2>2, <2>3 DEF DenialInv, Counted
  <2>7. DenialTypeOK'
    BY <1>w, <1>1, <1>3, <1>6, <2>1, <2>2, <2>3 DEF DenialTypeOK
  <2>8. QED
    BY <2>5, <2>6, <2>7 DEF DenialInv
<1>8. CASE ~InBudget(n)
  <2>1. /\ window' = [window EXCEPT ![w] = [window[w] EXCEPT !.detailed = n,
                                                            !.overflow = window[w].overflow + 1]]
        /\ details' = details
        /\ within' = IF w = minute THEN [within EXCEPT ![w] = within[w] + 1] ELSE within
    BY <1>w, <1>n, <1>8 DEF Recorded
  <2>2. /\ window' \in [Minutes -> Window] /\ window'[w].detailed = n
        /\ window'[w].overflow = window[w].overflow + 1
        /\ window'[w].summarized = window[w].summarized
        /\ \A v \in Minutes \ {w} : window'[v] = window[v]
    BY <1>1, <1>2, <2>1 DEF DenialTypeOK, Window
  <2>3. /\ within' \in [Minutes -> Nat]
        /\ within'[w] = IF w = minute THEN within[w] + 1 ELSE within[w]
        /\ \A v \in Minutes \ {w} : within'[v] = within[v]
    BY <1>1, <1>2, <2>1 DEF DenialTypeOK
  <2>4. /\ window'[w].detailed = details[w] + window'[w].overflow
        /\ details[w] = DenialBudget
        /\ within'[w] <= window'[w].overflow
    BY <1>n, <1>1, <1>2, <1>8, <2>2, <2>3, DenialsAssumption DEF Counted, InBudget
  <2>5. summary[w] # {} => w # minute /\ within'[w] = within[w]
    BY <1>1, <2>3 DEF Counted
  <2>6. \A k \in summary[w] : k <= window'[w].overflow
    BY <1>1, <1>2, <2>2 DEF Counted
  <2>7. details'[w] <= DenialBudget /\ ~(details'[w] < DenialBudget)
    BY <2>1, <2>4, DenialsAssumption
  <2>8. Counted(w)'
    BY <1>1, <1>5, <1>6, <2>1, <2>2, <2>4, <2>5, <2>6, <2>7 DEF Counted
  <2>9. \A v \in Minutes \ {w} : Counted(v)'
    BY <1>4, <1>6, <2>1, <2>2, <2>3 DEF DenialInv, Counted
  <2>10. DenialTypeOK'
    BY <1>w, <1>1, <1>3, <1>6, <2>1, <2>2, <2>3 DEF DenialTypeOK
  <2>11. QED
    BY <2>8, <2>9, <2>10 DEF DenialInv
<1>9. QED
  BY <1>7, <1>8

\* Every step keeps the counts.
LEMMA DenialStep == DenialInv /\ [DenialNext]_denialVars => DenialInv'
<1> SUFFICES ASSUME DenialInv, [DenialNext]_denialVars PROVE DenialInv'
  OBVIOUS
<1>0. /\ DenialTypeOK /\ minute \in Nat /\ minute <= minute
      /\ \A w \in Minutes : w \in Nat /\ w <= LastMinute /\ w >= 1
  BY DenialsAssumption DEF DenialInv, DenialTypeOK, Minutes
<1>1. ASSUME NEW d \in Denied, Deny(d) PROVE DenialInv'
  BY <1>0, <1>1, UnrecordedStep DEF Deny, DenialTypeOK, Taken
<1>2. ASSUME NEW d \in Denied, Count(d) PROVE DenialInv'
  <2>1. /\ denial' \in [Denied -> Taken] /\ denial'[d].pc = "counting"
        /\ denial'[d].minute = denial[d].minute
        /\ \A e \in Denied \ {d} : denial'[e] = denial[e]
    BY <1>0, <1>2 DEF Count, DenialTypeOK, Taken
  <2>2. QED
    BY <1>0, <1>2, <2>1, UnrecordedStep DEF Count, DenialTypeOK
<1>3. ASSUME NEW d \in Denied, Recorded(d) PROVE DenialInv'
  BY <1>3, RecordedStep
<1>4. ASSUME NEW d \in Denied, NotRecorded(d) PROVE DenialInv'
  <2>1. /\ denial' \in [Denied -> Taken] /\ denial'[d].pc = "lost"
        /\ denial'[d].minute = denial[d].minute
        /\ \A e \in Denied \ {d} : denial'[e] = denial[e]
    BY <1>0, <1>4 DEF NotRecorded, DenialTypeOK, Taken
  <2>2. QED
    BY <1>0, <1>4, <2>1, UnrecordedStep DEF NotRecorded, DenialTypeOK
<1>5. ASSUME Flush PROVE DenialInv'
  <2> DEFINE due == {w \in Minutes \ locked :
                       window[w].overflow > 0 /\ ~window[w].summarized /\ Over(w)}
  <2>1. /\ \A w \in Minutes : summary'[w] = IF w \in due THEN summary[w] \cup {window[w].overflow}
                                                       ELSE summary[w]
        /\ \A w \in Minutes : window'[w] = [window[w] EXCEPT !.summarized =
                                              window[w].summarized \/ w \in due]
        /\ DOMAIN summary' = Minutes /\ DOMAIN window' = Minutes
        /\ UNCHANGED <<minute, denial, locked, details, within>>
    BY <1>5 DEF Flush
  <2>2. \A w \in Minutes : window[w].overflow \in Nat /\ window[w] \in Window /\ summary[w] \subseteq Nat
    BY <1>0 DEF DenialTypeOK, Window
  <2>3. summary' \in [Minutes -> SUBSET Nat]
    <3>1. \A w \in Minutes : summary'[w] \in SUBSET Nat
      BY <2>1, <2>2
    <3>2. summary' = [w \in Minutes |-> summary'[w]]
      BY <1>5 DEF Flush
    <3>3. QED
      BY <3>1, <3>2
  <2>4. ASSUME NEW w \in Minutes
        PROVE  /\ window'[w].detailed = window[w].detailed
               /\ window'[w].overflow = window[w].overflow
               /\ window'[w] \in Window
               /\ w \in due \/ window[w].summarized <=> window'[w].summarized
    <3>1. PICK b \in BOOLEAN : b <=> (window[w].summarized \/ w \in due)
      OBVIOUS
    <3>2. window'[w] = [window[w] EXCEPT !.summarized = b]
      <4>1. (window[w].summarized \/ w \in due) = b
        BY <3>1, Zenon
      <4>2. QED
        BY <2>1, <4>1, Zenon
    <3>3. QED
      BY <2>2, <3>1, <3>2 DEF Window
  <2>5. window' \in [Minutes -> Window]
    <3>1. window' = [w \in Minutes |-> window'[w]]
      BY <1>5 DEF Flush
    <3>2. QED
      BY <2>4, <3>1
  <2>6. \A w \in Minutes : RecordedIn(w)' = RecordedIn(w)
    BY <2>1 DEF RecordedIn
  <2>7. ASSUME NEW w \in Minutes PROVE Counted(w)'
    <3>1. Counted(w) /\ within[w] \in Nat
      BY <1>0, <2>7 DEF DenialInv, DenialTypeOK
    <3>2. CASE w \in due
      <4>1. summary[w] = {} /\ w < minute
        BY <3>1, <3>2 DEF Counted, Over
      <4>2. summary'[w] = {window[w].overflow}
        BY <2>1, <2>7, <3>2, <4>1
      <4>3. within'[w] <= window[w].overflow /\ window[w].overflow <= window'[w].overflow
        BY <2>1, <2>2, <2>4, <2>7, <3>1 DEF Counted
      <4>4. QED
        BY <2>1, <2>4, <2>6, <2>7, <3>1, <3>2, <4>1, <4>2, <4>3 DEF Counted
    <3>3. CASE w \notin due
      BY <2>1, <2>4, <2>6, <2>7, <3>1, <3>3 DEF Counted
    <3>4. QED
      BY <3>2, <3>3
  <2>8. DenialTypeOK'
    BY <1>0, <2>1, <2>3, <2>5 DEF DenialTypeOK
  <2>9. QED
    BY <2>7, <2>8 DEF DenialInv
<1>6. ASSUME NextMinute PROVE DenialInv'
  <2>1. minute' \in Minutes /\ minute <= minute'
    BY <1>0, <1>6, DenialsAssumption DEF NextMinute, DenialTypeOK, Minutes
  <2>2. QED
    BY <1>0, <1>6, <2>1, UnrecordedStep DEF NextMinute, DenialTypeOK
<1>7. CASE UNCHANGED denialVars
  BY <1>0, <1>7, UnrecordedStep DEF denialVars, DenialTypeOK
<1>8. QED
  BY <1>1, <1>2, <1>3, <1>4, <1>5, <1>6, <1>7 DEF DenialNext

\* The audit of denials, for any number of denials, any budget and any number
\* of minutes: each denial recorded is a detail row or a count, and a window's
\* one summary has all that were committed past the budget before its minute
\* was over.
THEOREM DenialsAreCounted == DenialSpec => []DenialsCounted
<1>1. DenialInit => DenialInv
  <2> SUFFICES ASSUME DenialInit PROVE DenialInv
    OBVIOUS
  <2>1. DenialTypeOK
    BY DenialsAssumption DEF DenialInit, DenialTypeOK, Taken, Window, Minutes
  <2>2. ASSUME NEW w \in Minutes PROVE Counted(w)
    <3>1. RecordedIn(w) = {}
      BY DEF DenialInit, RecordedIn
    <3>2. IsFiniteSet(RecordedIn(w)) /\ Cardinality(RecordedIn(w)) = 0
      BY <3>1, FS_EmptySet
    <3>3. QED
      BY <3>2, DenialsAssumption DEF DenialInit, Counted
  <2>3. QED
    BY <2>1, <2>2 DEF DenialInv
<1>2. DenialInv => DenialsCounted
  BY DEF DenialInv, Counted, DenialsCounted
<1>3. QED
  BY <1>1, <1>2, DenialStep, PTL DEF DenialSpec

=============================================================================
