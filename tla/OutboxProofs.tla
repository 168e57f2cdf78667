---------------------------- MODULE OutboxProofs ----------------------------
(***************************************************************************)
(* Proofs about Outbox for every set of events and forwarders, every batch *)
(* size and every number of recoveries and faults.                         *)
(***************************************************************************)
EXTENDS Outbox, FiniteSetTheorems, FunctionTheorems, TLAPS

\* number_in's writes keep the database well formed.
LEMMA NumberedType ==
  ASSUME NEW d \in Database, NEW s \in [epoch: Nat, last: Nat, now: Nat],
         NEW n \in Nat, NEW picked \in SUBSET Event, NEW rn \in [picked -> 1..n]
  PROVE  NumberedWith(d, s, n, rn) \in Database
<1>1. StartOf(s) \in Nat
  BY DEF StartOf
<1>2. {[ev |-> e, epoch |-> s.now, seq |-> StartOf(s) + rn[e]] : e \in DOMAIN rn}
        \in SUBSET Position
  BY <1>1 DEF Position
<1>3. ForkOf(s) \in SUBSET Fork
  BY DEF ForkOf, Fork
<1> DEFINE d1 == [d EXCEPT !.assigned = @ \cup
                     {[ev |-> e, epoch |-> s.now, seq |-> StartOf(s) + rn[e]] : e \in DOMAIN rn}]
           d2 == [d1 EXCEPT !.history = @ \cup ForkOf(s)]
           d3 == [d2 EXCEPT !.epoch = s.now]
           d4 == [d3 EXCEPT !.last = StartOf(s) + n]
<1>4. d1 \in Database
  BY <1>2 DEF Database
<1>5. d2 \in Database
  <2> HIDE DEF d1
  <2> QED BY <1>3, <1>4 DEF Database
<1>6. d3 \in Database
  <2> HIDE DEF d2
  <2> QED BY <1>5 DEF Database
<1>7. d4 \in Database
  <2> HIDE DEF d3
  <2> QED BY <1>1, <1>6 DEF Database
<1>8. NumberedWith(d, s, n, rn) = d4
  BY DEF NumberedWith
<1>9. QED
  BY <1>7, <1>8

\* Type correctness: the variables keep their types in every reachable state.
THEOREM TypeCorrect == Spec => []TypeOK
<1>1. Init => TypeOK
  BY DEF Init, TypeOK, EmptyDatabase, NotSeen, Stage, Database
<1>2. TypeOK /\ [Next]_vars => TypeOK'
  <2> SUFFICES ASSUME TypeOK, [Next]_vars PROVE TypeOK'
    OBVIOUS
  <2> USE OutboxAssumption DEF TypeOK, business, server, counter, pass, hints, transport
  <2>1. ASSUME NEW e \in Event, Emit(e) PROVE TypeOK'
    <3>1. db' \in Database
      <4>1. db.nextOrd + 1 \in Nat \ {0}
        BY DEF Database
      <4>2. \A k \in Nat \ {0} : [db EXCEPT !.nextOrd = k] \in Database
        BY DEF Database
      <4>3. QED
        BY <2>1, <4>1, <4>2 DEF Emit
    <3>2. db.nextOrd \in Nat /\ db.committed \in SUBSET Event
      BY DEF Database
    <3>3. ord' \in [Event -> Nat]
      BY <2>1, <3>2 DEF Emit
    <3>4. before' \in [Event -> SUBSET Event]
      BY <2>1, <3>2 DEF Emit
    <3>5. QED
      BY <2>1, <3>1, <3>3, <3>4 DEF Emit
  <2>2. ASSUME NEW e \in Event, NEW f \in Forwarder, Commit(e, f) PROVE TypeOK'
    BY <2>2 DEF Commit, Database
  <2>3. ASSUME NEW e \in Event, Rollback(e) PROVE TypeOK'
    BY <2>3 DEF Rollback
  <2>4. ASSUME NEW f \in Forwarder, Wake(f) PROVE TypeOK'
    BY <2>4 DEF Wake, Stage
  <2>5. ASSUME NEW f \in Forwarder, Poll(f) PROVE TypeOK'
    BY <2>5 DEF Poll, Stage
  <2>6. ASSUME NEW f \in Forwarder, TakeLease(f) PROVE TypeOK'
    <3>1. db' \in Database
      <4>1. CASE db' = [db EXCEPT !.lease = f]
        BY <4>1 DEF Database
      <4>2. QED
        BY <2>6, <4>1 DEF TakeLease
    <3>2. held' \in [Forwarder -> BOOLEAN] /\ pc' \in [Forwarder -> Stage]
      BY <2>6 DEF TakeLease, Stage
    <3>3. QED
      BY <2>6, <3>1, <3>2 DEF TakeLease
  <2>7. ASSUME NEW f \in Forwarder, LockCounter(f) PROVE TypeOK'
    BY <2>7 DEF LockCounter, Stage, Database
  <2>8. ASSUME NEW f \in Forwarder, NumberAndRead(f) PROVE TypeOK'
    <3>1. PICK picked \in SUBSET Unnumbered(db), n \in 0..Batch :
            \E rn \in [picked -> 1..n] :
              /\ RowNumber(db, n, rn)
              /\ db' = NumberedWith(db, seen[f], n, rn)
              /\ assigned' = assigned \cup db'.assigned
      BY <2>8 DEF NumberAndRead
    <3>2. PICK rn \in [picked -> 1..n] :
              /\ RowNumber(db, n, rn)
              /\ db' = NumberedWith(db, seen[f], n, rn)
              /\ assigned' = assigned \cup db'.assigned
      BY <3>1
    <3>3. picked \in SUBSET Event /\ n \in Nat
      BY <3>1 DEF Unnumbered, Database
    <3>4. db' \in Database
      BY <3>2, <3>3, NumberedType
    <3>5. assigned' \in SUBSET Position
      BY <3>2, <3>4 DEF Database
    <3>6. PICK q \in SUBSET Unpublished(db') :
            /\ todo' = [todo EXCEPT ![f] = q]
            /\ pc' = [pc EXCEPT ![f] = IF q = {} THEN "idle" ELSE "publish"]
      BY <2>8 DEF NumberAndRead
    <3>7. q \in SUBSET Position
      BY <3>4, <3>6 DEF Unpublished, Database
    <3>8. todo' \in [Forwarder -> SUBSET Position] /\ pc' \in [Forwarder -> Stage]
      BY <3>6, <3>7 DEF Stage
    <3>9. QED
      BY <2>8, <3>4, <3>5, <3>8 DEF NumberAndRead, NotSeen
  <2>9. ASSUME NEW f \in Forwarder, Publish(f) PROVE TypeOK'
    BY <2>9 DEF Publish, Accepted, Stage
  <2>9a. ASSUME NEW f \in Forwarder, PublishAnswerLost(f) PROVE TypeOK'
    BY <2>9a DEF PublishAnswerLost, Accepted, Stage
  <2>10. ASSUME NEW f \in Forwarder, MarkPublished(f) PROVE TypeOK'
    BY <2>10 DEF MarkPublished, MarkedBy, Stage, Database
  <2>11. ASSUME NEW f \in Forwarder, Fail(f) PROVE TypeOK'
    <3>1. pc' \in [Forwarder -> Stage] /\ done' \in [Forwarder -> SUBSET Position]
      BY <2>11 DEF Fail, Stage
    <3>2. lock' \in Forwarder \cup {NoOne} /\ faults' \in Nat
      BY <2>11 DEF Fail
    <3>3. /\ seen' \in [Forwarder -> [epoch: Nat, last: Nat, now: Nat]]
          /\ todo' \in [Forwarder -> SUBSET Position]
      BY <2>11 DEF Fail, NotSeen
    <3>4. QED
      BY <2>11, <3>1, <3>2, <3>3 DEF Fail
  <2>12. ASSUME NEW f \in Forwarder, Crash(f) PROVE TypeOK'
    <3>1. db' \in Database /\ saved' \in Database
      BY <2>12 DEF Crash, Database
    <3>2. lock' \in Forwarder \cup {NoOne} /\ faults' \in Nat
      BY <2>12 DEF Crash
    <3>3. /\ seen' \in [Forwarder -> [epoch: Nat, last: Nat, now: Nat]]
          /\ pc' \in [Forwarder -> Stage]
      BY <2>12 DEF Crash, NotSeen, Stage
    <3>4. QED
      BY <2>12, <3>1, <3>2, <3>3 DEF Crash
  <2>13. ASSUME NEW f \in Forwarder, LeaseRunsOut(f) PROVE TypeOK'
    BY <2>13 DEF LeaseRunsOut, Database
  <2>14. ASSUME LeaseExpires PROVE TypeOK'
    BY <2>14 DEF LeaseExpires, Database
  <2>15. ASSUME NEW e \in Event, Purge(e) PROVE TypeOK'
    BY <2>15 DEF Purge, Database
  <2>16. ASSUME Save PROVE TypeOK'
    BY <2>16 DEF Save
  <2>17. ASSUME Recover PROVE TypeOK'
    <3>1. PICK k \in Nat \ {0} : db' = [saved EXCEPT !.nextOrd = k]
      BY <2>17 DEF Recover, Database
    <3>2. db' \in Database
      BY <3>1 DEF Database
    <3>3. saved' \in Database
      BY <2>17 DEF Recover, EmptyDatabase, Database
    <3>4. QED
      BY <2>17, <3>2, <3>3 DEF Recover, NotSeen, Stage
  <2>18. CASE UNCHANGED vars
    BY <2>18 DEF vars
  <2>19. QED
    BY <2>1, <2>2, <2>3, <2>4, <2>5, <2>6, <2>7, <2>8, <2>9, <2>9a, <2>10, <2>11, <2>12,
       <2>13, <2>14, <2>15, <2>16, <2>17, <2>18
       DEF Next, Business, Pass, Failure, Upkeep
<1>3. QED
  BY <1>1, <1>2, PTL DEF Spec
-----------------------------------------------------------------------------
(* The lock invariant.                                                     *)

\* The fields of the database that numbering reads and writes.
SameNumbers(d1, d2) ==
  /\ d1.assigned = d2.assigned
  /\ d1.epoch = d2.epoch
  /\ d1.last = d2.last
  /\ d1.history = d2.history

\* Every step but the numbering transaction, a new saved copy and a recovery
\* leaves positions, counters and forks alone, in both copies.
LEMMA QuietSteps ==
  ASSUME TypeOK, [Next]_vars
  PROVE  \/ \E f \in Forwarder : NumberAndRead(f)
         \/ Save
         \/ Recover
         \/ /\ UNCHANGED <<assigned, epochNow>>
            /\ SameNumbers(db', db)
            /\ SameNumbers(saved', saved)
<1> DEFINE Quiet == /\ UNCHANGED <<assigned, epochNow>>
                    /\ SameNumbers(db', db)
                    /\ SameNumbers(saved', saved)
<1> USE DEF TypeOK, business, server, counter, pass, hints, transport
<1>1. ASSUME NEW e \in Event, Emit(e) PROVE Quiet
  BY <1>1 DEF Emit, Database, SameNumbers
<1>2. ASSUME NEW e \in Event, NEW f \in Forwarder, Commit(e, f) PROVE Quiet
  BY <1>2 DEF Commit, Database, SameNumbers
<1>3. ASSUME NEW e \in Event, Rollback(e) PROVE Quiet
  BY <1>3 DEF Rollback, SameNumbers
<1>4. ASSUME NEW f \in Forwarder, Wake(f) PROVE Quiet
  BY <1>4 DEF Wake, SameNumbers
<1>5. ASSUME NEW f \in Forwarder, Poll(f) PROVE Quiet
  BY <1>5 DEF Poll, SameNumbers
<1>6. ASSUME NEW f \in Forwarder, TakeLease(f) PROVE Quiet
  <2>1. UNCHANGED db \/ db' = [db EXCEPT !.lease = f]
    BY <1>6 DEF TakeLease
  <2>2. SameNumbers(db', db)
    BY <2>1 DEF Database, SameNumbers
  <2>3. QED
    BY <1>6, <2>2 DEF TakeLease, SameNumbers
<1>7. ASSUME NEW f \in Forwarder, LockCounter(f) PROVE Quiet
  BY <1>7 DEF LockCounter, SameNumbers
<1>8. ASSUME NEW f \in Forwarder, Publish(f) PROVE Quiet
  BY <1>8 DEF Publish, SameNumbers
<1>8a. ASSUME NEW f \in Forwarder, PublishAnswerLost(f) PROVE Quiet
  BY <1>8a DEF PublishAnswerLost, SameNumbers
<1>9. ASSUME NEW f \in Forwarder, MarkPublished(f) PROVE Quiet
  BY <1>9 DEF MarkPublished, Database, SameNumbers
<1>10. ASSUME NEW f \in Forwarder, Fail(f) PROVE Quiet
  BY <1>10 DEF Fail, SameNumbers
<1>11. ASSUME NEW f \in Forwarder, Crash(f) PROVE Quiet
  BY <1>11 DEF Crash, Database, SameNumbers
<1>12. ASSUME NEW f \in Forwarder, LeaseRunsOut(f) PROVE Quiet
  BY <1>12 DEF LeaseRunsOut, Database, SameNumbers
<1>13. ASSUME LeaseExpires PROVE Quiet
  BY <1>13 DEF LeaseExpires, Database, SameNumbers
<1>14. ASSUME NEW e \in Event, Purge(e) PROVE Quiet
  BY <1>14 DEF Purge, Database, SameNumbers
<1>15. CASE UNCHANGED vars
  BY <1>15 DEF vars, SameNumbers
<1>16. QED
  BY <1>1, <1>2, <1>3, <1>4, <1>5, <1>6, <1>7, <1>8, <1>8a, <1>9, <1>10, <1>11, <1>12,
     <1>13, <1>14, <1>15
     DEF Next, Business, Pass, Failure, Upkeep

\* The only steps that bring a forwarder to "number", or move the lock.
LEMMA LockSteps ==
  ASSUME TypeOK, [Next]_vars
  PROVE  \/ \E f \in Forwarder : LockCounter(f) \/ NumberAndRead(f)
         \/ Recover
         \/ \A f \in Forwarder : pc'[f] = "number" =>
              pc[f] = "number" /\ seen'[f] = seen[f] /\ (lock = f => lock' = f)
<1> DEFINE Kept == \A f \in Forwarder : pc'[f] = "number" =>
                      pc[f] = "number" /\ seen'[f] = seen[f] /\ (lock = f => lock' = f)
<1> USE DEF TypeOK, Stage, business, server, counter, pass, hints, transport
<1>1. ASSUME NEW e \in Event, Emit(e) PROVE Kept
  BY <1>1 DEF Emit
<1>2. ASSUME NEW e \in Event, NEW f \in Forwarder, Commit(e, f) PROVE Kept
  BY <1>2 DEF Commit
<1>3. ASSUME NEW e \in Event, Rollback(e) PROVE Kept
  BY <1>3 DEF Rollback
<1>4. ASSUME NEW f \in Forwarder, Wake(f) PROVE Kept
  BY <1>4 DEF Wake
<1>5. ASSUME NEW f \in Forwarder, Poll(f) PROVE Kept
  BY <1>5 DEF Poll
<1>6. ASSUME NEW f \in Forwarder, TakeLease(f) PROVE Kept
  BY <1>6 DEF TakeLease
<1>8. ASSUME NEW f \in Forwarder, Publish(f) PROVE Kept
  BY <1>8 DEF Publish
<1>8a. ASSUME NEW f \in Forwarder, PublishAnswerLost(f) PROVE Kept
  BY <1>8a DEF PublishAnswerLost
<1>9. ASSUME NEW f \in Forwarder, MarkPublished(f) PROVE Kept
  BY <1>9 DEF MarkPublished
<1>10. ASSUME NEW f \in Forwarder, Fail(f) PROVE Kept
  BY <1>10 DEF Fail
<1>11. ASSUME NEW f \in Forwarder, Crash(f) PROVE Kept
  BY <1>11 DEF Crash
<1>12. ASSUME NEW f \in Forwarder, LeaseRunsOut(f) PROVE Kept
  BY <1>12 DEF LeaseRunsOut
<1>13. ASSUME LeaseExpires PROVE Kept
  BY <1>13 DEF LeaseExpires
<1>14. ASSUME NEW e \in Event, Purge(e) PROVE Kept
  BY <1>14 DEF Purge
<1>15. ASSUME Save PROVE Kept
  BY <1>15 DEF Save
<1>16. CASE UNCHANGED vars
  BY <1>16 DEF vars
<1>17. QED
  BY <1>1, <1>2, <1>3, <1>4, <1>5, <1>6, <1>8, <1>8a, <1>9, <1>10, <1>11, <1>12,
     <1>13, <1>14, <1>15, <1>16
     DEF Next, Business, Pass, Failure, Upkeep

\* While a forwarder numbers, it alone holds the lock, and the counter and
\* epoch it read under the lock are still the database's.
LEMMA LockStep ==
  ASSUME TypeOK, LockInv, [Next]_vars
  PROVE  LockInv'
<1> USE OutboxAssumption DEF TypeOK, Stage
<1>1. ASSUME NEW f \in Forwarder, LockCounter(f) PROVE LockInv'
  <2>1. \A g \in Forwarder : pc'[g] = "number" => g = f
    BY <1>1 DEF LockCounter, LockInv
  <2>2. lock' = f /\ seen'[f] = [epoch |-> db'.epoch, last |-> db'.last, now |-> epochNow']
    BY <1>1 DEF LockCounter, server
  <2>3. QED
    BY <2>1, <2>2 DEF LockInv
<1>2. ASSUME NEW f \in Forwarder, NumberAndRead(f) PROVE LockInv'
  <2>1. lock = f
    BY <1>2 DEF NumberAndRead, LockInv
  <2>2. \A g \in Forwarder : pc'[g] # "number"
    BY <1>2, <2>1 DEF NumberAndRead, LockInv
  <2>3. QED
    BY <2>2 DEF LockInv
<1>3. ASSUME Recover PROVE LockInv'
  BY <1>3 DEF Recover, LockInv
<1>4. ASSUME NEW g \in Forwarder, pc'[g] = "number",
             \A f \in Forwarder : pc'[f] = "number" =>
               pc[f] = "number" /\ seen'[f] = seen[f] /\ (lock = f => lock' = f),
             ~ \E f \in Forwarder : NumberAndRead(f),
             ~ Recover
      PROVE  /\ lock' = g
             /\ seen'[g] = [epoch |-> db'.epoch, last |-> db'.last, now |-> epochNow']
  <2>1. /\ lock' = g
        /\ seen'[g] = [epoch |-> db.epoch, last |-> db.last, now |-> epochNow]
    BY <1>4 DEF LockInv
  <2>2. Save \/ (SameNumbers(db', db) /\ epochNow' = epochNow)
    BY <1>4, QuietSteps
  <2>3. db'.epoch = db.epoch /\ db'.last = db.last /\ epochNow' = epochNow
    BY <2>2 DEF Save, SameNumbers
  <2>4. QED
    BY <2>1, <2>3
<1>5. QED
  BY <1>1, <1>2, <1>3, <1>4, LockSteps DEF LockInv

-----------------------------------------------------------------------------
(* Positions over all branches of the database.                            *)

\* What a numbering transaction does to the positions: it gives those of new,
\* the n numbers of the current epoch after base, to unnumbered rows in the
\* order of their identity values.
Numbering(base, n, new) ==
  /\ base = IF db.epoch = epochNow THEN db.last ELSE 0
  /\ \A a \in new : a.epoch = epochNow /\ a.seq > base /\ a.seq <= base + n
  /\ \A a, b \in new : a.seq = b.seq => a = b
  /\ assigned' = assigned \cup new
  /\ db'.assigned = db.assigned \cup new
  /\ db'.epoch = epochNow
  /\ db'.last = base + n
  /\ db'.history = db.history \cup
       (IF db.epoch # epochNow /\ db.epoch # 0
          THEN {[old |-> db.epoch, fork |-> db.last, new |-> epochNow]}
          ELSE {})
  /\ epochNow' = epochNow
  /\ saved' = saved
  /\ n <= Batch
  /\ \A i \in 1..n : \E a \in new : a.seq = base + i
  /\ \A a \in new : a.ev \in Unnumbered(db)
  /\ \A a, b \in new : ord[a.ev] < ord[b.ev] => a.seq < b.seq
  /\ \A a \in new, e \in Unnumbered(db) : (\E b \in new : b.ev = e) \/ ord[a.ev] < ord[e]

\* The numbering transaction has that effect: its new positions lie beyond
\* every position given in the current epoch before.
LEMMA NumberingEffect ==
  ASSUME TypeOK, LockInv, PositionInv, NEW f \in Forwarder, NumberAndRead(f)
  PROVE  \E base \in Nat, n \in Nat, new \in SUBSET Position : Numbering(base, n, new)
<1> DEFINE s == [epoch |-> db.epoch, last |-> db.last, now |-> epochNow]
<1>1. seen[f] = s
  BY DEF NumberAndRead, LockInv
<1>2. PICK picked \in SUBSET Unnumbered(db), n \in 0..Batch :
        \E rn \in [picked -> 1..n] :
          /\ RowNumber(db, n, rn)
          /\ db' = NumberedWith(db, s, n, rn)
          /\ assigned' = assigned \cup db'.assigned
  BY <1>1 DEF NumberAndRead
<1>3. PICK rn \in [picked -> 1..n] :
          /\ RowNumber(db, n, rn)
          /\ db' = NumberedWith(db, s, n, rn)
          /\ assigned' = assigned \cup db'.assigned
  BY <1>2
<1> DEFINE base == StartOf(s)
           new == {[ev |-> e, epoch |-> epochNow, seq |-> base + rn[e]] : e \in picked}
<1>4. n \in Nat /\ picked \in SUBSET Event
  BY <1>2, OutboxAssumption DEF TypeOK, Database, Unnumbered
<1>5. db.epoch \in Nat /\ db.last \in Nat /\ epochNow \in Nat
  BY DEF TypeOK, Database
<1>6. base \in Nat /\ base = IF db.epoch = epochNow THEN db.last ELSE 0
  BY <1>5 DEF StartOf
<1>7. DOMAIN rn = picked
  OBVIOUS
<1>8. /\ db'.assigned = db.assigned \cup new
      /\ db'.epoch = epochNow
      /\ db'.last = base + n
      /\ db'.history = db.history \cup ForkOf(s)
  BY <1>3, <1>7 DEF NumberedWith, TypeOK, Database
<1>9. ForkOf(s) = IF db.epoch # epochNow /\ db.epoch # 0
                   THEN {[old |-> db.epoch, fork |-> db.last, new |-> epochNow]}
                   ELSE {}
  BY DEF ForkOf
<1>10. new \in SUBSET Position
  BY <1>4, <1>5, <1>6 DEF Position
<1>11. \A a \in new : a.epoch = epochNow /\ a.seq > base /\ a.seq <= base + n
  BY <1>4, <1>6
<1>12. \A a, b \in new : a.seq = b.seq => a = b
  <2> SUFFICES ASSUME NEW a \in new, NEW b \in new, a.seq = b.seq PROVE a = b
    OBVIOUS
  <2>1. PICK ea \in picked : a = [ev |-> ea, epoch |-> epochNow, seq |-> base + rn[ea]]
    OBVIOUS
  <2>2. PICK eb \in picked : b = [ev |-> eb, epoch |-> epochNow, seq |-> base + rn[eb]]
    OBVIOUS
  <2>3. rn[ea] \in 1..n /\ rn[eb] \in 1..n
    OBVIOUS
  <2>4. rn[ea] = rn[eb]
    BY <2>1, <2>2, <2>3, <1>4, <1>6
  <2>5. ea = eb
    BY <2>4, <1>3, <1>7 DEF RowNumber
  <2>6. QED
    BY <2>1, <2>2, <2>5
<1>13. assigned' = assigned \cup new
  BY <1>3, <1>8 DEF PositionInv, Branch
<1>14. epochNow' = epochNow /\ saved' = saved
  BY DEF NumberAndRead, server
<1>15. n <= Batch
  BY OutboxAssumption
<1>16. \A i \in 1..n : \E a \in new : a.seq = base + i
  <2> SUFFICES ASSUME NEW i \in 1..n PROVE \E a \in new : a.seq = base + i
    OBVIOUS
  <2>1. PICK e \in picked : rn[e] = i
    BY <1>3, <1>7 DEF RowNumber
  <2>2. [ev |-> e, epoch |-> epochNow, seq |-> base + rn[e]] \in new
    OBVIOUS
  <2>3. QED
    BY <2>1, <2>2
<1>17. \A a \in new : \E e \in picked : a.ev = e /\ a.seq = base + rn[e] /\ rn[e] \in Nat
  BY <1>4
<1>18. \A a \in new : a.ev \in Unnumbered(db)
  BY <1>2, <1>17
<1>19. \A a, b \in new : ord[a.ev] < ord[b.ev] => a.seq < b.seq
  <2>1. \A e1, e2 \in picked : ord[e1] < ord[e2] => rn[e1] < rn[e2]
    BY <1>3, <1>7 DEF RowNumber
  <2>2. QED
    BY <1>6, <1>17, <2>1
<1>20. \A a \in new, e \in Unnumbered(db) : (\E b \in new : b.ev = e) \/ ord[a.ev] < ord[e]
  <2>1. \A e1 \in picked, e2 \in Unnumbered(db) \ picked : ord[e1] < ord[e2]
    BY <1>3, <1>7 DEF RowNumber
  <2>2. \A e \in picked : \E b \in new : b.ev = e
    <3> SUFFICES ASSUME NEW e \in picked PROVE \E b \in new : b.ev = e
      OBVIOUS
    <3>1. [ev |-> e, epoch |-> epochNow, seq |-> base + rn[e]] \in new
      OBVIOUS
    <3>2. QED
      BY <3>1
  <2>3. QED
    BY <1>17, <2>1, <2>2
<1> HIDE DEF base, new
<1>21. Numbering(base, n, new)
  BY <1>6, <1>8, <1>9, <1>11, <1>12, <1>13, <1>14, <1>15, <1>16, <1>18, <1>19, <1>20
     DEF Numbering
<1>22. QED
  BY <1>4, <1>6, <1>10, <1>21

\* The numbering transaction keeps the positions' invariant.
LEMMA NumberingStep ==
  ASSUME TypeOK, LockInv, PositionInv, NEW f \in Forwarder, NumberAndRead(f)
  PROVE  PositionInv'
<1>0. PICK base \in Nat, n \in Nat, new \in SUBSET Position : Numbering(base, n, new)
  BY NumberingEffect
<1>1. /\ base = IF db.epoch = epochNow THEN db.last ELSE 0
      /\ \A a \in new : a.epoch = epochNow /\ a.seq > base /\ a.seq <= base + n
      /\ \A a, b \in new : a.seq = b.seq => a = b
      /\ assigned' = assigned \cup new
      /\ db'.assigned = db.assigned \cup new
      /\ db'.epoch = epochNow
      /\ db'.last = base + n
      /\ db'.history = db.history \cup
           (IF db.epoch # epochNow /\ db.epoch # 0
              THEN {[old |-> db.epoch, fork |-> db.last, new |-> epochNow]}
              ELSE {})
      /\ epochNow' = epochNow
      /\ saved' = saved
  BY <1>0 DEF Numbering
<1>2. /\ assigned \in SUBSET Position /\ epochNow \in Nat
      /\ db.epoch \in Nat /\ db.last \in Nat /\ db.assigned \in SUBSET Position
      /\ saved.epoch \in Nat /\ saved.last \in Nat /\ saved.assigned \in SUBSET Position
      /\ \A h \in db.history \cup saved.history : h.old \in Nat /\ h.fork \in Nat
  BY DEF TypeOK, Database, Fork
<1>3. \A a \in assigned \cup new : a.epoch \in Nat /\ a.seq \in Nat
  BY <1>2 DEF Position
\* the current epoch's old positions end at base
<1>4. \A a \in assigned : a.epoch = epochNow => a \in db.assigned /\ a.seq <= base
  BY <1>1, <1>2, <1>3 DEF PositionInv, Branch
<1>5. \A a \in new : a \notin assigned
  BY <1>1, <1>2, <1>3, <1>4
<1>6. PositionsUnique'
  <2> SUFFICES ASSUME NEW a \in assigned \cup new, NEW b \in assigned \cup new,
                      a.epoch = b.epoch, a.seq = b.seq
               PROVE  a = b
    BY <1>1 DEF PositionsUnique
  <2>1. CASE a \in assigned /\ b \in assigned
    BY <2>1 DEF PositionInv, PositionsUnique
  <2>2. CASE a \in new /\ b \in new
    BY <2>2, <1>1
  <2>3. CASE a \in new /\ b \in assigned
    BY <2>3, <1>1, <1>3, <1>4
  <2>4. CASE a \in assigned /\ b \in new
    BY <2>4, <1>1, <1>3, <1>4
  <2>5. QED
    BY <2>1, <2>2, <2>3, <2>4
<1>7. \A a \in assigned' : a.epoch >= 1 /\ a.epoch <= epochNow' /\ a.seq >= 1
  BY <1>1, <1>2, <1>3 DEF PositionInv
<1>8. \A a \in assigned' : a.epoch = epochNow' => a \in db'.assigned
  BY <1>1, <1>4
<1>9. Branch(db)'
  <2>1. db'.assigned \subseteq assigned' /\ db'.epoch <= epochNow'
    BY <1>1, <1>2 DEF PositionInv, Branch
  <2>2. \A a \in db'.assigned : a.epoch <= db'.epoch
    BY <1>1, <1>2, <1>3 DEF PositionInv, Branch
  <2>3. \A a \in assigned' : a.epoch = db'.epoch => (a.seq <= db'.last <=> a \in db'.assigned)
    BY <1>1, <1>2, <1>3, <1>4
  <2>4. ASSUME NEW r \in db'.assigned, NEW a \in assigned',
               a.epoch = r.epoch, a.seq < r.seq
        PROVE  a \in db'.assigned
    BY <2>4, <1>1, <1>4 DEF PositionInv, Branch
  <2>5. ASSUME NEW h \in db'.history
        PROVE  /\ h.old < db'.epoch
               /\ \A a \in assigned' : a.epoch = h.old => (a.seq <= h.fork <=> a \in db'.assigned)
    <3>1. CASE h \in db.history
      <4>1. h.old < epochNow
        BY <3>1, <1>2 DEF PositionInv, Branch
      <4>2. QED
        BY <3>1, <4>1, <1>1, <1>2, <1>5 DEF PositionInv, Branch
    <3>2. CASE /\ h = [old |-> db.epoch, fork |-> db.last, new |-> epochNow]
               /\ db.epoch # epochNow
      <4>1. h.old < epochNow
        BY <3>2, <1>2 DEF PositionInv, Branch
      <4>2. QED
        BY <3>2, <4>1, <1>1, <1>2, <1>5 DEF PositionInv, Branch
    <3>3. QED
      BY <3>1, <3>2, <1>1
  <2>6. QED
    BY <2>1, <2>2, <2>3, <2>4, <2>5 DEF Branch
<1>10. Branch(saved)'
  <2>1. saved'.assigned \subseteq assigned' /\ saved'.epoch <= epochNow'
    BY <1>1 DEF PositionInv, Branch
  <2>2. \A a \in saved'.assigned : a.epoch <= saved'.epoch
    BY <1>1 DEF PositionInv, Branch
  <2>3. \A a \in assigned' : a.epoch = saved'.epoch => (a.seq <= saved'.last <=> a \in saved'.assigned)
    <3> SUFFICES ASSUME NEW a \in new, a.epoch = saved.epoch
                 PROVE  ~(a.seq <= saved.last) /\ a \notin saved.assigned
      BY <1>1 DEF PositionInv, Branch
    <3>1. saved.epoch = epochNow
      BY <1>1
    <3>2. saved.last <= base
      BY <3>1, <1>1 DEF PositionInv
    <3>3. QED
      BY <3>2, <1>1, <1>2, <1>3, <1>5 DEF PositionInv, Branch
  <2>4. ASSUME NEW r \in saved'.assigned, NEW a \in assigned',
               a.epoch = r.epoch, a.seq < r.seq
        PROVE  a \in saved'.assigned
    <3>1. CASE a \in assigned
      BY <2>4, <3>1, <1>1 DEF PositionInv, Branch
    <3>2. CASE a \in new
      <4>1. r \in saved.assigned /\ r \in assigned /\ r.epoch = epochNow
        BY <2>4, <3>2, <1>1 DEF PositionInv, Branch
      <4>2. QED
        BY <2>4, <3>2, <4>1, <1>1, <1>3, <1>4
    <3>3. QED
      BY <3>1, <3>2, <1>1
  <2>5. ASSUME NEW h \in saved'.history
        PROVE  /\ h.old < saved'.epoch
               /\ \A a \in assigned' : a.epoch = h.old => (a.seq <= h.fork <=> a \in saved'.assigned)
    <3>1. h \in saved.history /\ h.old < saved.epoch /\ saved.epoch <= epochNow
      BY <2>5, <1>1 DEF PositionInv, Branch
    <3>2. h.old < epochNow
      BY <3>1, <1>2
    <3>3. QED
      BY <3>1, <3>2, <1>1, <1>2 DEF PositionInv, Branch
  <2>6. QED
    BY <2>1, <2>2, <2>3, <2>4, <2>5 DEF Branch
<1>11. saved'.epoch = epochNow' => db'.epoch = epochNow' /\ saved'.last <= db'.last
  BY <1>1, <1>2 DEF PositionInv
<1>12. QED
  BY <1>1, <1>6, <1>7, <1>8, <1>9, <1>10, <1>11 DEF PositionInv

\* Every step keeps the positions' invariant.
LEMMA PositionStep ==
  ASSUME TypeOK, LockInv, PositionInv, [Next]_vars
  PROVE  PositionInv'
<1>1. ASSUME NEW f \in Forwarder, NumberAndRead(f) PROVE PositionInv'
  BY <1>1, NumberingStep
<1>2. ASSUME Save PROVE PositionInv'
  <2>1. /\ saved' = db /\ db' = db /\ epochNow' = epochNow /\ assigned' = assigned
    BY <1>2 DEF Save, transport
  <2>2. db.last \in Nat
    BY DEF TypeOK, Database
  <2>3. QED
    BY <2>1, <2>2 DEF PositionInv, PositionsUnique, Branch
<1>3. ASSUME Recover PROVE PositionInv'
  <2>1. PICK k \in Nat \ {0} : db' = [saved EXCEPT !.nextOrd = k]
    BY <1>3 DEF Recover, TypeOK, Database
  <2>2. SameNumbers(db', saved)
    BY <2>1 DEF SameNumbers, TypeOK, Database
  <2>3. /\ epochNow' = epochNow + 1 /\ assigned' = assigned
        /\ saved' = saved \/ saved' = EmptyDatabase
    BY <1>3 DEF Recover, transport
  <2>4. /\ epochNow \in Nat /\ saved.epoch \in Nat
        /\ \A a \in assigned : a.epoch \in Nat
    BY DEF TypeOK, Database, Position
  <2>5. Branch(saved)'
    BY <2>3, <2>4 DEF PositionInv, Branch, EmptyDatabase
  <2>6. Branch(db)'
    BY <2>2, <2>3, <2>4 DEF PositionInv, Branch, SameNumbers
  <2>7. saved'.epoch < epochNow'
    BY <2>3, <2>4 DEF PositionInv, Branch, EmptyDatabase
  <2>8. QED
    BY <2>3, <2>4, <2>5, <2>6, <2>7 DEF PositionInv, PositionsUnique, Branch
<1>4. ASSUME UNCHANGED <<assigned, epochNow>>, SameNumbers(db', db), SameNumbers(saved', saved)
      PROVE  PositionInv'
  BY <1>4 DEF PositionInv, PositionsUnique, Branch, SameNumbers
<1>5. QED
  BY <1>1, <1>2, <1>3, <1>4, QuietSteps

\* Positions are sound over every failover and restore: a position names one
\* event on all branches of the database together, and the recorded forks
\* separate the surviving positions of an epoch from the lost ones. It holds
\* whether or not identity values are handed out again.
THEOREM PositionsSound == Spec => [](PositionsUnique /\ ForkSound)
<1>1. Init => LockInv /\ PositionInv
  BY DEF Init, LockInv, PositionInv, PositionsUnique, Branch, EmptyDatabase
<1>2. TypeOK /\ LockInv /\ PositionInv /\ [Next]_vars => LockInv' /\ PositionInv'
  BY LockStep, PositionStep
<1>3. PositionInv => PositionsUnique /\ ForkSound
  BY DEF PositionInv, Branch, ForkSound
<1>4. QED
  BY <1>1, <1>2, <1>3, TypeCorrect, PTL DEF Spec

-----------------------------------------------------------------------------
(* Nothing is lost and nothing overtakes, unless identity values are       *)
(* handed out again.                                                       *)

\* The fields that say which rows there are.
SameRows(d1, d2) ==
  /\ d1.rows = d2.rows
  /\ d1.pub = d2.pub
  /\ d1.committed = d2.committed
  /\ d1.assigned = d2.assigned

\* Steps that change no row, position, message or list: business steps before
\* the commit, leases, locks and signals.
LEMMA RowSteps ==
  ASSUME TypeOK, [Next]_vars
  PROVE  \/ \E e \in Event : Purge(e) \/ Emit(e) \/ \E f \in Forwarder : Commit(e, f)
         \/ \E f \in Forwarder : NumberAndRead(f) \/ MarkPublished(f)
         \/ \E f \in Forwarder : Publish(f) \/ PublishAnswerLost(f)
         \/ Save
         \/ Recover
         \/ /\ SameRows(db', db) /\ SameRows(saved', saved)
            /\ UNCHANGED <<ord, before, sent, assigned>>
            /\ db'.nextOrd = db.nextOrd /\ saved'.nextOrd = saved.nextOrd
            /\ open' \subseteq open
            /\ \A f \in Forwarder :
                 /\ done'[f] = done[f] \/ done'[f] = {}
                 /\ todo'[f] = todo[f] \/ todo'[f] = {}
<1> DEFINE Same == /\ SameRows(db', db) /\ SameRows(saved', saved)
                   /\ UNCHANGED <<ord, before, sent, assigned>>
                   /\ db'.nextOrd = db.nextOrd /\ saved'.nextOrd = saved.nextOrd
                   /\ open' \subseteq open
                   /\ \A f \in Forwarder :
                        /\ done'[f] = done[f] \/ done'[f] = {}
                        /\ todo'[f] = todo[f] \/ todo'[f] = {}
<1> USE DEF TypeOK, business, server, counter, pass, hints, transport
<1>1. ASSUME NEW e \in Event, Rollback(e) PROVE Same
  BY <1>1 DEF Rollback, SameRows
<1>2. ASSUME NEW f \in Forwarder, Wake(f) PROVE Same
  BY <1>2 DEF Wake, SameRows
<1>3. ASSUME NEW f \in Forwarder, Poll(f) PROVE Same
  BY <1>3 DEF Poll, SameRows
<1>4. ASSUME NEW f \in Forwarder, TakeLease(f) PROVE Same
  <2>1. UNCHANGED db \/ db' = [db EXCEPT !.lease = f]
    BY <1>4 DEF TakeLease
  <2>2. SameRows(db', db) /\ db'.nextOrd = db.nextOrd
    BY <2>1 DEF Database, SameRows
  <2>3. QED
    BY <1>4, <2>2 DEF TakeLease, SameRows
<1>5. ASSUME NEW f \in Forwarder, LockCounter(f) PROVE Same
  BY <1>5 DEF LockCounter, SameRows
<1>6. ASSUME NEW f \in Forwarder, Fail(f) PROVE Same
  BY <1>6 DEF Fail, SameRows
<1>7. ASSUME NEW f \in Forwarder, Crash(f) PROVE Same
  <2>1. /\ SameRows(db', db) /\ SameRows(saved', saved)
        /\ db'.nextOrd = db.nextOrd /\ saved'.nextOrd = saved.nextOrd
    BY <1>7 DEF Crash, Database, SameRows
  <2>2. QED
    BY <1>7, <2>1 DEF Crash
<1>8. ASSUME NEW f \in Forwarder, LeaseRunsOut(f) PROVE Same
  <2>1. SameRows(db', db) /\ db'.nextOrd = db.nextOrd
    BY <1>8 DEF LeaseRunsOut, Database, SameRows
  <2>2. QED
    BY <1>8, <2>1 DEF LeaseRunsOut, SameRows
<1>9. ASSUME LeaseExpires PROVE Same
  <2>1. SameRows(db', db) /\ db'.nextOrd = db.nextOrd
    BY <1>9 DEF LeaseExpires, Database, SameRows
  <2>2. QED
    BY <1>9, <2>1 DEF LeaseExpires, SameRows
<1>10. CASE UNCHANGED vars
  BY <1>10 DEF vars, SameRows
<1>11. QED
  BY <1>1, <1>2, <1>3, <1>4, <1>5, <1>6, <1>7, <1>8, <1>9, <1>10
     DEF Next, Business, Pass, Failure, Upkeep

\* Identity values are given once, in increasing order.
LEMMA OrdStep ==
  ASSUME OrdReuse = FALSE, TypeOK, OrdInv, [Next]_vars
  PROVE  OrdInv'
<1>0. /\ ord \in [Event -> Nat] /\ db.nextOrd \in Nat \ {0}
      /\ open \subseteq Event
      /\ db.committed \subseteq Event /\ saved.committed \subseteq Event
  BY DEF TypeOK, Database
<1>1. ASSUME NEW e \in Event, Emit(e) PROVE OrdInv'
  <2>1. SameRows(db', db) /\ db'.nextOrd = db.nextOrd + 1 /\ saved' = saved
    BY <1>1 DEF Emit, SameRows, TypeOK, Database, server
  <2>a. e \notin db.committed
    BY <1>1 DEF Emit, OrdInv
  <2>2. /\ ord' = [ord EXCEPT ![e] = db.nextOrd]
        /\ open' = open \cup {e}
    BY <1>1 DEF Emit
  <2>3. \A x \in Event : ord'[x] = IF x = e THEN db.nextOrd ELSE ord[x]
    BY <2>2, <1>0
  <2>4. QED
    BY <2>1, <2>a, <2>2, <2>3, <1>0 DEF OrdInv, SameRows
<1>2. ASSUME NEW e \in Event, NEW f \in Forwarder, Commit(e, f) PROVE OrdInv'
  <2>1. /\ db'.rows = db.rows \cup {e} /\ db'.committed = db.committed \cup {e}
        /\ db'.pub = db.pub /\ open' = open \ {e}
        /\ db'.nextOrd = db.nextOrd /\ saved' = saved /\ ord' = ord
        /\ e \in open
    BY <1>2 DEF Commit, TypeOK, Database, server
  <2>2. QED
    BY <2>1, <1>0 DEF OrdInv
<1>3. ASSUME NEW e \in Event, Purge(e) PROVE OrdInv'
  <2>1. /\ db'.rows = db.rows \ {e} /\ db'.pub = db.pub \ {e} /\ db'.committed = db.committed
        /\ db'.nextOrd = db.nextOrd /\ saved' = saved /\ ord' = ord /\ open' = open
    BY <1>3 DEF Purge, TypeOK, Database, server, business
  <2>2. QED
    BY <2>1 DEF OrdInv
<1>4. ASSUME NEW f \in Forwarder, NumberAndRead(f) PROVE OrdInv'
  <2>1. PICK s, n, rn : db' = NumberedWith(db, s, n, rn)
    BY <1>4 DEF NumberAndRead
  <2>2. /\ db'.rows = db.rows /\ db'.pub = db.pub
        /\ db'.committed = db.committed /\ db'.nextOrd = db.nextOrd
    BY <2>1 DEF NumberedWith, TypeOK, Database
  <2>3. saved' = saved /\ ord' = ord /\ open' = open
    BY <1>4 DEF NumberAndRead, server, business
  <2>4. QED
    BY <2>2, <2>3 DEF OrdInv
<1>5. ASSUME NEW f \in Forwarder, Publish(f) \/ PublishAnswerLost(f) PROVE OrdInv'
  BY <1>5 DEF Publish, PublishAnswerLost, OrdInv, business, server
<1>6. ASSUME NEW f \in Forwarder, MarkPublished(f) PROVE OrdInv'
  <2>1. /\ db'.rows = db.rows /\ db'.pub \subseteq db.pub \cup db.rows
        /\ db'.committed = db.committed /\ db'.nextOrd = db.nextOrd
    BY <1>6 DEF MarkPublished, MarkedBy, TypeOK, Database
  <2>2. QED
    BY <1>6, <2>1 DEF MarkPublished, OrdInv, business, server
<1>7. ASSUME Save PROVE OrdInv'
  BY <1>7 DEF Save, OrdInv, business
<1>8. ASSUME Recover PROVE OrdInv'
  <2>1. db' = [saved EXCEPT !.nextOrd = db.nextOrd]
    BY <1>8 DEF Recover
  <2>2. /\ db'.rows = saved.rows /\ db'.pub = saved.pub
        /\ db'.committed = saved.committed /\ db'.nextOrd = db.nextOrd
    BY <2>1 DEF TypeOK, Database
  <2>3. /\ ord' = ord /\ open' = {}
        /\ saved' = saved \/ saved' = EmptyDatabase
    BY <1>8 DEF Recover
  <2>4. QED
    BY <2>2, <2>3 DEF OrdInv, EmptyDatabase
<1>9. ASSUME SameRows(db', db), SameRows(saved', saved), ord' = ord, open' \subseteq open,
             db'.nextOrd = db.nextOrd
      PROVE  OrdInv'
  BY <1>9 DEF OrdInv, SameRows
<1>10. QED
  BY <1>1, <1>2, <1>3, <1>4, <1>5, <1>6, <1>7, <1>8, <1>9, RowSteps

\* Numbering keeps every forwarder's list closed below, its own new one too.
LEMMA NumberingSends ==
  ASSUME TypeOK, LockInv, PositionInv, OrdInv, SendInv, NEW f \in Forwarder, NumberAndRead(f)
  PROVE  SendInv'
<1>0. PICK base \in Nat, n \in Nat, new \in SUBSET Position : Numbering(base, n, new)
  BY NumberingEffect
<1>1. /\ base = IF db.epoch = epochNow THEN db.last ELSE 0
      /\ \A a \in new : a.epoch = epochNow /\ a.seq > base
      /\ assigned' = assigned \cup new
      /\ db'.assigned = db.assigned \cup new
      /\ saved' = saved
  BY <1>0 DEF Numbering
<1>2. PICK picked \in SUBSET Unnumbered(db), k \in 0..Batch :
        \E rn \in [picked -> 1..k] : db' = NumberedWith(db, seen[f], k, rn)
  BY DEF NumberAndRead
<1>3. PICK rn \in [picked -> 1..k] : db' = NumberedWith(db, seen[f], k, rn)
  BY <1>2
<1>4. db'.rows = db.rows /\ db'.pub = db.pub /\ db'.committed = db.committed
  BY <1>3 DEF NumberedWith, TypeOK, Database
<1>5. PICK q \in SUBSET Unpublished(db') :
        /\ FirstUnpublished(db', q)
        /\ todo' = [todo EXCEPT ![f] = q]
  BY DEF NumberAndRead
<1>6. done' = done /\ sent' = sent /\ SentEvents' = SentEvents
  BY DEF NumberAndRead, SentEvents
<1>7. PositionInv'
  BY NumberingStep
<1>8. \A a \in db'.assigned : a.ev \in db'.committed
  <2>1. db'.assigned = db.assigned \cup
           {[ev |-> e, epoch |-> seen[f].now, seq |-> StartOf(seen[f]) + rn[e]] : e \in DOMAIN rn}
    BY <1>3 DEF NumberedWith, TypeOK, Database
  <2>2. DOMAIN rn \subseteq db.committed
    <3>1. \A e \in picked : e \in db.rows
      BY <1>2 DEF Unnumbered
    <3>2. \A e \in db.rows : e \in db.committed
      BY DEF OrdInv
    <3>3. QED
      BY <3>1, <3>2
  <2>3. QED
    BY <2>1, <2>2, <1>4 DEF SendInv
<1>9. \A a \in assigned : a.epoch \in Nat /\ a.seq \in Nat
  BY DEF TypeOK, Position
<1>10. \A a \in new : a.epoch \in Nat /\ a.seq \in Nat
  BY DEF Position
\* a new position is beyond every old one of its epoch
<1>11. \A a \in new, m \in assigned : a.epoch = m.epoch => m.seq < a.seq
  <2> SUFFICES ASSUME NEW a \in new, NEW m \in assigned, a.epoch = m.epoch
               PROVE  m.seq < a.seq
    OBVIOUS
  <2>1. m.epoch = epochNow /\ m \in db.assigned
    BY <1>1 DEF PositionInv
  <2>2. db.epoch \in Nat /\ db.last \in Nat /\ epochNow \in Nat
    BY DEF TypeOK, Database
  <2>3. db.epoch = epochNow
    BY <2>1, <2>2, <1>9 DEF PositionInv, Branch
  <2>4. m.seq <= base
    BY <2>1, <2>3, <1>1 DEF PositionInv, Branch
  <2>5. QED
    BY <2>4, <1>1, <1>9, <1>10
<1>12. q \subseteq assigned'
  BY <1>1, <1>5, <1>7 DEF Unpublished, PositionInv, Branch
<1>13. ASSUME NEW m \in q, NEW a \in assigned', a.epoch = m.epoch, a.seq < m.seq
       PROVE  a \in q \/ a.ev \in SentEvents
  <2>1. m \in db'.assigned
    BY <1>5 DEF Unpublished
  <2>2. a \in db'.assigned
    BY <1>7, <1>13, <2>1 DEF PositionInv, Branch
  <2>3. a.ev \in db'.rows \ db'.pub \/ a.ev \in SentEvents
    BY <2>2, <1>4, <1>8 DEF SendInv
  <2>4. CASE a.ev \in db'.rows \ db'.pub
    <3>1. a \in Unpublished(db')
      BY <2>2, <2>4 DEF Unpublished
    <3>2. m.epoch \in Nat /\ m.seq \in Nat /\ a.epoch \in Nat /\ a.seq \in Nat
      BY <1>1, <1>9, <1>10, <1>12
    <3>3. ~Before(m, a)
      BY <1>13, <3>2 DEF Before
    <3>4. QED
      BY <3>1, <3>3, <1>5 DEF FirstUnpublished
  <2>5. QED
    BY <2>3, <2>4
<1>14. ASSUME NEW g \in Forwarder
       PROVE  /\ \A m \in done'[g] : m.ev \in SentEvents'
              /\ todo'[g] \subseteq assigned'
              /\ \A m \in todo'[g], a \in assigned' :
                   a.epoch = m.epoch /\ a.seq < m.seq => a \in todo'[g] \/ a.ev \in SentEvents'
  <2>1. \A m \in done'[g] : m.ev \in SentEvents'
    BY <1>6 DEF SendInv
  <2>2. CASE g = f
    <3>1. todo'[g] = q
      BY <2>2, <1>5 DEF TypeOK
    <3>2. QED
      BY <2>1, <3>1, <1>6, <1>12, <1>13
  <2>3. CASE g # f
    <3>1. todo'[g] = todo[g]
      BY <2>3, <1>5 DEF TypeOK
    <3>2. \A m \in todo[g], a \in new : ~(a.epoch = m.epoch /\ a.seq < m.seq)
      BY <1>9, <1>10, <1>11 DEF SendInv
    <3>3. QED
      BY <2>1, <3>1, <3>2, <1>1, <1>6 DEF SendInv
  <2>4. QED
    BY <2>2, <2>3
<1>15. NoOvertaking'
  <2>1. \A m \in sent, a \in new : ~(a.epoch = m.epoch /\ a.seq < m.seq)
    BY <1>9, <1>10, <1>11 DEF SendInv
  <2>2. QED
    BY <2>1, <1>1, <1>6 DEF SendInv, NoOvertaking
<1>16. sent' \subseteq assigned'
  BY <1>1, <1>6 DEF SendInv
<1>17. QED
  BY <1>1, <1>4, <1>6, <1>8, <1>14, <1>15, <1>16 DEF SendInv

\* Every step keeps the sending invariant.
LEMMA SendStep ==
  ASSUME OrdReuse = FALSE, TypeOK, LockInv, PositionInv, OrdInv, SendInv, [Next]_vars
  PROVE  SendInv'
<1>1. ASSUME NEW e \in Event, Emit(e) PROVE SendInv'
  <2>1. SameRows(db', db) /\ saved' = saved /\ SentEvents' = SentEvents
        /\ UNCHANGED <<sent, assigned, todo, done>>
    BY <1>1 DEF Emit, SameRows, TypeOK, Database, server, pass, transport, SentEvents
  <2>2. QED
    BY <2>1 DEF SendInv, SameRows, NoOvertaking
<1>2. ASSUME NEW e \in Event, NEW f \in Forwarder, Commit(e, f) PROVE SendInv'
  <2>1. /\ db'.rows = db.rows \cup {e} /\ db'.committed = db.committed \cup {e}
        /\ db'.pub = db.pub /\ db'.assigned = db.assigned
    BY <1>2 DEF Commit, TypeOK, Database
  <2>2. saved' = saved /\ SentEvents' = SentEvents /\ UNCHANGED <<sent, assigned, todo, done>>
    BY <1>2 DEF Commit, server, pass, transport, SentEvents
  <2>3. e \notin db.pub
    BY <1>2 DEF Commit, OrdInv
  <2>4. QED
    BY <2>1, <2>2, <2>3 DEF SendInv, NoOvertaking
<1>3. ASSUME NEW e \in Event, Purge(e) PROVE SendInv'
  <2>1. /\ db'.rows = db.rows \ {e} /\ db'.committed = db.committed
        /\ db'.pub = db.pub \ {e} /\ db'.assigned = db.assigned
    BY <1>3 DEF Purge, TypeOK, Database
  <2>2. saved' = saved /\ SentEvents' = SentEvents /\ UNCHANGED <<sent, assigned, todo, done>>
    BY <1>3 DEF Purge, server, pass, transport, SentEvents
  <2>3. e \in db.rows /\ e \in db.pub
    BY <1>3 DEF Purge
  <2>4. QED
    BY <2>1, <2>2, <2>3 DEF SendInv, NoOvertaking
<1>4. ASSUME NEW f \in Forwarder, NumberAndRead(f) PROVE SendInv'
  BY <1>4, NumberingSends
<1>5. ASSUME NEW f \in Forwarder, Publish(f) \/ PublishAnswerLost(f) PROVE SendInv'
  <2>1. PICK m \in todo[f] :
          /\ \A q \in todo[f] \ {m} : Before(m, q)
          /\ sent' = Accepted(m)
          /\ todo' = [todo EXCEPT ![f] = @ \ {m}] \/ todo' = [todo EXCEPT ![f] = {}]
          /\ done' = [done EXCEPT ![f] = @ \cup {m}] \/ done' = done
    BY <1>5 DEF Publish, PublishAnswerLost
  <2>2. db' = db /\ saved' = saved /\ assigned' = assigned
    BY <1>5 DEF Publish, PublishAnswerLost, server
  <2>3. SentEvents' = SentEvents \cup {m.ev}
    BY <2>1 DEF SentEvents, Accepted
  <2>4. m \in assigned /\ sent' \subseteq sent \cup {m}
    BY <2>1 DEF SendInv, Accepted
  <2>5. \A a \in assigned : a.epoch \in Nat /\ a.seq \in Nat
    BY DEF TypeOK, Position
  <2>6. \A a \in assigned : a.epoch = m.epoch /\ a.seq < m.seq => a.ev \in SentEvents
    <3> SUFFICES ASSUME NEW a \in assigned, a.epoch = m.epoch, a.seq < m.seq
                 PROVE  a.ev \in SentEvents
      OBVIOUS
    <3>1. a \in todo[f] \/ a.ev \in SentEvents
      BY DEF SendInv
    <3>2. ~Before(m, a) /\ a # m
      BY <2>4, <2>5 DEF Before
    <3>3. QED
      BY <3>1, <3>2, <2>1
  <2>7. NoOvertaking'
    BY <2>2, <2>3, <2>4, <2>6 DEF SendInv, NoOvertaking
  <2>8. ASSUME NEW g \in Forwarder
        PROVE  /\ \A x \in done'[g] : x.ev \in SentEvents'
               /\ todo'[g] \subseteq assigned'
               /\ \A x \in todo'[g], a \in assigned' :
                    a.epoch = x.epoch /\ a.seq < x.seq => a \in todo'[g] \/ a.ev \in SentEvents'
    <3>1. /\ done'[g] \subseteq done[g] \cup {m}
          /\ todo'[g] = todo[g] \/ todo'[g] = todo[g] \ {m} \/ todo'[g] = {}
      BY <2>1 DEF TypeOK
    <3>2. QED
      BY <3>1, <2>2, <2>3 DEF SendInv
  <2>9. QED
    BY <2>2, <2>3, <2>4, <2>7, <2>8 DEF SendInv
<1>6. ASSUME NEW f \in Forwarder, MarkPublished(f) PROVE SendInv'
  <2>1. /\ db'.rows = db.rows /\ db'.committed = db.committed
        /\ db'.pub = db.pub \cup MarkedBy(f) /\ db'.assigned = db.assigned
    BY <1>6 DEF MarkPublished, TypeOK, Database
  <2>2. /\ saved' = saved /\ SentEvents' = SentEvents /\ UNCHANGED <<sent, assigned, todo>>
        /\ done' = [done EXCEPT ![f] = {}]
    BY <1>6 DEF MarkPublished, server, transport, SentEvents
  <2>3. \A e \in MarkedBy(f) : e \in SentEvents
    <3> SUFFICES ASSUME NEW e \in db.rows, NEW m \in done[f], ord[m.ev] = ord[e]
                 PROVE  e \in SentEvents
      BY DEF MarkedBy
    <3>1. e \in Event /\ m.ev \in Event
      BY DEF TypeOK, Database, Position
    <3>2. ord[e] # 0
      BY DEF OrdInv
    <3>3. e = m.ev
      BY <3>1, <3>2 DEF OrdInv
    <3>4. QED
      BY <3>3 DEF SendInv
  <2>4. \A g \in Forwarder : done'[g] \subseteq done[g]
    BY <2>2 DEF TypeOK
  <2>5. QED
    BY <2>1, <2>2, <2>3, <2>4 DEF SendInv, NoOvertaking
<1>7. ASSUME Save PROVE SendInv'
  <2>1. /\ db' = db /\ saved' = db /\ SentEvents' = SentEvents
        /\ UNCHANGED <<sent, assigned, todo, done>>
    BY <1>7 DEF Save, pass, transport, SentEvents
  <2>2. QED
    BY <2>1 DEF SendInv, NoOvertaking
<1>8. ASSUME Recover PROVE SendInv'
  <2>1. db' = [saved EXCEPT !.nextOrd = db.nextOrd]
    BY <1>8 DEF Recover
  <2>2. SameRows(db', saved)
    BY <2>1 DEF SameRows, TypeOK, Database
  <2>3. /\ saved' = saved \/ saved' = EmptyDatabase
        /\ SentEvents' = SentEvents
        /\ UNCHANGED <<sent, assigned, todo, done>>
    BY <1>8 DEF Recover, transport, SentEvents
  <2>4. QED
    BY <2>2, <2>3 DEF SendInv, SameRows, NoOvertaking, EmptyDatabase
<1>9. ASSUME SameRows(db', db), SameRows(saved', saved), UNCHANGED <<sent, assigned>>,
             \A f \in Forwarder :
               /\ done'[f] = done[f] \/ done'[f] = {}
               /\ todo'[f] = todo[f] \/ todo'[f] = {}
      PROVE  SendInv'
  <2>1. SentEvents' = SentEvents
    BY <1>9 DEF SentEvents
  <2>2. QED
    BY <1>9, <2>1 DEF SendInv, SameRows, NoOvertaking
<1>10. QED
  BY <1>1, <1>2, <1>3, <1>4, <1>5, <1>6, <1>7, <1>8, <1>9, RowSteps

\* The sending invariant holds in every state when no identity value is handed
\* out twice.
LEMMA SendInvariant ==
  ASSUME OrdReuse = FALSE
  PROVE  Spec => []SendInv
<1>1. Init => LockInv /\ PositionInv /\ OrdInv /\ SendInv
  BY DEF Init, LockInv, PositionInv, PositionsUnique, Branch, OrdInv, SendInv, SentEvents,
         NoOvertaking, EmptyDatabase
<1>2. TypeOK /\ LockInv /\ PositionInv /\ OrdInv /\ SendInv /\ [Next]_vars
        => LockInv' /\ PositionInv' /\ OrdInv' /\ SendInv'
  BY LockStep, PositionStep, OrdStep, SendStep
<1>3. QED
  BY <1>1, <1>2, TypeCorrect, PTL DEF Spec

\* When no identity value is handed out twice, no committed event is lost: a
\* row is marked published, and then purged, only after its message was
\* accepted.
THEOREM NothingLost ==
  ASSUME OrdReuse = FALSE
  PROVE  Spec => []NoEventLost
<1>1. SendInv => NoEventLost
  BY DEF SendInv, NoEventLost
<1>2. QED
  BY <1>1, SendInvariant, PTL

\* When no identity value is handed out twice, messages reach the transport in
\* position order, whichever forwarders publish at once and wherever they fail.
THEOREM NothingOvertakes ==
  ASSUME OrdReuse = FALSE
  PROVE  Spec => []NoOvertaking
<1>1. SendInv => NoOvertaking
  BY DEF SendInv
<1>2. QED
  BY <1>1, SendInvariant, PTL

-----------------------------------------------------------------------------
(* Cause before effect.                                                    *)

\* The numbering transaction keeps cause before effect.
LEMMA NumberingIsCausal ==
  ASSUME TypeOK, LockInv, PositionInv, CausalInv, NEW f \in Forwarder, NumberAndRead(f)
  PROVE  CausalInv'
<1>1. PICK base \in Nat, n \in Nat, new \in SUBSET Position : Numbering(base, n, new)
  BY NumberingEffect
<1>2. PICK picked \in SUBSET Unnumbered(db), k \in 0..Batch :
        \E rn \in [picked -> 1..k] : db' = NumberedWith(db, seen[f], k, rn)
  BY DEF NumberAndRead
<1>3. PICK rn \in [picked -> 1..k] : db' = NumberedWith(db, seen[f], k, rn)
  BY <1>2
<1>4. /\ db'.rows = db.rows /\ db'.committed = db.committed /\ db'.nextOrd = db.nextOrd
      /\ db'.assigned = db.assigned \cup new /\ saved' = saved
      /\ UNCHANGED <<ord, open, before>>
  BY <1>1, <1>3 DEF NumberedWith, TypeOK, Database, Numbering, NumberAndRead, business
<1>5. Unnumbered(db') = Unnumbered(db) \ {b.ev : b \in new}
  BY <1>4 DEF Unnumbered, Numbered
<1>6. CausalBranch(db) /\ CausalBranch(saved) /\ saved.nextOrd <= db.nextOrd
  BY DEF CausalInv
<1>7. \A a \in new : a.ev \in Unnumbered(db) /\ a.ev \in db.committed /\ Caused(db, a.ev)
  BY <1>1, <1>6 DEF Numbering, CausalBranch, Unnumbered
<1>8. \A e \in db.committed : ord[e] \in Nat
  BY DEF TypeOK, Database
\* of what caused a row that gets its number now, nothing is left without one
<1>9. \A b \in new : \A e \in before[b.ev] : e \notin Unnumbered(db')
  <2> SUFFICES ASSUME NEW b \in new, NEW e \in before[b.ev], e \in Unnumbered(db),
                      ~ \E a \in new : a.ev = e
               PROVE  FALSE
    BY <1>5
  <2>1. ord[e] < ord[b.ev] /\ e \in db.committed
    BY <1>7 DEF Caused
  <2>2. ord[b.ev] < ord[e]
    BY <1>1 DEF Numbering
  <2>3. QED
    BY <1>7, <1>8, <2>1, <2>2
<1>10. \A b \in db.assigned \cup new : before[b.ev] \cap Unnumbered(db') = {}
  BY <1>5, <1>6, <1>9 DEF CausalBranch
<1>11. ASSUME NEW a \in db.assigned \cup new, NEW b \in db.assigned \cup new,
              a.ev \in before[b.ev]
       PROVE  Before(a, b)
  <2>1. CASE a \in db.assigned /\ b \in db.assigned
    BY <1>6, <1>11, <2>1 DEF CausalBranch
  <2>2. CASE a \in new /\ b \in db.assigned
    BY <1>6, <1>7, <1>11, <2>2 DEF CausalBranch
  <2>3. CASE a \in new /\ b \in new
    <3>1. ord[a.ev] < ord[b.ev]
      BY <1>7, <1>11, <2>3 DEF Caused
    <3>2. a.epoch = b.epoch /\ a.seq < b.seq
      BY <1>1, <2>3, <3>1 DEF Numbering
    <3>3. QED
      BY <3>2 DEF Before
  <2>4. CASE a \in db.assigned /\ b \in new
    <3>1. /\ a \in assigned /\ a.epoch \in Nat /\ a.seq \in Nat /\ b.epoch \in Nat /\ b.seq \in Nat
          /\ db.epoch \in Nat /\ db.last \in Nat /\ epochNow \in Nat
      BY <2>4 DEF PositionInv, Branch, TypeOK, Position, Database
    <3>2. a.epoch <= epochNow /\ b.epoch = epochNow /\ b.seq > base
      BY <1>1, <2>4, <3>1 DEF PositionInv, Numbering
    <3>3. a.epoch = epochNow => a.seq <= base
      <4>1. a.epoch = epochNow => db.epoch = epochNow
        BY <2>4, <3>1 DEF PositionInv, Branch
      <4>2. a.epoch = db.epoch => a.seq <= db.last
        BY <2>4, <3>1 DEF PositionInv, Branch
      <4>3. QED
        BY <1>1, <4>1, <4>2 DEF Numbering
    <3>4. QED
      BY <3>1, <3>2, <3>3 DEF Before
  <2>5. QED
    BY <1>11, <2>1, <2>2, <2>3, <2>4
<1>12. CausalBranch(db)'
  <2>1. \A e \in db'.committed : ord'[e] # 0 /\ ord'[e] < db'.nextOrd /\ Caused(db, e)'
    BY <1>4, <1>6 DEF CausalBranch, Caused
  <2>2. \A a \in db'.assigned : a.ev \in db'.committed
    BY <1>4, <1>6, <1>7 DEF CausalBranch
  <2>3. db'.rows \subseteq db'.committed
    BY <1>4, <1>6 DEF CausalBranch
  <2>4. QED
    BY <1>4, <1>10, <1>11, <2>1, <2>2, <2>3 DEF CausalBranch
<1>13. CausalBranch(saved)'
  BY <1>4, <1>6 DEF CausalBranch, Caused
<1>14. QED
  BY <1>4, <1>6, <1>12, <1>13 DEF CausalInv, Caused

\* Every step keeps cause before effect.
LEMMA CausalStep ==
  ASSUME TypeOK, LockInv, PositionInv, CausalInv, [Next]_vars
  PROVE  CausalInv'
<1>0. /\ ord \in [Event -> Nat] /\ before \in [Event -> SUBSET Event]
      /\ db.nextOrd \in Nat \ {0} /\ saved.nextOrd \in Nat \ {0}
      /\ open \subseteq Event /\ db.committed \subseteq Event /\ saved.committed \subseteq Event
      /\ \A a \in db.assigned \cup saved.assigned : a.ev \in Event
  BY DEF TypeOK, Database, Position
<1>a. CausalBranch(db) /\ CausalBranch(saved) /\ saved.nextOrd <= db.nextOrd
  BY DEF CausalInv
<1>b. \A e \in open : ord[e] # 0 /\ ord[e] < db.nextOrd /\ e \notin db.committed /\ Caused(db, e)
  BY DEF CausalInv
<1>1. ASSUME NEW e \in Event, Emit(e) PROVE CausalInv'
  <2>1. /\ SameRows(db', db) /\ db'.nextOrd = db.nextOrd + 1 /\ saved' = saved
        /\ ord' = [ord EXCEPT ![e] = db.nextOrd] /\ open' = open \cup {e} /\ ord[e] = 0
        /\ before' = [before EXCEPT ![e] = db.committed]
    BY <1>1 DEF Emit, SameRows, TypeOK, Database, server
  <2>2. e \notin db.committed /\ e \notin saved.committed /\ e \notin open
    BY <1>a, <1>b, <2>1 DEF CausalBranch
  <2>3. \A x \in Event \ {e} : ord'[x] = ord[x] /\ before'[x] = before[x]
    BY <1>0, <2>1
  <2>4. ord'[e] = db.nextOrd /\ before'[e] = db.committed
    BY <1>0, <2>1
  <2>5. /\ \A x \in db.committed \cup saved.committed : ord'[x] = ord[x] /\ before'[x] = before[x]
        /\ \A x \in open : ord'[x] = ord[x] /\ before'[x] = before[x]
    BY <1>0, <2>2, <2>3
  <2>6. CausalBranch(db)'
    <3>1. \A x \in db'.committed : ord'[x] # 0 /\ ord'[x] < db'.nextOrd
      BY <1>0, <1>a, <2>1, <2>5 DEF CausalBranch, SameRows
    <3>2. \A x \in db'.committed : Caused(db, x)'
      BY <1>a, <2>1, <2>5 DEF CausalBranch, SameRows, Caused
    <3>3. Unnumbered(db') = Unnumbered(db)
      BY <2>1 DEF Unnumbered, Numbered, SameRows
    <3>4. \A a \in db'.assigned : a.ev \in db'.committed /\ before'[a.ev] = before[a.ev]
      BY <1>a, <2>1, <2>5 DEF CausalBranch, SameRows
    <3>5. QED
      BY <1>a, <2>1, <3>1, <3>2, <3>3, <3>4 DEF CausalBranch, SameRows
  <2>7. CausalBranch(saved)'
    <3>1. \A x \in saved'.committed : ord'[x] # 0 /\ ord'[x] < saved'.nextOrd
      BY <1>a, <2>1, <2>5 DEF CausalBranch
    <3>2. \A x \in saved'.committed : Caused(saved, x)'
      BY <1>a, <2>1, <2>5 DEF CausalBranch, Caused
    <3>3. \A a \in saved'.assigned : a.ev \in saved'.committed /\ before'[a.ev] = before[a.ev]
      BY <1>a, <2>1, <2>5 DEF CausalBranch
    <3>4. QED
      BY <1>a, <2>1, <3>1, <3>2, <3>3 DEF CausalBranch
  <2>8. \A x \in open : /\ ord'[x] # 0 /\ ord'[x] < db'.nextOrd /\ x \notin db'.committed
                        /\ Caused(db, x)'
    <3>1. \A x \in open : ord[x] \in Nat /\ ord'[x] = ord[x]
      BY <1>0, <2>5
    <3>2. \A x \in open : ord'[x] # 0 /\ ord'[x] < db'.nextOrd /\ x \notin db'.committed
      BY <1>0, <1>b, <2>1, <3>1 DEF SameRows
    <3>3. \A x \in open : Caused(db, x)'
      BY <1>b, <2>1, <2>5 DEF SameRows, Caused
    <3>4. QED
      BY <3>2, <3>3
  <2>9. /\ ord'[e] # 0 /\ ord'[e] < db'.nextOrd /\ e \notin db'.committed
        /\ Caused(db, e)'
    BY <1>0, <1>a, <2>1, <2>2, <2>4, <2>5 DEF SameRows, Caused, CausalBranch
  <2>10. saved'.nextOrd <= db'.nextOrd
    BY <1>0, <1>a, <2>1
  <2>11. QED
    BY <2>1, <2>6, <2>7, <2>8, <2>9, <2>10 DEF CausalInv
<1>2. ASSUME NEW e \in Event, NEW f \in Forwarder, Commit(e, f) PROVE CausalInv'
  <2>1. /\ db'.rows = db.rows \cup {e} /\ db'.committed = db.committed \cup {e}
        /\ db'.assigned = db.assigned /\ open' = open \ {e} /\ e \in open
        /\ db'.nextOrd = db.nextOrd /\ saved' = saved /\ UNCHANGED <<ord, before>>
    BY <1>2 DEF Commit, TypeOK, Database, server
  <2>2. Unnumbered(db') \subseteq Unnumbered(db) \cup {e}
    BY <2>1 DEF Unnumbered, Numbered
  <2>3. \A b \in db.assigned : e \notin before[b.ev]
    BY <1>a, <1>b, <2>1 DEF CausalBranch, Caused
  <2>4. \A x \in db'.committed : ord'[x] # 0 /\ ord'[x] < db'.nextOrd /\ Caused(db, x)'
    BY <1>a, <1>b, <2>1 DEF CausalBranch, Caused
  <2>5. CausalBranch(db)'
    BY <1>a, <2>1, <2>2, <2>3, <2>4 DEF CausalBranch
  <2>6. CausalBranch(saved)'
    BY <1>a, <2>1 DEF CausalBranch, Caused
  <2>7. QED
    BY <1>a, <1>b, <2>1, <2>5, <2>6 DEF CausalInv, Caused
<1>3. ASSUME NEW e \in Event, Purge(e) PROVE CausalInv'
  <2>1. /\ db'.rows = db.rows \ {e} /\ db'.committed = db.committed
        /\ db'.assigned = db.assigned /\ db'.nextOrd = db.nextOrd /\ saved' = saved
        /\ UNCHANGED <<ord, before, open>>
    BY <1>3 DEF Purge, TypeOK, Database, server, business
  <2>2. Unnumbered(db') \subseteq Unnumbered(db)
    BY <2>1 DEF Unnumbered, Numbered
  <2>3. CausalBranch(db)'
    BY <1>a, <2>1, <2>2 DEF CausalBranch, Caused
  <2>4. CausalBranch(saved)'
    BY <1>a, <2>1 DEF CausalBranch, Caused
  <2>5. QED
    BY <1>a, <1>b, <2>1, <2>3, <2>4 DEF CausalInv, Caused
<1>4. ASSUME NEW f \in Forwarder, NumberAndRead(f) PROVE CausalInv'
  BY <1>4, NumberingIsCausal
<1>5. ASSUME SameRows(db', db), SameRows(saved', saved), UNCHANGED <<ord, before>>,
             db'.nextOrd = db.nextOrd, saved'.nextOrd = saved.nextOrd, open' \subseteq open
      PROVE  CausalInv'
  <2>1. Unnumbered(db') = Unnumbered(db) /\ Unnumbered(saved') = Unnumbered(saved)
    BY <1>5 DEF Unnumbered, Numbered, SameRows
  <2>2. CausalBranch(db)' /\ CausalBranch(saved)'
    BY <1>a, <1>5, <2>1 DEF CausalBranch, Caused, SameRows
  <2>3. QED
    BY <1>a, <1>b, <1>5, <2>2 DEF CausalInv, Caused, SameRows
<1>6. ASSUME NEW f \in Forwarder, Publish(f) \/ PublishAnswerLost(f) PROVE CausalInv'
  <2>1. UNCHANGED <<db, saved, ord, before, open>>
    BY <1>6 DEF Publish, PublishAnswerLost, business, server
  <2>2. QED
    BY <1>5, <2>1 DEF SameRows
<1>7. ASSUME NEW f \in Forwarder, MarkPublished(f) PROVE CausalInv'
  <2>1. /\ db'.rows = db.rows /\ db'.committed = db.committed
        /\ db'.assigned = db.assigned /\ db'.nextOrd = db.nextOrd /\ saved' = saved
        /\ UNCHANGED <<ord, before, open>>
    BY <1>7 DEF MarkPublished, TypeOK, Database, server, business
  <2>2. Unnumbered(db') = Unnumbered(db)
    BY <2>1 DEF Unnumbered, Numbered
  <2>3. CausalBranch(db)' /\ CausalBranch(saved)'
    BY <1>a, <2>1, <2>2 DEF CausalBranch, Caused
  <2>4. QED
    BY <1>a, <1>b, <2>1, <2>3 DEF CausalInv, Caused
<1>8. ASSUME Save PROVE CausalInv'
  <2>1. /\ db' = db /\ saved' = db /\ UNCHANGED <<ord, before, open>>
    BY <1>8 DEF Save, business
  <2>2. CausalBranch(db)' /\ CausalBranch(saved)'
    BY <1>a, <2>1 DEF CausalBranch, Caused
  <2>3. QED
    BY <1>0, <1>b, <2>1, <2>2 DEF CausalInv, Caused
<1>9. ASSUME Recover PROVE CausalInv'
  <2>1. PICK k \in {db.nextOrd, saved.nextOrd} : db' = [saved EXCEPT !.nextOrd = k]
    BY <1>9 DEF Recover
  <2>2. SameRows(db', saved) /\ db'.nextOrd = k /\ saved.nextOrd <= k /\ k \in Nat \ {0}
    BY <1>0, <1>a, <2>1 DEF SameRows, TypeOK, Database
  <2>3. /\ UNCHANGED <<ord, before>> /\ open' = {}
        /\ saved' = saved \/ saved' = EmptyDatabase
    BY <1>9 DEF Recover
  <2>4. CausalBranch(db)'
    <3>1. \A e \in db'.committed : ord'[e] # 0 /\ ord'[e] < db'.nextOrd
      BY <1>0, <1>a, <2>2, <2>3 DEF CausalBranch, SameRows
    <3>2. Unnumbered(db') = Unnumbered(saved)
      BY <2>2 DEF Unnumbered, Numbered, SameRows
    <3>3. QED
      BY <1>a, <2>2, <2>3, <3>1, <3>2 DEF CausalBranch, SameRows, Caused
  <2>5. CausalBranch(saved)' /\ saved'.nextOrd <= db'.nextOrd
    BY <1>a, <2>2, <2>3 DEF CausalBranch, Caused, EmptyDatabase
  <2>6. QED
    BY <2>3, <2>4, <2>5 DEF CausalInv
<1>10. QED
  BY <1>1, <1>2, <1>3, <1>4, <1>5, <1>6, <1>7, <1>8, <1>9, RowSteps

\* Positions keep cause before effect on every branch of the database, with
\* any number of replicas, batches and recoveries, and whether or not identity
\* values are handed out again.
THEOREM CauseComesFirst == Spec => []CommitOrder
<1>1. Init => LockInv /\ PositionInv /\ CausalInv
  BY DEF Init, LockInv, PositionInv, PositionsUnique, Branch, EmptyDatabase, CausalInv,
         CausalBranch, Caused
<1>2. TypeOK /\ LockInv /\ PositionInv /\ CausalInv /\ [Next]_vars
        => LockInv' /\ PositionInv' /\ CausalInv'
  BY LockStep, PositionStep, CausalStep
<1>3. CausalInv => CommitOrder
  BY DEF CausalInv, CausalBranch, CommitOrder
<1>4. QED
  BY <1>1, <1>2, <1>3, TypeCorrect, PTL DEF Spec

-----------------------------------------------------------------------------
(* The numbering implements the position log.                              *)

\* Every step keeps the counters at a position.
LEMMA CounterStep ==
  ASSUME TypeOK, LockInv, PositionInv, CounterInv, [Next]_vars
  PROVE  CounterInv'
<1> DEFINE Stands(d) == d.last = 0 \/ \E a \in d.assigned : a.epoch = d.epoch /\ a.seq = d.last
<1>a. Stands(db) /\ Stands(saved)
  BY DEF CounterInv
<1>1. ASSUME NEW f \in Forwarder, NumberAndRead(f) PROVE Stands(db') /\ Stands(saved')
  <2>1. PICK base \in Nat, n \in Nat, new \in SUBSET Position : Numbering(base, n, new)
    BY <1>1, NumberingEffect
  <2>2. /\ db'.assigned = db.assigned \cup new /\ db'.epoch = epochNow /\ db'.last = base + n
        /\ saved' = saved /\ base = IF db.epoch = epochNow THEN db.last ELSE 0
    BY <2>1 DEF Numbering
  <2>3. CASE n = 0
    BY <1>a, <2>2, <2>3
  <2>4. CASE n # 0
    <3>1. PICK a \in new : a.seq = base + n
      BY <2>1, <2>4 DEF Numbering
    <3>2. a.epoch = epochNow
      BY <2>1 DEF Numbering
    <3>3. QED
      BY <1>a, <2>2, <3>1, <3>2
  <2>5. QED
    BY <2>3, <2>4
<1>2. ASSUME Save PROVE Stands(db') /\ Stands(saved')
  BY <1>2, <1>a DEF Save
<1>3. ASSUME Recover PROVE Stands(db') /\ Stands(saved')
  <2>1. PICK k : db' = [saved EXCEPT !.nextOrd = k]
    BY <1>3 DEF Recover
  <2>2. SameNumbers(db', saved) /\ (saved' = saved \/ saved' = EmptyDatabase)
    BY <1>3, <2>1 DEF Recover, SameNumbers, TypeOK, Database
  <2>3. QED
    BY <1>a, <2>2 DEF SameNumbers, EmptyDatabase
<1>4. ASSUME SameNumbers(db', db), SameNumbers(saved', saved) PROVE Stands(db') /\ Stands(saved')
  BY <1>4, <1>a DEF SameNumbers
<1>5. Stands(db') /\ Stands(saved')
  BY <1>1, <1>2, <1>3, <1>4, QuietSteps
<1>6. QED
  BY <1>5 DEF CounterInv

\* A numbering transaction appends to the log of the current epoch.
LEMMA NumberingAppends ==
  ASSUME TypeOK, LockInv, PositionInv, CounterInv, NEW f \in Forwarder, NumberAndRead(f)
  PROVE  Log!Grow
<1>1. PICK base \in Nat, n \in Nat, new \in SUBSET Position : Numbering(base, n, new)
  BY NumberingEffect
<1>2. /\ assigned' = assigned \cup new /\ epochNow' = epochNow
      /\ base = IF db.epoch = epochNow THEN db.last ELSE 0
      /\ n <= Batch
      /\ \A a \in new : a.epoch = epochNow /\ a.seq > base /\ a.seq <= base + n
      /\ \A a, b \in new : a.seq = b.seq => a = b
      /\ \A i \in 1..n : \E a \in new : a.seq = base + i
  BY <1>1 DEF Numbering
<1>3. /\ db.epoch \in Nat /\ db.last \in Nat /\ epochNow \in Nat
      /\ \A a \in assigned \cup new : a.epoch \in Nat /\ a.seq \in Nat /\ a.ev \in Event
  BY DEF TypeOK, Database, Position
<1>4. \A a \in assigned : a.epoch = epochNow => a.seq <= base
  BY <1>2, <1>3 DEF PositionInv, Branch
<1>5. base = 0 \/ \E a \in assigned : a.epoch = epochNow /\ a.seq = base
  BY <1>2, <1>3 DEF CounterInv, PositionInv, Branch
<1>6. Log!IsTop(base)
  BY <1>4, <1>5 DEF Log!IsTop
<1>7. assigned' \ assigned = new
  <2>1. \A a \in new : a \notin assigned
    BY <1>2, <1>3, <1>4
  <2>2. QED
    BY <1>2, <2>1
<1>8. {a.seq : a \in new} = (base + 1)..(base + n)
  <2>1. ASSUME NEW x \in (base + 1)..(base + n) PROVE \E a \in new : x = a.seq
    <3>1. x - base \in 1..n /\ x = base + (x - base)
      OBVIOUS
    <3>2. QED
      BY <1>2, <3>1
  <2>2. \A a \in new : a.seq \in (base + 1)..(base + n)
    BY <1>2, <1>3
  <2>3. QED
    BY <2>1, <2>2
<1>9. IsFiniteSet(new) /\ Cardinality(new) = n
  <2> DEFINE g == [a \in new |-> a.seq]
             Nums == (base + 1)..(base + n)
  <2>1. g \in Bijection(new, Nums)
    <3>1. g \in [new -> Nums] /\ \A a, b \in new : g[a] = g[b] => a = b
      BY <1>2, <1>8
    <3>2. \A x \in Nums : \E a \in new : g[a] = x
      BY <1>8
    <3>3. QED
      BY <3>1, <3>2 DEF Bijection, Injection, Surjection, IsInjective
  <2>2. ExistsBijection(new, Nums)
    BY <2>1 DEF ExistsBijection
  <2>3. ExistsBijection(Nums, new)
    BY <2>2, Fun_ExistsBijSymmetric
  <2>4. base + 1 \in Int /\ base + n \in Int
    OBVIOUS
  <2>5. IsFiniteSet(Nums) /\ Cardinality(Nums) = n
    BY <2>4, FS_Interval
  <2>6. QED
    BY <2>3, <2>5, FS_Bijection
<1>10. Log!Append(base, assigned' \ assigned)
  <2>1. /\ Cardinality(new) <= Batch
        /\ {a.seq : a \in new} = (base + 1)..(base + Cardinality(new))
    BY <1>2, <1>8, <1>9
  <2>2. \A a \in new : a.ev \in Event /\ a.epoch = epochNow
    BY <1>2, <1>3
  <2>3. Log!Cardinality(new) = Cardinality(new)
    BY DEF Log!Cardinality, Cardinality
  <2>4. Log!Append(base, new)
    BY <1>6, <2>1, <2>2, <2>3 DEF Log!Append
  <2>5. QED
    BY <1>7, <2>4
<1>11. base \in {0} \cup {a.seq : a \in assigned}
  BY <1>5
<1>12. QED
  BY <1>2, <1>10, <1>11 DEF Log!Grow

\* The numbering implements the abstract position log, for every batch size and
\* every number of replicas and recoveries: a numbering transaction appends to
\* the log of the epoch, a recovery begins an epoch, and every other step
\* leaves the log alone.
THEOREM NumberingImplementsLog == Spec => ImplementsPositionLog
<1>1. Init => LockInv /\ PositionInv /\ CounterInv
  BY DEF Init, LockInv, PositionInv, PositionsUnique, Branch, EmptyDatabase, CounterInv
<1>2. TypeOK /\ LockInv /\ PositionInv /\ CounterInv /\ [Next]_vars
        => LockInv' /\ PositionInv' /\ CounterInv'
  BY LockStep, PositionStep, CounterStep
<1>3. Init => Log!Init
  BY DEF Init, Log!Init
<1>4. TypeOK /\ LockInv /\ PositionInv /\ CounterInv /\ [Next]_vars
        => [Log!Next]_<<assigned, epochNow>>
  <2> SUFFICES ASSUME TypeOK, LockInv, PositionInv, CounterInv, [Next]_vars
               PROVE  [Log!Next]_<<assigned, epochNow>>
    OBVIOUS
  <2>1. ASSUME NEW f \in Forwarder, NumberAndRead(f) PROVE Log!Next
    BY <2>1, NumberingAppends DEF Log!Next
  <2>2. ASSUME Save PROVE UNCHANGED <<assigned, epochNow>>
    BY <2>2 DEF Save, transport
  <2>3. ASSUME Recover PROVE Log!Next
    BY <2>3 DEF Recover, transport, Log!Next, Log!NewEpoch
  <2>4. QED
    BY <2>1, <2>2, <2>3, QuietSteps
<1>5. QED
  BY <1>1, <1>2, <1>3, <1>4, TypeCorrect, PTL DEF Spec, ImplementsPositionLog, Log!Spec

=============================================================================
