--------------------------- MODULE DatabaseProofs ---------------------------
(***************************************************************************)
(* Proofs about Migrate and Tx: for every number of runs, images and       *)
(* crashes, and for every number of calls, connections and retries.        *)
(***************************************************************************)
EXTENDS Migrate, Tx, FiniteSetTheorems, TLAPS

------------------------------------------------------------------------------
(* Migrate                                                                   *)

\* A file's body appends the next number to the files applied.
LEMMA UptoGrows ==
  ASSUME NEW s, NEW n \in Nat, s \in Seq(Nat), s = Upto(n)
  PROVE  /\ Len(s) = n
         /\ Append(s, n + 1) = Upto(n + 1)
         /\ Len(Append(s, n + 1)) = n + 1
         /\ Append(s, n + 1) \in Seq(Nat)
<1>1. Len(s) = n
  BY DEF Upto
<1>2. Append(s, n + 1) \in Seq(Nat) /\ Len(Append(s, n + 1)) = n + 1
  BY <1>1
<1>3. \A i \in 1 .. (n + 1) : Append(s, n + 1)[i] = i
  BY <1>1 DEF Upto
<1>4. QED
  BY <1>1, <1>2, <1>3 DEF Upto

\* A step of one run keeps the invariant when it leaves the sets alone that
\* other runs hold, and knows its own set afterwards.
LEMMA OneRun ==
  ASSUME MigInv, NEW r \in Runner,
         runner' = [runner EXCEPT ![r] = runner'[r]], runner'[r] \in Run,
         table' \in [Sets -> [version : Nat, dirty : BOOLEAN]],
         applied' \in [Sets -> Seq(Nat)],
         advisory' \in [Sets -> Runner \cup {NoRunner}],
         crashes' \in Nat,
         \A t \in Sets : advisory[t] \in Runner \ {r} =>
           advisory'[t] = advisory[t] /\ table'[t] = table[t] /\ applied'[t] = applied[t],
         \A t \in Sets : advisory[t] \notin Runner \ {r} => advisory'[t] \in {r, NoRunner},
         \A t \in Sets : advisory'[t] = r <=> (runner'[r].pc \in Locked /\ runner'[r].set = t),
         Knows(r)', VersionIsExact'
  PROVE  MigInv'
<1>1. \A q \in Runner \ {r} : runner'[q] = runner[q]
  BY DEF MigInv, MigTypeOK
<1>2. MigTypeOK'
  BY DEF MigInv, MigTypeOK
<1>3. AdvisoryInv'
  <2> SUFFICES ASSUME NEW q \in Runner, NEW t \in Sets
               PROVE  advisory'[t] = q <=> (runner'[q].pc \in Locked /\ runner'[q].set = t)
    BY DEF AdvisoryInv
  <2>1. CASE q = r
    BY <2>1
  <2>2. CASE q # r
    <3>1. advisory'[t] = q <=> advisory[t] = q
      BY <2>2, MigrateAssumption
    <3>2. QED
      BY <1>1, <2>2, <3>1 DEF AdvisoryInv, MigInv
  <2>3. QED
    BY <2>1, <2>2
<1>4. RunInv'
  <2> SUFFICES ASSUME NEW q \in Runner PROVE Knows(q)'
    BY DEF RunInv
  <2>1. CASE q = r
    BY <2>1
  <2>2. CASE q # r
    <3>1. runner'[q] = runner[q] /\ runner[q].set \in Sets
      BY <1>1, <2>2 DEF MigInv, MigTypeOK, Run
    <3>2. CASE runner[q].pc \in Locked
      <4>1. advisory[runner[q].set] = q
        BY <3>1, <3>2 DEF MigInv, AdvisoryInv
      <4>2. /\ table'[runner[q].set] = table[runner[q].set]
            /\ applied'[runner[q].set] = applied[runner[q].set]
        BY <2>2, <3>1, <4>1
      <4>3. QED
        BY <3>1, <4>2 DEF MigInv, RunInv, Knows
    <3>3. CASE runner[q].pc \notin Locked
      BY <3>1, <3>3 DEF Knows, Locked
    <3>4. QED
      BY <3>2, <3>3
  <2>3. QED
    BY <2>1, <2>2
<1>5. QED
  BY <1>2, <1>3, <1>4 DEF MigInv

\* A run gives up its lock, or never had it, and changes nothing of its set.
LEMMA RetryStep ==
  ASSUME MigInv, NEW r \in Runner, Retry(r), UNCHANGED <<table, applied, crashes>>
  PROVE  MigInv'
<1> DEFINE s == runner[r].set
<1>1. s \in Sets /\ runner[r] \in Run /\ runner[r].tries + 1 \in Nat
  BY DEF MigInv, MigTypeOK, Run
<1>2. /\ runner'[r] \in Run
      /\ runner'[r].pc \notin Locked
      /\ runner' = [runner EXCEPT ![r] = runner'[r]]
  <2>1. CASE runner' = [runner EXCEPT ![r].pc = "failed"]
    BY <1>1, <2>1 DEF MigInv, MigTypeOK, Run, Locked
  <2>2. CASE runner' = [runner EXCEPT ![r].pc = "connect", ![r].tries = @ + 1]
    BY <1>1, <2>2 DEF MigInv, MigTypeOK, Run, Locked
  <2>3. QED
    BY <2>1, <2>2 DEF Retry, Goto
<1>3. /\ advisory' \in [Sets -> Runner \cup {NoRunner}]
      /\ \A t \in Sets : advisory'[t] = IF advisory[t] = r THEN NoRunner ELSE advisory[t]
  BY <1>1 DEF Retry, MigInv, MigTypeOK, AdvisoryInv
<1>4. Knows(r)'
  BY <1>2 DEF Knows, Locked
<1>5. VersionIsExact'
  BY DEF MigInv, VersionIsExact
<1>6. MigTypeOK /\ r # NoRunner
  BY MigrateAssumption DEF MigInv
<1>7. QED
  BY <1>2, <1>3, <1>4, <1>5, <1>6, OneRun DEF MigTypeOK

\* A step of a run under its lock that keeps the lock.
LEMMA LockedStep ==
  ASSUME MigInv, NEW r \in Runner, NEW s \in Sets, s = runner[r].set, runner[r].pc \in Locked,
         NEW pc \in Locked, NEW n \in Nat,
         runner' = [runner EXCEPT ![r].pc = pc, ![r].current = n],
         NEW row \in [version : Nat, dirty : BOOLEAN], table' = [table EXCEPT ![s] = row],
         NEW files \in Seq(Nat), applied' = [applied EXCEPT ![s] = files],
         UNCHANGED <<advisory, crashes>>, Knows(r)',
         files = Upto(Len(files)),
         IF row.dirty THEN Len(files) \in {row.version, row.version - 1}
                      ELSE Len(files) = row.version
  PROVE  MigInv'
<1>1. /\ runner'[r] \in Run /\ runner'[r].pc = pc /\ runner'[r].set = s
      /\ runner' = [runner EXCEPT ![r] = runner'[r]]
  BY DEF MigInv, MigTypeOK, Run
<1>2. /\ table'[s] = row /\ applied'[s] = files
      /\ \A t \in Sets \ {s} : table'[t] = table[t] /\ applied'[t] = applied[t]
  BY DEF MigInv, MigTypeOK
<1>3. VersionIsExact'
  BY <1>2 DEF MigInv, VersionIsExact
<1>4. /\ table' \in [Sets -> [version : Nat, dirty : BOOLEAN]]
      /\ applied' \in [Sets -> Seq(Nat)]
  BY DEF MigInv, MigTypeOK
<1>5. \A t \in Sets : advisory[t] = r <=> t = s
  BY DEF MigInv, AdvisoryInv
<1>6. advisory' \in [Sets -> Runner \cup {NoRunner}] /\ crashes' \in Nat
  BY DEF MigInv, MigTypeOK
<1>7. \A t \in Sets :
        /\ advisory[t] \in Runner \ {r} =>
             advisory'[t] = advisory[t] /\ table'[t] = table[t] /\ applied'[t] = applied[t]
        /\ advisory[t] \notin Runner \ {r} => advisory'[t] \in {r, NoRunner}
        /\ advisory'[t] = r <=> (runner'[r].pc \in Locked /\ runner'[r].set = t)
  BY <1>1, <1>2, <1>5, <1>6
<1>8. QED
  BY <1>1, <1>3, <1>4, <1>6, <1>7, OneRun

\* A run takes or gives back a lock and leaves the tables alone.
LEMMA UnlockedStep ==
  ASSUME MigInv, NEW r \in Runner, NEW s \in Sets, s = runner[r].set,
         runner' = [runner EXCEPT ![r] = runner'[r]], runner'[r] \in Run,
         \/ /\ advisory' = [advisory EXCEPT ![s] = NoRunner]
            /\ runner[r].pc \in Locked /\ runner'[r].pc \notin Locked
         \/ /\ advisory' = advisory
            /\ runner[r].pc \notin Locked /\ runner'[r].pc \notin Locked
         \/ /\ advisory[s] = NoRunner /\ advisory' = [advisory EXCEPT ![s] = r]
            /\ runner[r].pc \notin Locked /\ runner'[r].pc = "read" /\ runner'[r].set = s,
         UNCHANGED <<table, applied, crashes>>
  PROVE  MigInv'
<1>1. Knows(r)'
  BY DEF Knows, Locked
<1>2. VersionIsExact'
  BY DEF MigInv, VersionIsExact
<1>3. \A t \in Sets : advisory[t] = r <=> (runner[r].pc \in Locked /\ t = s)
  BY DEF MigInv, AdvisoryInv
<1>4. r # NoRunner /\ MigTypeOK
  BY MigrateAssumption DEF MigInv
<1>5. /\ advisory' \in [Sets -> Runner \cup {NoRunner}]
      /\ \A t \in Sets \ {s} : advisory'[t] = advisory[t]
      /\ advisory'[s] \in {advisory[s], r, NoRunner}
  BY <1>4 DEF MigTypeOK
<1>6. \A t \in Sets : advisory'[t] = r <=> (runner'[r].pc \in Locked /\ runner'[r].set = t)
  <2>1. CASE advisory' = [advisory EXCEPT ![s] = NoRunner] /\ runner'[r].pc \notin Locked
    BY <2>1, <1>3, <1>4, <1>5 DEF MigTypeOK
  <2>2. CASE advisory' = advisory /\ runner[r].pc \notin Locked /\ runner'[r].pc \notin Locked
    BY <2>2, <1>3
  <2>3. CASE /\ advisory' = [advisory EXCEPT ![s] = r] /\ runner[r].pc \notin Locked
             /\ runner'[r].pc = "read" /\ runner'[r].set = s
    BY <2>3, <1>3, <1>4, <1>5 DEF MigTypeOK, Locked
  <2>4. QED
    BY <2>1, <2>2, <2>3
<1>7. \A t \in Sets : /\ advisory[t] \in Runner \ {r} => advisory'[t] = advisory[t]
                      /\ advisory[t] \notin Runner \ {r} => advisory'[t] \in {r, NoRunner}
  <2>1. CASE advisory' = [advisory EXCEPT ![s] = NoRunner] /\ runner[r].pc \in Locked
    BY <2>1, <1>3, <1>4, <1>5 DEF MigTypeOK
  <2>2. CASE advisory' = advisory
    BY <2>2, <1>4 DEF MigTypeOK
  <2>3. CASE advisory[s] = NoRunner /\ advisory' = [advisory EXCEPT ![s] = r]
    BY <2>3, <1>4, MigrateAssumption DEF MigTypeOK
  <2>4. QED
    BY <2>1, <2>2, <2>3
<1>8. QED
  BY <1>1, <1>2, <1>4, <1>5, <1>6, <1>7, OneRun DEF MigTypeOK

\* Every step of the migrations keeps the invariant.
LEMMA MigStep == MigInv /\ [MigNext]_migVars => MigInv'
<1> SUFFICES ASSUME MigInv, [MigNext]_migVars PROVE MigInv'
  OBVIOUS
<1> USE MigrateAssumption
<1>0. MigTypeOK /\ VersionIsExact
  BY DEF MigInv
<1>1. ASSUME NEW r \in Runner, Lock(r) PROVE MigInv'
  <2>1. runner[r].set \in Sets /\ runner[r] \in Run
    BY <1>0 DEF MigTypeOK, Run
  <2>2. CASE Retry(r)
    BY <1>1, <2>2, RetryStep DEF Lock
  <2>3. CASE advisory[runner[r].set] = NoRunner /\ ~Retry(r)
    <3>1. runner' = [runner EXCEPT ![r].pc = "read"]
      BY <1>1, <2>3 DEF Lock, Goto
    <3>2. /\ runner' = [runner EXCEPT ![r] = runner'[r]] /\ runner'[r] \in Run
          /\ runner'[r].pc = "read" /\ runner'[r].set = runner[r].set
      BY <1>0, <2>1, <3>1 DEF MigTypeOK, Run, Locked
    <3>3. QED
      BY <1>1, <2>1, <2>3, <3>2, UnlockedStep DEF Lock, Locked
  <2>4. QED
    BY <1>1, <2>2, <2>3 DEF Lock
<1>2. ASSUME NEW r \in Runner, Read(r) PROVE MigInv'
  <2>1. runner[r].set \in Sets /\ runner[r] \in Run
    BY <1>0 DEF MigTypeOK, Run
  <2>2. CASE Blocks(table[runner[r].set])
    <3>1. runner' = [runner EXCEPT ![r].pc = "failed"]
      BY <1>2, <2>2 DEF Read, Goto
    <3>2. /\ runner' = [runner EXCEPT ![r] = runner'[r]] /\ runner'[r] \in Run
          /\ runner'[r].pc = "failed"
      BY <1>0, <2>1, <3>1 DEF MigTypeOK, Run
    <3>3. QED
      BY <1>2, <2>1, <2>2, <3>2, UnlockedStep DEF Read, Unlock, Locked
  <2>3. CASE ~Blocks(table[runner[r].set])
    <3> DEFINE s == runner[r].set
    <3>1. /\ table[s] \in [version : Nat, dirty : BOOLEAN] /\ table' = [table EXCEPT ![s] = table[s]]
          /\ applied[s] \in Seq(Nat) /\ applied' = [applied EXCEPT ![s] = applied[s]]
          /\ ~table[s].dirty /\ table[s].version \in Nat
      BY <1>0, <1>2, <2>1, <2>3 DEF Read, MigTypeOK, Blocks
    <3>2. runner' = [runner EXCEPT ![r].pc = "next", ![r].current = table[s].version]
      BY <1>2, <2>3 DEF Read
    <3>3. Knows(r)'
      BY <1>0, <1>2, <2>1, <2>3, <3>1, <3>2 DEF Read, Knows, VersionIsExact, MigTypeOK, Run
    <3>4. QED
      BY <1>0, <1>2, <2>1, <2>3, <3>1, <3>2, <3>3, LockedStep DEF Read, Locked, VersionIsExact
  <2>4. QED
    BY <2>2, <2>3
<1>3. ASSUME NEW r \in Runner, NextFile(r) PROVE MigInv'
  <2> DEFINE s == runner[r].set
  <2>1. s \in Sets /\ runner[r] \in Run /\ runner[r].current \in Nat
    BY <1>0 DEF MigTypeOK, Run
  <2>2. CASE Retry(r) /\ UNCHANGED table
    BY <1>3, <2>2, RetryStep DEF NextFile
  <2>3. CASE runner[r].current < Image[r][s] /\ ~(Retry(r) /\ UNCHANGED table)
    <3> DEFINE n == runner[r].current
               row == [version |-> n + 1, dirty |-> TRUE]
    <3>1. /\ row \in [version : Nat, dirty : BOOLEAN] /\ table' = [table EXCEPT ![s] = row]
          /\ applied[s] \in Seq(Nat) /\ applied' = [applied EXCEPT ![s] = applied[s]]
      BY <1>0, <1>3, <2>1, <2>3 DEF NextFile, SetVersion, MigTypeOK
    <3>2. runner' = [runner EXCEPT ![r].pc = "body", ![r].current = n]
      BY <1>0, <1>3, <2>1, <2>3 DEF NextFile, Goto, MigTypeOK, Run
    <3>3. Len(applied[s]) = n
      BY <1>3 DEF NextFile, MigInv, RunInv, Knows
    <3>4. Knows(r)'
      BY <1>0, <2>1, <3>1, <3>2, <3>3 DEF Knows, MigTypeOK, Run
    <3>5. UNCHANGED <<advisory, crashes>> /\ runner[r].pc \in Locked
      BY <1>3, <2>3 DEF NextFile, Locked
    <3>6. row.dirty /\ n \in {row.version, row.version - 1}
      BY <2>1
    <3>7. applied[s] = Upto(Len(applied[s]))
      BY <1>0, <2>1 DEF VersionIsExact
    <3> HIDE DEF row
    <3>8. QED
      BY <2>1, <3>1, <3>2, <3>3, <3>4, <3>5, <3>6, <3>7, LockedStep DEF Locked
  <2>4. CASE ~(runner[r].current < Image[r][s])
    <3>1. PICK pc \in {"done", "connect"} :
            runner' = [runner EXCEPT ![r].pc = pc, ![r].set = 2, ![r].tries = 1]
      BY <1>3, <2>4 DEF NextFile
    <3>2. 2 \in Sets /\ 1 \in Nat /\ pc \notin Locked
      BY <3>1 DEF Sets, Locked
    <3>3. runner' = [runner EXCEPT ![r] = [runner[r] EXCEPT !.pc = pc, !.set = 2, !.tries = 1]]
      BY <3>1
    <3>4. [runner[r] EXCEPT !.pc = pc, !.set = 2, !.tries = 1] \in Run
      BY <2>1, <3>1, <3>2 DEF Run
    <3>5. /\ runner' = [runner EXCEPT ![r] = runner'[r]] /\ runner'[r] \in Run
          /\ runner'[r].pc \notin Locked
      BY <1>0, <2>1, <3>2, <3>3, <3>4 DEF MigTypeOK, Run
    <3>6. QED
      BY <1>3, <2>1, <2>4, <3>5, UnlockedStep DEF NextFile, Unlock, Locked
  <2>5. QED
    BY <1>3, <2>2, <2>3, <2>4 DEF NextFile
<1>4. ASSUME NEW r \in Runner, Body(r) PROVE MigInv'
  <2> DEFINE s == runner[r].set
             n == runner[r].current
  <2>1. s \in Sets /\ runner[r] \in Run /\ n \in Nat
    BY <1>0 DEF MigTypeOK, Run
  <2>2. /\ table[s] \in [version : Nat, dirty : BOOLEAN] /\ table' = [table EXCEPT ![s] = table[s]]
        /\ applied[s] \in Seq(Nat)
    BY <1>0, <1>4, <2>1 DEF Body, MigTypeOK
  <2>3. Len(applied[s]) = n /\ table[s].dirty /\ table[s].version = n + 1 /\ applied[s] = Upto(n)
    BY <1>0, <1>4, <2>1 DEF Body, MigInv, RunInv, Knows, VersionIsExact
  <2>4. CASE applied' = [applied EXCEPT ![s] = Append(@, n + 1)] /\ Goto(r, "clean")
    <3> DEFINE files == Append(applied[s], n + 1)
    <3>1. files \in Seq(Nat) /\ Len(files) = n + 1 /\ files = Upto(n + 1)
      BY <2>1, <2>2, <2>3, UptoGrows
    <3>2. /\ runner' = [runner EXCEPT ![r].pc = "clean", ![r].current = n]
          /\ applied' = [applied EXCEPT ![s] = files]
      BY <1>0, <2>1, <2>4 DEF Goto, MigTypeOK, Run
    <3>3. Knows(r)'
      BY <1>0, <2>1, <2>2, <2>3, <3>1, <3>2 DEF Knows, MigTypeOK, Run
    <3> HIDE DEF files
    <3>4. QED
      BY <1>4, <2>1, <2>2, <2>3, <3>1, <3>2, <3>3, LockedStep DEF Body, Locked
  <2>5. CASE (Goto(r, "failing") \/ Goto(r, "waiting")) /\ UNCHANGED applied
    <3>1. PICK pc \in {"failing", "waiting"} :
            runner' = [runner EXCEPT ![r].pc = pc, ![r].current = n]
      BY <1>0, <2>1, <2>5 DEF Goto, MigTypeOK, Run
    <3>2. applied' = [applied EXCEPT ![s] = applied[s]]
      BY <1>0, <2>1, <2>5 DEF MigTypeOK
    <3>3. Knows(r)'
      BY <1>0, <2>1, <2>2, <2>3, <3>1, <3>2 DEF Knows, MigTypeOK, Run
    <3>4. pc \in Locked /\ runner[r].pc \in Locked /\ UNCHANGED <<advisory, crashes>>
      BY <1>4, <3>1 DEF Body, Locked
    <3>5. Len(applied[s]) \in {table[s].version, table[s].version - 1}
      BY <2>1, <2>3
    <3>6. QED
      BY <2>1, <2>2, <2>3, <3>1, <3>2, <3>3, <3>4, <3>5, LockedStep
  <2>6. QED
    BY <1>4, <2>4, <2>5 DEF Body
<1>5. ASSUME NEW r \in Runner, GoBack(r) PROVE MigInv'
  <2> DEFINE s == runner[r].set
             n == runner[r].current
  <2>1. s \in Sets /\ runner[r] \in Run /\ n \in Nat
    BY <1>0 DEF MigTypeOK, Run
  <2>2. CASE Retry(r) /\ UNCHANGED table
    BY <1>5, <2>2, RetryStep DEF GoBack
  <2>3. CASE SetVersion(s, n, FALSE)
    <3>1. Len(applied[s]) = n /\ applied[s] = Upto(n) /\ runner[r].pc \in Locked
      BY <1>0, <1>5, <2>1 DEF GoBack, MigInv, RunInv, Knows, VersionIsExact, Locked
    <3>2. /\ table' \in [Sets -> [version : Nat, dirty : BOOLEAN]]
          /\ table'[s] = [version |-> n, dirty |-> FALSE]
          /\ \A t \in Sets \ {s} : table'[t] = table[t]
      BY <1>0, <2>1, <2>3 DEF SetVersion, MigTypeOK
    <3>3. VersionIsExact'
      BY <1>0, <1>5, <2>1, <3>1, <3>2 DEF GoBack, VersionIsExact
    <3>4. /\ runner' = [runner EXCEPT ![r] = runner'[r]] /\ runner'[r] \in Run
          /\ runner'[r].pc \notin Locked
      <4>1. runner[r].tries + 1 \in Nat
        BY <2>1 DEF Run
      <4>2. CASE runner' = [runner EXCEPT ![r].pc = "failed"]
        BY <1>0, <2>1, <4>2 DEF MigTypeOK, Run, Locked
      <4>3. CASE runner' = [runner EXCEPT ![r].pc = "connect", ![r].tries = @ + 1]
        BY <1>0, <2>1, <4>1, <4>3 DEF MigTypeOK, Run, Locked
      <4>4. QED
        BY <1>5, <4>2, <4>3 DEF GoBack, Retry, Goto
    <3>5. \A t \in Sets : advisory[t] = r <=> t = s
      BY <3>1 DEF MigInv, AdvisoryInv
    <3>6. advisory' = [advisory EXCEPT ![s] = NoRunner]
      BY <1>5, <2>1, <2>3, <3>5 DEF GoBack, Retry, Unlock
    <3>7. /\ advisory' \in [Sets -> Runner \cup {NoRunner}]
          /\ advisory'[s] = NoRunner /\ \A t \in Sets \ {s} : advisory'[t] = advisory[t]
      BY <1>0, <2>1, <3>6 DEF MigTypeOK
    <3>8. Knows(r)'
      BY <3>4 DEF Knows, Locked
    <3>9. applied' \in [Sets -> Seq(Nat)] /\ crashes' \in Nat /\ UNCHANGED applied /\ r # NoRunner
      BY <1>0, <1>5 DEF GoBack, MigTypeOK
    <3>10. \A t \in Sets :
             /\ advisory[t] \in Runner \ {r} =>
                  advisory'[t] = advisory[t] /\ table'[t] = table[t] /\ applied'[t] = applied[t]
             /\ advisory[t] \notin Runner \ {r} => advisory'[t] \in {r, NoRunner}
             /\ advisory'[t] = r <=> (runner'[r].pc \in Locked /\ runner'[r].set = t)
      BY <1>0, <2>1, <3>2, <3>4, <3>5, <3>7, <3>9 DEF MigTypeOK
    <3>11. QED
      BY <3>2, <3>3, <3>4, <3>7, <3>8, <3>9, <3>10, OneRun
  <2>4. QED
    BY <1>5, <2>2, <2>3 DEF GoBack
<1>6. ASSUME NEW r \in Runner, MarkClean(r) PROVE MigInv'
  <2> DEFINE s == runner[r].set
             n == runner[r].current
             row == [version |-> n + 1, dirty |-> FALSE]
  <2>1. s \in Sets /\ runner[r] \in Run /\ n \in Nat
    BY <1>0 DEF MigTypeOK, Run
  <2>2. CASE Retry(r) /\ UNCHANGED table
    BY <1>6, <2>2, RetryStep DEF MarkClean
  <2>3. CASE ~(Retry(r) /\ UNCHANGED table)
    <3>1. Len(applied[s]) = n + 1 /\ applied[s] = Upto(n + 1)
      BY <1>0, <1>6, <2>1 DEF MarkClean, MigInv, RunInv, Knows, VersionIsExact
    <3>2. /\ row \in [version : Nat, dirty : BOOLEAN] /\ table' = [table EXCEPT ![s] = row]
          /\ applied[s] \in Seq(Nat) /\ applied' = [applied EXCEPT ![s] = applied[s]]
      BY <1>0, <1>6, <2>1, <2>3 DEF MarkClean, SetVersion, MigTypeOK
    <3>3. runner' = [runner EXCEPT ![r].pc = "next", ![r].current = n + 1]
      BY <1>6, <2>3 DEF MarkClean
    <3>4. Knows(r)'
      BY <1>0, <2>1, <3>1, <3>2, <3>3 DEF Knows, MigTypeOK, Run
    <3>5. UNCHANGED <<advisory, crashes>> /\ runner[r].pc \in Locked /\ "next" \in Locked
      BY <1>6, <2>3 DEF MarkClean, Locked
    <3>6. ~row.dirty /\ row.version = n + 1 /\ n + 1 \in Nat
      BY <2>1
    <3> HIDE DEF row
    <3>7. QED
      BY <2>1, <3>1, <3>2, <3>3, <3>4, <3>5, <3>6, LockedStep
  <2>4. QED
    BY <2>2, <2>3
<1>7. ASSUME NEW r \in Runner, Crash(r) PROVE MigInv'
  <2> DEFINE s == runner[r].set
             n == runner[r].current
  <2>1. s \in Sets /\ runner[r] \in Run /\ n \in Nat
    BY <1>0 DEF MigTypeOK, Run
  <2>2. /\ runner' = [runner EXCEPT ![r] = runner'[r]] /\ runner'[r] \in Run
        /\ runner'[r].pc = "failed"
    BY <1>0, <1>7, <2>1 DEF Crash, Goto, MigTypeOK, Run
  <2>3. /\ advisory' \in [Sets -> Runner \cup {NoRunner}]
        /\ \A t \in Sets : advisory'[t] = IF advisory[t] = r THEN NoRunner ELSE advisory[t]
    BY <1>0, <1>7 DEF Crash, MigTypeOK
  <2>4. /\ applied' \in [Sets -> Seq(Nat)] /\ VersionIsExact'
        /\ \A t \in Sets : advisory[t] \in Runner \ {r} => applied'[t] = applied[t]
    <3>1. CASE UNCHANGED applied
      BY <1>0, <1>7, <3>1 DEF Crash, MigTypeOK, VersionIsExact
    <3>2. CASE runner[r].pc = "body" /\ applied' = [applied EXCEPT ![s] = Append(@, n + 1)]
      <4>1. /\ Len(applied[s]) = n /\ table[s].dirty /\ table[s].version = n + 1
            /\ applied[s] = Upto(n) /\ applied[s] \in Seq(Nat)
        BY <1>0, <2>1, <3>2 DEF MigInv, RunInv, Knows, VersionIsExact, MigTypeOK
      <4> DEFINE files == Append(applied[s], n + 1)
      <4>2. files \in Seq(Nat) /\ Len(files) = n + 1 /\ files = Upto(n + 1)
        BY <2>1, <4>1, UptoGrows
      <4>3. applied' \in [Sets -> Seq(Nat)] /\ applied'[s] = files
            /\ \A t \in Sets \ {s} : applied'[t] = applied[t]
        BY <1>0, <2>1, <3>2, <4>2 DEF MigTypeOK
      <4>4. advisory[s] = r
        BY <2>1, <3>2 DEF MigInv, AdvisoryInv, Locked
      <4> HIDE DEF files
      <4>5. VersionIsExact'
        BY <1>0, <1>7, <2>1, <4>1, <4>2, <4>3 DEF Crash, VersionIsExact, MigTypeOK
      <4>6. QED
        BY <4>3, <4>4, <4>5
    <3>3. QED
      BY <1>7, <3>1, <3>2 DEF Crash
  <2>5. Knows(r)'
    BY <2>2 DEF Knows
  <2>6. crashes' \in Nat /\ UNCHANGED table /\ table' \in [Sets -> [version : Nat, dirty : BOOLEAN]]
    BY <1>0, <1>7 DEF Crash, MigTypeOK
  <2>7. QED
    BY <1>0, <2>2, <2>3, <2>4, <2>5, <2>6, OneRun DEF MigTypeOK, Locked
<1>8. ASSUME NEW r \in Runner, Again(r) PROVE MigInv'
  <2>1. runner[r].set \in Sets
    BY <1>0 DEF MigTypeOK, Run
  <2>2. /\ runner' = [runner EXCEPT ![r] = runner'[r]] /\ runner'[r] \in Run
        /\ runner'[r].pc = "connect"
    BY <1>0, <1>8 DEF Again, MigTypeOK, Run, Sets
  <2>3. QED
    BY <1>8, <2>1, <2>2, UnlockedStep DEF Again, Locked
<1>9. ASSUME NEW s \in Sets, Correct(s) PROVE MigInv'
  <2>1. /\ table' \in [Sets -> [version : Nat, dirty : BOOLEAN]]
        /\ table'[s] = [version |-> Len(applied[s]), dirty |-> FALSE]
        /\ \A t \in Sets \ {s} : table'[t] = table[t]
    BY <1>0, <1>9 DEF Correct, SetVersion, MigTypeOK
  <2>2. UNCHANGED <<applied, advisory, runner, crashes>>
    BY <1>9 DEF Correct
  <2>3. RunInv'
    <3> SUFFICES ASSUME NEW q \in Runner PROVE Knows(q)'
      BY DEF RunInv
    <3>1. runner[q].set \in Sets
      BY <1>0 DEF MigTypeOK, Run
    <3>2. CASE runner[q].pc \in Locked
      <4>1. runner[q].set # s
        BY <1>9, <3>1, <3>2 DEF Correct, MigInv, AdvisoryInv
      <4>2. QED
        BY <2>1, <2>2, <3>1, <4>1 DEF MigInv, RunInv, Knows
    <3>3. CASE runner[q].pc \notin Locked
      BY <2>2, <3>3 DEF Knows, Locked
    <3>4. QED
      BY <3>2, <3>3
  <2>4. VersionIsExact'
    BY <1>0, <2>1, <2>2 DEF VersionIsExact
  <2>5. QED
    BY <2>1, <2>2, <2>3, <2>4 DEF MigInv, MigTypeOK, AdvisoryInv
<1>10. CASE UNCHANGED migVars
  BY <1>0, <1>10 DEF MigInv, MigTypeOK, AdvisoryInv, RunInv, Knows, VersionIsExact, migVars
<1>11. QED
  BY <1>1, <1>2, <1>3, <1>4, <1>5, <1>6, <1>7, <1>8, <1>9, <1>10 DEF MigNext

\* Migrations of any number of images, runs, failures, lock timeouts and kills:
\* each file is applied once and in order, and the state table's row names the
\* last one or, dirty, the one that may follow.
THEOREM MigrationsExact == MigSpec => []VersionIsExact
<1>1. MigInit => MigInv
  BY MigrateAssumption
     DEF MigInit, MigInv, MigTypeOK, AdvisoryInv, RunInv, Knows, VersionIsExact, Upto, Sets,
         Run, Locked
<1>2. MigInv => VersionIsExact
  BY DEF MigInv
<1>3. QED
  BY <1>1, <1>2, MigStep, PTL DEF MigSpec

------------------------------------------------------------------------------
(* Tx                                                                        *)

\* The numbers a call that has done nothing is accounted with.
LEMMA NoneOfOne == 0 <= 1 /\ 0 <= 0
OBVIOUS

\* The budgets stay counts when a place is taken or given back.
LEMMA BudgetCounts ==
  ASSUME NEW c, slots \in [BOOLEAN -> Nat], NEW n \in Nat
  PROVE  /\ slots[Slot(c)] \in Nat
         /\ [slots EXCEPT ![Slot(c)] = n] \in [BOOLEAN -> Nat]
<1>1. Slot(c) \in BOOLEAN
  <2>1. CASE c \in Foreground
    BY <2>1 DEF Slot
  <2>2. CASE c \notin Foreground
    BY <2>2 DEF Slot
  <2>3. QED
    BY <2>1, <2>2
<1>2. QED
  BY <1>1, Zenon

\* A step of one call keeps the invariant when it leaves the row alone that
\* another call has locked, and is itself accounted for afterwards.
LEMMA OneCall ==
  ASSUME TxInv, NEW c \in Call, NEW v \in Running, call' = [call EXCEPT ![c] = v],
         UNCHANGED job,
         slots' \in [BOOLEAN -> Nat], settings' \in [Connection -> {"base", "changed"}],
         series' \in Series, dirtyRow' \in Series, rowLock' \in Call \cup {NoCall},
         given' \in SUBSET (Call \X Nat), imported' \in SUBSET Nat,
         ran' \in [Call -> Nat], done' \in [Call -> Nat],
         \A d \in Call \ {c} : ran'[d] = ran[d] /\ done'[d] = done[d],
         rowLock \in Call \ {c} => UNCHANGED <<rowLock, dirtyRow, series>>,
         rowLock \notin Call \ {c} => rowLock' \in {c, NoCall},
         rowLock' = c <=> v.pc \in Holding,
         v.conn # NoConnection <=> v.pc \in {"fn"} \cup Holding,
         RightRow(c)', NotDoneYet(c)', Accounted(c)', SeriesInv'
  PROVE  TxInv'
<1>1. call'[c] = v /\ \A d \in Call \ {c} : call'[d] = call[d]
  BY DEF TxInv, TxTypeOK
<1>2. TxTypeOK'
  BY DEF TxInv, TxTypeOK
<1>3. HolderInv'
  <2> SUFFICES ASSUME NEW d \in Call
               PROVE  /\ rowLock' = d <=> call'[d].pc \in Holding
                      /\ call'[d].conn # NoConnection <=> call'[d].pc \in {"fn"} \cup Holding
    BY DEF HolderInv, InTx
  <2>1. CASE d = c
    BY <1>1, <2>1
  <2>2. CASE d # c
    <3>1. rowLock' = d <=> rowLock = d
      BY <2>2, TxAssumption
    <3>2. QED
      BY <1>1, <2>2, <3>1 DEF TxInv, HolderInv, InTx
  <2>3. QED
    BY <2>1, <2>2
<1>4. RowInv'
  <2> SUFFICES ASSUME NEW d \in Call, d # c PROVE RightRow(d)'
    BY DEF RowInv
  <2>1. CASE call[d].pc \in Holding
    <3>1. rowLock = d
      BY <2>1 DEF TxInv, HolderInv
    <3>2. UNCHANGED <<dirtyRow, series, job>> /\ call'[d] = call[d]
      BY <1>1, <3>1
    <3>3. RightRow(d)
      BY DEF TxInv, RowInv
    <3>4. QED
      BY <3>2, <3>3 DEF RightRow
  <2>2. CASE call[d].pc \notin Holding
    BY <1>1, <2>2 DEF RightRow, Holding
  <2>3. QED
    BY <2>1, <2>2
<1>5. DoneInv' /\ AnswerIsTrue'
  <2> SUFFICES ASSUME NEW d \in Call, d # c PROVE NotDoneYet(d)' /\ Accounted(d)'
    BY DEF DoneInv, AnswerIsTrue
  <2>1. call'[d] = call[d] /\ ran'[d] = ran[d] /\ done'[d] = done[d]
    BY <1>1
  <2>2. NotDoneYet(d) /\ Accounted(d)
    BY DEF TxInv, DoneInv, AnswerIsTrue
  <2>3. QED
    BY <2>1, <2>2 DEF NotDoneYet, Accounted
<1>6. QED
  BY <1>2, <1>3, <1>4, <1>5 DEF TxInv

\* A step before the row is locked, or while it stays locked.
LEMMA QuietStep ==
  ASSUME TxInv, NEW c \in Call, NEW v \in Running, call' = [call EXCEPT ![c] = v],
         slots' \in [BOOLEAN -> Nat], settings' \in [Connection -> {"base", "changed"}],
         UNCHANGED <<job, series, dirtyRow, rowLock, given, imported, ran, done>>,
         call[c].pc # "ended", v.pc \in Holding <=> call[c].pc \in Holding,
         v.conn # NoConnection <=> v.pc \in {"fn"} \cup Holding,
         v.pc \in {"work", "commit"} => call[c].pc \in {"work", "commit"} /\ v.took = call[c].took,
         v.pc # "ended" => v.answer = "none", v.answer # "ok",
         v.pc \in {"fn", "work", "wrong kind"} => v.hooks = 0,
         v.pc = "commit" => v.hooks = 1
  PROVE  TxInv'
<1>1. call'[c] = v /\ TxTypeOK /\ done[c] = 0 /\ ran[c] = 0
  BY DEF TxInv, TxTypeOK, DoneInv, NotDoneYet
<1>2. RightRow(c)'
  BY <1>1 DEF TxInv, RowInv, RightRow
<1>3. NotDoneYet(c)' /\ Accounted(c)'
  <2>1. done'[c] = 0 /\ ran'[c] = 0
    BY <1>1
  <2>2. done'[c] <= 1 /\ ran'[c] <= done'[c]
    BY <2>1, NoneOfOne, Zenon
  <2>3. NotDoneYet(c)'
    BY <1>1, <2>1 DEF NotDoneYet
  <2>4. QED
    BY <1>1, <2>1, <2>2, <2>3, Zenon DEF Accounted
<1>4. SeriesInv'
  BY DEF TxInv, SeriesInv, Numbers
<1>5. rowLock' = c <=> v.pc \in Holding
  BY DEF TxInv, HolderInv
<1>6. QED
  BY <1>1, <1>2, <1>3, <1>4, <1>5, OneCall DEF TxTypeOK

\* The attempt of a call ends and nothing of it is committed.
LEMMA RolledBack ==
  ASSUME TxInv, NEW c \in Call, NEW v \in Running, call' = [call EXCEPT ![c] = v],
         slots' \in [BOOLEAN -> Nat], GiveBack(c, FALSE), Nothing, UNCHANGED ran,
         call[c].pc # "ended", v.pc \in {"acquire", "ended"}, v.conn = NoConnection,
         v.pc = "acquire" => v.answer = "none", v.answer # "ok"
  PROVE  TxInv'
<1>1. call'[c] = v /\ TxTypeOK /\ done[c] = 0 /\ ran[c] = 0
  BY DEF TxInv, TxTypeOK, DoneInv, NotDoneYet
<1>2. settings' \in [Connection -> {"base", "changed"}]
  BY <1>1 DEF GiveBack, TxTypeOK, ReleaseCheck
<1>3. RightRow(c)' /\ NotDoneYet(c)' /\ Accounted(c)'
  <2>1. done'[c] = 0 /\ ran'[c] = 0
    BY <1>1 DEF Nothing
  <2>2. done'[c] <= 1 /\ ran'[c] <= done'[c]
    BY <2>1
  <2>3. RightRow(c)' /\ NotDoneYet(c)'
    BY <1>1, <2>1 DEF NotDoneYet, RightRow
  <2>4. QED
    BY <1>1, <2>1, <2>2, <2>3, Zenon DEF Accounted
<1>4. SeriesInv'
  BY DEF TxInv, SeriesInv, Numbers, Nothing, GiveBack
<1>5. dirtyRow' \in Series
  BY <1>1 DEF GiveBack, NoSeries, Series, TxTypeOK
<1>6. c # NoCall /\ UNCHANGED <<job, series, given, imported, done>>
  BY TxAssumption DEF GiveBack, Nothing
<1>7. /\ rowLock \in Call \ {c} => UNCHANGED <<rowLock, dirtyRow, series>>
      /\ rowLock \notin Call \ {c} => rowLock' \in {c, NoCall}
      /\ rowLock' \in Call \cup {NoCall} /\ rowLock' # c
  BY <1>1, <1>6 DEF GiveBack, TxTypeOK
<1>8. v.pc \notin {"fn"} \cup Holding
  BY DEF Holding
<1>9. QED
  BY <1>1, <1>2, <1>3, <1>4, <1>5, <1>6, <1>7, <1>8, OneCall DEF TxTypeOK

\* The upsert of the series' row by a call that finds it unlocked.
LEMMA UpsertStep ==
  ASSUME TxInv, NEW c \in Call, NEW v \in Running, call' = [call EXCEPT ![c] = v],
         NEW last \in Nat, Upsert(c, last),
         UNCHANGED <<job, slots, settings, series, given, imported, ran, done>>,
         v.pc = IF SameKind(c) THEN "work" ELSE "wrong kind",
         v.conn = call[c].conn, v.answer = call[c].answer, v.hooks = call[c].hooks,
         job[c].do = "number" => last = series.last + 1 /\ v.took = series.last + 1,
         job[c].do = "import" =>
           last = IF series.last > job[c].last THEN series.last ELSE job[c].last
  PROVE  TxInv'
<1>1. /\ call'[c] = v /\ TxTypeOK /\ call[c].pc = "fn" /\ rowLock = NoCall
      /\ done[c] = 0 /\ ran[c] = 0 /\ call[c].answer = "none" /\ call[c].hooks = 0
      /\ InTx(c)
  BY DEF TxInv, TxTypeOK, DoneInv, NotDoneYet, Upsert, At, RowIsFree, HolderInv
<1>2. /\ dirtyRow' \in Series /\ dirtyRow'.there /\ dirtyRow'.last = last
      /\ dirtyRow'.gapless = IF series.there THEN series.gapless ELSE job[c].gapless
  BY <1>1 DEF Upsert, Series, TxTypeOK, Job
<1>3. RightRow(c)'
  BY <1>1, <1>2 DEF RightRow, SameKind
<1>4. NotDoneYet(c)' /\ Accounted(c)'
  <2>1. done'[c] = 0 /\ ran'[c] = 0 /\ v.answer = "none" /\ v.hooks = 0
    BY <1>1
  <2>2. done'[c] <= 1 /\ ran'[c] <= done'[c]
    BY <2>1, NoneOfOne, Zenon
  <2>3. NotDoneYet(c)'
    BY <1>1, <2>1 DEF NotDoneYet
  <2>4. QED
    BY <1>1, <2>1, <2>2, <2>3, Zenon DEF Accounted
<1>5. SeriesInv'
  BY DEF TxInv, SeriesInv, Numbers
<1>6. rowLock' = c /\ v.pc \in Holding /\ v.conn # NoConnection /\ c # NoCall
  BY <1>1, TxAssumption DEF Upsert, Holding, InTx
<1>7. rowLock \notin Call \ {c}
  BY <1>1, TxAssumption
<1>8. QED
  BY <1>1, <1>2, <1>3, <1>4, <1>5, <1>6, <1>7, OneCall DEF TxTypeOK

\* What is committed continues the series: the number the row was upserted
\* with is the next, and imported numbers fill up what there is.
LEMMA SeriesGrows ==
  ASSUME TxInv, NEW c \in Call, call[c].pc = "commit", Persist(c), UNCHANGED job
  PROVE  /\ SeriesInv' /\ series' \in Series
         /\ given' \in SUBSET (Call \X Nat) /\ imported' \in SUBSET Nat
<1>1. /\ TxTypeOK /\ SeriesInv /\ RightRow(c) /\ job[c] \in Job /\ call[c].took \in Nat
      /\ series.last \in Nat /\ series' \in Series
  BY DEF TxInv, TxTypeOK, RowInv, Running, Series, Persist
<1>2. /\ series'.there /\ series'.gapless = job[c].gapless
      /\ series.there => series.gapless = job[c].gapless
  BY <1>1 DEF RightRow, Persist
<1>3. \A g \in given : job[g[1]].gapless = job[c].gapless
  BY <1>1, <1>2 DEF SeriesInv
<1>4. CASE job[c].do = "number"
  <2> DEFINE n == series.last + 1
  <2>1. /\ given' = given \cup {<<c, n>>} /\ imported' = imported /\ series'.last = n
        /\ n \in Nat
    BY <1>1, <1>4 DEF Persist, RightRow
  <2>2. Numbers' = Numbers \cup {n}
    <3>1. Numbers' = {g[2] : g \in given \cup {<<c, n>>}}
      BY <2>1 DEF Numbers
    <3>2. {g[2] : g \in given \cup {<<c, n>>}} = {g[2] : g \in given} \cup {<<c, n>>[2]}
      OBVIOUS
    <3>3. QED
      BY <3>1, <3>2 DEF Numbers
  <2>3. Numbers' \cup imported' = 1 .. series'.last
    BY <1>1, <2>1, <2>2 DEF SeriesInv
  <2>4. \A g \in given : g[2] # n
    <3>1. \A g \in given : g[2] \in 1 .. series.last
      BY <1>1 DEF SeriesInv, Numbers
    <3>2. QED
      BY <1>1, <3>1
  <2>5. \A g, h \in given' : g[2] = h[2] => g = h
    BY <1>1, <2>1, <2>4 DEF SeriesInv
  <2>6. IsFiniteSet(given')
    BY <1>1, <2>1, FS_AddElement DEF SeriesInv
  <2>7. \A g \in given' : job'[g[1]].gapless = series'.gapless
    BY <1>2, <1>3, <2>1
  <2>8. given' \in SUBSET (Call \X Nat) /\ imported' \in SUBSET Nat
    BY <1>1, <2>1 DEF TxTypeOK
  <2>9. QED
    BY <1>1, <1>2, <2>3, <2>5, <2>6, <2>7, <2>8 DEF SeriesInv
<1>5. CASE job[c].do = "import"
  <2> DEFINE l == job[c].last
  <2>1. /\ given' = given /\ imported' = imported \cup 1 .. l
        /\ series'.last = IF series.last > l THEN series.last ELSE l
        /\ l \in Nat
    BY <1>1, <1>5 DEF Persist, RightRow, Job
  <2>2. Numbers' \cup imported' = 1 .. series'.last
    <3>1. Numbers' = Numbers
      BY <2>1 DEF Numbers
    <3>2. (1 .. series.last) \cup 1 .. l = 1 .. series'.last
      BY <1>1, <2>1
    <3>3. QED
      BY <1>1, <2>1, <3>1, <3>2 DEF SeriesInv
  <2>3. \A g \in given' : job'[g[1]].gapless = series'.gapless
    BY <1>2, <1>3, <2>1
  <2>4. given' \in SUBSET (Call \X Nat) /\ imported' \in SUBSET Nat
    <3>1. 1 .. l \subseteq Nat
      BY <2>1
    <3>2. QED
      BY <1>1, <2>1, <3>1 DEF TxTypeOK
  <2>5. QED
    BY <1>1, <1>2, <2>1, <2>2, <2>3, <2>4 DEF SeriesInv
<1>6. QED
  BY <1>1, <1>4, <1>5 DEF Job

\* The attempt of a call ends with its work committed.
LEMMA Committed ==
  ASSUME TxInv, NEW c \in Call, NEW v \in Running, call' = [call EXCEPT ![c] = v],
         call[c].pc = "commit", NEW committed \in BOOLEAN, GiveBack(c, committed), Persist(c),
         slots' \in [BOOLEAN -> Nat],
         v.pc = "ended", v.conn = NoConnection,
         \/ /\ v.answer = "ok" /\ ran' = [ran EXCEPT ![c] = @ + call[c].hooks]
         \/ v.answer \in {"DEPENDENCY_UNAVAILABLE", "DEADLINE"} /\ UNCHANGED ran
  PROVE  TxInv'
<1>1. call'[c] = v /\ TxTypeOK /\ done[c] = 0 /\ ran[c] = 0 /\ call[c].hooks = 1 /\ rowLock = c
  BY DEF TxInv, TxTypeOK, DoneInv, NotDoneYet, HolderInv, Holding
<1>2. settings' \in [Connection -> {"base", "changed"}]
  BY <1>1 DEF GiveBack, TxTypeOK, ReleaseCheck
<1>3. /\ done' \in [Call -> Nat] /\ ran' \in [Call -> Nat] /\ done'[c] = 1
      /\ IF v.answer = "ok" THEN ran'[c] = 1 ELSE ran'[c] = 0
      /\ \A d \in Call \ {c} : ran'[d] = ran[d] /\ done'[d] = done[d]
  BY <1>1 DEF Persist, TxTypeOK
<1>4. RightRow(c)' /\ NotDoneYet(c)'
  BY <1>1 DEF NotDoneYet, RightRow
<1>5. Accounted(c)'
  <2>1. done'[c] <= 1 /\ ran'[c] <= done'[c]
    BY <1>3
  <2>2. QED
    BY <1>1, <1>3, <2>1, Zenon DEF Accounted
<1>6. UNCHANGED job /\ rowLock' = NoCall /\ dirtyRow' \in Series /\ c # NoCall
  BY <1>1, TxAssumption DEF GiveBack, NoSeries, Series
<1>7. /\ SeriesInv' /\ series' \in Series
      /\ given' \in SUBSET (Call \X Nat) /\ imported' \in SUBSET Nat
  BY <1>6, SeriesGrows
<1>8. v.pc \notin {"fn"} \cup Holding
  BY DEF Holding
<1>9. QED
  BY <1>1, <1>2, <1>3, <1>4, <1>5, <1>6, <1>7, <1>8, OneCall

\* _run's finally.
LEMMA EndStep ==
  ASSUME NEW c \in Call, NEW answer, TxTypeOK, End(c, answer)
  PROVE  /\ call' = [call EXCEPT ![c] = [call[c] EXCEPT !.pc = "ended", !.conn = NoConnection,
                                                      !.answer = answer]]
         /\ slots' \in [BOOLEAN -> Nat]
<1>1. slots[Slot(c)] \in Nat
  BY BudgetCounts DEF TxTypeOK
<1>2. slots[Slot(c)] + 1 \in Nat /\ slots' = [slots EXCEPT ![Slot(c)] = slots[Slot(c)] + 1]
  BY <1>1 DEF End
<1>3. slots' \in [BOOLEAN -> Nat]
  BY <1>2, BudgetCounts DEF TxTypeOK
<1>4. QED
  BY <1>3 DEF End

\* An attempt that ends with an error: tried again or answered.
LEMMA AttemptedStep ==
  ASSUME TxInv, NEW c \in Call, call[c].pc # "ended",
         NEW error \in {"TX_CONFLICT", "LOCK_TIMEOUT", "INTERNAL", "DEPENDENCY_UNAVAILABLE"},
         Attempted(c, error),
         Nothing \/ (error = "DEPENDENCY_UNAVAILABLE" /\ call[c].pc = "commit" /\ Persist(c))
  PROVE  TxInv'
<1>1. /\ TxTypeOK /\ call[c] \in Running /\ call[c].answer = "none" /\ call[c].attempt \in Nat
      /\ GiveBack(c, FALSE) /\ UNCHANGED ran
  BY DEF TxInv, TxTypeOK, DoneInv, NotDoneYet, Running, Attempted
<1>2. CASE Retried(error) /\ call[c].attempt < MaxAttempts
  <2> DEFINE v == [call[c] EXCEPT !.pc = "acquire", !.conn = NoConnection,
                                  !.attempt = call[c].attempt + 1]
  <2>1. call' = [call EXCEPT ![c] = v] /\ slots' \in [BOOLEAN -> Nat]
    BY <1>1, <1>2 DEF Attempted, TxTypeOK
  <2>2. v \in Running /\ v.pc = "acquire" /\ v.conn = NoConnection /\ v.answer = "none"
    <3>1. call[c].attempt + 1 \in Nat
      BY <1>1
    <3>2. QED
      BY <1>1, <3>1 DEF Running, Stages
  <2>3. Nothing
    BY <1>2 DEF Retried
  <2> HIDE DEF v
  <2>4. QED
    BY <1>1, <2>1, <2>2, <2>3, RolledBack
<1>3. CASE ~(Retried(error) /\ call[c].attempt < MaxAttempts)
  <2> DEFINE v == [call[c] EXCEPT !.pc = "ended", !.conn = NoConnection, !.answer = error]
  <2>1. call' = [call EXCEPT ![c] = v] /\ slots' \in [BOOLEAN -> Nat]
    BY <1>1, <1>3, EndStep DEF Attempted, TxTypeOK
  <2>2. v \in Running /\ v.pc = "ended" /\ v.conn = NoConnection /\ v.answer = error
    BY <1>1 DEF Running, Stages, Answers
  <2> HIDE DEF v
  <2>3. CASE Nothing
    BY <1>1, <2>1, <2>2, <2>3, RolledBack
  <2>4. CASE error = "DEPENDENCY_UNAVAILABLE" /\ call[c].pc = "commit" /\ Persist(c)
    BY <1>1, <2>1, <2>2, <2>4, Committed
  <2>5. QED
    BY <2>3, <2>4
<1>4. QED
  BY <1>2, <1>3

\* Every step of the transactions keeps the invariant.
LEMMA TxStep == TxInv /\ [TxNext]_txVars => TxInv'
<1> SUFFICES ASSUME TxInv, [TxNext]_txVars PROVE TxInv'
  OBVIOUS
<1>0. TxTypeOK
  BY DEF TxInv
<1>c. ASSUME NEW c \in Call
      PROVE  /\ call[c] \in Running /\ call[c].took \in Nat /\ call[c].hooks \in Nat
             /\ job[c].last \in Nat /\ series.last \in Nat
             /\ slots[Slot(c)] \in Nat
             /\ InTx(c) <=> call[c].pc \in {"fn"} \cup Holding
             /\ NotDoneYet(c)
  <2>1. slots[Slot(c)] \in Nat
    BY <1>0, <1>c, BudgetCounts DEF TxTypeOK
  <2>2. InTx(c) <=> call[c].pc \in {"fn"} \cup Holding
    BY <1>c DEF TxInv, HolderInv
  <2>3. QED
    BY <1>c, <2>1, <2>2 DEF TxInv, TxTypeOK, Running, Job, Series, DoneInv
<1>1. ASSUME NEW c \in Call, TakeSlot(c) PROVE TxInv'
  <2> DEFINE v == [call[c] EXCEPT !.pc = "acquire"]
  <2>0. slots' = [slots EXCEPT ![Slot(c)] = slots[Slot(c)] - 1] /\ slots[Slot(c)] - 1 \in Nat
    BY <1>1, <1>c DEF TakeSlot
  <2>1. call' = [call EXCEPT ![c] = v] /\ slots' \in [BOOLEAN -> Nat] /\ call[c].pc = "waiting"
    BY <1>0, <1>1, <1>c, <2>0, BudgetCounts DEF TakeSlot, TxTypeOK, At
  <2>2. /\ v \in Running /\ v.pc = "acquire" /\ v.answer = "none" /\ v.conn = NoConnection
    BY <1>0, <1>c, <2>1 DEF Running, Stages, InTx, Holding, NotDoneYet
  <2> HIDE DEF v
  <2>3. QED
    BY <1>0, <1>1, <2>1, <2>2, QuietStep DEF TakeSlot, TxTypeOK, Holding
<1>2. ASSUME NEW c \in Call, Busy(c) PROVE TxInv'
  <2> DEFINE v == [call[c] EXCEPT !.pc = "ended", !.answer = "SERVICE_BUSY"]
  <2>1. call' = [call EXCEPT ![c] = v] /\ call[c].pc = "waiting"
    BY <1>0, <1>2, <1>c DEF Busy, TxTypeOK, At
  <2>2. /\ v \in Running /\ v.pc = "ended" /\ v.answer = "SERVICE_BUSY" /\ v.conn = NoConnection
    BY <1>0, <1>c, <2>1 DEF Running, Stages, InTx, Holding, Answers
  <2> HIDE DEF v
  <2>3. QED
    BY <1>0, <1>2, <2>1, <2>2, QuietStep DEF Busy, TxTypeOK, Holding
<1>3. ASSUME NEW c \in Call, NEW x \in Connection, Acquire(c, x) PROVE TxInv'
  <2> DEFINE v == [call[c] EXCEPT !.pc = "fn", !.conn = x, !.took = 0, !.hooks = 0]
  <2>1. call' = [call EXCEPT ![c] = v] /\ call[c].pc = "acquire"
    BY <1>0, <1>3, <1>c DEF Acquire, TxTypeOK, At
  <2>2. /\ v \in Running /\ v.pc = "fn" /\ v.answer = "none" /\ v.conn # NoConnection
        /\ v.hooks = 0
    <3>1. x # NoConnection /\ call[c].answer = "none"
      BY <1>c, <2>1, TxAssumption DEF NotDoneYet
    <3>2. QED
      BY <1>c, <3>1 DEF Running, Stages
  <2> HIDE DEF v
  <2>3. QED
    BY <1>0, <1>3, <2>1, <2>2, QuietStep DEF Acquire, TxTypeOK, Holding
<1>4. ASSUME NEW c \in Call, TakeNumber(c) PROVE TxInv'
  <2> DEFINE pc == IF SameKind(c) THEN "work" ELSE "wrong kind"
             v == [call[c] EXCEPT !.pc = pc, !.took = series.last + 1]
  <2>1. call' = [call EXCEPT ![c] = v]
    BY <1>4 DEF TakeNumber
  <2>2. pc \in Stages /\ series.last + 1 \in Nat
    BY <1>c DEF Stages
  <2>3. /\ v \in Running /\ v.pc = pc /\ v.took = series.last + 1
        /\ v.conn = call[c].conn /\ v.answer = call[c].answer /\ v.hooks = call[c].hooks
    BY <1>c, <2>2 DEF Running
  <2> HIDE DEF v
  <2>4. QED
    BY <1>4, <2>1, <2>2, <2>3, UpsertStep DEF TakeNumber
<1>5. ASSUME NEW c \in Call, RegisterImported(c) PROVE TxInv'
  <2> DEFINE pc == IF SameKind(c) THEN "work" ELSE "wrong kind"
             v == [call[c] EXCEPT !.pc = pc]
             last == IF series.last > job[c].last THEN series.last ELSE job[c].last
  <2>1. call' = [call EXCEPT ![c] = v]
    BY <1>5 DEF RegisterImported
  <2>2. pc \in Stages /\ last \in Nat
    BY <1>c DEF Stages
  <2>3. /\ v \in Running /\ v.pc = pc
        /\ v.conn = call[c].conn /\ v.answer = call[c].answer /\ v.hooks = call[c].hooks
    BY <1>c, <2>2 DEF Running
  <2> HIDE DEF v
  <2>4. QED
    BY <1>5, <2>1, <2>2, <2>3, UpsertStep DEF RegisterImported
<1>6. ASSUME NEW c \in Call, RunFunction(c) PROVE TxInv'
  <2> DEFINE v == [call[c] EXCEPT !.pc = "commit", !.hooks = call[c].hooks + 1]
  <2>1. call' = [call EXCEPT ![c] = v] /\ call[c].pc = "work"
    BY <1>0, <1>6, <1>c DEF RunFunction, TxTypeOK, At
  <2>2. /\ v \in Running /\ v.pc = "commit" /\ v.answer = "none" /\ v.conn # NoConnection
        /\ v.hooks = 1 /\ v.took = call[c].took
    <3>1. call[c].conn # NoConnection /\ call[c].answer = "none" /\ call[c].hooks = 0
      BY <1>c, <2>1 DEF NotDoneYet, InTx, Holding
    <3>2. call[c].hooks + 1 = 1 /\ 1 \in Nat
      BY <3>1
    <3>3. QED
      BY <1>c, <3>1, <3>2 DEF Running, Stages
  <2>3. settings' \in [Connection -> {"base", "changed"}]
    BY <1>0, <1>6 DEF RunFunction, TxTypeOK
  <2> HIDE DEF v
  <2>4. QED
    BY <1>0, <1>6, <2>1, <2>2, <2>3, QuietStep DEF RunFunction, TxTypeOK, Holding
<1>7. ASSUME NEW c \in Call, Commit(c) PROVE TxInv'
  <2> DEFINE v == [call[c] EXCEPT !.pc = "ended", !.conn = NoConnection, !.answer = "ok"]
  <2>1. call' = [call EXCEPT ![c] = v] /\ slots' \in [BOOLEAN -> Nat] /\ call[c].pc = "commit"
    BY <1>0, <1>7, EndStep DEF Commit, TxTypeOK, At
  <2>2. v \in Running /\ v.pc = "ended" /\ v.conn = NoConnection /\ v.answer = "ok"
    BY <1>c DEF Running, Stages, Answers
  <2> HIDE DEF v
  <2>3. QED
    BY <1>7, <2>1, <2>2, Committed DEF Commit
<1>8. ASSUME NEW c \in Call, Expire(c) PROVE TxInv'
  <2> DEFINE v == [call[c] EXCEPT !.pc = "ended", !.conn = NoConnection,
                                  !.answer = "AUTHORIZATION_VIEW_EXPIRED"]
  <2>1. call' = [call EXCEPT ![c] = v] /\ slots' \in [BOOLEAN -> Nat] /\ call[c].pc = "commit"
    BY <1>0, <1>8, EndStep DEF Expire, TxTypeOK, At
  <2>2. /\ v \in Running /\ v.pc = "ended" /\ v.conn = NoConnection
        /\ v.answer = "AUTHORIZATION_VIEW_EXPIRED"
    BY <1>c DEF Running, Stages, Answers
  <2> HIDE DEF v
  <2>3. QED
    BY <1>8, <2>1, <2>2, RolledBack DEF Expire
<1>9. ASSUME NEW c \in Call, Fail(c) \/ WrongKind(c) PROVE TxInv'
  BY <1>9, AttemptedStep DEF Fail, WrongKind, At
<1>10. ASSUME NEW c \in Call, Lose(c) PROVE TxInv'
  BY <1>10, <1>c, AttemptedStep DEF Lose, Holding, At
<1>11. ASSUME NEW c \in Call, Cancel(c) PROVE TxInv'
  <2> DEFINE v == [call[c] EXCEPT !.pc = "ended", !.conn = NoConnection, !.answer = "DEADLINE"]
  <2>1. call' = [call EXCEPT ![c] = v] /\ slots' \in [BOOLEAN -> Nat]
    <3>1. CASE ~At(c, "waiting")
      BY <1>0, <1>11, <3>1, EndStep DEF Cancel
    <3>2. CASE At(c, "waiting")
      <4>1. call[c].conn = NoConnection
        BY <1>c, <3>2 DEF At, InTx, Holding
      <4>2. [call[c] EXCEPT !.pc = "ended", !.answer = "DEADLINE"] = v
        BY <1>c, <4>1 DEF Running
      <4>3. QED
        BY <1>0, <1>11, <3>2, <4>2 DEF Cancel, TxTypeOK
    <3>3. QED
      BY <3>1, <3>2
  <2>2. v \in Running /\ v.pc = "ended" /\ v.conn = NoConnection /\ v.answer = "DEADLINE"
    BY <1>c DEF Running, Stages, Answers
  <2> HIDE DEF v
  <2>3. CASE Nothing
    BY <1>11, <2>1, <2>2, <2>3, RolledBack DEF Cancel
  <2>4. CASE At(c, "commit") /\ Persist(c)
    BY <1>11, <2>1, <2>2, <2>4, Committed DEF Cancel, At
  <2>5. QED
    BY <1>11, <2>3, <2>4 DEF Cancel
<1>12. CASE UNCHANGED txVars
  BY <1>12 DEF txVars, TxInv, TxTypeOK, HolderInv, RowInv, RightRow, SeriesInv, Numbers, DoneInv,
               NotDoneYet, AnswerIsTrue, Accounted, InTx
<1>13. QED
  BY <1>1, <1>2, <1>3, <1>4, <1>5, <1>6, <1>7, <1>8, <1>9, <1>10, <1>11, <1>12 DEF TxNext

\* Before the first step there is no number and no call has begun.
LEMMA TxBegins == TxInit => TxInv
<1> SUFFICES ASSUME TxInit PROVE TxInv
  OBVIOUS
<1>1. TxTypeOK
  BY TxAssumption
     DEF TxInit, TxTypeOK, NewCall, NoSeries, Running, Stages, Answers, Series
<1>2. HolderInv /\ RowInv
  BY TxAssumption DEF TxInit, HolderInv, RowInv, RightRow, InTx, NewCall, Holding
<1>3. DoneInv /\ AnswerIsTrue
  <2> SUFFICES ASSUME NEW c \in Call PROVE NotDoneYet(c) /\ Accounted(c)
    BY DEF DoneInv, AnswerIsTrue
  <2>1. /\ call[c].pc = "waiting" /\ call[c].answer = "none" /\ done[c] = 0 /\ ran[c] = 0
    BY DEF TxInit, NewCall
  <2>2. QED
    BY <2>1, NoneOfOne, Zenon DEF NotDoneYet, Accounted
<1>4. SeriesInv
  BY FS_EmptySet DEF TxInit, SeriesInv, Numbers, NoSeries
<1>5. QED
  BY <1>1, <1>2, <1>3, <1>4 DEF TxInv

\* Answers of transactions, for any number of calls, connections and attempts:
\* "ok" is work committed once with its hooks run once, a refusal is work not
\* committed, and no work is committed twice.
THEOREM AnswersAreTrue == TxSpec => []AnswerIsTrue
<1>1. TxInv => AnswerIsTrue
  BY DEF TxInv
<1>2. QED
  BY <1>1, TxBegins, TxStep, PTL DEF TxSpec

\* A continuous series of document numbers, for any number of calls and any
\* sequence of rollbacks, retries, lost connections and cancellations, has no
\* gap and gives no number twice.
THEOREM NumbersWithoutGap == TxSpec => []NoGap
<1>1. ASSUME TxInv PROVE NoGap
  <2>1. SeriesInv
    BY <1>1 DEF TxInv
  <2>2. Cardinality(Numbers) = Cardinality(given)
    <3> DEFINE f == [g \in given |-> g[2]]
    <3>1. f \in Bijection(given, Numbers)
      BY <2>1 DEF SeriesInv, Numbers, Bijection, Injection, Surjection, IsInjective
    <3>2. ExistsBijection(given, Numbers)
      BY <3>1 DEF ExistsBijection
    <3>3. QED
      BY <2>1, <3>2, FS_Bijection DEF SeriesInv
  <2>3. QED
    BY <2>1, <2>2 DEF SeriesInv, NoGap
<1>2. QED
  BY <1>1, TxBegins, TxStep, PTL DEF TxSpec

=============================================================================
