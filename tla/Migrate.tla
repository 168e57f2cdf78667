------------------------------ MODULE Migrate -------------------------------
(***************************************************************************)
(* The migrate entry (db/migrate.py): runs of old and new images of a      *)
(* component against one schema. A run applies the SDK's set, then the     *)
(* component's, each under the set's session advisory lock, one file at a  *)
(* time: its version marked dirty, its body as one transaction, its        *)
(* version marked clean.                                                   *)
(***************************************************************************)
EXTENDS Naturals, Sequences

CONSTANTS
  Runner,        \* runs of the migrate entry
  Image,         \* per runner: the number of files of each set, <<sdk, component>>
  LockAttempts,  \* attempts at a lock before a run fails
  MaxCrashes,    \* bound: connections lost and processes killed
  NoRunner

Sets == 1 .. 2

ASSUME MigrateAssumption ==
  /\ \A r \in Runner, s \in Sets : Image[r][s] \in Nat
  /\ LockAttempts \in Nat /\ MaxCrashes \in Nat
  /\ NoRunner \notin Runner

VARIABLES
  table,     \* per set: the state table's row, [version, dirty]; no row is version 0
  applied,   \* per set: the files whose body was committed, in order
  advisory,  \* per set: the runner that holds the advisory lock
  runner,    \* per runner: [pc, set, current, tries]
  crashes

migVars == <<table, applied, advisory, runner, crashes>>

MigInit ==
  /\ table = [s \in Sets |-> [version |-> 0, dirty |-> FALSE]]
  /\ applied = [s \in Sets |-> <<>>]
  /\ advisory = [s \in Sets |-> NoRunner]
  /\ runner = [r \in Runner |-> [pc |-> "connect", set |-> 1, current |-> 0, tries |-> 1]]
  /\ crashes = 0

Goto(r, pc) == runner' = [runner EXCEPT ![r].pc = pc]
Unlock(r, s) == advisory' = [advisory EXCEPT ![s] = NoRunner]
SetVersion(s, v, d) == table' = [table EXCEPT ![s] = [version |-> v, dirty |-> d]]

\* Bodies and locks held elsewhere: the attempt ends, the lock is given back,
\* and the set is tried again until the attempts are used up.
Retry(r) ==
  LET s == runner[r].set
  IN  /\ IF runner[r].tries >= LockAttempts
         THEN Goto(r, "failed")
         ELSE runner' = [runner EXCEPT ![r].pc = "connect", ![r].tries = @ + 1]
      /\ advisory' = IF advisory[s] = r THEN [advisory EXCEPT ![s] = NoRunner] ELSE advisory

\* Faulty variant: the runs do not wait for one another.
LockNone(r) ==
  /\ runner[r].pc = "connect"
  /\ Goto(r, "read")
  /\ UNCHANGED <<table, applied, advisory, crashes>>

\* pg_advisory_lock, bounded by lock_timeout.
Lock(r) ==
  LET s == runner[r].set
  IN  /\ runner[r].pc = "connect"
      /\ \/ /\ advisory[s] = NoRunner
            /\ advisory' = [advisory EXCEPT ![s] = r]
            /\ Goto(r, "read")
         \/ advisory[s] # NoRunner /\ Retry(r)
      /\ UNCHANGED <<table, applied, crashes>>

Blocks(row) == row.dirty

\* The state table is read under the lock; a dirty version ends the run.
Read(r) ==
  LET s == runner[r].set
  IN  /\ runner[r].pc = "read"
      /\ IF Blocks(table[s])
         THEN Goto(r, "failed") /\ Unlock(r, s)
         ELSE /\ runner' = [runner EXCEPT ![r].pc = "next", ![r].current = table[s].version]
              /\ UNCHANGED advisory
      /\ UNCHANGED <<table, applied, crashes>>

\* The next file newer than the current version is marked dirty (another
\* reader of the state table may hold the TRUNCATE up); after the last one
\* the next set is due, or the run is done.
NextFile(r) ==
  LET s == runner[r].set
      current == runner[r].current
  IN  /\ runner[r].pc = "next"
      /\ IF current < Image[r][s]
         THEN \/ /\ SetVersion(s, current + 1, TRUE)
                 /\ Goto(r, "body")
                 /\ UNCHANGED advisory
              \/ Retry(r) /\ UNCHANGED table
         ELSE /\ runner' = [runner EXCEPT ![r].pc = IF s = 2 THEN "done" ELSE "connect",
                                          ![r].set = 2, ![r].tries = 1]
              /\ Unlock(r, s)
              /\ UNCHANGED table
      /\ UNCHANGED <<applied, crashes>>

\* The file's body: committed, failed, or out of time waiting for a lock.
Body(r) ==
  LET s == runner[r].set
  IN  /\ runner[r].pc = "body"
      /\ \/ /\ applied' = [applied EXCEPT ![s] = Append(@, runner[r].current + 1)]
            /\ Goto(r, "clean")
         \/ Goto(r, "failing") /\ UNCHANGED applied
         \/ Goto(r, "waiting") /\ UNCHANGED applied
      /\ UNCHANGED <<table, advisory, crashes>>

\* The file left no trace: its version goes back to the one before. A lock
\* timeout here leaves it dirty and is retried like any other.
GoBack(r) ==
  LET s == runner[r].set
  IN  /\ runner[r].pc \in {"failing", "waiting"}
      /\ \/ /\ SetVersion(s, runner[r].current, FALSE)
            /\ IF runner[r].pc = "waiting"
               THEN Retry(r)
               ELSE Goto(r, "failed") /\ Unlock(r, s)
         \/ Retry(r) /\ UNCHANGED table
      /\ UNCHANGED <<applied, crashes>>

\* Applied: the version is marked clean. A lock timeout here leaves it dirty,
\* and the next attempt finds it so.
MarkClean(r) ==
  LET s == runner[r].set
  IN  /\ runner[r].pc = "clean"
      /\ \/ /\ SetVersion(s, runner[r].current + 1, FALSE)
            /\ runner' = [runner EXCEPT ![r].pc = "next", ![r].current = @ + 1]
            /\ UNCHANGED advisory
         \/ Retry(r) /\ UNCHANGED table
      /\ UNCHANGED <<applied, crashes>>

\* The process is killed or its connection is lost: the session's lock is
\* released; a body that was running has been committed or not.
Crash(r) ==
  LET s == runner[r].set
  IN  /\ crashes < MaxCrashes
      /\ runner[r].pc \notin {"done", "failed"}
      /\ crashes' = crashes + 1
      /\ applied' \in IF runner[r].pc = "body"
                      THEN {applied, [applied EXCEPT ![s] = Append(@, runner[r].current + 1)]}
                      ELSE {applied}
      /\ Goto(r, "failed")
      /\ advisory' = [t \in Sets |-> IF advisory[t] = r THEN NoRunner ELSE advisory[t]]
      /\ UNCHANGED table

\* The state table is corrected by hand, as the error tells: the version is
\* the last file that was applied.
Correct(s) ==
  /\ table[s].dirty /\ advisory[s] = NoRunner
  /\ SetVersion(s, Len(applied[s]), FALSE)
  /\ UNCHANGED <<applied, advisory, runner, crashes>>

\* The entry is run again.
Again(r) ==
  /\ runner[r].pc \in {"failed", "done"}
  /\ runner' = [runner EXCEPT ![r] = [pc |-> "connect", set |-> 1, current |-> 0, tries |-> 1]]
  /\ UNCHANGED <<table, applied, advisory, crashes>>

MigNext ==
  \/ \E r \in Runner : \/ Lock(r) \/ Read(r) \/ NextFile(r) \/ Body(r)
                       \/ GoBack(r) \/ MarkClean(r) \/ Crash(r) \/ Again(r)
  \/ \E s \in Sets : Correct(s)

MigSpec == MigInit /\ [][MigNext]_migVars

------------------------------------------------------------------------------
Upto(n) == [i \in 1 .. n |-> i]

\* However the runs of old and new images interleave, fail, time out and are
\* killed: each file was applied once and in order; a clean row names exactly
\* the last of them; a dirty one names it or the one that may follow
\* (_apply_locked, _set_version).
VersionIsExact ==
  \A s \in Sets :
    /\ applied[s] = Upto(Len(applied[s]))
    /\ IF table[s].dirty
       THEN Len(applied[s]) \in {table[s].version, table[s].version - 1}
       ELSE Len(applied[s]) = table[s].version

------------------------------------------------------------------------------
(* The inductive invariant behind VersionIsExact.                            *)

Locked == {"read", "next", "body", "failing", "waiting", "clean"}

Run == [pc : Locked \cup {"connect", "done", "failed"}, set : Sets, current : Nat, tries : Nat]

MigTypeOK ==
  /\ table \in [Sets -> [version : Nat, dirty : BOOLEAN]]
  /\ applied \in [Sets -> Seq(Nat)]
  /\ advisory \in [Sets -> Runner \cup {NoRunner}]
  /\ runner \in [Runner -> Run]
  /\ crashes \in Nat

\* A run holds the lock of its set, and no other, between its lock and unlock.
AdvisoryInv ==
  \A r \in Runner, s \in Sets :
    advisory[s] = r <=> (runner[r].pc \in Locked /\ runner[r].set = s)

\* What a run knows of its set stays true while it holds the lock: where it is
\* between the mark, the body and the next mark.
Knows(r) ==
  LET row == table[runner[r].set]
      n == Len(applied[runner[r].set])
      current == runner[r].current
  IN  /\ runner[r].pc = "next" => ~row.dirty /\ row.version = current /\ n = current
      /\ runner[r].pc \in {"body", "failing", "waiting"} =>
           row.dirty /\ row.version = current + 1 /\ n = current
      /\ runner[r].pc = "clean" => row.dirty /\ row.version = current + 1 /\ n = current + 1

RunInv == \A r \in Runner : Knows(r)

MigInv == MigTypeOK /\ AdvisoryInv /\ RunInv /\ VersionIsExact
=============================================================================
