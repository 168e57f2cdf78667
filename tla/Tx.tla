--------------------------------- MODULE Tx ---------------------------------
(***************************************************************************)
(* Database transactions of a member (db/pool.py: DB.tx, background_tx and *)
(* _run, _once, _in_tx, Pool.release_check) with the document numbers they *)
(* take (db/docno.py). A call waits for its budget and for a connection,   *)
(* runs its function, commits; a conflict is retried; a deadline may       *)
(* cancel it at any await.                                                 *)
(***************************************************************************)
EXTENDS Naturals, FiniteSets

CONSTANTS
  Call,          \* calls of DB.tx and DB.background_tx
  Foreground,    \* those of DB.tx
  Jobs,          \* what the calls may be for, per call: [do, gapless, last] with
                 \* do = "number" or "import"
  Budget,        \* foreground and background budget: [BOOLEAN -> Nat]
  Connection,    \* the pool's connections
  MaxAttempts,   \* MAX_ATTEMPTS
  NoConnection

NoCall == "no call"
Job == [do : {"number", "import"}, gapless : BOOLEAN, last : Nat]

ASSUME TxAssumption ==
  /\ Foreground \subseteq Call
  /\ Jobs \subseteq [Call -> Job]
  /\ Budget \in [BOOLEAN -> Nat]
  /\ MaxAttempts \in Nat \ {0}
  /\ NoConnection \notin Connection
  /\ NoCall \notin Call

VARIABLES
  job,       \* what the calls are for
  call,      \* per call: [pc, attempt, conn, took, hooks, answer]
  slots,     \* the free places of both semaphores
  settings,  \* per connection: "base", or "changed" by a transaction
  series,    \* be_doc_series' row as committed: [last, gapless, there]
  dirtyRow,  \* the row as the transaction that holds its lock has it
  rowLock,   \* that call, none is NoCall
  given,     \* the numbers committed: <<call, number>>
  imported,  \* the numbers committed as imported
  ran,       \* per call: how often the hooks of a committed attempt were run
  done       \* per call: how often its work was committed

txVars == <<job, call, slots, settings, series, dirtyRow, rowLock, given, imported, ran, done>>

NewCall == [pc |-> "waiting", attempt |-> 1, conn |-> NoConnection, took |-> 0,
            hooks |-> 0, answer |-> "none"]
NoSeries == [last |-> 0, gapless |-> FALSE, there |-> FALSE]

TxInit ==
  /\ job \in Jobs
  /\ call = [c \in Call |-> NewCall]
  /\ slots = Budget
  /\ settings = [x \in Connection |-> "base"]
  /\ series = NoSeries /\ dirtyRow = NoSeries /\ rowLock = NoCall
  /\ given = {} /\ imported = {}
  /\ ran = [c \in Call |-> 0] /\ done = [c \in Call |-> 0]

Slot(c) == c \in Foreground
InTx(c) == call[c].conn # NoConnection
At(c, pc) == call[c].pc = pc

------------------------------------------------------------------------------
(* _run: the budget, then the attempts                                       *)

TakeSlot(c) ==
  /\ At(c, "waiting") /\ slots[Slot(c)] > 0
  /\ slots' = [slots EXCEPT ![Slot(c)] = @ - 1]
  /\ call' = [call EXCEPT ![c].pc = "acquire"]
  /\ UNCHANGED <<job, settings, series, dirtyRow, rowLock, given, imported, ran, done>>

\* Only the foreground gives up: SERVICE_BUSY.
Busy(c) ==
  /\ At(c, "waiting") /\ c \in Foreground
  /\ call' = [call EXCEPT ![c].pc = "ended", ![c].answer = "SERVICE_BUSY"]
  /\ UNCHANGED <<job, slots, settings, series, dirtyRow, rowLock, given, imported, ran, done>>

Lent == {call[c].conn : c \in Call}

\* A connection of the pool, or a new one in the place of one that was closed;
\* the settings of the transaction are LOCAL to it.
Acquire(c, x) ==
  /\ At(c, "acquire") /\ x \notin Lent
  /\ call' = [call EXCEPT ![c].pc = "fn", ![c].conn = x, ![c].took = 0, ![c].hooks = 0]
  /\ UNCHANGED <<job, slots, settings, series, dirtyRow, rowLock, given, imported, ran, done>>

------------------------------------------------------------------------------
(* The function: docno.py                                                    *)

\* _same_kind: the kind of the series that is there, or of the one begun here.
SameKind(c) == series.there => series.gapless = job[c].gapless

\* Faulty variant: the row is not locked.
RowIsNotLocked(c) == TRUE

RowIsFree(c) == rowLock = NoCall

\* The upsert of _next and register_imported: the row stays locked.
Upsert(c, last) ==
  /\ At(c, "fn") /\ RowIsFree(c)
  /\ rowLock' = c
  /\ dirtyRow' = [last |-> last, there |-> TRUE,
                  gapless |-> IF series.there THEN series.gapless ELSE job[c].gapless]

TakeNumber(c) ==
  /\ job[c].do = "number"
  /\ Upsert(c, series.last + 1)
  /\ call' = [call EXCEPT ![c].pc = IF SameKind(c) THEN "work" ELSE "wrong kind",
                          ![c].took = series.last + 1]
  /\ UNCHANGED <<job, slots, settings, series, given, imported, ran, done>>

RegisterImported(c) ==
  /\ job[c].do = "import"
  /\ Upsert(c, IF series.last > job[c].last THEN series.last ELSE job[c].last)
  /\ call' = [call EXCEPT ![c].pc = IF SameKind(c) THEN "work" ELSE "wrong kind"]
  /\ UNCHANGED <<job, slots, settings, series, given, imported, ran, done>>

\* The rest of the function: it registers an after_commit hook and may leave a
\* session setting behind.
RunFunction(c) ==
  /\ At(c, "work")
  /\ call' = [call EXCEPT ![c].pc = "commit", ![c].hooks = @ + 1]
  /\ settings' \in {settings, [settings EXCEPT ![call[c].conn] = "changed"]}
  /\ UNCHANGED <<job, slots, series, dirtyRow, rowLock, given, imported, ran, done>>

------------------------------------------------------------------------------
(* The end of an attempt                                                     *)

\* release_check: a connection with a changed setting is closed, and the pool
\* opens another in its place.
ReleaseCheck(x) == "base"

\* The connection goes back, and the row's lock with it. A rollback takes a
\* changed setting back.
GiveBack(c, committed) ==
  /\ settings' = IF InTx(c)
                 THEN [settings EXCEPT ![call[c].conn] =
                         IF committed THEN ReleaseCheck(call[c].conn) ELSE "base"]
                 ELSE settings
  /\ rowLock' = IF rowLock = c THEN NoCall ELSE rowLock
  /\ dirtyRow' = IF rowLock = c THEN NoSeries ELSE dirtyRow
  /\ UNCHANGED job

\* What the database has of the attempt.
Persist(c) ==
  /\ series' = dirtyRow
  /\ given' = IF job[c].do = "number" THEN given \cup {<<c, call[c].took>>} ELSE given
  /\ imported' = IF job[c].do = "import" THEN imported \cup 1 .. job[c].last ELSE imported
  /\ done' = [done EXCEPT ![c] = @ + 1]

Nothing == UNCHANGED <<series, given, imported, done>>

\* _run's finally: the place in the budget is given back on every path.
End(c, answer) ==
  /\ call' = [call EXCEPT ![c].pc = "ended", ![c].conn = NoConnection, ![c].answer = answer]
  /\ slots' = [slots EXCEPT ![Slot(c)] = @ + 1]

\* COMMIT, then the hooks without an await in between.
Commit(c) ==
  /\ At(c, "commit")
  /\ Persist(c)
  /\ ran' = [ran EXCEPT ![c] = @ + call[c].hooks]
  /\ GiveBack(c, TRUE)
  /\ End(c, "ok")

\* The request's cutoff has passed: AUTHORIZATION_VIEW_EXPIRED before COMMIT.
Expire(c) ==
  /\ At(c, "commit") /\ c \in Foreground
  /\ Nothing
  /\ GiveBack(c, FALSE)
  /\ End(c, "AUTHORIZATION_VIEW_EXPIRED")
  /\ UNCHANGED ran

\* Faulty variant: a lost connection is retried like a conflict.
RetriedAnyError(error) == error \in {"TX_CONFLICT", "DEPENDENCY_UNAVAILABLE"}

Retried(error) == error = "TX_CONFLICT"

\* An attempt ends with an error: a conflict or a deadlock is tried again while
\* there are attempts; any other error, and the last, is answered.
Attempted(c, error) ==
  /\ GiveBack(c, FALSE)
  /\ IF Retried(error) /\ call[c].attempt < MaxAttempts
     THEN /\ call' = [call EXCEPT ![c].pc = "acquire", ![c].conn = NoConnection,
                                  ![c].attempt = @ + 1]
          /\ UNCHANGED slots
     ELSE End(c, error)
  /\ UNCHANGED ran

\* The database refuses a statement or the commit, or the function fails.
Fail(c) ==
  /\ call[c].pc \in {"fn", "work", "commit"}
  /\ \E error \in {"TX_CONFLICT", "LOCK_TIMEOUT", "INTERNAL"} : Attempted(c, error)
  /\ Nothing

WrongKind(c) ==
  /\ At(c, "wrong kind")
  /\ Attempted(c, "INTERNAL")
  /\ Nothing

\* The connection is lost; during COMMIT the work may have been committed.
Lose(c) ==
  /\ InTx(c)
  /\ Attempted(c, "DEPENDENCY_UNAVAILABLE")
  /\ Nothing \/ (At(c, "commit") /\ Persist(c))

\* The deadline cancels the call at an await: its answer is the caller's. During
\* COMMIT the work may have been committed, and the hooks are not run.
Cancel(c) ==
  /\ call[c].pc # "ended"
  /\ IF At(c, "waiting")
     THEN /\ call' = [call EXCEPT ![c].pc = "ended", ![c].answer = "DEADLINE"]
          /\ UNCHANGED slots
     ELSE End(c, "DEADLINE")
  /\ GiveBack(c, FALSE)
  /\ Nothing \/ (At(c, "commit") /\ Persist(c))
  /\ UNCHANGED ran

TxNext ==
  \E c \in Call :
    \/ TakeSlot(c) \/ Busy(c)
    \/ \E x \in Connection : Acquire(c, x)
    \/ TakeNumber(c) \/ RegisterImported(c) \/ RunFunction(c)
    \/ Commit(c) \/ Expire(c) \/ Fail(c) \/ WrongKind(c) \/ Lose(c) \/ Cancel(c)

TxSpec == TxInit /\ [][TxNext]_txVars

------------------------------------------------------------------------------
(* Properties                                                                *)

Numbers == {g[2] : g \in given}

\* A continuous series has no gap and no number twice, however transactions
\* that took a number are rolled back, retried, cut off or cancelled, and a
\* series used as the other kind gives none (_next, register_imported,
\* _same_kind, the row's lock held to the end of the transaction).
NoGap ==
  /\ Numbers \cup imported = 1 .. series.last
  /\ Cardinality(Numbers) = Cardinality(given)
  /\ \A g \in given : job[g[1]].gapless = series.gapless

Accounted(c) ==
  /\ done[c] <= 1 /\ ran[c] <= done[c]
  /\ call[c].answer = "ok" => done[c] = 1 /\ ran[c] = 1
  /\ call[c].answer \notin {"ok", "DEPENDENCY_UNAVAILABLE", "DEADLINE"} => done[c] = 0

\* An answer says what became of the work: after "ok" it was committed once and
\* its hooks ran once; after a refusal it was not. Only a lost connection and a
\* deadline leave it open, and never twice done (_run's retries, _in_tx's order
\* of the cutoff, COMMIT and the hooks).
AnswerIsTrue == \A c \in Call : Accounted(c)
------------------------------------------------------------------------------
(* The inductive invariant behind NoGap and AnswerIsTrue.                    *)

Stages == {"waiting", "acquire", "fn", "work", "wrong kind", "commit", "ended"}
Answers ==
  {"none", "ok", "SERVICE_BUSY", "AUTHORIZATION_VIEW_EXPIRED", "TX_CONFLICT", "LOCK_TIMEOUT",
   "INTERNAL", "DEPENDENCY_UNAVAILABLE", "DEADLINE"}
Series == [last : Nat, gapless : BOOLEAN, there : BOOLEAN]
Running ==
  [pc : Stages, attempt : Nat, conn : Connection \cup {NoConnection}, took : Nat, hooks : Nat,
   answer : Answers]
Holding == {"work", "wrong kind", "commit"}

TxTypeOK ==
  /\ job \in [Call -> Job]
  /\ call \in [Call -> Running]
  /\ slots \in [BOOLEAN -> Nat]
  /\ settings \in [Connection -> {"base", "changed"}]
  /\ series \in Series /\ dirtyRow \in Series
  /\ rowLock \in Call \cup {NoCall}
  /\ given \in SUBSET (Call \X Nat) /\ imported \in SUBSET Nat
  /\ ran \in [Call -> Nat] /\ done \in [Call -> Nat]

\* The row's lock is held from the upsert to the end of the attempt, and a
\* connection from the beginning of the attempt.
HolderInv ==
  \A c \in Call :
    /\ rowLock = c <=> call[c].pc \in Holding
    /\ InTx(c) <=> call[c].pc \in {"fn"} \cup Holding

\* What a transaction made of the row stays right while it holds the lock.
RightRow(c) ==
  call[c].pc \in {"work", "commit"} =>
    /\ dirtyRow.there /\ dirtyRow.gapless = job[c].gapless
    /\ series.there => series.gapless = job[c].gapless
    /\ job[c].do = "number" => dirtyRow.last = series.last + 1 /\ call[c].took = series.last + 1
    /\ job[c].do = "import" =>
         dirtyRow.last = IF series.last > job[c].last THEN series.last ELSE job[c].last

RowInv == \A c \in Call : RightRow(c)

SeriesInv ==
  /\ Numbers \cup imported = 1 .. series.last
  /\ ~series.there => given = {}
  /\ IsFiniteSet(given)
  /\ \A g, h \in given : g[2] = h[2] => g = h
  /\ \A g \in given : job[g[1]].gapless = series.gapless

\* Nothing is done before a call ends, and its attempt has one hook at COMMIT.
NotDoneYet(c) ==
  /\ call[c].pc # "ended" => done[c] = 0 /\ ran[c] = 0 /\ call[c].answer = "none"
  /\ call[c].pc \in {"fn", "work", "wrong kind"} => call[c].hooks = 0
  /\ call[c].pc = "commit" => call[c].hooks = 1

DoneInv == \A c \in Call : NotDoneYet(c)

TxInv == TxTypeOK /\ HolderInv /\ RowInv /\ SeriesInv /\ DoneInv /\ AnswerIsTrue
=============================================================================
