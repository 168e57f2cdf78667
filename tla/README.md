# Verification of be-sdk-python

`besdk` is the Python implementation of a component protocol: a member
process is built on it and gets its events, outbound calls, authorization,
audit, database access and lifecycle from it. This directory holds TLA+ models
of the parts of it whose correctness depends on concurrency, failures and
time, the TLC configurations that check them on small instances, and proofs
checked by TLAPS.

## The system's parts

| Part | State | Operations | Hard because |
|---|---|---|---|
| Outbox (`events/outbox.py`) | `be_outbox`, `be_outbox_partition`, `be_epoch_history`; each replica's held leases and written partitions | emit in a business transaction; number, publish, mark; purge | replicas with lapsed leases, failures between publish and mark, a database that is recovered and loses commits |
| Queue transport (`events/pgqueue.py`) | messages, a read position per durable, deliveries with leases | publish; advance, claim, settle, give up; purge | commits out of id order, several workers and instances, leases that run out while a handler runs |
| Consumer (`events/consumer.py`) | `be_inbox`, `be_dead_letter` | apply with the inbox row, dead letter | redelivery, two workers on one event, lost commit answers |
| Outbound calls (`calls/`) | breaker, retry budget, calls in flight, per dependency | admit, send, count, retry, cancel | late answers, cancellation at any await |
| Authorization view (`authz/view.py`, `guard.py`) | the held view, its clocks, per-request cut-offs | apply a view, look up a subject, admit | views and answers out of order, windows that end during a request |
| Segments and plans (`authz/segment.py`, `plan.py`, `defs.py`) | none | evaluate a segment; build the SQL predicate | three-valued logic on both sides must agree |
| Lists (`lists.py`) | the cursor, held by the caller | build, resume, page | rows, segments and time change between two pages |
| Audit (`audit.py`) | `be_audit_log` with receipts, a denial budget, the backlog last seen | record, deny, number, transfer, purge, flush, run by every replica | receipts and watermarks that are stale after the audit component's recovery, a stale backlog, windows that end while a denial is written |
| Database (`db/pool.py`, `docno.py`) | semaphores, connections with session settings, document series | transactions with retries and a commit cut-off; series numbers | unknown commit results, cancellation at any await, a number taken by an attempt that is undone |
| Migrations (`db/migrate.py`) | per set of files the version and the dirty flag | migrate | two images at once, a crash or a lock timeout in between |
| Identity (`identity/`) | the issuer's key set; the member's certificate | refresh, verify; reload | refresh racing verification, rate limits, files replaced one by one |
| Lifecycle (`host.py`, `launcher.py`, `shell.py`) | members, surfaces, the bus, pools and keys of the process | check, start, serve, stop | a start that fails half-way, a stop while waiting, requests in flight |
| HTTP surface, configuration, values, static checks | none or output only | decoding, encoding, static checks | - |

Members interact through the transport only: a producer's outbox feeds the
transport, whose deliveries the consumer applies in its own database. The wake
signals between them (`Producer.written`, `NOTIFY`) are hints; the polls do the
same work without them.

What makes each part correct, in one line: an event committed with its
business change reaches every subscription, once in effect, in the order its
partition was numbered; a position names one event for ever; a subscription
reads every message exactly once into its deliveries; a breaker lets one trial
through and closes again; an audit record is deleted only when the audit
component's backup has it; no commit relies on a view or a token longer than its
window; a list shows every row once; a plan and a decision agree; a number of a
continuous series is never missing; an answer says what the database did; a
member that answers ready can serve, and one told to stop drains and exits.

## Modules

| Module | Models | Uses |
|---|---|---|
| `Outbox` | one partition of one stream: `Producer`, `number_in`, `Forwarder`, `purge`, recoveries of the database | `PositionLog` |
| `PositionLog` | the abstract per-epoch log the numbering promises | |
| `PgQueue` | one durable of the PostgreSQL queue, with any handler | |
| `Consumer` | `Consumer.handle` as the handler of `PgQueue` | extends `PgQueue` |
| `Calls` | `Dependency`, `Breaker`, `Budget` of one dependency | |
| `Audit` | `Auditor` in the member's replicas, the audit component and its recoveries | |
| `Access` | `Holder` with one shard, `UserGuard.admit`, `Subject._grant`, the cut-off check of `DB._in_tx` | |
| `Lifecycle` | one process, alone or a shell with its members, from its first check to its exit | |
| `Migrate` | runs of the migrate entry by old and new images | |
| `KeySet` | `KeySet` and what `Verifier` answers by it | |
| `Segments` | definitions, decisions on a record, plans, masks: operators only | |
| `Lists` | a caller that pages through a list while it changes | extends `Segments` |
| `Tx` | `DB.tx`, `DB.background_tx`, document numbers | |
| `Denials` | `Auditor.denial` and `flush` | |
| `Rotation` | `ServiceTLS`, `server_credentials`, `_TLSChannel`, `_Rebound` | |
| `MCAccess` | `Access` or `Calls` | extends both |
| `MCMember` | `Calls` or `Lifecycle`, with deployments to run | extends both |
| `MCParts` | one of `Migrate`, `KeySet`, `Lists`, `Tx`, `Denials`, `Rotation`, with their instances | extends them |
| other `MC*` | symmetry sets for TLC | |
| `OutboxProofs`, `CallsProofs`, `AccessProofs` | theorems and proofs | the module of that name |
| `ConsumerProofs` | theorems about the queue with any handler, and about the consumer on it | `Consumer` |
| `AuditProofs` | theorems about both parts of the audit | `Audit`, `Denials` |
| `DatabaseProofs` | theorems about migrations and transactions | `Migrate`, `Tx` |
| `MemberProofs` | theorems about a member's process | `Rotation`, `KeySet`, `Lifecycle` |
| `ListProofs` | theorems about decisions, plans and lists | `Lists`, with `Segments` |

A step is what runs without interleaving in the code: one database
transaction, or one statement outside a transaction, and in one process
everything between two awaits. Operators named as *faulty variants* are not
part of any specification: each is a plausible mistake in the definition after
it and is there to show that a property notices it.

`MCAccess`, `MCMember` and `MCParts` join parts that share no state in one run: the
variable `part` is chosen at the beginning and only that part takes steps, so that
the state space is the sum of the parts' and not their product.

### Outbox

`db` is the committed content of the member's database, `saved` the copy a
recovery starts from; `Recover` replaces the one by the other in a new epoch,
so that any suffix of commits may be lost while forwarders go on with what
they read before. The pair (generation, timeline) of `be_current_db_epoch` is
numbered in its order. A row's position is an element of `assigned`;
`assigned` outside `db` is history and keeps the positions of lost branches. A
forwarder goes `idle` - `lease` (`_lease`) - `lock` (`FOR UPDATE` and the epoch) -
`number` (the UPDATE, `_unpublished` and the commit) - `publish`, one message a
step - `mark`. The lease is a hint: `held` is the forwarder's own view and may
lapse at any time. Statements under the counter's lock are split in two steps
so that the reads can be checked to stay valid. `Commit` wakes the replica that
ran the transaction; `Poll` looks for itself. `Fail` is any call of the pass
that raises, `PublishAnswerLost` a publish that took effect and raised.

Not in the model: several partitions (they share nothing but the forwarder's
loop), claim-check uploads (their failure is a failed publish), a message
republished after the transport's own retention forgot its id.

### PgQueue

`seq` and `xid` are separate steps of an insert because PostgreSQL evaluates
the column defaults one after another: two inserts can take them in opposite
orders. `Visible` is the WHERE clause of `_advance` with `pg_snapshot_xmin`
over the inserts still running; transactions of others only lower the xmin,
which delays reading. The advance reads under the subscription's row lock and
writes in a second step. A delivery's row is `backoff`, `ready`, `leased` or
`expired` by its timestamps against the clock; time steps are actions.
`attempts` with the message stands for the lease token. `SKIP LOCKED` is a
claim that may pass over rows another worker is settling. An ordered claim
waits for the subscription's lock, which an advance may hold. `InProgress`
extends a lease while the handler runs. The statement of `_claim_ordered`
sees a snapshot of its own: a delivery settled while the statement runs makes
its UPDATE find no row, which is a claim of nothing.

Not in the model: wake tokens and the LISTEN connection (an idle worker may
look again at any time, which is what a token or the poll make it do), the
volatile `notify`/`listen`, statistics upkeep.

### Consumer

`BeginApply` is the inbox insert (it waits for another transaction's
uncommitted row of the same key: `keyLock`), `Apply` the commit with the
business change. Everything that fails in `_process` is `ProcessFails`.
`InstanceMax` is the declaration of the running instance, `StoredMax` the value
stored with the durable: `handle` uses the first and `_settle` the second. The
module of a crashed worker comes back as the same worker.

### Calls

`breaker` is the `Breaker` object; `period` says whether its open period is
still running. A caller has at most one permit, so its name stands for the
permit's number. `Send` and `Answered` are the code before and after the await
of an attempt; `Cancel` is `CancelledError` at any await, where only `do`'s
`finally` runs. `healthy` is the dependency's own state and forces success.

### Audit

`row` is `transfer_state`, `receipt` the receipt's epoch and seq; `log`, `top`,
`backup`, `epoch` and `backedUp` are the audit component, of which the code sees
receipts and watermarks only (external). Its `Recover` keeps a prefix of its
history that has at least what its last backup has and goes on in a new epoch,
so that seqs of lost records are given again. A watermark's ancestors are the
epochs on the current history with their forks. `Number`, `ReadPending`,
`Store`, `Purge` and `Backlog` are one transaction each, `Send` and `GetWatermark`
the calls between them; what a replica has read or been answered is in `sending`,
`answer` and `mark` and may be stale by the time it is used. The minimum
retention is a choice of which covered rows are deleted. `Fail` is any call
that raises: an error of the calls skips to the backlog, another ends the run.

Not in the model: the number a row is given (its algorithm is the outbox's),
recoveries of the member's own database, a member without a sender.

### Access

`now` is the suspend-aware clock (`clock.since_boot`). The authorization member
(external) has versions of the shard, one current at a time; a version stands
for the security revisions of a view, a recovery of the member begins a higher
generation. Its full answers have the current version, its read-only ones any
earlier version. Nothing in the acceptance of an answer or in a lookup relates
two shards except the rollback of a whole answer and a higher generation, so
there is one. `held` is the `_Held` of it, `ver = 0` none, and 0 in a time is
`None`. `SendVerify` is `tick` and the request (a stall or a jump of the wall
clock may drop the shard, which is left open), `Answers` the member's reading,
`Apply` the acceptance table in its order. A request takes any operations in
any order: `Admit`, then `Decide` before and between its transactions, each of
which checks the cut-off and commits while the database lets it (the
`idle_in_transaction_session_timeout` set before the check). `evidence` is
history: one of the grounds of the request's decisions so far, whichever, so that
a property of it is one of all of them. An ordinary read by a view of a stale
source has no ground: nothing says how old the source is.

Not in the model: the security version of a token, which segments of a view
are used (`Segments` has what they mean), what a decision answers, and `DRIFT`,
which makes the windows shorter by a share for clocks of different speed.

### Lifecycle

`Deployments` is what BrickKit lists: members with what their definitions have,
their configuration, their versions and ports. `Refused` is the shell's `check`
and `plan_members`, `BuildOutcome` is `host.build` with the guard and the service
identity. `stage` is where the main coroutine is: launcher.py and shell.py take
their steps in different orders (`Alone`, `Shell`). The bus is awaited once, each
database in the turn of the first member on its target (`FirstOnTarget`), for there
is one pool per target. Waiting is a sequence of attempts (`attempt`): the `query`,
which succeeds, fails, is refused for good or never ends; after a failed one the
`pause` of a second, the only place where the stop event is looked at
(`StopWaiting`); after a database's good answer the `durable` check, one more query,
whose errors nothing catches (`DurableCheckRaises`).
`Listen` opens the surfaces of one member after the other, `Start` starts a
member, with the submission of its definitions and its retries (`view`), and
marks all ready after the last. `stop_all` is `BeginStop` (every member
`stopping`), the drain, the shutdown of the surfaces with their requests in
flight (`busy`, `cut`), the members' own stops, `EndStop`; `left` is the time to its
deadline. `ShutNow` is the `shutdown(0)` of the servers on every other way out, but
for an error of the durable check, which leaves by itself; `Close` is the `finally`
blocks.

What the model shows of the code besides the properties: a start that fails
shuts the surfaces but does not stop the members started before it, and the
launcher returns FAILURE without `stop_all` when a user surface ends by itself
(`CleanExit` is about exit code 0 only); in a shell a stop while it waits for the
database cuts requests in flight and exits with 0 (`CleanExit` is stated from
the time all were ready); `HTTPServer.shutdown` waits one second longer than the
deadline, so that "everything ends by the stop timeout" holds up to that
second; `check` compares the members' ports with one another and not with the
shell's own; and nothing bounds the query of an attempt or the closing of the bus
and the pools (`Pool.ping`'s five seconds are those of `acquire`), so that a database
that takes a connection and never answers keeps a process that was told to stop.
`StopExits` has that as its premise: no attempt and no close hangs for ever
(`Hanging`). Without the premise TLC finds the process that waits for ever.

### Migrate

`table` is the state table's row of each set, `applied` the bodies that
committed, which is history. A body is one transaction, the marks before and after
it are others; a lock timeout may hit each of them (`Retry`), a failed body takes
its mark back (`GoBack`), a kill or a lost connection may come at any point
(`Crash`). `Correct` is the operator who sets a dirty row right by hand,
`Again` a run started anew. A lock timeout while an applied file is marked clean
leaves it dirty, which needs that hand; the property allows it.

### KeySet

Instants are kept as ages. `fetch` is the refresh that holds the lock, `queue` the
others that wait for it (the periodic one, that of an unknown key). The issuer
reads its keys at one instant of a fetch (`IssuerAnswers`), which may end or fail
later. `Ask` is a request whose token names a key; it waits for the `_unknown`
task when it starts or finds one. Signatures and claims are a library's.

### Segments and Lists

A record is a function from dimensions to facts (value, null or not obtained).
`EvalAtom` and `EvalSegment` are `evaluate` with `Tri`; `SqlAtom`, `SqlSegment`, `PlanWhere`
and `PlanFields` are what PostgreSQL makes of the text `plan.build` writes. `validate`
and `check` are evaluated on the instance as assumptions, so that the declarations
and segments listed are ones the code accepts.

`Lists` composes them: `Page` is `build` (with each of its refusals) and `page`, which
takes the rows in whatever sequence is in the order of the statement (`InOrder`); the
cursor carries the keys, the id, the fingerprint of the query and the plan's
digests. Rows are put and deleted, grants change and segments run out between two
pages; the caller follows cursors, begins anew when one is refused or asks
something else with an old cursor. `steady` are the rows that stayed as they were
and listable.

Not in the model: `in` on amounts, projections with watermarks, the text search.
A path is the sequence of the parts its slashes separate; the empty text is one
empty part (`EmptyPath`), so that `""` covers what begins with a slash. `Segment.check`
does not refuse an item with the empty path, and of a record with the empty path
`evaluate` then says no and the SQL yes (`_atom`'s "an empty path is not the root" and
the predicate `col = ''` of plan.py). `PlanAgrees` states exactly that: the two agree
in both directions, and a row the SQL lists is denied only where such an item meets
such a record (`MeetAnywhere`). The instance has both. `Field.derived_from` and
`queryable` are declared but enforced neither by `evaluate` nor by `build`, and
`validate` accepts two resources of one type.

### Tx

`slots` are the two semaphores, `settings` the session settings of a connection,
`rowLock` and `dirtyRow` the lock on the series' row with its uncommitted content.
`Commit` is the COMMIT and the hooks after it; `Lose` a connection that breaks at it,
with or without effect; `Expire` the cut-off; `Cancel` a cancellation at any await.
A cancellation during COMMIT may leave the work committed without its hooks, and
the caller has no answer then: `AnswerIsTrue` is about answers. A session setting
that a function leaves behind survives only a commit, and `release_check` closes
that connection.

### Denials

A denial takes its minute, counts itself in an upsert whose row stays locked, and
commits with its detail or without. `Flush` summarises the windows that are over. A
denial past the budget that commits after its window was summarised is counted
and never told; `DenialsCounted` is stated for those committed in time.

### Rotation

The three files have versions and are replaced in any order, a statement of the
reload at a time. `BeginHandshake` and `EndHandshake` are `fetch` in gRPC's thread
beside the event loop's. `Begin` is a call through `_Rebound`: it takes a new channel
when the generation has changed and retires the old one; `CloseBegins` is the task
that closes that one with `ROTATION_GRACE`, and `Destroy` the end of it, when its calls
are done or the grace has passed. A call is its attempts: `AttemptFails` and its
backoff, then `NextAttempt`, which is an RPC of its own on the channel the call took
in the beginning. The first attempt is sent with the call: its task was made before
the one that closes the channel, and the event loop takes them in that order.

What a channel that is being closed does is the library's (external): it begins no
call, waits for those it has, the interceptor's tasks with their backoffs included,
and cancels what is left at the end of the grace. So a call that retries over a
rotation is refused whatever the grace: `UsageError` is not an `AioRpcError`, passes
`_Interceptor`'s handler and ends the call, past `breaker.end`, which is for the breaker
what a cancellation is (`Calls.Cancel`; `TrialSlotIsHeld` and `BreakerRecovers` pass
without either). `RotationIsSeamless` says that nothing else
befalls a call, and `OldChannelServesItsCalls`, which is violated, that not even this.
Streams are not rebound and may be cut at the end of the grace.

## Runs

Every passing run is exhaustive on its instance.

| Run | Checks | Bounds |
|---|---|---|
| `OutboxRecovery` | `ForkSound`, `NoEventLost`, `NoOvertaking`, `ImplementsPositionLog` | 2 events, 2 replicas, 1 recovery, 1 failure: a number is lost and given again, both replicas number |
| `OutboxForward` | `CommitOrder`, `EventuallySent` | 2 events in batches of 1, 2 replicas, 1 failure or crash, no recovery |
| `OutboxOrdReuse` | `NoEventLost` is violated | a recovered sequence hands values out again |
| `QueueReader` | `NoSkip`, `EndedForGood`, `LateOutcomeIsIgnored` | 3 concurrent inserts, one of another subject, batches of 2, 2 attempts, 1 aborted insert, failed call or crash, purge |
| `QueueOrderedConcurrent` | `OneInFlight` is violated | 2 publishers at once |
| `ConsumerOrdered` | `EffectOnce`, `NotDroppedEarly`, `FailuresBecomeDeadLetters`, `OrderedEffects`, `EventuallyEnded` | 2 messages published one by one, 2 workers, 2 attempts, 1 transport failure or crash, 1 failed write or lost answer |
| `AuditTransfer` | `DeletedIsSafe`, `EventuallySafe`, `PauseEnds` | 1 record, 2 replicas, batches and a capacity of 1, 2 recoveries of the audit component, 1 failure or crash; the theorem has any number of records |
| `AccessAndCalls` | `BasisHonest`, `RevocationBounded`, `ExpiryBounded` | 1 request with any number of decisions and transactions, 2 versions, 4 readings of the clock, windows of 2 (read), 1 (high risk) and 1 (commit), so that the longest bound is reached, tokens that end before and after them; the theorems have any number |
| | `LimitExact`, `OnlyTrialsDecide` | 3 callers, one of them in the background, cancellation |
| `CallsCancelledTrial` | `TrialSlotIsHeld` is violated | cancellation |
| `MemberLife` | `TrialSlotIsHeld`, `BreakerRecovers`; `ReadyIsServing`, `CleanExit`, `DrainedFirst`, `StopExits`, `DefinitionsReach` | 2 callers, a window of 3, 2 trials; 19 deployments: fine ones alone and in shells of up to 3 members, on one database or two, and ones with one thing wrong, a drain of 1 and a timeout of 2 |
| `MemberParts` | `VersionIsExact` | an image with 1 file in each set and one with 2, 2 attempts at a lock, 2 crashes |
| | `WithdrawnKeyBounded`, `NewKeyAccepted` | 2 keys, a refresh of 2, a rate limit of 3 for unknown keys, a maximum age of 3, fetches of up to 1: two fetches are over before the next may start, as 30 s and 10 s make it |
| | `EachRowOnce`, `QueriedIsShown`, `PlanAgrees`, `DecidedForGood` | 3 records of 4 contents (ties, NULLs, another currency, an empty path), 7 segments in 4 grants, 3 requests with ascending and descending keys, pages of 1, 1 change of a row, 1 of the grants or the time |
| | `NoGap`, `AnswerIsTrue` | 3 calls, one in the background, 2 connections, 2 attempts, continuous, other and imported numbers |
| | `DenialsCounted` | 3 denials, a budget of 1, 2 minutes |
| | `RotationIsSeamless` | 2 versions of the files, 2 calls of up to 2 attempts and a time of 2, a grace of 3 |
| `RotationRetry` | `OldChannelServesItsCalls` is violated | the same |

Two of each actor show every pairwise race; a third event, message or caller
is there where a property relates two to a third (a batch boundary, a late
answer beside a trial, a row between two ties). `MaxFaults`, `MaxRecoveries`,
`MaxFailures`, `MaxCrashes` and `MaxChanges` bound only how often something goes
wrong or changes; `MaxTime`, `LastInstant`, `LastMinute` and `LastVersion` bound time
and end a behaviour.

Fairness. `Outbox`: each forwarder's task runs on, its poll included, and leases
run out. `Consumer`: workers go on and handlers return (transactions have
timeouts), time passes for leases and backoffs, an insert that began ends;
`_give_up` is strongly fair because the loop runs it in the first round after
each interval. `Calls`: attempts have answers or timeouts, callers go on
calling, and some call has the time to be sent. `Audit`: each replica's task runs
on, and the audit component is backed up again and again. `Lifecycle`: the event
loop runs what is ready, the module's wiring and start come to an end, and time
passes, so that a pause ends; neither the bus nor the database, nor a request, nor
the authorization member owes an answer, and neither an attempt's query nor the
closing of an open bus or pool is fair. The parts of `MemberParts` have safety properties only and no
fairness. No fairness is assumed of
business transactions, recoveries, failures or the purge.

### What the violated runs show

* `OutboxOrdReuse`: published rows are marked by `ord`. After a recovery that
  lost rows together with the identity sequence's last values, a forwarder
  that was publishing marks a new row it never published, and the purge may
  delete it. PostgreSQL logs sequence values ahead, so this needs a restore or
  failover that lost that log record.
* `QueueOrderedConcurrent`: claims go by `seq`, the read position by
  (`xid`, `seq`). Two concurrent inserts can have them in opposite orders, and an
  ordered subscription then has two messages in flight. Publishers that
  publish one after another (one forwarder of one partition) do not meet it.
* `CallsCancelledTrial`: the await of a trial that is cancelled skips
  `breaker.end`; the slot stays taken and every later call is rejected.
* `RotationRetry`: two calls are on one channel, the certificate is replaced, one of
  the calls begins a new channel and the old one closes; the other call's retry is
  refused. `_TLSChannel` says that "the old one closes once its calls are done".

Two limits of `FailuresBecomeDeadLetters` are known and stated in its premise or
its constants: a NAK on the last delivery, after the dead letter itself could
not be written, deletes the delivery; and so does one where `InstanceMax` is
above `StoredMax`, because the instance compares its own `max_deliver` and the
transport applies the stored one.

## Proofs

Every safety invariant and action property of the passing runs is a theorem, and
so is the refinement of `PositionLog`: they hold for every value of the constants,
so for any number of events, replicas, messages, workers, callers, keys, rows,
members, recoveries and failures. Type correctness, the uniqueness of positions and
the single trial are proved and not run.

* `OutboxProofs`: `TypeCorrect`; `PositionsSound` (`PositionsUnique` and `ForkSound`);
  `NothingLost` (`NoEventLost`) and `NothingOvertakes` (`NoOvertaking`), both from
  `OrdReuse = FALSE`; `CauseComesFirst` (`CommitOrder`); `NumberingImplementsLog`
  (`ImplementsPositionLog`).
  Uniqueness is not inductive: a recovery goes back to an old copy. The
  invariant `PositionInv` says that every copy is a *branch* (of each epoch it
  has a prefix of all positions ever given, of its counter's epoch exactly
  those up to the counter) and that positions of the current epoch are all in
  the primary; `LockInv` that what numbering read stays true under the lock.
  `NothingLost` adds `OrdInv` (an identity value names one row) and `SendInv` (below
  a row that is about to be published everything is sent or in the same list).
  `CommitOrder` is of all branches: `CausalInv` says of both copies that what
  was committed before an event was inserted has a smaller identity value, which is
  the order `number_in` takes, and that nothing is numbered while a cause of it is
  not. For the refinement `CounterInv` says
  that a counter that is not 0 stands at a position of its epoch, so that an epoch
  in which nothing was numbered has an empty log.
* `ConsumerProofs`, of the queue with any handler: `QueueTypes`; `SkipsNothing`
  (`NoSkip`), from `XidInv` (no insert that is still to commit is at or below the
  read position) and `BatchInv` (what an advance read under the lock stays complete
  up to its last row); `EndedDeliveriesStay` (`EndedForGood`), from `QueuedInv` (what
  was queued is at or below the position, what an advance has read is beyond it);
  `LeasesProtect` (`LateOutcomeIsIgnored`). Of the consumer: `ConsumerImplementsQueue`
  (its specification implies the queue's), hence `ConsumerSkipsNothing` and
  `ConsumerKeepsLeases`; `EffectsOnce` (`EffectOnce`), because an open transaction holds
  its inbox key and an event with an effect is in the inbox; `NothingDroppedEarly`
  (`NotDroppedEarly`), from `OutcomeInv` (an outcome says what the member's database
  has); `FailuresAreKept` (`FailuresBecomeDeadLetters`), from `KeptInv` and
  `InstanceMax <= StoredMax`; `EffectsInOrder` (`OrderedEffects`), from `OrderInv` (what
  comes before an event that is handled is over), which rests on the order in which
  the position passed.
* `CallsProofs`: `CallsTypes`; `AtMostOneTrial` (`OneTrial`); `TrialSlotKept`
  (`TrialSlotIsHeld`, from `Cancellable = FALSE`); `LimitIsExact` (`LimitExact`);
  `TrialsDecide` (`OnlyTrialsDecide`), because a breaker is half-open only once its
  period has passed.
* `AuditProofs`: `TypeCorrect`; `DeletedStaysSafe` (`DeletedIsSafe`). That a deleted
  record is in the backup is not inductive: a deletion trusts a receipt and a
  watermark that may be of ended epochs. `AuditInv` says what makes them
  trustworthy: a receipt tells its record's place as long as that place is on
  the history (`Sound`), and everything a watermark covers is in the backup,
  which only grows (`MarkInv`); an ancestor's fork is covered only by a backup of
  the current epoch (`ReceiverInv`). `DenialsAreCounted` (`DenialsCounted`): a window's
  row counts exactly the denials recorded in it, and a summary is of a minute that
  is over (`DenialInv`).
* `AccessProofs`: `TypeCorrect`; `RevocationIsBounded`, `ExpiryIsBounded`,
  `BasisIsHonest` (`RevocationBounded`, `ExpiryBounded`, `BasisHonest`). `AccessInv` says
  that the time of a shard's last full renewal *vouches* for its version (the
  version was not superseded then), also when a read-only view took that time
  over: that rests on `apply` refusing earlier revisions, since versions are
  superseded in their order (`SourceInv`). What vouches for a version at a time goes
  on doing so, hence a request's cut-off is within the window of every ground of
  its decisions (`RequestInv`), and a commit within the commit window of the check.
* `DatabaseProofs`: `MigrationsExact` (`VersionIsExact`): what a run knows of its set
  stays true between the mark, the body and the next mark as long as it holds the
  lock (`MigInv`). `AnswersAreTrue` and `NumbersWithoutGap` (`AnswerIsTrue`, `NoGap`): `TxInv`
  says that the row's lock is held from the upsert to the end of the attempt, that
  what the transaction made of the row is one more than what is committed, and that
  the numbers given and imported are those up to the committed one.
* `MemberProofs`: `RotationSeamless` (`RotationIsSeamless`), where a retired channel lives
  longer than any call on it has left (`OnItsChannel`), its backoffs and attempts
  together; that needs `CallMax < RotationGrace`. A call is refused only by a channel
  that is not the current one.
  `WithdrawnKeysExpire` and `NewKeysGetKnown` (`WithdrawnKeyBounded`, `NewKeyAccepted`):
  `KeyInv` follows the refresh of an unknown key through the queue for the lock
  (`TasksInv`), and bounds how old an answer may be against the age of a withdrawn or a
  new key; the second needs that two fetches take less than the rate limit,
  `2 * FetchMax < UnknownRefresh`. `ReadyMembersServe`, `ExitIsClean` and `DrainComesFirst`
  (`ReadyIsServing`, `CleanExit`, `DrainedFirst`), for every deployment: `LifeInv` says
  for each stage what has been opened, built, started and stopped by then.
* `ListProofs`: `PlansAgree` (`PlanAgrees`), for any segments `Segment.check` accepts, those
  with an empty path too: the predicate of an atom holds on a row when the atom is
  true of the row's fact, and only then but for the empty path, though `False` on one
  side may be `Unknown` on the other, and AND and OR keep both. That a path covers the
  empty one only when it is the empty one is `EmptyPathUncovered`. `DecisionsStand` (`DecidedForGood`): a value
  other than `Unknown` that was reached without a fact is reached with it.
  `QueriedFieldsShown` (`QueriedIsShown`): a row is listed by a segment that reads the
  field. `RowsOnce` (`EachRowOnce`): the order of rows is transitive and irreflexive for
  any keys, each in its own direction; the cursor is the last row of the pages so far
  (`CursorInv`), and a steady row is on the pages or after the cursor (`SteadyInv`).
  `ListTypes` is type correctness.

The assumptions are the named `ASSUME`s of the modules, which TLC evaluates on
every run, and the hypotheses named above. The inductive invariants are at the end
of the modules they are about (`TrialsWanted`, `PeriodPassed` and a few more in the
proofs themselves).

Only model-checked: the liveness properties `EventuallySent`, `EventuallyEnded`,
`EventuallySafe`, `PauseEnds`, `BreakerRecovers`, `StopExits` and `DefinitionsReach`, since
they rest on fairness, of which the prover knows nothing.

## Plan

1. Done: the event path (outbox, queue, consumer), the outbound calls, the
   audit, the authorization view up to the COMMIT, transactions and document
   numbers, migrations, identity keys and certificates, segments, plans and
   lists, the lifecycle of members and shells.
2. Done: proofs of every safety property the runs check and of the refinement
   of `PositionLog`.
3. A composition of outbox and queue: an ordered subscription sees a
   partition in position order.
4. The wake tokens of the queue.

Not modelled and not planned: encodings, error bodies and routing, the parsing of
configuration, the static checks of a component's files (the SQL linter among
them), metrics and logs, the adapters of NATS and object storage (their promises
are the servers'), `_watch`, which reports what a migration waits for, the checks
of a statement's text in `session.py`, test support.
