------------------------------ MODULE Consumer ------------------------------
(***************************************************************************)
(* The consumer side (besdk/events/consumer.py) on the PostgreSQL queue:   *)
(* the handler of a subscription's workers, which applies an event with    *)
(* its inbox row in one transaction of the member's database, and records  *)
(* a failure on the last delivery as a dead letter.                        *)
(***************************************************************************)
EXTENDS PgQueue

CONSTANTS
  InstanceMax,  \* max_deliver as the running instance declares it
  StoreFaults,  \* which writes to the member's database fail
  MaxFailures   \* bound: how many do

ASSUME ConsumerAssumption ==
  /\ InstanceMax \in Nat \ {0}
  /\ StoreFaults \subseteq {"commit answer", "dead letter"}
  /\ MaxFailures \in Nat

VARIABLES
  at,       \* at[w]: where w's handler is: before or in its transaction, or
            \* about to write the dead letter
  inbox,    \* be_inbox: the events applied
  keyLock,  \* keyLock[m]: whose open transaction has inserted m's inbox row
  effects,  \* history: how often m's business change was committed
  dead,     \* be_dead_letter
  failures  \* history: failed writes so far

store == <<inbox, keyLock, effects, dead>>
consumer == <<at, store, failures>>
vars == <<queueVars, consumer>>

TypeOK ==
  /\ QueueTypeOK
  /\ at \in [Worker -> {"start", "applying", "failed"}]
  /\ inbox \in SUBSET Message
  /\ keyLock \in [Message -> Worker \cup {NoOne}]
  /\ effects \in [Message -> Nat]
  /\ dead \in SUBSET Message
  /\ failures \in Nat

Init ==
  /\ QueueInit
  /\ at = [w \in Worker |-> "start"]
  /\ inbox = {}
  /\ keyLock = [m \in Message |-> NoOne]
  /\ effects = [m \in Message |-> 0]
  /\ dead = {}
  /\ failures = 0

StoreFault(kind) ==
  /\ kind \in StoreFaults
  /\ failures < MaxFailures
  /\ failures' = failures + 1

-----------------------------------------------------------------------------
(* _process.                                                               *)

\* Faulty variant: the inbox is looked up, not written, before the change.
BeginApplyLookup(w) ==
  LET m == job[w].msg
  IN  /\ pc[w] = "handling"
      /\ at[w] = "start"
      /\ m \notin inbox
      /\ at' = [at EXCEPT ![w] = "applying"]
      /\ UNCHANGED <<store, failures, faults, inserts, reader, delivery, worker>>

\* The transaction inserts the inbox row. A row that another open transaction
\* has inserted makes it wait for that transaction's end.
BeginApply(w) ==
  LET m == job[w].msg
  IN  /\ pc[w] = "handling"
      /\ at[w] = "start"
      /\ m \notin inbox
      /\ keyLock[m] = NoOne
      /\ keyLock' = [keyLock EXCEPT ![m] = w]
      /\ at' = [at EXCEPT ![w] = "applying"]
      /\ UNCHANGED <<inbox, effects, dead, failures, faults, inserts, reader, delivery, worker>>

\* The inbox has the event: applied already, the redelivery is acknowledged.
SkipApplied(w) ==
  /\ pc[w] = "handling"
  /\ at[w] = "start"
  /\ job[w].msg \in inbox
  /\ Return(w, "ack")
  /\ UNCHANGED <<at, store, failures, faults, inserts, reader, delivery>>

CommitEffect(w) ==
  LET m == job[w].msg
  IN  /\ at[w] = "applying"
      /\ inbox' = inbox \cup {m}
      /\ effects' = [effects EXCEPT ![m] = @ + 1]
      /\ keyLock' = [keyLock EXCEPT ![m] = NoOne]
      /\ UNCHANGED dead

\* The business change and the inbox row commit together.
Apply(w) ==
  /\ pc[w] = "handling"
  /\ CommitEffect(w)
  /\ Return(w, "ack")
  /\ at' = [at EXCEPT ![w] = "start"]
  /\ UNCHANGED <<failures, faults, inserts, reader, delivery>>

Unlocked(w) == [m \in Message |-> IF keyLock[m] = w THEN NoOne ELSE keyLock[m]]

\* Faulty variant: a failure is retried once more than there are deliveries.
AfterFailureLate(w) ==
  IF job[w].attempt <= InstanceMax
    THEN Return(w, "nak") /\ at' = [at EXCEPT ![w] = "start"]
    ELSE at' = [at EXCEPT ![w] = "failed"] /\ UNCHANGED worker

\* handle: before the instance's limit a failure is a nak, at it a dead letter.
AfterFailure(w) ==
  IF job[w].attempt < InstanceMax
    THEN Return(w, "nak") /\ at' = [at EXCEPT ![w] = "start"]
    ELSE at' = [at EXCEPT ![w] = "failed"] /\ UNCHANGED worker

\* The envelope, the hop limit, the claim check, the inbox insert's wait or
\* the module's handler fails: the transaction is rolled back.
ProcessFails(w) ==
  /\ pc[w] = "handling"
  /\ at[w] \in {"start", "applying"}
  /\ keyLock' = Unlocked(w)
  /\ AfterFailure(w)
  /\ UNCHANGED <<inbox, effects, dead, failures, faults, inserts, reader, delivery>>

\* The commit took effect but its answer is lost, which is a failure too.
CommitAnswerLost(w) ==
  /\ StoreFault("commit answer")
  /\ pc[w] = "handling"
  /\ CommitEffect(w)
  /\ AfterFailure(w)
  /\ UNCHANGED <<faults, inserts, reader, delivery>>

-----------------------------------------------------------------------------
(* _dead_letter.                                                           *)

RecordDeadLetter(w) ==
  /\ pc[w] = "handling"
  /\ at[w] = "failed"
  /\ dead' = dead \cup {job[w].msg}
  /\ Return(w, "term")
  /\ at' = [at EXCEPT ![w] = "start"]
  /\ UNCHANGED <<inbox, keyLock, effects, failures, faults, inserts, reader, delivery>>

DeadLetterFails(w) ==
  /\ StoreFault("dead letter")
  /\ pc[w] = "handling"
  /\ at[w] = "failed"
  /\ Return(w, "nak")
  /\ at' = [at EXCEPT ![w] = "start"]
  /\ UNCHANGED <<store, faults, inserts, reader, delivery>>

\* A worker that dies leaves its transaction to be rolled back.
CrashHandling(w) ==
  /\ Crash(w)
  /\ at' = [at EXCEPT ![w] = "start"]
  /\ keyLock' = Unlocked(w)
  /\ UNCHANGED <<inbox, effects, dead, failures>>

-----------------------------------------------------------------------------
Handle(w) ==
  \/ BeginApply(w)
  \/ SkipApplied(w)
  \/ Apply(w)
  \/ ProcessFails(w)
  \/ CommitAnswerLost(w)
  \/ RecordDeadLetter(w)
  \/ DeadLetterFails(w)

Transport ==
  /\ \/ \E m \in Message : InsertStep(m) \/ TimeStep(m)
     \/ \E w \in Worker : WorkStep(w)
  /\ UNCHANGED consumer

Next == Transport \/ \E w \in Worker : Handle(w) \/ CrashHandling(w)

Spec == Init /\ [][Next]_vars

\* Workers go on and their handlers return (a transaction ends by its
\* timeouts at the latest); _give_up runs in the first round of _work's loop
\* after its interval, so infinitely often as the loop goes round (strong
\* fairness: between rounds it is not enabled); time passes for leases and
\* backoffs, an insert that was begun ends. Nothing makes a message grow old,
\* and no failure has to happen.
FairSpec ==
  /\ Spec
  /\ \A w \in Worker :
       /\ WF_vars((WorkStep(w) /\ UNCHANGED consumer) \/ Handle(w))
       /\ SF_vars(GiveUp(w) /\ UNCHANGED consumer)
  /\ \A m \in Message :
       /\ WF_vars((TakeXid(m) \/ CommitInsert(m)) /\ UNCHANGED consumer)
       /\ WF_vars((LeaseRunsOut(m) \/ BackoffEnds(m)) /\ UNCHANGED consumer)

-----------------------------------------------------------------------------
\* A delivery that is over.
Ended(m) == m \in queued /\ row[m] = "none"

\* A redelivery takes effect once, also when the first attempt's lease ran
\* out and two workers apply the same event at the same time.
EffectOnce == \A m \in Message : effects[m] <= 1

\* An event is dropped without its effect or a dead letter only by the limit
\* or the retention: no crash, lost lease or late outcome ends it before.
NotDroppedEarly ==
  \A m \in Message :
    Ended(m) => m \in inbox \/ m \in dead \/ stage[m] = "purged" \/ attempts[m] >= StoredMax

\* "A failure on the last delivery becomes a dead letter" (handle): when the
\* delivery is over and no worker handles it any more, the event was applied
\* or is a dead letter.
LastFailureIsDeadLetter ==
  \A m \in Message :
    Ended(m) /\ stage[m] # "purged" /\ (\A w \in Worker : job[w].msg # m)
      => m \in inbox \/ m \in dead

\* The same where no worker dies and no call or write fails: handlers that
\* fail and leases that run out at any time lose no event.
FailuresBecomeDeadLetters == faults = 0 /\ failures = 0 => LastFailureIsDeadLetter

\* In an ordered subscription an event takes effect only after every event
\* published before it was applied, became a dead letter or was given up.
OrderedEffects ==
  Ordered =>
    \A m, q \in Matching :
      /\ effects[m] > 0
      /\ stage[q] = "committed"
      /\ xid[q] < xid[m] /\ seq[q] < seq[m]
      => q \in inbox \/ q \in dead \/ attempts[q] >= StoredMax

\* Every committed event of the subscription comes to an end: it is read,
\* delivered and settled, given up or purged, though workers crash and the
\* handler may fail every time.
EventuallyEnded ==
  \A m \in Matching : (stage[m] = "committed") ~> (Ended(m) \/ stage[m] = "purged")

-----------------------------------------------------------------------------
(* The inductive invariants behind the safety properties.                  *)

\* A worker that handles or settles has a job, no other has; its outcome says
\* what the member's database has.
OutcomeInv ==
  \A w \in Worker :
    /\ IF pc[w] \in {"handling", "settle"} THEN job[w].msg \in queued ELSE job[w] = NoJob
    /\ pc[w] = "settle" =>
         /\ out[w] \in {"ack", "nak", "term"}
         /\ out[w] = "ack" => job[w].msg \in inbox
         /\ out[w] = "term" => job[w].msg \in dead

Kept(m) == m \in inbox \/ m \in dead

\* While nothing has failed but handlers: a delivery in flight has its worker,
\* one that is over is kept or a worker is at its last attempt, and that one
\* does not return a nak.
KeptInv ==
  faults = 0 /\ failures = 0 =>
    /\ \A m \in Message :
         stage[m] # "purged" =>
           /\ m \in InFlight => \E w \in Worker : job[w] = [msg |-> m, attempt |-> attempts[m]]
           /\ Ended(m) => Kept(m) \/ \E w \in Worker : job[w].msg = m /\ job[w].attempt >= InstanceMax
    /\ \A w \in Worker : pc[w] = "settle" /\ out[w] = "nak" => job[w].attempt < InstanceMax

\* What comes before an event that is handled or has taken effect is over.
OrderInv ==
  \A m \in Message :
    (\E w \in Worker : job[w].msg = m) \/ effects[m] > 0 =>
      /\ m \in queued
      /\ Ordered => \A q \in Matching :
           stage[q] = "committed" /\ xid[q] < xid[m] /\ seq[q] < seq[m] =>
             Kept(q) \/ attempts[q] >= StoredMax
=============================================================================
