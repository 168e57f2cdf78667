------------------------------- MODULE Calls -------------------------------
(***************************************************************************)
(* The outbound calls of one member to one dependency (besdk/calls): the   *)
(* concurrency limit, the circuit breaker and the retry budget that its    *)
(* concurrent calls share. Everything between two awaits is one step.      *)
(***************************************************************************)
EXTENDS Integers, Sequences, FiniteSets

CONSTANTS
  Caller,           \* tasks that call the dependency, one call at a time
  Background,       \* those whose calls do not go through the breaker
  OutboundLimit,    \* OUTBOUND_LIMIT
  MaxAttempts,      \* MAX_ATTEMPTS
  Window,           \* BREAKER_WINDOW
  OpenFirst,        \* BREAKER_OPEN_FIRST
  OpenMax,          \* BREAKER_OPEN_MAX
  TrialsToClose,    \* BREAKER_TRIALS_TO_CLOSE
  BudgetMax, BudgetSuccess, BudgetFailure, BudgetThreshold,  \* Budget
  Cancellable,      \* may a calling task be cancelled?
  NoOne

ASSUME CallsAssumption ==
  /\ Background \subseteq Caller
  /\ {OutboundLimit, MaxAttempts, Window, TrialsToClose} \subseteq Nat \ {0}
  /\ {OpenFirst, OpenMax} \subseteq Nat \ {0}
  /\ OpenFirst <= OpenMax
  /\ {BudgetMax, BudgetSuccess, BudgetFailure, BudgetThreshold} \subseteq Nat
  /\ Cancellable \in BOOLEAN
  /\ NoOne \notin Caller

VARIABLES
  breaker,   \* the Breaker, see BreakerType
  tokens,    \* the Budget's tokens
  inFlight,  \* Dependency.in_flight
  pc,        \* pc[c]: in no call, before an attempt, or waiting for its answer
  n,         \* n[c]: the attempts its call has made
  idem,      \* idem[c]: is its call idempotent
  late,      \* late[c]: under DEADLINE_RESERVE is left of its deadline
  asTrial,   \* history: c's attempt was admitted by a half-open breaker
  healthy    \* the dependency answers every attempt with success

vars == <<breaker, tokens, inFlight, pc, n, idem, late, asTrial, healthy>>

\* A caller has at most one permit, so its name stands for the permit number.
\* period: is the last open period still running; a window has "failure" for True.
BreakerType ==
  [state: {"closed", "open", "half_open"},
   window: Seq({"failure", "success"}),
   period: {"running", "passed"},
   openFor: OpenFirst..OpenMax,
   trial: Caller \cup {NoOne},
   trialOk: 0..TrialsToClose]

TypeOK ==
  /\ breaker \in BreakerType
  /\ tokens \in 0..BudgetMax
  /\ inFlight \in Int
  /\ pc \in [Caller -> {"idle", "next", "sent"}]
  /\ n \in [Caller -> Nat]
  /\ idem \in [Caller -> BOOLEAN]
  /\ late \in [Caller -> BOOLEAN]
  /\ asTrial \in [Caller -> BOOLEAN]
  /\ healthy \in BOOLEAN

Init ==
  /\ breaker = [state |-> "closed", window |-> <<>>, period |-> "passed",
                openFor |-> OpenFirst, trial |-> NoOne, trialOk |-> 0]
  /\ tokens = BudgetMax
  /\ inFlight = 0
  /\ pc = [c \in Caller |-> "idle"]
  /\ n = [c \in Caller |-> 0]
  /\ idem = [c \in Caller |-> FALSE]
  /\ late = [c \in Caller |-> FALSE]
  /\ asTrial = [c \in Caller |-> FALSE]
  /\ healthy \in BOOLEAN

-----------------------------------------------------------------------------
(* Class.breaker, Class.budget and Class.retry_outcome.                    *)

Class == {"success", "unavailable", "connect_failed", "deadline", "relayed", "other"}
BreakerOutcome(cls) ==
  CASE cls = "success" -> "success"
    [] cls \in {"unavailable", "connect_failed", "deadline"} -> "failure"
    [] OTHER -> "ignored"
DependencyUnavailable(cls) == cls \in {"unavailable", "connect_failed"}

Least(a, b) == IF a < b THEN a ELSE b

\* Budget.record
Recorded(t, cls) ==
  CASE cls = "success" -> Least(BudgetMax, t + BudgetSuccess)
    [] DependencyUnavailable(cls) -> IF t > BudgetFailure THEN t - BudgetFailure ELSE 0
    [] OTHER -> t

\* should_retry; a deadline that leaves no time after the backoff is late.
ShouldRetry(c, cls, t) ==
  /\ idem[c]
  /\ DependencyUnavailable(cls)
  /\ n[c] < MaxAttempts
  /\ t > BudgetThreshold
  /\ ~late[c]

-----------------------------------------------------------------------------
(* Breaker.                                                                *)

\* Breaker.start: an open period that has passed makes the breaker half-open.
HalfOpened(b) ==
  IF b.state = "open" /\ b.period = "passed"
    THEN [b EXCEPT !.state = "half_open", !.trial = NoOne, !.trialOk = 0]
    ELSE b

Admits(b) ==
  LET h == HalfOpened(b)
  IN  h.state = "closed" \/ (h.state = "half_open" /\ h.trial = NoOne)

\* A half-open breaker gives its slot to the call it admits.
Started(b, c) ==
  LET h == HalfOpened(b)
  IN  IF h.state = "half_open" THEN [h EXCEPT !.trial = c] ELSE h

\* Faulty variants: an outcome that does not count leaves the trial's slot
\* taken; a trial's success is not counted.
TrialEndedIgnoring(b, o) ==
  IF o = "success"
    THEN [b EXCEPT !.state = "closed", !.trial = NoOne]
    ELSE IF o = "failure" THEN [b EXCEPT !.state = "open", !.period = "running", !.trial = NoOne] ELSE b

TrialEndedUncounted(b, o) ==
  IF o = "failure"
    THEN [b EXCEPT !.state = "open", !.period = "running", !.trial = NoOne, !.trialOk = 0]
    ELSE [b EXCEPT !.trial = NoOne]

\* Breaker.end of the trial.
TrialEnded(b, o) ==
  LET ok == b.trialOk + 1
  IN  CASE o = "failure" ->
             [b EXCEPT !.state = "open", !.period = "running", !.trial = NoOne, !.trialOk = 0,
                       !.openFor = Least(2 * b.openFor, OpenMax)]
        [] o = "success" /\ ok >= TrialsToClose ->
             [b EXCEPT !.state = "closed", !.window = <<>>, !.openFor = OpenFirst,
                       !.trial = NoOne, !.trialOk = ok]
        [] o = "success" /\ ok < TrialsToClose ->
             [b EXCEPT !.trial = NoOne, !.trialOk = ok]
        [] OTHER -> [b EXCEPT !.trial = NoOne]

Failures(w) == Cardinality({i \in DOMAIN w : w[i] = "failure"})

\* Breaker.end of a call of the closed breaker: the window slides, and a full
\* one with more failures than successes opens the breaker.
Counted(b, o) ==
  LET all == Append(b.window, o)
      w == IF Len(all) > Window THEN Tail(all) ELSE all
  IN  IF Len(w) = Window /\ 2 * Failures(w) > Window
        THEN [b EXCEPT !.state = "open", !.period = "running", !.window = <<>>]
        ELSE [b EXCEPT !.window = w]

\* Faulty variant: a late result counts for the trial.
EndedAny(b, c, o) ==
  CASE b.state = "half_open" -> TrialEnded(b, o)
    [] b.state = "closed" /\ o # "ignored" -> Counted(b, o)
    [] OTHER -> b

\* Breaker.end: a half-open breaker takes the trial's result only.
Ended(b, c, o) ==
  CASE b.state = "half_open" /\ b.trial = c -> TrialEnded(b, o)
    [] b.state = "closed" /\ o # "ignored" -> Counted(b, o)
    [] OTHER -> b

-----------------------------------------------------------------------------
(* Dependency.do and _attempts.                                            *)

Begin(c) ==
  /\ pc[c] = "idle"
  /\ inFlight < OutboundLimit
  /\ inFlight' = inFlight + 1
  /\ pc' = [pc EXCEPT ![c] = "next"]
  /\ n' = [n EXCEPT ![c] = 0]
  /\ \E i \in BOOLEAN : idem' = [idem EXCEPT ![c] = i]
  /\ late' = [late EXCEPT ![c] = FALSE]
  /\ UNCHANGED <<breaker, tokens, asTrial, healthy>>

\* The call returns or raises, and do's finally gives its place back.
Finish(c) ==
  /\ pc' = [pc EXCEPT ![c] = "idle"]
  /\ inFlight' = inFlight - 1

\* No time is left: nothing is sent.
NoTime(c) ==
  /\ pc[c] = "next"
  /\ late[c]
  /\ Finish(c)
  /\ UNCHANGED <<breaker, tokens, n, idem, late, asTrial, healthy>>

\* The breaker rejects the attempt.
Rejected(c) ==
  /\ pc[c] = "next"
  /\ ~late[c]
  /\ c \notin Background
  /\ ~Admits(breaker)
  /\ Finish(c)
  /\ UNCHANGED <<breaker, tokens, n, idem, late, asTrial, healthy>>

\* The attempt is admitted, or needs no permit, and is sent.
Send(c) ==
  /\ pc[c] = "next"
  /\ ~late[c]
  /\ \/ c \in Background /\ UNCHANGED <<breaker, asTrial>>
     \/ /\ c \notin Background
        /\ Admits(breaker)
        /\ breaker' = Started(breaker, c)
        /\ asTrial' = [asTrial EXCEPT ![c] = breaker'.state = "half_open"]
  /\ n' = [n EXCEPT ![c] = @ + 1]
  /\ pc' = [pc EXCEPT ![c] = "sent"]
  /\ UNCHANGED <<tokens, inFlight, idem, late, healthy>>

\* The attempt has its answer, or its timeout: the breaker and the budget
\* count it, and the call ends or backs off for another attempt.
Answered(c, cls) ==
  LET t == Recorded(tokens, cls)
  IN  /\ pc[c] = "sent"
      /\ healthy => cls = "success"
      /\ breaker' = IF c \in Background THEN breaker
                                        ELSE Ended(breaker, c, BreakerOutcome(cls))
      /\ tokens' = t
      /\ asTrial' = [asTrial EXCEPT ![c] = FALSE]
      /\ IF ShouldRetry(c, cls, t)
           THEN pc' = [pc EXCEPT ![c] = "next"] /\ UNCHANGED inFlight
           ELSE Finish(c)
      /\ UNCHANGED <<n, idem, late, healthy>>

\* Faulty variant: a cancelled call keeps its place.
CancelKeepsPlace(c) ==
  /\ Cancellable
  /\ pc[c] # "idle"
  /\ pc' = [pc EXCEPT ![c] = "idle"]
  /\ asTrial' = [asTrial EXCEPT ![c] = FALSE]
  /\ UNCHANGED <<breaker, tokens, inFlight, n, idem, late, healthy>>

\* The calling task is cancelled at an await (the attempt, the backoff):
\* do's finally runs, Breaker.end and Budget.record do not.
Cancel(c) ==
  /\ Cancellable
  /\ pc[c] # "idle"
  /\ Finish(c)
  /\ asTrial' = [asTrial EXCEPT ![c] = FALSE]
  /\ UNCHANGED <<breaker, tokens, n, idem, late, healthy>>

-----------------------------------------------------------------------------
(* Time and the dependency.                                                *)

\* At any await of the call, and before its first attempt.
TimePasses(c) ==
  /\ pc[c] # "idle"
  /\ ~late[c]
  /\ late' = [late EXCEPT ![c] = TRUE]
  /\ UNCHANGED <<breaker, tokens, inFlight, pc, n, idem, asTrial, healthy>>

OpenPeriodPasses ==
  /\ breaker.period = "running"
  /\ breaker' = [breaker EXCEPT !.period = "passed"]
  /\ UNCHANGED <<tokens, inFlight, pc, n, idem, late, asTrial, healthy>>

\* External: the dependency fails or recovers.
HealthChanges ==
  /\ healthy' = ~healthy
  /\ UNCHANGED <<breaker, tokens, inFlight, pc, n, idem, late, asTrial>>

-----------------------------------------------------------------------------
CallStep(c) ==
  \/ NoTime(c)
  \/ Rejected(c)
  \/ Send(c)
  \/ \E cls \in Class : Answered(c, cls)

Next ==
  \/ \E c \in Caller : Begin(c) \/ CallStep(c) \/ Cancel(c) \/ TimePasses(c)
  \/ OpenPeriodPasses
  \/ HealthChanges

Spec == Init /\ [][Next]_vars

\* Every attempt has an answer or a timeout, time passes, and the callers go
\* on to make calls, of which some have the time to be sent: SF, as a call may
\* have lost its time before it is sent.
CallsFairness ==
  /\ \A c \in Caller : WF_vars(Begin(c)) /\ WF_vars(CallStep(c)) /\ SF_vars(Send(c))
  /\ WF_vars(OpenPeriodPasses)

FairSpec == Spec /\ CallsFairness

-----------------------------------------------------------------------------
\* The limit counts exactly the calls in progress, however they end.
LimitExact == inFlight = Cardinality({c \in Caller : pc[c] # "idle"})

\* A half-open breaker has one trial on the wire, also while late answers of
\* calls admitted before it opened come in.
OneTrial == Cardinality({c \in Caller : pc[c] = "sent" /\ asTrial[c]}) <= 1

\* The slot of the half-open trial is held by an attempt that is on the wire:
\* when the trial ends, with whatever result, its slot is free ("ignored-
\* trial-frees-the-slot", circuit-breaker.json).
TrialSlotIsHeld ==
  breaker.state = "half_open" /\ breaker.trial # NoOne =>
    pc[breaker.trial] = "sent" /\ asTrial[breaker.trial]

\* What a half-open breaker becomes is decided by a trial's answer: a late
\* answer of an earlier call neither closes nor opens it nor counts.
OnlyTrialsDecide ==
  [][breaker.state = "half_open" /\ breaker' # breaker =>
       \E c \in Caller :
         \/ breaker.trial = c /\ pc[c] = "sent" /\ pc'[c] # "sent"
         \/ breaker.trial = NoOne /\ pc[c] = "next" /\ pc'[c] = "sent"]_vars

\* Once the dependency stays healthy, the breaker is closed again and again:
\* no sequence of failed, ignored and late answers leaves it open for ever.
BreakerRecovers == <>[]healthy => []<>(breaker.state = "closed")
=============================================================================
