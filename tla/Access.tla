------------------------------- MODULE Access -------------------------------
(***************************************************************************)
(* Authorization by a bounded local view: a member's Holder of a shard,    *)
(* verified against the authorization member (besdk/authz/view.py), the    *)
(* admission of requests by it (guard.py, authz/subject.py) and the        *)
(* cutoff a write transaction checks before its COMMIT (db/pool.py).       *)
(* Times are readings of the suspend-aware clock.                          *)
(***************************************************************************)
EXTENDS Naturals

CONSTANTS
  Request,        \* user requests
  WRead, WHigh,   \* W_READ, W_HIGH
  CommitWindow,   \* COMMIT_WINDOW
  TokenLife,      \* what is left of a token's validity when it is presented
  MaxTime,        \* bound: the last reading of the clock
  MaxVersion      \* bound: versions of the view

ASSUME AccessAssumption ==
  /\ WRead \in Nat /\ WHigh \in Nat
  /\ CommitWindow \in Nat
  /\ TokenLife \subseteq Nat
  /\ MaxTime \in Nat
  /\ MaxVersion \in Nat \ {0}

VARIABLES
  now,
  latest,      \* the authorization member's version of the shard, from 1 on
  genOf,       \* genOf[v]: the recovery generation of version v
  until,       \* until[v]: when v was superseded
  held,        \* Holder.shards: the shard held, see Held
  recovery,    \* Holder.recovery, 0 before the first accepted answer
  vpc,         \* where Holder.verify is
  sent,        \* when its request was sent
  ans,         \* the answer on its way
  phase,       \* where each request is
  cutoff,      \* reqctx's cutoff of the request
  checkedAt,   \* when its transaction last checked the cutoff
  evidence     \* history: one, any, of the grounds of its decisions

source == <<latest, genOf, until>>
holder == <<held, recovery, vpc, sent, ans>>
request == <<phase, cutoff, checkedAt, evidence>>
accessVars == <<now, source, holder, request>>

\* The versions of a generation are in the order of their revisions, and a
\* later generation has later versions. 0 is no version and no time.
Version == 1..MaxVersion
Held == [ver: 0..MaxVersion, sentAt: Nat, highAt: Nat,
         stopped: BOOLEAN, suspended: BOOLEAN, sourceStale: BOOLEAN]
NoShard == [ver |-> 0, sentAt |-> 0, highAt |-> 0,
            stopped |-> FALSE, suspended |-> FALSE, sourceStale |-> FALSE]

\* "foreign" is an answer of another member instance.
Answer == [ver: Version, gen: Nat, readOnly: BOOLEAN,
           status: {"unchanged", "changed", "closed", "foreign"}]
NoAnswer == [ver |-> 1, gen |-> 0, readOnly |-> FALSE, status |-> "closed"]

\* A view that was vouched for at a time and holds for a window; one of a stale
\* source, with that time told as the decision's basis (Grant.since); a token,
\* with its expiry.
Evidence == [kind: {"none", "view", "stale", "token"}, ver: 0..MaxVersion, at: Nat, window: Nat]
NoEvidence == [kind |-> "none", ver |-> 0, at |-> 0, window |-> 0]
TokenUntil(t) == [kind |-> "token", ver |-> 0, at |-> t, window |-> 0]

AccessTypeOK ==
  /\ now \in Nat \ {0}
  /\ latest \in Version
  /\ genOf \in [Version -> Nat]
  /\ until \in [Version -> Nat]
  /\ held \in Held
  /\ recovery \in Nat
  /\ vpc \in {"rest", "sent", "answered"}
  /\ sent \in Nat
  /\ ans \in Answer
  /\ phase \in [Request -> {"new", "admitted", "checked"}]
  /\ cutoff \in [Request -> Nat]
  /\ checkedAt \in [Request -> Nat]
  /\ evidence \in [Request -> Evidence]

AccessInit ==
  /\ now = 1
  /\ latest = 1
  /\ genOf = [v \in Version |-> IF v = 1 THEN 1 ELSE 0]
  /\ until = [v \in Version |-> 0]
  /\ held = NoShard
  /\ recovery = 0
  /\ vpc = "rest"
  /\ sent = 0
  /\ ans = NoAnswer
  /\ phase = [q \in Request |-> "new"]
  /\ cutoff = [q \in Request |-> 0]
  /\ checkedAt = [q \in Request |-> 0]
  /\ evidence = [q \in Request |-> NoEvidence]

Tick ==
  /\ now < MaxTime
  /\ now' = now + 1
  /\ UNCHANGED <<source, holder, request>>

-----------------------------------------------------------------------------
(* The authorization member (external).                                    *)

\* A change of somebody's authorization; or a recovery, which may have lost
\* changes and begins a new recovery generation.
Change ==
  /\ latest < MaxVersion
  /\ latest' = latest + 1
  /\ until' = [until EXCEPT ![latest] = now]
  /\ \E g \in {genOf[latest], genOf[latest] + 1} : genOf' = [genOf EXCEPT ![latest'] = g]
  /\ UNCHANGED <<now, holder, request>>

StatusOf(v) == IF held.ver = v THEN "unchanged" ELSE "changed"

\* A full answer has the latest version. One whose source is stale says so
\* and has any earlier one, or no version at all.
Answers ==
  /\ vpc = "sent"
  /\ \/ ans' = [ver |-> latest, gen |-> genOf[latest], readOnly |-> FALSE, status |-> StatusOf(latest)]
     \/ \E v \in 1..latest :
          ans' = [ver |-> v, gen |-> genOf[v], readOnly |-> TRUE, status |-> StatusOf(v)]
     \/ \E s \in {"closed", "foreign"} :
          ans' = [ver |-> 1, gen |-> genOf[latest], readOnly |-> FALSE, status |-> s]
  /\ vpc' = "answered"
  /\ UNCHANGED <<now, source, held, recovery, sent, request>>

-----------------------------------------------------------------------------
(* Holder.run: tick, then verify.                                          *)

\* tick invalidates the shard after a stall or a jump of the wall clock; the
\* request leaves.
SendVerify ==
  /\ vpc = "rest"
  /\ held' \in {held, NoShard}
  /\ sent' = now
  /\ vpc' = "sent"
  /\ UNCHANGED <<now, source, recovery, ans, request>>

\* The call fails, its deadline passes, or the answer cannot be read.
VerifyFails ==
  /\ vpc # "rest"
  /\ vpc' = "rest"
  /\ sent' = 0
  /\ ans' = NoAnswer
  /\ UNCHANGED <<now, source, held, recovery, request>>

\* An older recovery generation, or another instance.
Rollback == ans.gen < recovery \/ ans.status = "foreign"

\* The answer's view has earlier revisions than the shard held.
GoesBack(h) == ans.ver < h.ver

\* An unchanged shard.
Renewed(h) ==
  [h EXCEPT !.sentAt = sent,
            !.suspended = FALSE,
            !.sourceStale = ans.readOnly,
            !.highAt = IF ans.readOnly THEN @ ELSE sent]

\* A changed shard; h is the one it replaces, if any. A read-only view takes
\* over the high-risk validity.
Replaced(h) ==
  [ver |-> ans.ver, sentAt |-> sent, highAt |-> IF ans.readOnly THEN h.highAt ELSE sent,
   stopped |-> FALSE, suspended |-> FALSE, sourceStale |-> ans.readOnly]

\* What an accepted answer makes of the shard h.
Applied(h) ==
  CASE h.stopped -> IF ans.status = "closed" THEN [h EXCEPT !.sourceStale = TRUE] ELSE h
    [] ~h.stopped /\ ans.status = "unchanged" -> IF h.ver = 0 THEN h ELSE Renewed(h)
    [] ~h.stopped /\ ans.status = "changed" ->
         IF GoesBack(h) THEN [h EXCEPT !.stopped = TRUE] ELSE Replaced(h)
    [] OTHER -> IF h.ver = 0 THEN h ELSE [h EXCEPT !.sourceStale = TRUE]

\* apply, its acceptance table in order: a rollback suspends the shard, a
\* higher recovery generation voids it, then the shard's own status.
Apply ==
  /\ vpc = "answered"
  /\ \/ /\ Rollback
        /\ held' = IF held.ver = 0 THEN held ELSE [held EXCEPT !.suspended = TRUE]
        /\ UNCHANGED recovery
     \/ /\ ~Rollback
        /\ held' = Applied(IF ans.gen > recovery THEN NoShard ELSE held)
        /\ recovery' = ans.gen
  /\ vpc' = "rest"
  /\ sent' = 0
  /\ ans' = NoAnswer
  /\ UNCHANGED <<now, source, request>>

-----------------------------------------------------------------------------
(* Lookups. A grant has its cutoff and the evidence for it.                *)

Usable == held.ver # 0 /\ ~held.stopped /\ ~held.suspended

\* lookup.
Start(high) == IF high THEN held.highAt ELSE held.sentAt
WindowFor(high) == IF high THEN WHigh ELSE WRead
Valid(high) == Usable /\ Start(high) # 0 /\ now < Start(high) + WindowFor(high)

\* A stale source vouches for no time: an ordinary grant by it has none.
Lookup(high) ==
  [cutoff |-> Start(high) + WindowFor(high),
   evidence |-> IF ~high /\ held.sourceStale THEN NoEvidence
                ELSE [kind |-> "view", ver |-> held.ver, at |-> Start(high), window |-> WindowFor(high)]]

\* Faulty variant: the last renewal of any kind is told.
LookupStaleSent ==
  [cutoff |-> now + WRead,
   evidence |-> [kind |-> "stale", ver |-> held.ver, at |-> held.sentAt, window |-> 0]]

\* lookup_stale.
LookupStale ==
  [cutoff |-> now + WRead,
   evidence |-> [kind |-> "stale", ver |-> held.ver, at |-> held.highAt, window |-> 0]]

\* lookup_for: a tightening_only operation that the ordinary lookup refuses
\* falls back on the last view of a stale source. No grant is a refusal.
Grants(high, tightening) ==
  IF Valid(high) THEN {Lookup(high)}
  ELSE IF tightening /\ Usable /\ held.sourceStale /\ held.highAt # 0 THEN {LookupStale}
  ELSE {}

-----------------------------------------------------------------------------
(* Requests.                                                               *)

Earlier(a, b) == IF a < b THEN a ELSE b

\* Faulty variant: the later of the two.
AdmittedUntilLater(e, g) == IF e < g.cutoff THEN g.cutoff ELSE e

\* The token's expiry and the grant's cutoff, on the suspend-aware clock.
AdmittedUntil(e, g) == Earlier(e, g.cutoff)

\* UserGuard.admit; a token may have nothing left, the verifier has a leeway.
Admit(q) ==
  /\ phase[q] = "new"
  /\ \E high, tightening \in BOOLEAN, left \in TokenLife :
       \E g \in Grants(high, tightening) :
         /\ cutoff' = [cutoff EXCEPT ![q] = AdmittedUntil(now + left, g)]
         /\ \E e \in {g.evidence, TokenUntil(now + left)} : evidence' = [evidence EXCEPT ![q] = e]
  /\ phase' = [phase EXCEPT ![q] = "admitted"]
  /\ UNCHANGED <<now, source, holder, checkedAt>>

\* Faulty variant: the cutoff stays the admission's.
DecideOnly(q) ==
  /\ phase[q] = "admitted"
  /\ \E high, tightening \in BOOLEAN : \E g \in Grants(high, tightening) :
       evidence' \in {evidence, [evidence EXCEPT ![q] = g.evidence]}
  /\ UNCHANGED <<now, source, holder, phase, cutoff, checkedAt>>

\* Subject._grant, for a record or a list: the cutoff moves earlier.
Decide(q) ==
  /\ phase[q] = "admitted"
  /\ \E high, tightening \in BOOLEAN : \E g \in Grants(high, tightening) :
       /\ cutoff' = [cutoff EXCEPT ![q] = Earlier(@, g.cutoff)]
       /\ evidence' \in {evidence, [evidence EXCEPT ![q] = g.evidence]}
  /\ UNCHANGED <<now, source, holder, phase, checkedAt>>

\* DB._in_tx, the check before COMMIT of a transaction of the request. A
\* refused transaction is rolled back.
CheckCutoff(q) ==
  /\ phase[q] = "admitted"
  /\ now < cutoff[q]
  /\ phase' = [phase EXCEPT ![q] = "checked"]
  /\ checkedAt' = [checkedAt EXCEPT ![q] = now]
  /\ UNCHANGED <<now, source, holder, cutoff, evidence>>

EndTransaction(q) ==
  /\ phase[q] = "checked"
  /\ phase' = [phase EXCEPT ![q] = "admitted"]
  /\ checkedAt' = [checkedAt EXCEPT ![q] = 0]
  /\ UNCHANGED <<now, source, holder, cutoff, evidence>>

\* COMMIT, while the database has not ended the transaction.
Commit(q) ==
  /\ now <= checkedAt[q] + CommitWindow
  /\ EndTransaction(q)

\* The transaction fails, or the database ends it after the window; an attempt
\* after it checks again.
Abort(q) == EndTransaction(q)

-----------------------------------------------------------------------------
AccessNext ==
  \/ Tick
  \/ Change
  \/ Answers
  \/ SendVerify
  \/ VerifyFails
  \/ Apply
  \/ \E q \in Request : Admit(q) \/ Decide(q) \/ CheckCutoff(q) \/ Commit(q) \/ Abort(q)

AccessSpec == AccessInit /\ [][AccessNext]_accessVars

-----------------------------------------------------------------------------
Superseded(e) == e.ver \in 1..latest - 1

\* A revocation is in force WHigh + CommitWindow after it for high-risk
\* operations, and WRead + CommitWindow after it for the others, whatever
\* answers are late, lost or from a stale source: no later commit of a request
\* relies on a view from before it.
RevocationBounded ==
  [][\A q \in Request :
       Commit(q) /\ evidence[q].kind = "view" /\ Superseded(evidence[q]) =>
         now < until[evidence[q].ver] + evidence[q].window + CommitWindow]_accessVars

\* No write is committed on a token that expired more than the commit window
\* ago, whatever was decided meanwhile (the cutoff "only ever moves earlier",
\* reqctx.cutoff_scope).
ExpiryBounded ==
  [][\A q \in Request :
       Commit(q) /\ evidence[q].kind = "token" => now < evidence[q].at + CommitWindow]_accessVars

\* The time told as the basis of a stale decision is one at which the view it
\* used was not superseded yet ("that shard's last full renewal", P8.29).
BasisHonest ==
  \A q \in Request :
    evidence[q].kind = "stale" /\ Superseded(evidence[q]) => evidence[q].at <= until[evidence[q].ver]

-----------------------------------------------------------------------------
(* The inductive invariant behind them.                                    *)

\* Versions are superseded in their order.
SourceInv ==
  /\ \A v \in Version : v < latest => until[v] <= now
  /\ \A v, w \in Version : v <= w /\ w < latest => until[v] <= until[w]

\* v was not superseded at time t.
Vouched(v, t) == v \in 1..latest /\ t <= now /\ (v < latest => t <= until[v])

\* The time of the last full renewal vouches for the version held, a read-only
\* one that took it over too.
HolderInv ==
  /\ held.ver = 0 => held.highAt = 0
  /\ held.ver # 0 => held.ver <= latest
  /\ held.highAt # 0 => Vouched(held.ver, held.highAt)
  /\ ~held.sourceStale => held.highAt = held.sentAt

AnswerInv ==
  /\ sent <= now
  /\ vpc = "answered" /\ ans.status \in {"unchanged", "changed"} =>
       /\ ans.ver <= latest
       /\ ~ans.readOnly => Vouched(ans.ver, sent)
       /\ ans.status = "unchanged" => ans.ver = held.ver

\* A request's cutoff is within every ground of its decisions.
RequestInv ==
  \A q \in Request :
    LET e == evidence[q] IN
    /\ e.kind \in {"view", "stale"} => Vouched(e.ver, e.at)
    /\ e.kind = "view" => cutoff[q] <= e.at + e.window
    /\ e.kind = "token" => cutoff[q] <= e.at
    /\ phase[q] = "checked" => checkedAt[q] < cutoff[q]

AccessInv ==
  /\ SourceInv
  /\ HolderInv
  /\ AnswerInv
  /\ RequestInv
=============================================================================
