---------------------------- MODULE AccessProofs ----------------------------
(***************************************************************************)
(* Proofs about authorization by a bounded local view, for all windows and *)
(* any number of requests, changes, recoveries and answers: type           *)
(* correctness, and that nothing is committed on grounds longer than their *)
(* window and the commit window.                                           *)
(***************************************************************************)
EXTENDS Access, TLAPS

\* The shapes of a held shard.
LEMMA HeldTypes ==
  ASSUME AccessTypeOK
  PROVE  /\ held.ver \in 0..MaxVersion /\ held.sentAt \in Nat /\ held.highAt \in Nat
         /\ held.stopped \in BOOLEAN /\ held.suspended \in BOOLEAN /\ held.sourceStale \in BOOLEAN
         /\ ans.ver \in Version /\ ans.gen \in Nat /\ ans.readOnly \in BOOLEAN
  BY DEF AccessTypeOK, Held, Answer

\* A grant is a cutoff and evidence.
LEMMA GrantTypes ==
  ASSUME AccessTypeOK, NEW high \in BOOLEAN, NEW tightening \in BOOLEAN, NEW g \in Grants(high, tightening)
  PROVE  g.cutoff \in Nat /\ g.evidence \in Evidence
<1>1. held.ver \in 0..MaxVersion /\ held.sentAt \in Nat /\ held.highAt \in Nat
  BY HeldTypes
<1>2. Start(high) \in Nat /\ WindowFor(high) \in Nat
  BY <1>1, AccessAssumption DEF Start, WindowFor
<1>3. NoEvidence \in Evidence
  BY AccessAssumption DEF NoEvidence, Evidence
<1>4. CASE g = Lookup(high)
  BY <1>1, <1>2, <1>3, <1>4 DEF Lookup, Evidence
<1>5. CASE g = LookupStale
  BY <1>1, <1>5, AccessAssumption DEF LookupStale, Evidence, AccessTypeOK
<1>6. QED
  BY <1>4, <1>5 DEF Grants

\* Every step keeps the types.
LEMMA TypeStep ==
  ASSUME AccessTypeOK, [AccessNext]_accessVars
  PROVE  AccessTypeOK'
<1> USE AccessAssumption DEF source, holder, request
<1>1. NoAnswer \in Answer /\ NoShard \in Held /\ NoEvidence \in Evidence
  BY DEF NoAnswer, Answer, Version, NoShard, Held, NoEvidence, Evidence
<1>2. CASE Tick
  BY <1>2 DEF Tick, AccessTypeOK
<1>3. CASE Change
  <2>1. latest' \in Version
    BY <1>3 DEF Change, Version, AccessTypeOK
  <2>2. until' \in [Version -> Nat] /\ genOf' \in [Version -> Nat]
    BY <1>3, <2>1 DEF Change, AccessTypeOK
  <2>3. QED
    BY <1>3, <2>1, <2>2 DEF Change, AccessTypeOK
<1>4. CASE Answers
  <2>1. ans' \in Answer
    <3>1. \A v : StatusOf(v) \in {"unchanged", "changed"}
      BY DEF StatusOf
    <3>2. \A v \in 1..latest : v \in Version /\ genOf[v] \in Nat
      BY DEF AccessTypeOK, Version
    <3>3. latest \in 1..latest /\ 1 \in Version
      BY DEF AccessTypeOK, Version
    <3>4. \A v \in Version, n \in Nat, b \in BOOLEAN, s \in {"unchanged", "changed", "closed", "foreign"} :
            [ver |-> v, gen |-> n, readOnly |-> b, status |-> s] \in Answer
      BY DEF Answer
    <3>5. QED
      BY <1>4, <3>1, <3>2, <3>3, <3>4 DEF Answers
  <2>2. QED
    BY <1>4, <2>1 DEF Answers, AccessTypeOK
<1>5. CASE SendVerify
  BY <1>1, <1>5 DEF SendVerify, AccessTypeOK
<1>6. CASE VerifyFails
  BY <1>1, <1>6 DEF VerifyFails, AccessTypeOK
<1>7. CASE Apply
  <2>1. /\ held.ver \in 0..MaxVersion /\ held.sentAt \in Nat /\ held.highAt \in Nat
        /\ ans.ver \in Version /\ ans.gen \in Nat /\ ans.readOnly \in BOOLEAN
    BY HeldTypes
  <2>2. \A h \in Held : Applied(h) \in Held
    <3> TAKE h \in Held
    <3>1. [h EXCEPT !.sourceStale = TRUE] \in Held /\ [h EXCEPT !.stopped = TRUE] \in Held
      BY DEF Held
    <3>2. Renewed(h) \in Held
      BY <2>1 DEF Renewed, Held, AccessTypeOK
    <3>3. Replaced(h) \in Held
      BY <2>1 DEF Replaced, Held, Version, AccessTypeOK
    <3>4. QED
      BY <3>1, <3>2, <3>3 DEF Applied
  <2>3. held' \in Held /\ recovery' \in Nat
    <3>1. [held EXCEPT !.suspended = TRUE] \in Held /\ held \in Held
      BY DEF Held, AccessTypeOK
    <3>2. recovery' \in {recovery, ans.gen}
      BY <1>7 DEF Apply
    <3>3. held' \in Held
      BY <1>1, <1>7, <2>2, <3>1 DEF Apply
    <3>4. QED
      BY <2>1, <3>2, <3>3 DEF AccessTypeOK
  <2>4. QED
    BY <1>1, <1>7, <2>3 DEF Apply, AccessTypeOK
<1>8. ASSUME NEW q \in Request, Admit(q) PROVE AccessTypeOK'
  <2>1. PICK high \in BOOLEAN, tightening \in BOOLEAN, left \in TokenLife :
          \E g \in Grants(high, tightening) :
            /\ cutoff' = [cutoff EXCEPT ![q] = AdmittedUntil(now + left, g)]
            /\ \E e \in {g.evidence, TokenUntil(now + left)} : evidence' = [evidence EXCEPT ![q] = e]
    BY <1>8 DEF Admit
  <2>2. PICK g \in Grants(high, tightening) :
          /\ cutoff' = [cutoff EXCEPT ![q] = AdmittedUntil(now + left, g)]
          /\ \E e \in {g.evidence, TokenUntil(now + left)} : evidence' = [evidence EXCEPT ![q] = e]
    BY <2>1
  <2>3. g.cutoff \in Nat /\ g.evidence \in Evidence /\ now + left \in Nat
    BY GrantTypes DEF AccessTypeOK
  <2>4. TokenUntil(now + left) \in Evidence
    BY <2>3 DEF TokenUntil, Evidence
  <2>5. cutoff' \in [Request -> Nat]
    BY <2>2, <2>3 DEF AdmittedUntil, Earlier, AccessTypeOK
  <2>6. evidence' \in [Request -> Evidence]
    BY <2>2, <2>3, <2>4 DEF AccessTypeOK
  <2>7. QED
    BY <1>8, <2>5, <2>6 DEF Admit, AccessTypeOK
<1>9. ASSUME NEW q \in Request, Decide(q) PROVE AccessTypeOK'
  <2>1. PICK high \in BOOLEAN, tightening \in BOOLEAN : \E g \in Grants(high, tightening) :
          /\ cutoff' = [cutoff EXCEPT ![q] = Earlier(@, g.cutoff)]
          /\ evidence' \in {evidence, [evidence EXCEPT ![q] = g.evidence]}
    BY <1>9 DEF Decide
  <2>2. PICK g \in Grants(high, tightening) :
          /\ cutoff' = [cutoff EXCEPT ![q] = Earlier(@, g.cutoff)]
          /\ evidence' \in {evidence, [evidence EXCEPT ![q] = g.evidence]}
    BY <2>1
  <2>3. g.cutoff \in Nat /\ g.evidence \in Evidence
    BY GrantTypes
  <2>4. cutoff' \in [Request -> Nat] /\ evidence' \in [Request -> Evidence]
    BY <2>2, <2>3 DEF Earlier, AccessTypeOK
  <2>5. QED
    BY <1>9, <2>4 DEF Decide, AccessTypeOK
<1>10. ASSUME NEW q \in Request, CheckCutoff(q) PROVE AccessTypeOK'
  BY <1>10 DEF CheckCutoff, AccessTypeOK
<1>11. ASSUME NEW q \in Request, EndTransaction(q) PROVE AccessTypeOK'
  BY <1>11 DEF EndTransaction, AccessTypeOK
<1>12. CASE UNCHANGED accessVars
  BY <1>12 DEF accessVars, AccessTypeOK
<1>13. QED
  BY <1>2, <1>3, <1>4, <1>5, <1>6, <1>7, <1>8, <1>9, <1>10, <1>11, <1>12 DEF AccessNext, Commit, Abort

\* Type correctness of the view, its holder and the requests.
THEOREM TypeCorrect == AccessSpec => []AccessTypeOK
<1>1. AccessInit => AccessTypeOK
  BY AccessAssumption
     DEF AccessInit, AccessTypeOK, Version, Held, NoShard, Answer, NoAnswer, Evidence, NoEvidence
<1>2. AccessTypeOK /\ [AccessNext]_accessVars => AccessTypeOK'
  BY TypeStep
<1>3. QED
  BY <1>1, <1>2, PTL DEF AccessSpec

-----------------------------------------------------------------------------
(* The inductive invariant.                                                *)

\* A version that was vouched for at a time stays so, whatever happens.
LEMMA VouchedStays ==
  ASSUME AccessTypeOK, SourceInv, NEW v \in Nat, NEW t \in Nat, Vouched(v, t),
         Tick \/ Change \/ UNCHANGED <<now, source>>
  PROVE  Vouched(v, t)'
<1> USE AccessAssumption
<1>1. CASE Tick
  BY <1>1 DEF Tick, source, Vouched, AccessTypeOK
<1>2. CASE Change
  <2>1. now' = now /\ latest' = latest + 1 /\ until' = [until EXCEPT ![latest] = now]
    BY <1>2 DEF Change
  <2>2. /\ latest \in Version /\ latest \in Nat /\ until \in [Version -> Nat]
        /\ v >= 1 /\ v <= latest /\ t <= now
    BY DEF AccessTypeOK, Version, Vouched
  <2>3. v \in Version
    BY <2>2 DEF Version
  <2>4. t <= until'[v]
    BY <2>1, <2>2, <2>3 DEF Vouched
  <2>5. QED
    BY <2>1, <2>2, <2>4 DEF Vouched
<1>3. CASE UNCHANGED <<now, source>>
  BY <1>3 DEF source, Vouched
<1>4. QED
  BY <1>1, <1>2, <1>3

\* A later version of the history is vouched for at least as long.
LEMMA VouchedLater ==
  ASSUME AccessTypeOK, SourceInv, NEW v \in Nat, NEW w \in Nat, NEW t \in Nat,
         Vouched(v, t), v <= w, w <= latest
  PROVE  Vouched(w, t)
<1>1. latest \in Nat /\ latest <= MaxVersion /\ until \in [Version -> Nat] /\ v >= 1 /\ v <= latest /\ t <= now
  BY AccessAssumption DEF AccessTypeOK, Version, Vouched
<1>2. v \in Version /\ w \in Version /\ w \in 1..latest
  BY <1>1, AccessAssumption DEF Version
<1>3. w < latest => t <= until[w]
  <2> HAVE w < latest
  <2>1. until[v] <= until[w] /\ t <= until[v] /\ until[v] \in Nat /\ until[w] \in Nat
    BY <1>1, <1>2 DEF SourceInv, Vouched
  <2>2. QED
    BY <2>1
<1>4. QED
  BY <1>1, <1>2, <1>3 DEF Vouched

\* What a grant is bound to was vouched for, and its cutoff is within it.
LEMMA GrantSound ==
  ASSUME AccessTypeOK, AccessInv, NEW high \in BOOLEAN, NEW tightening \in BOOLEAN,
         NEW g \in Grants(high, tightening)
  PROVE  /\ g.evidence.kind \in {"view", "stale"} => Vouched(g.evidence.ver, g.evidence.at)
         /\ g.evidence.kind = "view" => g.cutoff <= g.evidence.at + g.evidence.window
         /\ g.evidence.kind # "token"
<1>1. HolderInv
  BY DEF AccessInv
<1>2. /\ held.ver \in 0..MaxVersion /\ held.sentAt \in Nat /\ held.highAt \in Nat
      /\ held.sourceStale \in BOOLEAN
  BY HeldTypes
<1>3. CASE g = Lookup(high) /\ Valid(high)
  <2>1. CASE ~high /\ held.sourceStale
    BY <1>3, <2>1 DEF Lookup, NoEvidence
  <2>2. CASE high \/ ~held.sourceStale
    <3>1. g = [cutoff |-> Start(high) + WindowFor(high),
               evidence |-> [kind |-> "view", ver |-> held.ver, at |-> Start(high), window |-> WindowFor(high)]]
      BY <1>3, <2>2 DEF Lookup
    <3>2. Start(high) # 0 /\ Start(high) = held.highAt
      BY <1>1, <1>3, <2>2 DEF Start, Valid, HolderInv
    <3>3. Vouched(held.ver, Start(high))
      BY <1>1, <3>2 DEF HolderInv
    <3>4. Start(high) + WindowFor(high) \in Nat
      BY <1>2, <3>2, AccessAssumption DEF WindowFor
    <3>5. QED
      BY <3>1, <3>3, <3>4
  <2>3. QED
    BY <2>1, <2>2
<1>4. CASE g = LookupStale /\ held.highAt # 0
  <2>1. Vouched(held.ver, held.highAt)
    BY <1>1, <1>4 DEF HolderInv
  <2>2. QED
    BY <1>4, <2>1 DEF LookupStale
<1>5. QED
  BY <1>3, <1>4 DEF Grants

\* Time and the authorization member change nothing of what was vouched for.
LEMMA SourceStep ==
  ASSUME AccessTypeOK, AccessInv, Tick \/ Change
  PROVE  AccessInv'
<1>1. SourceInv /\ HolderInv /\ AnswerInv /\ RequestInv
  BY DEF AccessInv
<1>2. \A v \in Nat, t \in Nat : Vouched(v, t) => Vouched(v, t)'
  BY <1>1, VouchedStays
<1>3. /\ UNCHANGED <<held, recovery, vpc, sent, ans, phase, cutoff, checkedAt, evidence>>
      /\ now \in Nat /\ now' \in Nat /\ now <= now'
      /\ latest \in Nat /\ latest' \in Nat /\ latest <= latest'
  <2>1. UNCHANGED <<held, recovery, vpc, sent, ans, phase, cutoff, checkedAt, evidence>>
    BY DEF Tick, Change, holder, request
  <2>2. now \in Nat /\ latest \in Nat
    BY DEF AccessTypeOK, Version
  <2>3. now' \in {now, now + 1} /\ latest' \in {latest, latest + 1}
    BY DEF Tick, Change, source
  <2>4. QED
    BY <2>1, <2>2, <2>3
<1>4. SourceInv'
  <2>1. CASE Tick
    BY <1>1, <2>1 DEF Tick, source, SourceInv, AccessTypeOK
  <2>2. CASE Change
    <3>1. latest' = latest + 1 /\ until' = [until EXCEPT ![latest] = now] /\ now' = now
      BY <2>2 DEF Change
    <3>2. until \in [Version -> Nat] /\ latest \in Version /\ Version \subseteq Nat /\ now \in Nat
      BY DEF AccessTypeOK, Version
    <3>3. \A v \in Version : v < latest' => until'[v] <= now
      BY <1>1, <1>3, <3>1, <3>2 DEF SourceInv
    <3>4. \A v, w \in Version : v <= w /\ w < latest' => until'[v] <= until'[w]
      <4> SUFFICES ASSUME NEW v \in Version, NEW w \in Version, v <= w, w < latest'
                   PROVE  until'[v] <= until'[w]
        OBVIOUS
      <4>1. CASE w < latest
        BY <1>1, <1>3, <3>1, <3>2, <4>1 DEF SourceInv
      <4>2. CASE w = latest
        BY <3>1, <3>2, <3>3, <4>2
      <4>3. QED
        BY <1>3, <3>1, <3>2, <4>1, <4>2
    <3>5. QED
      BY <3>1, <3>3, <3>4 DEF SourceInv
  <2>3. QED
    BY <2>1, <2>2
<1>5. HolderInv'
  <2>1. held.ver \in Nat /\ held.highAt \in Nat
    BY HeldTypes, AccessAssumption
  <2>2. QED
    BY <1>1, <1>2, <1>3, <2>1 DEF HolderInv
<1>6. AnswerInv'
  <2>1. ans.ver \in Nat /\ sent \in Nat
    BY HeldTypes, AccessAssumption DEF AccessTypeOK, Version
  <2>2. QED
    BY <1>1, <1>2, <1>3, <2>1 DEF AnswerInv
<1>7. RequestInv'
  <2>1. \A q \in Request : evidence[q].ver \in Nat /\ evidence[q].at \in Nat
    BY AccessAssumption DEF AccessTypeOK, Evidence
  <2>2. QED
    BY <1>1, <1>2, <1>3, <2>1 DEF RequestInv
<1>8. QED
  BY <1>4, <1>5, <1>6, <1>7 DEF AccessInv

\* The holder's steps and the answers it gets keep the invariant.
LEMMA HolderStep ==
  ASSUME AccessTypeOK, AccessInv, Answers \/ SendVerify \/ VerifyFails \/ Apply
  PROVE  AccessInv'
<1>1. SourceInv /\ HolderInv /\ AnswerInv /\ RequestInv
  BY DEF AccessInv
<1>2. UNCHANGED <<now, latest, until, phase, cutoff, checkedAt, evidence>>
  BY DEF Answers, SendVerify, VerifyFails, Apply, source, request
<1>3. SourceInv' /\ RequestInv' /\ \A v, t : Vouched(v, t) => Vouched(v, t)'
  BY <1>1, <1>2 DEF SourceInv, RequestInv, Vouched
<1>4. /\ held.ver \in 0..MaxVersion /\ held.sentAt \in Nat /\ held.highAt \in Nat
      /\ held.stopped \in BOOLEAN /\ held.suspended \in BOOLEAN /\ held.sourceStale \in BOOLEAN
      /\ ans.ver \in Version /\ ans.gen \in Nat /\ ans.readOnly \in BOOLEAN
  BY HeldTypes
<1>5. now \in Nat /\ latest \in Nat /\ latest >= 1 /\ sent \in Nat
  BY AccessAssumption DEF AccessTypeOK, Version
<1>6. CASE Answers
  <2>1. UNCHANGED <<held, sent>> /\ vpc' = "answered"
    BY <1>6 DEF Answers
  <2>2. HolderInv'
    BY <1>1, <1>3, <1>2, <2>1 DEF HolderInv
  <2>3. \A v : StatusOf(v) = "unchanged" => v = held.ver
    BY DEF StatusOf
  <2>4. AnswerInv'
    <3>1. CASE ans' = [ver |-> latest, gen |-> genOf[latest], readOnly |-> FALSE, status |-> StatusOf(latest)]
      BY <1>1, <1>2, <1>5, <2>1, <2>3, <3>1 DEF AnswerInv, Vouched
    <3>2. ASSUME NEW v \in 1..latest,
                 ans' = [ver |-> v, gen |-> genOf[v], readOnly |-> TRUE, status |-> StatusOf(v)]
          PROVE  AnswerInv'
      BY <1>1, <1>2, <1>5, <2>1, <2>3, <3>2 DEF AnswerInv
    <3>3. ASSUME NEW s \in {"closed", "foreign"},
                 ans' = [ver |-> 1, gen |-> genOf[latest], readOnly |-> FALSE, status |-> s]
          PROVE  AnswerInv'
      BY <1>1, <1>2, <2>1, <3>3 DEF AnswerInv
    <3>4. QED
      BY <1>6, <3>1, <3>2, <3>3 DEF Answers
  <2>5. QED
    BY <1>3, <2>2, <2>4 DEF AccessInv
<1>7. CASE SendVerify
  <2>1. HolderInv'
    BY <1>1, <1>2, <1>3, <1>7 DEF SendVerify, HolderInv, NoShard
  <2>2. AnswerInv'
    BY <1>2, <1>5, <1>7 DEF SendVerify, AnswerInv
  <2>3. QED
    BY <1>3, <2>1, <2>2 DEF AccessInv
<1>8. CASE VerifyFails
  <2>1. HolderInv'
    BY <1>1, <1>2, <1>3, <1>8 DEF VerifyFails, HolderInv
  <2>2. AnswerInv'
    BY <1>2, <1>5, <1>8 DEF VerifyFails, AnswerInv
  <2>3. QED
    BY <1>3, <2>1, <2>2 DEF AccessInv
<1>9. CASE Apply
  <2> DEFINE Good(h) == /\ h.ver = 0 => h.highAt = 0
                        /\ h.ver # 0 => h.ver <= latest
                        /\ h.highAt # 0 => Vouched(h.ver, h.highAt)
                        /\ ~h.sourceStale => h.highAt = h.sentAt
  <2>1. AnswerInv'
    BY <1>2, <1>5, <1>9 DEF Apply, AnswerInv
  <2>2. Good(held) /\ Good(NoShard) /\ held \in Held /\ NoShard \in Held
    BY <1>1, AccessAssumption DEF HolderInv, AccessTypeOK, NoShard, Held
  <2>3. ASSUME NEW h \in Held, Good(h), h.ver # 0
        PROVE  /\ Good([h EXCEPT !.sourceStale = TRUE])
               /\ Good([h EXCEPT !.stopped = TRUE])
               /\ Good([h EXCEPT !.suspended = TRUE])
    BY <2>3 DEF Held
  <2>4. ASSUME NEW h \in Held, Good(h), h.ver = ans.ver \/ h.ver = 0, ~Rollback, h.ver # 0,
               ans.status = "unchanged"
        PROVE  Good(Renewed(h))
    <3>1. ans.ver <= latest /\ (~ans.readOnly => Vouched(ans.ver, sent))
      BY <1>1, <1>9, <2>4 DEF Apply, AnswerInv
    <3>2. QED
      BY <1>4, <2>4, <3>1 DEF Renewed, Held
  <2>5. ASSUME NEW h \in Held, Good(h), ans.status = "changed", ~GoesBack(h)
        PROVE  Good(Replaced(h))
    <3>1. ans.ver <= latest /\ (~ans.readOnly => Vouched(ans.ver, sent)) /\ ans.ver \in Nat /\ ans.ver # 0
      BY <1>1, <1>4, <1>9, <2>5 DEF Apply, AnswerInv, Version
    <3>2. h.highAt # 0 => Vouched(ans.ver, h.highAt)
      <4> HAVE h.highAt # 0
      <4>1. h.ver \in Nat /\ h.highAt \in Nat /\ Vouched(h.ver, h.highAt) /\ h.ver <= ans.ver
        BY <2>5, <3>1, AccessAssumption DEF Held, GoesBack
      <4>2. QED
        BY <1>1, <3>1, <4>1, VouchedLater
    <3>3. QED
      BY <1>4, <3>1, <3>2 DEF Replaced
  <2>6. ASSUME NEW h \in Held, Good(h), h.ver = ans.ver \/ h.ver = 0 \/ ans.status # "unchanged", ~Rollback
        PROVE  Good(Applied(h))
    <3>1. CASE h.stopped
      BY <2>3, <2>6, <3>1 DEF Applied, Held
    <3>2. CASE ~h.stopped /\ ans.status = "unchanged"
      <4>1. Applied(h) = IF h.ver = 0 THEN h ELSE Renewed(h)
        BY <3>2 DEF Applied
      <4>2. QED
        BY <2>4, <2>6, <3>2, <4>1
    <3>3. CASE ~h.stopped /\ ans.status = "changed"
      <4>1. Applied(h) = IF GoesBack(h) THEN [h EXCEPT !.stopped = TRUE] ELSE Replaced(h)
        BY <3>3 DEF Applied
      <4>2. GoesBack(h) => h.ver # 0
        BY <1>4, AccessAssumption DEF GoesBack, Version
      <4>3. QED
        BY <2>3, <2>5, <2>6, <3>3, <4>1, <4>2
    <3>4. CASE ~h.stopped /\ ans.status \notin {"unchanged", "changed"}
      <4>1. Applied(h) = IF h.ver = 0 THEN h ELSE [h EXCEPT !.sourceStale = TRUE]
        BY <3>4 DEF Applied
      <4>2. QED
        BY <2>3, <2>6, <4>1
    <3>5. QED
      BY <3>1, <3>2, <3>3, <3>4
  <2>7. ans.status = "unchanged" => ans.ver = held.ver
    BY <1>1, <1>9 DEF Apply, AnswerInv
  <2>8. NoShard.ver = 0
    BY DEF NoShard
  <2>9. Good(held')
    <3>1. CASE Rollback
      BY <1>9, <2>2, <2>3, <3>1 DEF Apply
    <3>2. CASE ~Rollback
      <4>1. held' = Applied(IF ans.gen > recovery THEN NoShard ELSE held)
        BY <1>9, <3>2 DEF Apply
      <4> HIDE DEF Good
      <4>2. QED
        BY <2>2, <2>6, <2>7, <2>8, <3>2, <4>1
    <3>3. QED
      BY <3>1, <3>2
  <2>10. HolderInv'
    BY <1>2, <1>3, <2>9 DEF HolderInv
  <2>11. QED
    BY <1>3, <2>1, <2>10 DEF AccessInv
<1>10. QED
  BY <1>6, <1>7, <1>8, <1>9

\* A request's own steps keep the invariant.
LEMMA RequestStep ==
  ASSUME AccessTypeOK, AccessInv, NEW q \in Request,
         Admit(q) \/ Decide(q) \/ CheckCutoff(q) \/ EndTransaction(q)
  PROVE  AccessInv'
<1>1. SourceInv /\ HolderInv /\ AnswerInv /\ RequestInv
  BY DEF AccessInv
<1>2. UNCHANGED <<now, latest, until, held, vpc, sent, ans>>
  BY DEF Admit, Decide, CheckCutoff, EndTransaction, source, holder
<1>3. SourceInv' /\ HolderInv' /\ AnswerInv'
  BY <1>1, <1>2 DEF SourceInv, HolderInv, AnswerInv, Vouched
<1> DEFINE Ground(e, c) == /\ e.kind \in {"view", "stale"} => Vouched(e.ver, e.at)
                           /\ e.kind = "view" => c <= e.at + e.window
                           /\ e.kind = "token" => c <= e.at
<1>4. ASSUME NEW e \in Evidence, NEW c \in Nat, NEW d \in Nat, Ground(e, c)
      PROVE  Ground(e, Earlier(c, d)) /\ Ground(e, Earlier(d, c))
  <2>1. e.at \in Nat /\ e.window \in Nat
    BY DEF Evidence
  <2>2. Earlier(c, d) \in Nat /\ Earlier(c, d) <= c /\ Earlier(d, c) \in Nat /\ Earlier(d, c) <= c
    BY DEF Earlier
  <2>3. QED
    BY <1>4, <2>1, <2>2
<1>5. ASSUME NEW c, NEW e, Ground(e, c), phase'[q] # "checked",
             cutoff' = [cutoff EXCEPT ![q] = c],
             evidence' = [evidence EXCEPT ![q] = e],
             \A r \in Request : r # q => phase'[r] = phase[r] /\ checkedAt'[r] = checkedAt[r]
      PROVE  RequestInv'
  <2>1. \A r \in Request : Ground(evidence'[r], cutoff'[r]) /\ (phase'[r] = "checked" => checkedAt'[r] < cutoff'[r])
    <3> SUFFICES ASSUME NEW r \in Request
                 PROVE  Ground(evidence'[r], cutoff'[r]) /\ (phase'[r] = "checked" => checkedAt'[r] < cutoff'[r])
      OBVIOUS
    <3>1. CASE r = q
      <4>1. evidence'[r] = e /\ cutoff'[r] = c
        BY <1>5, <3>1 DEF AccessTypeOK
      <4> HIDE DEF Ground
      <4>2. QED
        BY <1>5, <3>1, <4>1
    <3>2. CASE r # q
      <4>1. evidence'[r] = evidence[r] /\ cutoff'[r] = cutoff[r] /\ phase'[r] = phase[r] /\ checkedAt'[r] = checkedAt[r]
        BY <1>5, <3>2 DEF AccessTypeOK
      <4>2. Ground(evidence[r], cutoff[r]) /\ (phase[r] = "checked" => checkedAt[r] < cutoff[r])
        BY <1>1 DEF RequestInv
      <4> HIDE DEF Ground
      <4>3. QED
        BY <4>1, <4>2
    <3>3. QED
      BY <3>1, <3>2
  <2>2. QED
    BY <1>2, <2>1 DEF RequestInv, Vouched
<1>6. CASE Admit(q)
  <2>1. PICK high \in BOOLEAN, tightening \in BOOLEAN, left \in TokenLife :
          \E g \in Grants(high, tightening) :
            /\ cutoff' = [cutoff EXCEPT ![q] = AdmittedUntil(now + left, g)]
            /\ \E e \in {g.evidence, TokenUntil(now + left)} : evidence' = [evidence EXCEPT ![q] = e]
    BY <1>6 DEF Admit
  <2>2. PICK g \in Grants(high, tightening) :
          /\ cutoff' = [cutoff EXCEPT ![q] = AdmittedUntil(now + left, g)]
          /\ \E e \in {g.evidence, TokenUntil(now + left)} : evidence' = [evidence EXCEPT ![q] = e]
    BY <2>1
  <2>3. g.cutoff \in Nat /\ g.evidence \in Evidence /\ now + left \in Nat
    BY GrantTypes, AccessAssumption DEF AccessTypeOK
  <2>4. Ground(g.evidence, g.cutoff)
    BY GrantSound
  <2>5. Ground(TokenUntil(now + left), now + left) /\ TokenUntil(now + left) \in Evidence
    BY <2>3, AccessAssumption DEF TokenUntil, Evidence
  <2>6. phase'[q] # "checked" /\ \A r \in Request : r # q => phase'[r] = phase[r] /\ checkedAt'[r] = checkedAt[r]
    BY <1>6 DEF Admit, AccessTypeOK
  <2> HIDE DEF Ground
  <2>7. /\ Ground(g.evidence, Earlier(now + left, g.cutoff))
        /\ Ground(TokenUntil(now + left), Earlier(now + left, g.cutoff))
    BY <1>4, <2>3, <2>4, <2>5
  <2>8. RequestInv'
    BY <1>5, <2>2, <2>6, <2>7 DEF AdmittedUntil
  <2>9. QED
    BY <1>3, <2>8 DEF AccessInv
<1>7. CASE Decide(q)
  <2>1. PICK high \in BOOLEAN, tightening \in BOOLEAN : \E g \in Grants(high, tightening) :
          /\ cutoff' = [cutoff EXCEPT ![q] = Earlier(@, g.cutoff)]
          /\ evidence' \in {evidence, [evidence EXCEPT ![q] = g.evidence]}
    BY <1>7 DEF Decide
  <2>2. PICK g \in Grants(high, tightening) :
          /\ cutoff' = [cutoff EXCEPT ![q] = Earlier(@, g.cutoff)]
          /\ evidence' \in {evidence, [evidence EXCEPT ![q] = g.evidence]}
    BY <2>1
  <2>3. g.cutoff \in Nat /\ g.evidence \in Evidence
    BY GrantTypes
  <2>4. Ground(g.evidence, g.cutoff)
    BY GrantSound
  <2>5. phase'[q] # "checked" /\ \A r \in Request : r # q => phase'[r] = phase[r] /\ checkedAt'[r] = checkedAt[r]
    BY <1>7 DEF Decide
  <2>6. evidence = [evidence EXCEPT ![q] = evidence[q]] /\ cutoff' = [cutoff EXCEPT ![q] = Earlier(cutoff[q], g.cutoff)]
    BY <2>2 DEF AccessTypeOK
  <2>7. /\ Ground(g.evidence, Earlier(cutoff[q], g.cutoff))
        /\ Ground(evidence[q], Earlier(cutoff[q], g.cutoff))
    <3>1. Ground(evidence[q], cutoff[q]) /\ cutoff[q] \in Nat /\ evidence[q] \in Evidence
      BY <1>1 DEF RequestInv, AccessTypeOK
    <3> HIDE DEF Ground
    <3>2. QED
      BY <1>4, <2>3, <2>4, <3>1
  <2> HIDE DEF Ground
  <2>8. PICK e \in {evidence[q], g.evidence} : evidence' = [evidence EXCEPT ![q] = e]
    BY <2>2, <2>6
  <2>9. RequestInv'
    BY <1>5, <2>5, <2>6, <2>7, <2>8
  <2>10. QED
    BY <1>3, <2>9 DEF AccessInv
<1>8. CASE CheckCutoff(q)
  <2>1. /\ now < cutoff[q] /\ UNCHANGED <<cutoff, evidence>>
        /\ phase' = [phase EXCEPT ![q] = "checked"] /\ checkedAt' = [checkedAt EXCEPT ![q] = now]
    BY <1>8 DEF CheckCutoff
  <2>2. RequestInv'
    BY <1>1, <1>2, <2>1 DEF RequestInv, Vouched, AccessTypeOK
  <2>3. QED
    BY <1>3, <2>2 DEF AccessInv
<1>9. CASE EndTransaction(q)
  <2>1. /\ UNCHANGED <<cutoff, evidence>>
        /\ phase' = [phase EXCEPT ![q] = "admitted"] /\ checkedAt' = [checkedAt EXCEPT ![q] = 0]
    BY <1>9 DEF EndTransaction
  <2>2. RequestInv'
    BY <1>1, <1>2, <2>1 DEF RequestInv, Vouched, AccessTypeOK
  <2>3. QED
    BY <1>3, <2>2 DEF AccessInv
<1>10. QED
  BY <1>6, <1>7, <1>8, <1>9

\* The invariant holds always.
LEMMA Invariance == AccessSpec => [](AccessTypeOK /\ AccessInv)
<1>1. AccessInit => AccessInv
  <2> SUFFICES ASSUME AccessInit PROVE AccessInv
    OBVIOUS
  <2>1. SourceInv
    BY AccessAssumption DEF AccessInit, SourceInv, Version
  <2>2. HolderInv /\ AnswerInv
    BY DEF AccessInit, HolderInv, AnswerInv, NoShard
  <2>3. RequestInv
    BY DEF AccessInit, RequestInv, NoEvidence
  <2>4. QED
    BY <2>1, <2>2, <2>3 DEF AccessInv
<1>2. AccessTypeOK /\ AccessInv /\ [AccessNext]_accessVars => AccessInv'
  <2> SUFFICES ASSUME AccessTypeOK, AccessInv, [AccessNext]_accessVars PROVE AccessInv'
    OBVIOUS
  <2>1. CASE UNCHANGED accessVars
    BY <2>1 DEF accessVars, source, holder, request, AccessInv, SourceInv, HolderInv, AnswerInv, RequestInv, Vouched
  <2>2. CASE AccessNext
    BY <2>2, SourceStep, HolderStep, RequestStep DEF AccessNext, Commit, Abort
  <2>3. QED
    BY <2>1, <2>2
<1>3. QED
  BY <1>1, <1>2, TypeCorrect, PTL DEF AccessSpec

\* No commit of a request relies on a view that was superseded longer ago than
\* its window and the commit window: for all windows, any number of requests,
\* and whatever answers the holder (Holder.apply) gets or misses.
THEOREM RevocationIsBounded == AccessSpec => RevocationBounded
<1>1. AccessTypeOK /\ AccessInv /\ [AccessNext]_accessVars =>
        [\A q \in Request :
           Commit(q) /\ evidence[q].kind = "view" /\ Superseded(evidence[q]) =>
             now < until[evidence[q].ver] + evidence[q].window + CommitWindow]_accessVars
  <2> SUFFICES ASSUME AccessTypeOK, AccessInv, NEW q \in Request,
                      Commit(q), evidence[q].kind = "view", Superseded(evidence[q])
               PROVE  now < until[evidence[q].ver] + evidence[q].window + CommitWindow
    OBVIOUS
  <2> DEFINE e == evidence[q]
  <2>1. /\ e.at \in Nat /\ e.window \in Nat /\ e.ver \in Version /\ e.ver < latest
        /\ now \in Nat /\ checkedAt[q] \in Nat /\ cutoff[q] \in Nat /\ CommitWindow \in Nat
    BY AccessAssumption DEF AccessTypeOK, Evidence, Superseded, Version
  <2>2. until[e.ver] \in Nat
    BY <2>1 DEF AccessTypeOK
  <2>3. now <= checkedAt[q] + CommitWindow /\ phase[q] = "checked"
    BY DEF Commit, EndTransaction
  <2>4. checkedAt[q] < cutoff[q] /\ cutoff[q] <= e.at + e.window /\ e.at <= until[e.ver]
    BY <2>1, <2>3 DEF AccessInv, RequestInv, Vouched
  <2>5. QED
    BY <2>1, <2>2, <2>3, <2>4
<1>2. QED
  BY <1>1, Invariance, PTL DEF AccessSpec, RevocationBounded

\* No commit of a request follows its token's expiry by more than the commit
\* window (UserGuard.admit, reqctx, DB._in_tx).
THEOREM ExpiryIsBounded == AccessSpec => ExpiryBounded
<1>1. AccessTypeOK /\ AccessInv /\ [AccessNext]_accessVars =>
        [\A q \in Request :
           Commit(q) /\ evidence[q].kind = "token" => now < evidence[q].at + CommitWindow]_accessVars
  <2> SUFFICES ASSUME AccessTypeOK, AccessInv, NEW q \in Request, Commit(q), evidence[q].kind = "token"
               PROVE  now < evidence[q].at + CommitWindow
    OBVIOUS
  <2>1. /\ evidence[q].at \in Nat /\ now \in Nat /\ checkedAt[q] \in Nat /\ cutoff[q] \in Nat
        /\ CommitWindow \in Nat
    BY AccessAssumption DEF AccessTypeOK, Evidence
  <2>2. now <= checkedAt[q] + CommitWindow /\ phase[q] = "checked"
    BY DEF Commit, EndTransaction
  <2>3. checkedAt[q] < cutoff[q] /\ cutoff[q] <= evidence[q].at
    BY <2>2 DEF AccessInv, RequestInv
  <2>4. QED
    BY <2>1, <2>2, <2>3
<1>2. QED
  BY <1>1, Invariance, PTL DEF AccessSpec, ExpiryBounded

\* The basis a stale decision tells (Holder.lookup_stale) is a time at which its
\* view was not superseded.
THEOREM BasisIsHonest == AccessSpec => []BasisHonest
<1>1. AccessTypeOK /\ AccessInv => BasisHonest
  <2> SUFFICES ASSUME AccessTypeOK, AccessInv, NEW q \in Request,
                      evidence[q].kind = "stale", Superseded(evidence[q])
               PROVE  evidence[q].at <= until[evidence[q].ver]
    BY DEF BasisHonest
  <2>1. evidence[q].ver < latest
    BY DEF Superseded, AccessTypeOK, Version
  <2>2. QED
    BY <2>1 DEF AccessInv, RequestInv, Vouched
<1>2. QED
  BY <1>1, Invariance, PTL
=============================================================================
