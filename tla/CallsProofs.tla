---------------------------- MODULE CallsProofs ----------------------------
(***************************************************************************)
(* Proofs about the outbound calls, for any number of callers and any      *)
(* limits: type correctness, one trial at a time, an exact limit, and that *)
(* a half-open breaker heeds trials alone.                                 *)
(***************************************************************************)
EXTENDS Calls, FiniteSetTheorems, TLAPS

\* The breaker's types need to know that a half-open breaker still wants
\* successes.
TrialsWanted == breaker.state = "half_open" => breaker.trialOk < TrialsToClose

\* What the breaker's operations return.
LEMMA StartedType ==
  ASSUME NEW b \in BreakerType, NEW c \in Caller,
         b.state = "half_open" => b.trialOk < TrialsToClose
  PROVE  /\ Started(b, c) \in BreakerType
         /\ Started(b, c).state = "half_open" =>
              Started(b, c).trialOk < TrialsToClose /\ Started(b, c).trial = c
<1> DEFINE h == [b EXCEPT !.state = "half_open", !.trial = NoOne, !.trialOk = 0]
           H == HalfOpened(b)
           s == [H EXCEPT !.trial = c]
<1>1. 0 \in 0..TrialsToClose /\ 0 < TrialsToClose
  BY CallsAssumption
<1>2. h \in BreakerType /\ h.trialOk = 0
  BY <1>1 DEF BreakerType
<1>3. H \in BreakerType /\ (H.state = "half_open" => H.trialOk < TrialsToClose)
  <2>1. H = h \/ H = b
    BY DEF HalfOpened
  <2> HIDE DEF H, h
  <2>2. QED
    BY <1>1, <1>2, <2>1
<1> HIDE DEF H
<1>4. s \in BreakerType /\ s.state = H.state /\ s.trialOk = H.trialOk /\ s.trial = c
  BY <1>3 DEF BreakerType
<1>5. Started(b, c) = IF H.state = "half_open" THEN s ELSE H
  BY DEF Started, H
<1> HIDE DEF s
<1>6. QED
  BY <1>3, <1>4, <1>5

LEMMA TrialEndedType ==
  ASSUME NEW b \in BreakerType, NEW o, b.state = "half_open", b.trialOk < TrialsToClose
  PROVE  /\ TrialEnded(b, o) \in BreakerType
         /\ TrialEnded(b, o).trial = NoOne
         /\ TrialEnded(b, o).state = "half_open" => TrialEnded(b, o).trialOk < TrialsToClose
<1> DEFINE ok == b.trialOk + 1
           longer == Least(2 * b.openFor, OpenMax)
           opened == [b EXCEPT !.state = "open", !.period = "running", !.trial = NoOne,
                               !.trialOk = 0, !.openFor = longer]
           closed == [b EXCEPT !.state = "closed", !.window = <<>>, !.openFor = OpenFirst,
                               !.trial = NoOne, !.trialOk = ok]
           counted == [b EXCEPT !.trial = NoOne, !.trialOk = ok]
           freed == [b EXCEPT !.trial = NoOne]
<1>1. longer \in OpenFirst..OpenMax /\ OpenFirst \in OpenFirst..OpenMax
  BY CallsAssumption DEF Least, BreakerType
<1>2. ok \in 0..TrialsToClose /\ 0 \in 0..TrialsToClose
  BY CallsAssumption DEF BreakerType
<1>3. \/ o = "failure" /\ TrialEnded(b, o) = opened
      \/ o = "success" /\ ok >= TrialsToClose /\ TrialEnded(b, o) = closed
      \/ o = "success" /\ ok < TrialsToClose /\ TrialEnded(b, o) = counted
      \/ o \notin {"failure", "success"} /\ TrialEnded(b, o) = freed
  BY <1>2, CallsAssumption DEF TrialEnded
<1> HIDE DEF longer, ok
<1>4. opened \in BreakerType /\ opened.state = "open" /\ opened.trial = NoOne
  BY <1>1, <1>2 DEF BreakerType
<1>5. closed \in BreakerType /\ closed.state = "closed" /\ closed.trial = NoOne
  <2>1. <<>> \in Seq({"failure", "success"})
    OBVIOUS
  <2>2. QED
    BY <1>1, <1>2, <2>1 DEF BreakerType
<1>6. counted \in BreakerType /\ counted.trialOk = ok /\ counted.trial = NoOne
  BY <1>2 DEF BreakerType
<1>7. freed \in BreakerType /\ freed.trialOk = b.trialOk /\ freed.trial = NoOne
  BY DEF BreakerType
<1> HIDE DEF opened, closed, counted, freed
<1>8. QED
  BY <1>3, <1>4, <1>5, <1>6, <1>7

LEMMA CountedType ==
  ASSUME NEW b \in BreakerType, NEW o \in {"failure", "success"}, b.state = "closed"
  PROVE  /\ Counted(b, o) \in BreakerType
         /\ Counted(b, o).state # "half_open"
<1> DEFINE all == Append(b.window, o)
           w == IF Len(all) > Window THEN Tail(all) ELSE all
           opened == [b EXCEPT !.state = "open", !.period = "running", !.window = <<>>]
           slid == [b EXCEPT !.window = w]
<1>1. b.window \in Seq({"failure", "success"})
  BY DEF BreakerType
<1>2. all \in Seq({"failure", "success"}) /\ all # <<>>
  BY <1>1
<1>3. w \in Seq({"failure", "success"})
  BY <1>2
<1>4. Counted(b, o) = opened \/ Counted(b, o) = slid
  BY DEF Counted
<1> HIDE DEF w
<1>5. opened \in BreakerType /\ opened.state = "open"
  <2>1. <<>> \in Seq({"failure", "success"})
    OBVIOUS
  <2>2. QED
    BY <2>1 DEF BreakerType
<1>6. slid \in BreakerType /\ slid.state = "closed"
  BY <1>3 DEF BreakerType
<1> HIDE DEF opened, slid
<1>7. QED
  BY <1>4, <1>5, <1>6

LEMMA EndedType ==
  ASSUME NEW b \in BreakerType, NEW c \in Caller, NEW o \in {"success", "failure", "ignored"},
         b.state = "half_open" => b.trialOk < TrialsToClose
  PROVE  /\ Ended(b, c, o) \in BreakerType
         /\ Ended(b, c, o).state = "half_open" => Ended(b, c, o).trialOk < TrialsToClose
         /\ b.state = "half_open" /\ b.trial = c => Ended(b, c, o).trial = NoOne
         /\ b.state = "half_open" /\ b.trial # c => Ended(b, c, o) = b
         /\ b.state # "half_open" => Ended(b, c, o).state # "half_open"
<1>1. CASE b.state = "half_open" /\ b.trial = c
  <2>1. Ended(b, c, o) = TrialEnded(b, o)
    BY <1>1 DEF Ended
  <2>2. QED
    BY <1>1, <2>1, TrialEndedType
<1>2. CASE b.state = "closed" /\ o # "ignored"
  <2>1. Ended(b, c, o) = Counted(b, o)
    BY <1>2 DEF Ended
  <2>2. QED
    BY <1>2, <2>1, CountedType
<1>3. CASE ~(b.state = "half_open" /\ b.trial = c) /\ ~(b.state = "closed" /\ o # "ignored")
  <2>1. Ended(b, c, o) = b
    BY <1>3 DEF Ended
  <2>2. QED
    BY <1>3, <2>1
<1>4. QED
  BY <1>1, <1>2, <1>3

LEMMA OutcomeType ==
  ASSUME NEW cls
  PROVE  BreakerOutcome(cls) \in {"success", "failure", "ignored"}
  BY DEF BreakerOutcome

LEMMA RecordedType ==
  ASSUME NEW t \in 0..BudgetMax, NEW cls
  PROVE  Recorded(t, cls) \in 0..BudgetMax
<1>1. CASE cls = "success"
  BY <1>1, CallsAssumption DEF Recorded, Least
<1>2. CASE cls # "success" /\ DependencyUnavailable(cls)
  BY <1>2, CallsAssumption DEF Recorded
<1>3. CASE cls # "success" /\ ~DependencyUnavailable(cls)
  BY <1>3 DEF Recorded
<1>4. QED
  BY <1>1, <1>2, <1>3

LEMMA Typing == Spec => [](TypeOK /\ TrialsWanted)
<1>1. Init => TypeOK /\ TrialsWanted
  BY CallsAssumption DEF Init, TypeOK, TrialsWanted, BreakerType
<1>2. TypeOK /\ TrialsWanted /\ [Next]_vars => TypeOK' /\ TrialsWanted'
  <2> SUFFICES ASSUME TypeOK, TrialsWanted, [Next]_vars PROVE TypeOK' /\ TrialsWanted'
    OBVIOUS
  <2>1. ASSUME NEW c \in Caller, Begin(c) PROVE TypeOK' /\ TrialsWanted'
    BY <2>1 DEF Begin, TypeOK, TrialsWanted
  <2>2. ASSUME NEW c \in Caller, NoTime(c) \/ Rejected(c) \/ Cancel(c) \/ TimePasses(c)
        PROVE  TypeOK' /\ TrialsWanted'
    <3>1. inFlight' \in Int /\ pc' \in [Caller -> {"idle", "next", "sent"}]
      BY <2>2 DEF NoTime, Rejected, Cancel, TimePasses, Finish, TypeOK
    <3>2. late' \in [Caller -> BOOLEAN] /\ asTrial' \in [Caller -> BOOLEAN]
      BY <2>2, Zenon DEF NoTime, Rejected, Cancel, TimePasses, TypeOK
    <3>3. UNCHANGED <<breaker, tokens, n, idem, healthy>>
      BY <2>2 DEF NoTime, Rejected, Cancel, TimePasses
    <3>4. QED
      BY <3>1, <3>2, <3>3 DEF TypeOK, TrialsWanted
  <2>3. ASSUME NEW c \in Caller, Send(c) PROVE TypeOK' /\ TrialsWanted'
    <3>1. UNCHANGED breaker \/ breaker' = Started(breaker, c)
      BY <2>3 DEF Send
    <3>2. breaker' \in BreakerType /\ TrialsWanted'
      BY <3>1, StartedType DEF TypeOK, TrialsWanted
    <3>3. asTrial' \in [Caller -> BOOLEAN]
      <4>1. (breaker'.state = "half_open") \in BOOLEAN
        OBVIOUS
      <4>2. QED
        BY <2>3, <4>1, Zenon DEF Send, TypeOK
    <3>4. pc' \in [Caller -> {"idle", "next", "sent"}] /\ n' \in [Caller -> Nat]
      BY <2>3 DEF Send, TypeOK
    <3>5. UNCHANGED <<tokens, inFlight, idem, late, healthy>>
      BY <2>3 DEF Send
    <3>6. QED
      BY <3>2, <3>3, <3>4, <3>5 DEF TypeOK
  <2>4. ASSUME NEW c \in Caller, NEW cls \in Class, Answered(c, cls)
        PROVE  TypeOK' /\ TrialsWanted'
    <3>1. UNCHANGED breaker \/ breaker' = Ended(breaker, c, BreakerOutcome(cls))
      BY <2>4 DEF Answered
    <3>2. breaker' \in BreakerType /\ TrialsWanted'
      <4>1. BreakerOutcome(cls) \in {"success", "failure", "ignored"}
        BY OutcomeType
      <4>2. breaker \in BreakerType /\ (breaker.state = "half_open" => breaker.trialOk < TrialsToClose)
        BY DEF TypeOK, TrialsWanted
      <4>3. CASE UNCHANGED breaker
        BY <4>2, <4>3 DEF TrialsWanted
      <4>4. CASE breaker' = Ended(breaker, c, BreakerOutcome(cls))
        BY <4>1, <4>2, <4>4, EndedType DEF TrialsWanted
      <4>5. QED
        BY <3>1, <4>3, <4>4
    <3>3. tokens' \in 0..BudgetMax
      BY <2>4, RecordedType DEF Answered, TypeOK
    <3>4. QED
      BY <2>4, <3>2, <3>3 DEF Answered, Finish, TypeOK
  <2>5. CASE OpenPeriodPasses
    BY <2>5 DEF OpenPeriodPasses, TypeOK, TrialsWanted, BreakerType
  <2>6. CASE HealthChanges
    BY <2>6 DEF HealthChanges, TypeOK, TrialsWanted
  <2>7. CASE UNCHANGED vars
    BY <2>7 DEF vars, TypeOK, TrialsWanted
  <2>8. QED
    BY <2>1, <2>2, <2>3, <2>4, <2>5, <2>6, <2>7 DEF Next, CallStep
<1>3. QED
  BY <1>1, <1>2, PTL DEF Spec

\* Type correctness of the outbound calls: the breaker, the budget and the
\* limit keep their ranges (policy.py, Dependency.do).
THEOREM CallsTypes == Spec => []TypeOK
<1>1. TypeOK /\ TrialsWanted => TypeOK
  OBVIOUS
<1>2. QED
  BY <1>1, Typing, PTL

-----------------------------------------------------------------------------
\* An attempt that was admitted as a trial is on the wire, went through the
\* breaker and holds the slot of the half-open breaker.
TrialHolds ==
  \A c \in Caller : asTrial[c] =>
    /\ pc[c] = "sent"
    /\ c \notin Background
    /\ breaker.state = "half_open" /\ breaker.trial = c

\* What Send does with the breaker.
LEMMA SendStarts ==
  ASSUME TypeOK, TrialsWanted, TrialHolds, NEW c \in Caller, Send(c), c \notin Background
  PROVE  /\ breaker' \in BreakerType
         /\ breaker'.state = "half_open" => breaker'.trial = c
         /\ asTrial'[c] = (breaker'.state = "half_open")
         /\ \A d \in Caller : ~asTrial[d]
         /\ \A d \in Caller \ {c} : asTrial'[d] = asTrial[d] /\ pc'[d] = pc[d]
         /\ pc'[c] = "sent"
<1>1. breaker' = Started(breaker, c) /\ Admits(breaker)
  BY DEF Send
<1>2. breaker' \in BreakerType /\ (breaker'.state = "half_open" => breaker'.trial = c)
  <2>1. breaker \in BreakerType /\ (breaker.state = "half_open" => breaker.trialOk < TrialsToClose)
    BY DEF TypeOK, TrialsWanted
  <2>2. QED
    BY <1>1, <2>1, StartedType
<1>3. asTrial' = [asTrial EXCEPT ![c] = (breaker'.state = "half_open")]
  BY DEF Send
<1>4. pc' = [pc EXCEPT ![c] = "sent"]
  BY DEF Send
<1>5. ASSUME NEW d \in Caller, asTrial[d] PROVE FALSE
  <2>1. breaker.state = "half_open" /\ breaker.trial = d /\ d # NoOne
    BY <1>5, CallsAssumption DEF TrialHolds
  <2>2. QED
    BY <1>1, <2>1 DEF Admits, HalfOpened
<1>6. asTrial'[c] = (breaker'.state = "half_open")
      /\ \A d \in Caller \ {c} : asTrial'[d] = asTrial[d]
  BY <1>3 DEF TypeOK
<1>7. pc'[c] = "sent" /\ \A d \in Caller \ {c} : pc'[d] = pc[d]
  BY <1>4 DEF TypeOK
<1>8. QED
  BY <1>2, <1>5, <1>6, <1>7

\* What an answer does with the breaker.
LEMMA AnswerEnds ==
  ASSUME TypeOK, TrialsWanted, NEW c \in Caller, NEW cls \in Class, Answered(c, cls)
  PROVE  /\ c \in Background => breaker' = breaker
         /\ c \notin Background =>
              /\ breaker.state = "half_open" /\ breaker.trial = c => breaker'.trial = NoOne
              /\ breaker.state = "half_open" /\ breaker.trial # c => breaker' = breaker
              /\ breaker.state # "half_open" => breaker'.state # "half_open"
         /\ ~asTrial'[c]
         /\ \A d \in Caller \ {c} : asTrial'[d] = asTrial[d] /\ pc'[d] = pc[d]
<1>1. breaker \in BreakerType /\ (breaker.state = "half_open" => breaker.trialOk < TrialsToClose)
  BY DEF TypeOK, TrialsWanted
<1>2. BreakerOutcome(cls) \in {"success", "failure", "ignored"}
  BY OutcomeType
<1>3. c \notin Background => breaker' = Ended(breaker, c, BreakerOutcome(cls))
  BY DEF Answered
<1>4. c \in Background => breaker' = breaker
  BY DEF Answered
<1>5. asTrial' = [asTrial EXCEPT ![c] = FALSE]
  BY DEF Answered
<1>6. pc' = [pc EXCEPT ![c] = "next"] \/ pc' = [pc EXCEPT ![c] = "idle"]
  BY DEF Answered, Finish
<1>7. ~asTrial'[c] /\ \A d \in Caller \ {c} : asTrial'[d] = asTrial[d]
  BY <1>5 DEF TypeOK
<1>8. \A d \in Caller \ {c} : pc'[d] = pc[d]
  BY <1>6 DEF TypeOK
<1>9. c \notin Background =>
        /\ breaker.state = "half_open" /\ breaker.trial = c => breaker'.trial = NoOne
        /\ breaker.state = "half_open" /\ breaker.trial # c => breaker' = breaker
        /\ breaker.state # "half_open" => breaker'.state # "half_open"
  BY <1>1, <1>2, <1>3, EndedType
<1>10. QED
  BY <1>4, <1>7, <1>8, <1>9

\* The steps that leave the breaker alone and make no attempt a trial.
LEMMA QuietStep ==
  ASSUME TypeOK, NEW c \in Caller,
         \/ Begin(c) \/ NoTime(c) \/ Rejected(c) \/ TimePasses(c) \/ Cancel(c)
         \/ (Send(c) /\ c \in Background)
  PROVE  /\ UNCHANGED breaker
         /\ \A d \in Caller \ {c} : asTrial'[d] = asTrial[d] /\ pc'[d] = pc[d]
         /\ asTrial'[c] => asTrial[c]
         /\ pc[c] = "sent" /\ ~Cancel(c) => pc'[c] = "sent" /\ asTrial'[c] = asTrial[c]
         /\ Cancel(c) => ~asTrial'[c]
<1>1. UNCHANGED breaker
  BY DEF Begin, NoTime, Rejected, TimePasses, Cancel, Send
<1>2. UNCHANGED asTrial \/ (Cancel(c) /\ asTrial' = [asTrial EXCEPT ![c] = FALSE])
  BY DEF Begin, NoTime, Rejected, TimePasses, Cancel, Send
<1>3. Cancel(c) => asTrial' = [asTrial EXCEPT ![c] = FALSE]
  BY DEF Cancel
<1>4. /\ \A d \in Caller \ {c} : asTrial'[d] = asTrial[d]
      /\ asTrial'[c] => asTrial[c]
      /\ Cancel(c) => ~asTrial'[c]
      /\ ~Cancel(c) => asTrial'[c] = asTrial[c]
  BY <1>2, <1>3 DEF TypeOK
<1>5. /\ \A d \in Caller \ {c} : pc'[d] = pc[d]
      /\ pc[c] = "sent" /\ ~Cancel(c) => pc'[c] = "sent"
  BY DEF Begin, NoTime, Rejected, TimePasses, Cancel, Send, Finish, TypeOK
<1>6. QED
  BY <1>1, <1>4, <1>5

\* The trial of a half-open breaker, as an invariant of every step.
LEMMA TrialStep ==
  ASSUME TypeOK, TrialsWanted, TrialHolds, [Next]_vars
  PROVE  TrialHolds'
<1>1. ASSUME NEW c \in Caller,
             \/ Begin(c) \/ NoTime(c) \/ Rejected(c) \/ TimePasses(c) \/ Cancel(c)
             \/ (Send(c) /\ c \in Background)
      PROVE  TrialHolds'
  <2> SUFFICES ASSUME NEW d \in Caller, asTrial'[d]
               PROVE  pc'[d] = "sent" /\ d \notin Background
                      /\ breaker'.state = "half_open" /\ breaker'.trial = d
    BY DEF TrialHolds
  <2>1. asTrial[d]
    BY <1>1, QuietStep
  <2>2. pc[d] = "sent" /\ d \notin Background
        /\ breaker.state = "half_open" /\ breaker.trial = d
    BY <2>1 DEF TrialHolds
  <2>3. UNCHANGED breaker /\ pc'[d] = "sent"
    BY <1>1, <2>2, QuietStep
  <2>4. QED
    BY <2>2, <2>3
<1>2. ASSUME NEW c \in Caller, Send(c), c \notin Background PROVE TrialHolds'
  BY <1>2, SendStarts DEF TrialHolds
<1>3. ASSUME NEW c \in Caller, NEW cls \in Class, Answered(c, cls) PROVE TrialHolds'
  <2> SUFFICES ASSUME NEW d \in Caller, asTrial'[d]
               PROVE  pc'[d] = "sent" /\ d \notin Background
                      /\ breaker'.state = "half_open" /\ breaker'.trial = d
    BY DEF TrialHolds
  <2>1. d # c /\ asTrial[d] /\ pc'[d] = pc[d]
    BY <1>3, AnswerEnds
  <2>2. pc[d] = "sent" /\ d \notin Background
        /\ breaker.state = "half_open" /\ breaker.trial = d
    BY <2>1 DEF TrialHolds
  <2>3. breaker' = breaker
    BY <1>3, <2>1, <2>2, AnswerEnds
  <2>4. QED
    BY <2>1, <2>2, <2>3
<1>4. CASE OpenPeriodPasses
  <2>1. breaker'.state = breaker.state /\ breaker'.trial = breaker.trial
    BY <1>4 DEF OpenPeriodPasses, TypeOK, BreakerType
  <2>2. UNCHANGED <<asTrial, pc>>
    BY <1>4 DEF OpenPeriodPasses
  <2>3. QED
    BY <2>1, <2>2 DEF TrialHolds
<1>5. CASE HealthChanges
  BY <1>5 DEF HealthChanges, TrialHolds
<1>6. CASE UNCHANGED vars
  BY <1>6 DEF vars, TrialHolds
<1>7. QED
  BY <1>1, <1>2, <1>3, <1>4, <1>5, <1>6 DEF Next, CallStep

\* A half-open breaker never has two trials on the wire: the attempts that
\* Breaker.start admitted as trials and whose Breaker.end is still to come
\* are at most one, whatever late answers and cancellations come between.
THEOREM AtMostOneTrial == Spec => []OneTrial
<1>1. Init => TrialHolds
  BY DEF Init, TrialHolds
<1>2. TypeOK /\ TrialsWanted /\ TrialHolds /\ [Next]_vars => TrialHolds'
  BY TrialStep
<1>3. TypeOK /\ TrialHolds => OneTrial
  <2> SUFFICES ASSUME TypeOK, TrialHolds PROVE OneTrial
    OBVIOUS
  <2> DEFINE T == {c \in Caller : pc[c] = "sent" /\ asTrial[c]}
  <2>1. T \subseteq {breaker.trial}
    BY DEF TrialHolds
  <2>2. IsFiniteSet({breaker.trial}) /\ Cardinality({breaker.trial}) = 1
    BY FS_Singleton
  <2>3. IsFiniteSet(T) /\ Cardinality(T) <= 1
    BY <2>1, <2>2, FS_Subset
  <2>4. QED
    BY <2>3 DEF OneTrial
<1>4. QED
  BY <1>1, <1>2, <1>3, Typing, PTL DEF Spec

\* As long as no calling task is cancelled, the slot of the half-open breaker
\* belongs to an attempt that is still on the wire: it is never lost, so the
\* next attempt after a trial's answer finds it free (Breaker.start and end).
THEOREM TrialSlotKept ==
  ASSUME Cancellable = FALSE
  PROVE  Spec => []TrialSlotIsHeld
<1> DEFINE Slot == breaker.state = "half_open" /\ breaker.trial # NoOne => asTrial[breaker.trial]
           Inv == TypeOK /\ TrialsWanted /\ TrialHolds
<1>1. Init => TrialHolds /\ Slot
  BY DEF Init, TrialHolds
<1>2. Inv /\ Slot /\ [Next]_vars => Slot'
  <2> SUFFICES ASSUME Inv, Slot, [Next]_vars, breaker'.state = "half_open", breaker'.trial # NoOne
               PROVE  asTrial'[breaker'.trial]
    OBVIOUS
  <2>0. breaker.trial \in Caller \cup {NoOne}
    BY DEF TypeOK, BreakerType
  <2>1. ASSUME NEW c \in Caller,
               \/ Begin(c) \/ NoTime(c) \/ Rejected(c) \/ TimePasses(c)
               \/ (Send(c) /\ c \in Background)
        PROVE  asTrial'[breaker'.trial]
    <3>1. UNCHANGED breaker /\ breaker.trial \in Caller /\ asTrial[breaker.trial]
      BY <2>0, <2>1, QuietStep
    <3>2. pc[breaker.trial] = "sent"
      BY <3>1 DEF TrialHolds
    <3>3. ~Cancel(c)
      BY DEF Cancel
    <3>4. QED
      BY <2>1, <3>1, <3>2, <3>3, QuietStep
  <2>2. ASSUME NEW c \in Caller, Send(c), c \notin Background
        PROVE  asTrial'[breaker'.trial]
    BY <2>2, SendStarts
  <2>3. ASSUME NEW c \in Caller, NEW cls \in Class, Answered(c, cls)
        PROVE  asTrial'[breaker'.trial]
    <3>1. breaker.state = "half_open" /\ breaker' = breaker
      <4>1. CASE c \in Background
        BY <2>3, <4>1, AnswerEnds
      <4>2. CASE c \notin Background
        BY <2>3, <4>2, AnswerEnds
      <4>3. QED
        BY <4>1, <4>2
    <3>2. asTrial[breaker.trial] /\ breaker.trial \in Caller
      BY <2>0, <3>1
    <3>3. breaker.trial # c
      <4>1. CASE c \in Background
        BY <3>2, <4>1 DEF TrialHolds
      <4>2. CASE c \notin Background
        BY <2>3, <3>1, <4>2, AnswerEnds
      <4>3. QED
        BY <4>1, <4>2
    <3>4. QED
      BY <2>3, <3>1, <3>2, <3>3, AnswerEnds
  <2>4. CASE OpenPeriodPasses
    <3>1. breaker'.state = breaker.state /\ breaker'.trial = breaker.trial
      BY <2>4 DEF OpenPeriodPasses, TypeOK, BreakerType
    <3>2. UNCHANGED asTrial
      BY <2>4 DEF OpenPeriodPasses
    <3>3. QED
      BY <3>1, <3>2
  <2>5. CASE UNCHANGED <<breaker, asTrial>>
    BY <2>5
  <2>6. QED
    BY <2>1, <2>2, <2>3, <2>4, <2>5 DEF Next, CallStep, Cancel, HealthChanges, vars
<1>3. Inv /\ Slot => TrialSlotIsHeld
  <2>1. TypeOK => breaker.trial \in Caller \cup {NoOne}
    BY DEF TypeOK, BreakerType
  <2>2. QED
    BY <2>1 DEF TrialHolds, TrialSlotIsHeld
<1>4. TypeOK /\ TrialsWanted /\ TrialHolds /\ [Next]_vars => TrialHolds'
  BY TrialStep
<1> HIDE DEF Slot
<1>5. QED
  BY <1>1, <1>2, <1>3, <1>4, Typing, PTL DEF Spec

-----------------------------------------------------------------------------
Active == {c \in Caller : pc[c] # "idle"}

LimitInv == IsFiniteSet(Active) /\ LimitExact

\* The concurrency limit counts exactly the calls in progress: Dependency.do
\* takes a place for each and gives it back once, whether the call returns,
\* raises or is cancelled.
THEOREM LimitIsExact == Spec => []LimitExact
<1>1. Init => LimitInv
  <2>1. Init => Active = {}
    BY DEF Init, Active
  <2>2. QED
    BY <2>1, FS_EmptySet DEF Init, LimitInv, LimitExact, Active
<1>2. TypeOK /\ LimitInv /\ [Next]_vars => LimitInv'
  <2> SUFFICES ASSUME TypeOK, LimitInv, [Next]_vars PROVE LimitInv'
    OBVIOUS
  <2>0. inFlight = Cardinality(Active) /\ IsFiniteSet(Active)
    BY DEF LimitInv, LimitExact, Active
  <2>1. ASSUME NEW c \in Caller, pc[c] # "idle", Finish(c) PROVE LimitInv'
    <3>1. Active' = Active \ {c} /\ c \in Active
      BY <2>1 DEF Finish, Active, TypeOK
    <3>2. QED
      BY <2>0, <2>1, <3>1, FS_RemoveElement DEF Finish, LimitInv, LimitExact, Active
  <2>2. ASSUME NEW c \in Caller, Begin(c) PROVE LimitInv'
    <3>1. Active' = Active \cup {c} /\ c \notin Active
      BY <2>2 DEF Begin, Active, TypeOK
    <3>2. QED
      BY <2>0, <2>2, <3>1, FS_AddElement DEF Begin, LimitInv, LimitExact, Active
  <2>3. CASE UNCHANGED inFlight /\ Active' = Active
    BY <2>0, <2>3 DEF LimitInv, LimitExact, Active
  <2>4. ASSUME NEW c \in Caller, NoTime(c) \/ Rejected(c) \/ Cancel(c) PROVE LimitInv'
    BY <2>1, <2>4 DEF NoTime, Rejected, Cancel
  <2>5. ASSUME NEW c \in Caller, Send(c) PROVE LimitInv'
    BY <2>3, <2>5 DEF Send, Active, TypeOK
  <2>6. ASSUME NEW c \in Caller, NEW cls \in Class, Answered(c, cls) PROVE LimitInv'
    <3>1. pc[c] = "sent"
      BY <2>6 DEF Answered
    <3>2. Finish(c) \/ (UNCHANGED inFlight /\ pc' = [pc EXCEPT ![c] = "next"])
      BY <2>6 DEF Answered
    <3>3. QED
      BY <2>1, <2>3, <3>1, <3>2 DEF Active, TypeOK
  <2>7. CASE UNCHANGED <<inFlight, pc>>
    BY <2>3, <2>7 DEF Active
  <2>8. QED
    BY <2>2, <2>4, <2>5, <2>6, <2>7
    DEF Next, CallStep, TimePasses, OpenPeriodPasses, HealthChanges, vars
<1>3. LimitInv => LimitExact
  BY DEF LimitInv
<1>4. QED
  BY <1>1, <1>2, <1>3, CallsTypes, PTL DEF Spec

-----------------------------------------------------------------------------
\* A breaker is half-open only once its open period has passed.
PeriodPassed == breaker.state = "half_open" => breaker.period = "passed"

\* Breaker.start makes a breaker half-open only when its period has passed.
LEMMA StartedPeriod ==
  ASSUME NEW b \in BreakerType, NEW c \in Caller,
         b.state = "half_open" => b.period = "passed",
         Started(b, c).state = "half_open"
  PROVE  Started(b, c).period = "passed"
<1> DEFINE h == [b EXCEPT !.state = "half_open", !.trial = NoOne, !.trialOk = 0]
<1>1. CASE b.state = "open" /\ b.period = "passed"
  <2>1. 0 \in 0..TrialsToClose
    BY CallsAssumption
  <2>2. h \in BreakerType /\ h.state = "half_open" /\ h.period = "passed"
    BY <1>1, <2>1 DEF BreakerType
  <2>3. HalfOpened(b) = h
    BY <1>1 DEF HalfOpened
  <2> HIDE DEF h
  <2>4. Started(b, c) = [h EXCEPT !.trial = c]
    BY <2>2, <2>3 DEF Started
  <2>5. QED
    BY <2>2, <2>4 DEF BreakerType
<1>2. CASE ~(b.state = "open" /\ b.period = "passed")
  <2>1. Started(b, c) = IF b.state = "half_open" THEN [b EXCEPT !.trial = c] ELSE b
    BY <1>2 DEF Started, HalfOpened
  <2>2. QED
    BY <2>1 DEF BreakerType
<1>3. QED
  BY <1>1, <1>2

\* Breaker.end leaves the period of a breaker that stays half-open passed.
LEMMA EndedPeriod ==
  ASSUME NEW b \in BreakerType, NEW c \in Caller, NEW o \in {"success", "failure", "ignored"},
         b.state = "half_open" => b.trialOk < TrialsToClose /\ b.period = "passed",
         Ended(b, c, o).state = "half_open"
  PROVE  Ended(b, c, o).period = "passed"
<1>1. b.state = "half_open"
  BY EndedType
<1>2. CASE b.trial # c
  BY <1>1, <1>2, EndedType
<1>3. CASE b.trial = c
  <2> DEFINE ok == b.trialOk + 1
             opened == [b EXCEPT !.state = "open", !.period = "running", !.trial = NoOne,
                                 !.trialOk = 0, !.openFor = Least(2 * b.openFor, OpenMax)]
             closed == [b EXCEPT !.state = "closed", !.window = <<>>, !.openFor = OpenFirst,
                                 !.trial = NoOne, !.trialOk = ok]
             counted == [b EXCEPT !.trial = NoOne, !.trialOk = ok]
             freed == [b EXCEPT !.trial = NoOne]
  <2>1. Ended(b, c, o) = TrialEnded(b, o)
    BY <1>1, <1>3 DEF Ended
  <2>2. TrialEnded(b, o) \in {opened, closed, counted, freed}
    <3>1. ok \in Nat /\ TrialsToClose \in Nat
      BY CallsAssumption DEF BreakerType
    <3>2. QED
      BY <3>1 DEF TrialEnded
  <2>3. opened.state = "open" /\ closed.state = "closed"
    BY DEF BreakerType
  <2>4. counted.period = "passed" /\ freed.period = "passed"
    BY <1>1 DEF BreakerType
  <2> HIDE DEF opened, closed, counted, freed
  <2>5. QED
    BY <2>1, <2>2, <2>3, <2>4
<1>4. QED
  BY <1>2, <1>3

\* What a half-open breaker becomes is decided by a trial's answer: Breaker.end
\* takes no late result, and the slot goes only to a call that is sent.
THEOREM TrialsDecide == Spec => OnlyTrialsDecide
<1> DEFINE Decided(c) ==
      \/ breaker.trial = c /\ pc[c] = "sent" /\ pc'[c] # "sent"
      \/ breaker.trial = NoOne /\ pc[c] = "next" /\ pc'[c] = "sent"
<1>1. Init => PeriodPassed
  BY DEF Init, PeriodPassed
<1>2. TypeOK /\ TrialsWanted /\ PeriodPassed /\ [Next]_vars => PeriodPassed'
  <2> SUFFICES ASSUME TypeOK, TrialsWanted, PeriodPassed, [Next]_vars, breaker'.state = "half_open"
               PROVE  breaker'.period = "passed"
    BY DEF PeriodPassed
  <2>0. /\ breaker \in BreakerType
        /\ breaker.state = "half_open" => breaker.trialOk < TrialsToClose /\ breaker.period = "passed"
    BY DEF TypeOK, TrialsWanted, PeriodPassed
  <2>1. ASSUME NEW c \in Caller, Send(c) PROVE breaker'.period = "passed"
    <3>1. breaker' = breaker \/ breaker' = Started(breaker, c)
      BY <2>1 DEF Send
    <3>2. QED
      BY <2>0, <3>1, StartedPeriod
  <2>2. ASSUME NEW c \in Caller, NEW cls \in Class, Answered(c, cls) PROVE breaker'.period = "passed"
    <3>1. breaker' = breaker \/ breaker' = Ended(breaker, c, BreakerOutcome(cls))
      BY <2>2 DEF Answered
    <3>2. QED
      BY <2>0, <3>1, EndedPeriod, OutcomeType
  <2>3. CASE OpenPeriodPasses
    BY <2>0, <2>3 DEF OpenPeriodPasses, BreakerType
  <2>4. CASE UNCHANGED breaker
    BY <2>0, <2>4
  <2>5. QED
    BY <2>1, <2>2, <2>3, <2>4 DEF Next, CallStep, Begin, NoTime, Rejected, Cancel, TimePasses,
                                  HealthChanges, vars
<1>3. TypeOK /\ TrialsWanted /\ PeriodPassed /\ [Next]_vars =>
        (breaker.state = "half_open" /\ breaker' # breaker => \E c \in Caller : Decided(c))
  <2> SUFFICES ASSUME TypeOK, TrialsWanted, PeriodPassed, [Next]_vars,
                      breaker.state = "half_open", breaker' # breaker
               PROVE  \E c \in Caller : Decided(c)
    OBVIOUS
  <2>1. ASSUME NEW c \in Caller, Send(c) PROVE Decided(c)
    <3>1. breaker.trial = NoOne /\ pc[c] = "next" /\ pc' = [pc EXCEPT ![c] = "sent"]
      BY <2>1 DEF Send, Admits, HalfOpened
    <3>2. QED
      BY <3>1 DEF TypeOK
  <2>2. ASSUME NEW c \in Caller, NEW cls \in Class, Answered(c, cls) PROVE Decided(c)
    <3>1. breaker.trial = c
      BY <2>2, AnswerEnds
    <3>2. pc[c] = "sent" /\ (pc' = [pc EXCEPT ![c] = "next"] \/ pc' = [pc EXCEPT ![c] = "idle"])
      BY <2>2 DEF Answered, Finish
    <3>3. QED
      BY <3>1, <3>2 DEF TypeOK
  <2>3. ~OpenPeriodPasses
    BY DEF OpenPeriodPasses, PeriodPassed
  <2>4. ~UNCHANGED breaker
    OBVIOUS
  <2>5. QED
    BY <2>1, <2>2, <2>3, <2>4 DEF Next, CallStep, Begin, NoTime, Rejected, Cancel, TimePasses,
                                  HealthChanges, vars
<1>4. QED
  BY <1>1, <1>2, <1>3, Typing, PTL DEF Spec, OnlyTrialsDecide
=============================================================================
