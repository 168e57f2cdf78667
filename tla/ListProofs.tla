----------------------------- MODULE ListProofs -----------------------------
(***************************************************************************)
(* Proofs about authorization by segments and the lists built on it, for   *)
(* any resource, segments, facts, rows and requests: that a decision on a  *)
(* record and a list agree, that a decision without all the facts stands,  *)
(* that a list shows what it was queried by, and that a listing gives each *)
(* row once over changes between its pages.                                *)
(***************************************************************************)
EXTENDS Lists, FiniteSetTheorems, SequenceTheorems, TLAPS

-----------------------------------------------------------------------------
(* Three-valued logic.                                                     *)

Tri == {True, False, Unknown}

\* The three values are different.
LEMMA TriDistinct == True # False /\ True # Unknown /\ False # Unknown
  BY DEF True, False, Unknown

\* AND is true where every operand is, false where one is.
LEMMA AndAllValue ==
  ASSUME NEW S \in SUBSET Tri
  PROVE  /\ AndAll(S) \in Tri
         /\ AndAll(S) = True <=> \A x \in S : x = True
         /\ AndAll(S) = False <=> False \in S
  BY TriDistinct DEF AndAll, Tri

\* OR is true where one operand is, false where every one is.
LEMMA OrAllValue ==
  ASSUME NEW S \in SUBSET Tri
  PROVE  /\ OrAll(S) \in Tri
         /\ OrAll(S) = True <=> True \in S
         /\ OrAll(S) = False <=> \A x \in S : x = False
  BY TriDistinct DEF OrAll, Tri

\* An atom as Segment.check lets it pass.
Kinds == {"all", "in", "tree", "self", "interval"}

LEMMA CheckedKinds ==
  ASSUME NEW s, NEW r, check(s, r), NEW dim \in DOMAIN s.atoms
  PROVE  s.atoms[dim].kind \in Kinds
  BY DEF check, WellFormed, Kinds

\* Deciding an atom on a fact ends in one of the three values.
LEMMA EvalAtomTri ==
  ASSUME NEW a, NEW f, NEW p, a.kind \in Kinds, f.state \in {"value", "null", "unobtained"}
  PROVE  EvalAtom(a, f, p) \in Tri
<1> USE TriDistinct DEF EvalAtom, Tri, NotObtained, Holds, InInterval
<1>1. CASE a.kind = "all"
  BY <1>1
<1>2. CASE a.kind # "all" /\ f.state = "unobtained"
  BY <1>2
<1>3. CASE a.kind # "all" /\ f.state = "null"
  BY <1>3
<1>4. CASE a.kind = "in" /\ f.state = "value"
  BY <1>4
<1>5. CASE a.kind = "self" /\ f.state = "value"
  BY <1>5
<1>6. CASE a.kind = "tree" /\ f.state = "value"
  BY <1>6
<1>7. CASE a.kind = "interval" /\ f.state = "value"
  BY <1>7
<1>8. QED
  BY <1>1, <1>2, <1>3, <1>4, <1>5, <1>6, <1>7 DEF Kinds

\* So does the predicate of an atom.
LEMMA SqlAtomTri ==
  ASSUME NEW a, NEW f, NEW p, a.kind \in Kinds, a.kind # "all"
  PROVE  SqlAtom(a, f, p) \in Tri
<1> USE TriDistinct DEF SqlAtom, Tri, Compare, Holds, InInterval
<1>1. CASE a.kind = "in"
  BY <1>1
<1>2. CASE a.kind = "self"
  BY <1>2
<1>3. CASE a.kind = "tree"
  BY <1>3
<1>4. CASE a.kind = "interval"
  BY <1>4
<1>5. QED
  BY <1>1, <1>2, <1>3, <1>4 DEF Kinds

\* A sequence that begins one of a single element, and is not empty, is that one.
LEMMA PrefixOfOne ==
  ASSUME NEW S, NEW s \in Seq(S), NEW t \in Seq(S), Len(t) = 1, IsPrefix(s, t), s # <<>>
  PROVE  s = t
<1>1. Len(s) = 1
  <2>1. Len(s) \in Nat /\ Len(s) # 0
    BY EmptySeq
  <2>2. Len(s) <= 1
    BY DEF IsPrefix
  <2>3. QED
    BY <2>1, <2>2
<1>2. SubSeq(s, 1, 1) = SubSeq(t, 1, 1)
  BY <1>1 DEF IsPrefix
<1>3. SubSeq(s, 1, 1)[1] = s[1] /\ SubSeq(t, 1, 1)[1] = t[1]
  BY <1>1
<1>4. s[1] = t[1]
  BY <1>2, <1>3
<1>5. QED
  BY <1>1, <1>4

\* Only an item of the empty path covers the empty path.
LEMMA EmptyPathUncovered ==
  ASSUME NEW i, i.path \in Seq(STRING), i.path # <<>>, i.path # EmptyPath
  PROVE  ~Covers(i, EmptyPath)
<1> DEFINE Part == STRING \cup {""}
<1>1. EmptyPath \in Seq(Part) /\ Len(EmptyPath) = 1
  <2>1. "" \in Part
    OBVIOUS
  <2>2. \A S : \A x \in S : <<x>> \in Seq(S) /\ Len(<<x>>) = 1
    OBVIOUS
  <2>3. QED
    BY <2>1, <2>2, Zenon DEF EmptyPath
<1>2. i.path \in Seq(Part)
  BY SeqMonotonic, STRING \subseteq Part
<1>3. ~IsPrefix(i.path, EmptyPath)
  BY <1>1, <1>2, PrefixOfOne
<1>4. QED
  BY <1>3 DEF Covers, IsStrictPrefix

\* The predicate of an atom holds on a row when the atom is true of the row's fact
\* (_Compiler.atom, _atom), and only then but where they meet in the empty path:
\* NULL matches nothing on either side.
LEMMA AtomsAgree ==
  ASSUME NEW a, NEW f, NEW p, a.kind \in Kinds, a.kind # "all",
         f.state \in {"value", "null"}, PathsHaveParts(a)
  PROVE  /\ EvalAtom(a, f, p) = True => SqlAtom(a, f, p) = True
         /\ (SqlAtom(a, f, p) = True /\ ~MeetInNothing(a, f)) => EvalAtom(a, f, p) = True
<1> USE TriDistinct DEF SqlAtom, EvalAtom, Compare, Holds
<1>1. CASE f.state = "null"
  <2>1. EvalAtom(a, f, p) = False
    BY <1>1
  <2>2. SqlAtom(a, f, p) \in {False, Unknown}
    <3>1. CASE a.kind = "in"
      BY <1>1, <3>1
    <3>2. CASE a.kind = "self"
      BY <1>1, <3>2
    <3>3. CASE a.kind = "tree"
      BY <1>1, <3>3
    <3>4. CASE a.kind = "interval"
      BY <1>1, <3>4
    <3>5. QED
      BY <3>1, <3>2, <3>3, <3>4 DEF Kinds
  <2>3. QED
    BY <2>1, <2>2
<1>2. CASE f.state = "value"
  <2>1. CASE a.kind = "in"
    BY <1>2, <2>1
  <2>2. CASE a.kind = "self"
    BY <1>2, <2>2
  <2>3. CASE a.kind = "tree"
    <3>1. (f.value = EmptyPath /\ ~MeetInNothing(a, f)) => \A i \in a.items : ~Covers(i, f.value)
      BY <1>2, <2>3, EmptyPathUncovered DEF PathsHaveParts, MeetInNothing
    <3>2. EvalAtom(a, f, p) = True <=> f.value # EmptyPath /\ \E i \in a.items : Covers(i, f.value)
      BY <1>2, <2>3
    <3>3. SqlAtom(a, f, p) = True <=> \E i \in a.items : Covers(i, f.value)
      BY <1>2, <2>3
    <3>4. QED
      BY <3>1, <3>2, <3>3
  <2>4. CASE a.kind = "interval"
    BY <1>2, <2>4 DEF InInterval
  <2>5. QED
    BY <2>1, <2>2, <2>3, <2>4 DEF Kinds
<1>3. QED
  BY <1>1, <1>2

-----------------------------------------------------------------------------
(* Segments on facts and on rows.                                          *)

GoodSegment(s) ==
  check(s, ListResource) /\ \A dim \in DOMAIN s.atoms : PathsHaveParts(s.atoms[dim])

\* Facts on every dimension, obtained or not.
Facts(cols) ==
  /\ DOMAIN cols = DOMAIN ListResource.dimensions
  /\ \A dim \in DOMAIN cols : cols[dim].state \in {"value", "null", "unobtained"}

\* A segment's value on facts: true exactly when it is active and its atoms
\* are, false when it is not active or one of its atoms is.
LEMMA SegmentValue ==
  ASSUME NEW s, GoodSegment(s), NEW cols, Facts(cols), NEW p, NEW t
  PROVE  /\ EvalSegment(s, cols, p, t) \in Tri
         /\ EvalSegment(s, cols, p, t) = True <=>
              active_at(s, t) /\ \A dim \in DOMAIN s.atoms : EvalAtom(s.atoms[dim], cols[dim], p) = True
         /\ EvalSegment(s, cols, p, t) = False <=>
              ~active_at(s, t) \/ \E dim \in DOMAIN s.atoms : EvalAtom(s.atoms[dim], cols[dim], p) = False
<1> DEFINE S == {EvalAtom(s.atoms[dim], cols[dim], p) : dim \in DOMAIN s.atoms}
<1>1. ASSUME NEW dim \in DOMAIN s.atoms PROVE EvalAtom(s.atoms[dim], cols[dim], p) \in Tri
  <2>1. s.atoms[dim].kind \in Kinds
    BY <1>1, CheckedKinds DEF GoodSegment
  <2>2. cols[dim].state \in {"value", "null", "unobtained"}
    BY <1>1 DEF GoodSegment, check, Facts
  <2>3. QED
    BY <2>1, <2>2, EvalAtomTri
<1>2. S \in SUBSET Tri
  BY <1>1
<1>3. EvalSegment(s, cols, p, t) = IF ~active_at(s, t) THEN False ELSE AndAll(S)
  BY DEF EvalSegment
<1>4. /\ AndAll(S) \in Tri
      /\ AndAll(S) = True <=> \A x \in S : x = True
      /\ AndAll(S) = False <=> False \in S
  BY <1>2, AndAllValue
<1>5. /\ (\A x \in S : x = True) <=> \A dim \in DOMAIN s.atoms : EvalAtom(s.atoms[dim], cols[dim], p) = True
      /\ False \in S <=> \E dim \in DOMAIN s.atoms : EvalAtom(s.atoms[dim], cols[dim], p) = False
  OBVIOUS
<1> HIDE DEF S
<1>6. QED
  BY <1>3, <1>4, <1>5, TriDistinct DEF Tri

\* A segment and a row that do not meet in the empty path.
Apart(s, cols) == \A dim \in DOMAIN cols : ~MeetInNothing(s.atoms[dim], cols[dim])

\* A segment's predicate on a row, and that it holds when the segment is true of
\* the row's facts, and only then but where they meet in the empty path
\* (_Compiler.segment, _segment).
LEMMA SegmentsAgree ==
  ASSUME NEW s, GoodSegment(s), NEW cols, FullFacts(cols), NEW p, NEW t
  PROVE  /\ SqlSegment(s, cols, p) \in Tri
         /\ EvalSegment(s, cols, p, t) = True => active_at(s, t) /\ SqlSegment(s, cols, p) = True
         /\ (active_at(s, t) /\ SqlSegment(s, cols, p) = True /\ Apart(s, cols))
              => EvalSegment(s, cols, p, t) = True
<1> DEFINE D == {d \in DOMAIN s.atoms : s.atoms[d].kind # "all"}
           S == {SqlAtom(s.atoms[dim], cols[dim], p) : dim \in D}
<1>1. ASSUME NEW dim \in DOMAIN s.atoms
      PROVE  /\ s.atoms[dim].kind \in Kinds
             /\ cols[dim].state \in {"value", "null"}
             /\ PathsHaveParts(s.atoms[dim]) /\ dim \in DOMAIN cols
  <2>1. s.atoms[dim].kind \in Kinds
    BY <1>1, CheckedKinds DEF GoodSegment
  <2>2. cols[dim].state \in {"value", "null"} /\ dim \in DOMAIN cols
    BY <1>1 DEF GoodSegment, check, FullFacts
  <2>3. QED
    BY <1>1, <2>1, <2>2 DEF GoodSegment
<1>2. \A dim \in D : /\ SqlAtom(s.atoms[dim], cols[dim], p) \in Tri
                     /\ EvalAtom(s.atoms[dim], cols[dim], p) = True
                          => SqlAtom(s.atoms[dim], cols[dim], p) = True
                     /\ (SqlAtom(s.atoms[dim], cols[dim], p) = True /\ Apart(s, cols))
                          => EvalAtom(s.atoms[dim], cols[dim], p) = True
  BY <1>1, SqlAtomTri, AtomsAgree DEF Apart
<1>3. \A dim \in DOMAIN s.atoms \ D : EvalAtom(s.atoms[dim], cols[dim], p) = True
  BY DEF EvalAtom
<1>4. S \in SUBSET Tri
  BY <1>2
<1>5. SqlSegment(s, cols, p) = AndAll(S)
  BY DEF SqlSegment
<1>6. /\ AndAll(S) \in Tri
      /\ AndAll(S) = True <=> \A x \in S : x = True
  BY <1>4, AndAllValue
<1>7. /\ (\A dim \in DOMAIN s.atoms : EvalAtom(s.atoms[dim], cols[dim], p) = True)
           => \A x \in S : x = True
      /\ ((\A x \in S : x = True) /\ Apart(s, cols))
           => \A dim \in DOMAIN s.atoms : EvalAtom(s.atoms[dim], cols[dim], p) = True
  <2>1. (\A x \in S : x = True) <=> \A dim \in D : SqlAtom(s.atoms[dim], cols[dim], p) = True
    OBVIOUS
  <2>2. QED
    BY <1>2, <1>3, <2>1
<1>8. Facts(cols)
  BY DEF Facts, FullFacts
<1>9. EvalSegment(s, cols, p, t) = True <=>
        active_at(s, t) /\ \A dim \in DOMAIN s.atoms : EvalAtom(s.atoms[dim], cols[dim], p) = True
  BY <1>8, SegmentValue
<1> HIDE DEF S
<1>10. QED
  BY <1>5, <1>6, <1>7, <1>9

-----------------------------------------------------------------------------
(* A decision on a record and a list agree.                                *)

\* What a decision is: the entitlement's result is true exactly when one of
\* the operation's segments is, false exactly when all are.
LEMMA EntitledValue ==
  ASSUME NEW segs, \A s \in segs : GoodSegment(s),
         NEW op, NEW cols, Facts(cols), NEW p, NEW t
  PROVE  LET e == Entitled(segs, op, cols, p, t)
         IN  /\ e.result \in Tri
             /\ e.result = True <=>
                  \E s \in segs : s.operation = op /\ EvalSegment(s, cols, p, t) = True
             /\ e.result = False <=>
                  \A s \in segs : s.operation = op => EvalSegment(s, cols, p, t) = False
<1> DEFINE own == {s \in segs : s.operation = op}
           S == {EvalSegment(s, cols, p, t) : s \in own}
<1>1. S \in SUBSET Tri
  BY SegmentValue
<1>2. Entitled(segs, op, cols, p, t).result = OrAll(S)
  BY DEF Entitled
<1>3. /\ OrAll(S) \in Tri
      /\ OrAll(S) = True <=> True \in S
      /\ OrAll(S) = False <=> \A x \in S : x = False
  BY <1>1, OrAllValue
<1>4. /\ True \in S <=> \E s \in segs : s.operation = op /\ EvalSegment(s, cols, p, t) = True
      /\ (\A x \in S : x = False) <=>
           \A s \in segs : s.operation = op => EvalSegment(s, cols, p, t) = False
  OBVIOUS
<1> HIDE DEF S
<1>5. QED
  BY <1>2, <1>3, <1>4

\* Its fields are those of the operation's segments that are true.
LEMMA EntitledFields ==
  ASSUME NEW segs, NEW op, NEW cols, NEW p, NEW t
  PROVE  Entitled(segs, op, cols, p, t).fields = UNION {s.read_fields : s \in
           {x \in segs : x.operation = op /\ EvalSegment(x, cols, p, t) = True}}
<1>1. {x \in {s \in segs : s.operation = op} : EvalSegment(x, cols, p, t) = True} =
        {x \in segs : x.operation = op /\ EvalSegment(x, cols, p, t) = True}
  OBVIOUS
<1>2. QED
  BY <1>1 DEF Entitled

\* AND of two values.
LEMMA AndTwo ==
  ASSUME NEW x \in Tri, NEW y \in Tri
  PROVE  /\ AndAll({x, y}) \in Tri
         /\ AndAll({x, y}) = True <=> x = True /\ y = True
         /\ AndAll({x, y}) = False <=> x = False \/ y = False
<1>1. {x, y} \in SUBSET Tri
  OBVIOUS
<1>2. QED
  BY <1>1, AndAllValue

\* A decision has no error exactly when the record is visible and the action
\* allowed.
LEMMA NoError ==
  ASSUME NEW d, d.visible \in Tri, d.action \in Tri
  PROVE  /\ DecisionError(d) = "none" <=> d.visible = True /\ d.action = True
         /\ DecisionError(d) = "NOT_FOUND" <=> d.visible = False
         /\ DecisionError(d) = "PERMISSION_DENIED" <=> d.visible # False /\ d.action = False
  BY TriDistinct DEF DecisionError, Tri

\* The segments of one operation that are true of a row are active ones whose
\* predicate holds on it, and all of them where none meets it in the empty path.
LEMMA TrueSegments ==
  ASSUME NEW segs, \A s \in segs : GoodSegment(s),
         NEW op, NEW cols, FullFacts(cols), NEW p, NEW t
  PROVE  LET holding == {s \in Active(segs, op, t) : SqlSegment(s, cols, p) = True}
             true == {s \in segs : s.operation = op /\ EvalSegment(s, cols, p, t) = True}
         IN  /\ true \subseteq holding
             /\ (\A s \in Active(segs, op, t) : Apart(s, cols)) => holding = true
  BY SegmentsAgree DEF Active

\* The disjunction of the predicates of an operation's active segments.
LEMMA PlanHalf ==
  ASSUME NEW segs, \A s \in segs : GoodSegment(s),
         NEW op, NEW cols, FullFacts(cols), NEW p, NEW t
  PROVE  LET o == OrAll({SqlSegment(s, cols, p) : s \in Active(segs, op, t)})
             e == Entitled(segs, op, cols, p, t)
         IN  /\ o \in Tri
             /\ e.result = True => o = True
             /\ (o = True /\ \A s \in Active(segs, op, t) : Apart(s, cols)) => e.result = True
<1> DEFINE S == {SqlSegment(s, cols, p) : s \in Active(segs, op, t)}
           holding == {s \in Active(segs, op, t) : SqlSegment(s, cols, p) = True}
           true == {s \in segs : s.operation = op /\ EvalSegment(s, cols, p, t) = True}
<1>1. S \in SUBSET Tri
  BY SegmentsAgree DEF Active
<1>2. OrAll(S) \in Tri /\ (OrAll(S) = True <=> True \in S)
  BY <1>1, OrAllValue
<1>3. True \in S <=> holding # {}
  OBVIOUS
<1>4. Facts(cols)
  BY DEF Facts, FullFacts
<1>5. Entitled(segs, op, cols, p, t).result = True <=> true # {}
  BY <1>4, EntitledValue
<1>6. /\ true \subseteq holding
      /\ (\A s \in Active(segs, op, t) : Apart(s, cols)) => holding = true
  BY TrueSegments
<1> HIDE DEF S, holding, true
<1>7. QED
  BY <1>2, <1>3, <1>5, <1>6 DEF S

\* What evaluate answers, by the entitlements to view and to the operation.
LEMMA EvaluateValue ==
  ASSUME NEW segs, \A s \in segs : GoodSegment(s),
         NEW op, NEW cols, Facts(cols), NEW p, NEW t
  PROVE  LET d == evaluate(ListResource, segs, op, cols, p, t)
             view == Entitled(segs, ListResource.view_operation, cols, p, t)
             act == Entitled(segs, op, cols, p, t)
         IN  /\ d.visible = view.result /\ d.visible \in Tri
             /\ d.action \in Tri
             /\ d.action = True <=> view.result = True /\ act.result = True
             /\ d.action = False <=> view.result = False \/ act.result = False
             /\ d.fields = IF view.result = True THEN Outputs(ListResource, act.fields) ELSE {}
<1> DEFINE view == Entitled(segs, ListResource.view_operation, cols, p, t)
           act == Entitled(segs, op, cols, p, t)
           d == evaluate(ListResource, segs, op, cols, p, t)
<1>1. view.result \in Tri /\ act.result \in Tri
  BY EntitledValue
<1>2. /\ AndAll({view.result, act.result}) \in Tri
      /\ AndAll({view.result, act.result}) = True <=> view.result = True /\ act.result = True
      /\ AndAll({view.result, act.result}) = False <=> view.result = False \/ act.result = False
  BY <1>1, AndTwo
<1>3. op = ListResource.view_operation => act = view
  OBVIOUS
<1>4. /\ d.visible = view.result
      /\ d.action = IF op = ListResource.view_operation THEN view.result
                    ELSE AndAll({view.result, act.result})
      /\ d.fields = IF view.result = True
                    THEN Outputs(ListResource,
                           IF op = ListResource.view_operation THEN view.fields ELSE act.fields)
                    ELSE {}
  BY DEF evaluate
<1> HIDE DEF view, act, d
<1>5. QED
  BY <1>1, <1>2, <1>3, <1>4 DEF view, act, d

\* The output fields of a union are the union of the output fields.
LEMMA OutputsOfUnion ==
  ASSUME NEW r, NEW S
  PROVE  Outputs(r, UNION {s.read_fields : s \in S}) = UNION {Outputs(r, s.read_fields) : s \in S}
  BY DEF Outputs

\* The output fields grow with the fields.
LEMMA OutputsGrow ==
  ASSUME NEW r, NEW S, NEW T, S \subseteq T
  PROVE  Outputs(r, UNION {s.read_fields : s \in S}) \subseteq Outputs(r, UNION {s.read_fields : s \in T})
  BY DEF Outputs

\* One resource, set of segments and row: in the plan when allowed, with all of
\* its fields, and the other way round where no segment meets the row in the
\* empty path.
LEMMA PlanIsDecision ==
  ASSUME NEW segs, \A s \in segs : GoodSegment(s),
         NEW op, NEW cols, FullFacts(cols), NEW p, NEW t
  PROVE  LET plan == compile_plan(ListResource, segs, op, p, t)
             d == evaluate(ListResource, segs, op, cols, p, t)
             allowed == DecisionError(d) = "none"
             planned == PlanWhere(plan, cols) = True
         IN  /\ allowed => planned /\ d.fields \subseteq PlanFields(plan, cols)
             /\ (planned /\ ~MeetAnywhere(plan.view \cup plan.asked, cols)) =>
                  allowed /\ PlanFields(plan, cols) \subseteq d.fields
<1> DEFINE plan == compile_plan(ListResource, segs, op, p, t)
           d == evaluate(ListResource, segs, op, cols, p, t)
           vop == ListResource.view_operation
           v == OrAll({SqlSegment(s, cols, p) : s \in Active(segs, vop, t)})
           a == OrAll({SqlSegment(s, cols, p) : s \in Active(segs, op, t)})
           hits == {s \in Active(segs, op, t) : SqlSegment(s, cols, p) = True}
           own == {s \in segs : s.operation = op /\ EvalSegment(s, cols, p, t) = True}
           apart == ~MeetAnywhere(plan.view \cup plan.asked, cols)
<1>0. Facts(cols)
  BY DEF Facts, FullFacts
<1>1. /\ plan.view = Active(segs, vop, t) /\ plan.asked = Active(segs, op, t)
      /\ plan.principal = p /\ plan.resource = ListResource
  BY DEF compile_plan
<1>2. PlanWhere(plan, cols) = AndAll({v, a})
  BY <1>1 DEF PlanWhere
<1>3. apart => /\ \A s \in Active(segs, vop, t) : Apart(s, cols)
               /\ \A s \in Active(segs, op, t) : Apart(s, cols)
  BY <1>1 DEF MeetAnywhere, Apart
<1>4. /\ v \in Tri /\ (Entitled(segs, vop, cols, p, t).result = True => v = True)
      /\ a \in Tri /\ (Entitled(segs, op, cols, p, t).result = True => a = True)
      /\ (apart /\ v = True) => Entitled(segs, vop, cols, p, t).result = True
      /\ (apart /\ a = True) => Entitled(segs, op, cols, p, t).result = True
  <2>1. /\ v \in Tri /\ (Entitled(segs, vop, cols, p, t).result = True => v = True)
        /\ (v = True /\ \A s \in Active(segs, vop, t) : Apart(s, cols))
             => Entitled(segs, vop, cols, p, t).result = True
    BY PlanHalf
  <2>2. /\ a \in Tri /\ (Entitled(segs, op, cols, p, t).result = True => a = True)
        /\ (a = True /\ \A s \in Active(segs, op, t) : Apart(s, cols))
             => Entitled(segs, op, cols, p, t).result = True
    BY PlanHalf
  <2> HIDE DEF v, a, apart, vop
  <2>3. QED
    BY <1>3, <2>1, <2>2
<1>5. PlanWhere(plan, cols) = True <=> v = True /\ a = True
  BY <1>2, <1>4, AndTwo
<1>6. /\ d.visible = Entitled(segs, vop, cols, p, t).result /\ d.visible \in Tri
      /\ d.action \in Tri
      /\ d.action = True <=> Entitled(segs, vop, cols, p, t).result = True
                             /\ Entitled(segs, op, cols, p, t).result = True
      /\ d.fields = IF Entitled(segs, vop, cols, p, t).result = True
                    THEN Outputs(ListResource, Entitled(segs, op, cols, p, t).fields) ELSE {}
  BY <1>0, EvaluateValue
<1>7. DecisionError(d) = "none" <=> d.visible = True /\ d.action = True
  BY <1>6, NoError
<1>8. Entitled(segs, op, cols, p, t).fields = UNION {s.read_fields : s \in own}
  BY EntitledFields
<1>9. PlanFields(plan, cols) = Outputs(ListResource, UNION {s.read_fields : s \in hits})
  <2>1. {x \in plan.asked : Hit(x, cols, plan.principal)} = hits
    BY <1>1 DEF Hit
  <2>2. PlanFields(plan, cols) = UNION {Outputs(ListResource, s.read_fields) : s \in hits}
    BY <1>1, <2>1 DEF PlanFields, FieldSet
  <2>3. QED
    BY <2>2, OutputsOfUnion
<1>10. /\ own \subseteq hits
       /\ (\A s \in Active(segs, op, t) : Apart(s, cols)) => hits = own
  BY TrueSegments
<1>11. Outputs(ListResource, UNION {s.read_fields : s \in own}) \subseteq PlanFields(plan, cols)
  <2>1. own \subseteq hits
    BY <1>10
  <2> HIDE DEF own, hits, plan
  <2>2. Outputs(ListResource, UNION {s.read_fields : s \in own}) \subseteq
          Outputs(ListResource, UNION {s.read_fields : s \in hits})
    BY <2>1, OutputsGrow
  <2>3. QED
    BY <1>9, <2>2
<1>12. apart => PlanFields(plan, cols) = Outputs(ListResource, UNION {s.read_fields : s \in own})
  <2> HIDE DEF own, hits, plan, apart
  <2>1. QED
    BY <1>3, <1>9, <1>10
<1> HIDE DEF plan, d, v, a, own, hits, apart
<1>13. DecisionError(d) = "none" => PlanWhere(plan, cols) = True /\ d.fields \subseteq PlanFields(plan, cols)
  BY <1>4, <1>5, <1>6, <1>7, <1>8, <1>11
<1>14. (PlanWhere(plan, cols) = True /\ apart) =>
         DecisionError(d) = "none" /\ PlanFields(plan, cols) \subseteq d.fields
  BY <1>4, <1>5, <1>6, <1>7, <1>8, <1>12
<1>15. QED
  BY <1>13, <1>14 DEF plan, d, apart

-----------------------------------------------------------------------------
(* What is decided without all the facts stands.                           *)

\* Unknown, or the same.
Weaker(x, y) == x = Unknown \/ x = y

\* Facts of a row with some of them missing are facts.
LEMMA PartialFacts ==
  ASSUME NEW cols, FullFacts(cols), NEW missing
  PROVE  /\ Facts(cols) /\ Facts(Partial(cols, missing))
         /\ \A dim \in DOMAIN cols :
              \/ Partial(cols, missing)[dim] = cols[dim]
              \/ Partial(cols, missing)[dim].state = "unobtained"
<1> DEFINE part == Partial(cols, missing)
<1>1. DOMAIN part = DOMAIN cols
  BY DEF Partial
<1>2. ASSUME NEW dim \in DOMAIN cols
      PROVE  part[dim] = IF dim \in missing THEN [cols[dim] EXCEPT !.state = "unobtained"] ELSE cols[dim]
  BY DEF Partial
<1>3. ASSUME NEW dim \in DOMAIN cols
      PROVE  [cols[dim] EXCEPT !.state = "unobtained"].state = "unobtained"
  BY <1>3 DEF FullFacts
<1> HIDE DEF part
<1>4. QED
  BY <1>1, <1>2, <1>3 DEF FullFacts, Facts, part

\* An atom that is decided without a fact would be with it.
LEMMA AtomStands ==
  ASSUME NEW a, NEW f, NEW g, NEW p, a.kind \in Kinds, f = g \/ f.state = "unobtained"
  PROVE  Weaker(EvalAtom(a, f, p), EvalAtom(a, g, p))
<1>1. CASE f = g
  BY <1>1 DEF Weaker
<1>2. CASE a.kind = "all"
  BY <1>2 DEF Weaker, EvalAtom
<1>3. CASE a.kind # "all" /\ f.state = "unobtained"
  BY <1>3 DEF Weaker, EvalAtom, NotObtained
<1>4. QED
  BY <1>1, <1>2, <1>3

\* So would a segment.
LEMMA SegmentStands ==
  ASSUME NEW s, GoodSegment(s), NEW cols, FullFacts(cols), NEW missing, NEW p, NEW t
  PROVE  Weaker(EvalSegment(s, Partial(cols, missing), p, t), EvalSegment(s, cols, p, t))
<1> DEFINE part == Partial(cols, missing)
<1>1. /\ Facts(cols) /\ Facts(part)
      /\ \A dim \in DOMAIN cols : part[dim] = cols[dim] \/ part[dim].state = "unobtained"
  BY PartialFacts
<1> HIDE DEF part
<1>2. ASSUME NEW dim \in DOMAIN s.atoms
      PROVE  Weaker(EvalAtom(s.atoms[dim], part[dim], p), EvalAtom(s.atoms[dim], cols[dim], p))
  <2>1. s.atoms[dim].kind \in Kinds
    BY <1>2, CheckedKinds DEF GoodSegment
  <2>2. dim \in DOMAIN cols
    BY <1>2 DEF GoodSegment, check, FullFacts
  <2>3. QED
    BY <1>1, <2>1, <2>2, AtomStands
<1>3. /\ EvalSegment(s, part, p, t) \in Tri
      /\ EvalSegment(s, part, p, t) = True =>
           active_at(s, t) /\ \A dim \in DOMAIN s.atoms : EvalAtom(s.atoms[dim], part[dim], p) = True
      /\ EvalSegment(s, part, p, t) = False =>
           ~active_at(s, t) \/ \E dim \in DOMAIN s.atoms : EvalAtom(s.atoms[dim], part[dim], p) = False
  BY <1>1, SegmentValue
<1>4. /\ active_at(s, t) /\ (\A dim \in DOMAIN s.atoms : EvalAtom(s.atoms[dim], cols[dim], p) = True)
           => EvalSegment(s, cols, p, t) = True
      /\ ~active_at(s, t) \/ (\E dim \in DOMAIN s.atoms : EvalAtom(s.atoms[dim], cols[dim], p) = False)
           => EvalSegment(s, cols, p, t) = False
  BY <1>1, SegmentValue
<1>5. EvalSegment(s, part, p, t) = True => EvalSegment(s, cols, p, t) = True
  BY <1>2, <1>3, <1>4, TriDistinct DEF Weaker
<1>6. EvalSegment(s, part, p, t) = False => EvalSegment(s, cols, p, t) = False
  BY <1>2, <1>3, <1>4, TriDistinct DEF Weaker
<1>7. QED
  BY <1>3, <1>5, <1>6 DEF Weaker, Tri, part

\* So would the entitlement to an operation, and its fields only grow.
LEMMA EntitlementStands ==
  ASSUME NEW segs, \A s \in segs : GoodSegment(s), NEW op,
         NEW cols, FullFacts(cols), NEW missing, NEW p, NEW t
  PROVE  LET part == Entitled(segs, op, Partial(cols, missing), p, t)
             full == Entitled(segs, op, cols, p, t)
         IN  Weaker(part.result, full.result) /\ part.fields \subseteq full.fields
<1> DEFINE few == Partial(cols, missing)
           part == Entitled(segs, op, few, p, t)
           full == Entitled(segs, op, cols, p, t)
<1>1. Facts(cols) /\ Facts(few)
  BY PartialFacts
<1>2. \A s \in segs : Weaker(EvalSegment(s, few, p, t), EvalSegment(s, cols, p, t))
  BY SegmentStands
<1> HIDE DEF few
<1>3. /\ part.result \in Tri
      /\ part.result = True => \E s \in segs : s.operation = op /\ EvalSegment(s, few, p, t) = True
      /\ part.result = False => \A s \in segs : s.operation = op => EvalSegment(s, few, p, t) = False
  BY <1>1, EntitledValue
<1>4. /\ (\E s \in segs : s.operation = op /\ EvalSegment(s, cols, p, t) = True) => full.result = True
      /\ (\A s \in segs : s.operation = op => EvalSegment(s, cols, p, t) = False) => full.result = False
  BY <1>1, EntitledValue
<1>5. part.fields = UNION {s.read_fields : s \in
          {x \in segs : x.operation = op /\ EvalSegment(x, few, p, t) = True}}
  BY EntitledFields
<1>6. full.fields = UNION {s.read_fields : s \in
          {x \in segs : x.operation = op /\ EvalSegment(x, cols, p, t) = True}}
  BY EntitledFields
<1> HIDE DEF part, full
<1>7. \A s \in segs : EvalSegment(s, few, p, t) = True => EvalSegment(s, cols, p, t) = True
  BY <1>2, TriDistinct DEF Weaker
<1>8. \A s \in segs : EvalSegment(s, few, p, t) = False => EvalSegment(s, cols, p, t) = False
  BY <1>2, TriDistinct DEF Weaker
<1>9. part.fields \subseteq full.fields
  BY <1>5, <1>6, <1>7
<1>10. Weaker(part.result, full.result)
  BY <1>3, <1>4, <1>7, <1>8 DEF Weaker, Tri
<1>11. QED
  BY <1>9, <1>10 DEF part, full, few

\* And so would the decision.
LEMMA DecisionStands ==
  ASSUME NEW segs, \A s \in segs : GoodSegment(s), NEW op,
         NEW cols, FullFacts(cols), NEW missing, NEW p, NEW t
  PROVE  LET part == evaluate(ListResource, segs, op, Partial(cols, missing), p, t)
             full == evaluate(ListResource, segs, op, cols, p, t)
             e == DecisionError(part)
         IN  /\ e = "none" => DecisionError(full) = "none" /\ part.fields \subseteq full.fields
             /\ e = "PERMISSION_DENIED" => DecisionError(full) \in {"PERMISSION_DENIED", "NOT_FOUND"}
             /\ e = "NOT_FOUND" => DecisionError(full) = "NOT_FOUND"
<1> DEFINE few == Partial(cols, missing)
           vop == ListResource.view_operation
           part == evaluate(ListResource, segs, op, few, p, t)
           full == evaluate(ListResource, segs, op, cols, p, t)
           pv == Entitled(segs, vop, few, p, t)
           fv == Entitled(segs, vop, cols, p, t)
           pa == Entitled(segs, op, few, p, t)
           fa == Entitled(segs, op, cols, p, t)
<1>1. Facts(cols) /\ Facts(few)
  BY PartialFacts
<1>2. Weaker(pv.result, fv.result)
  BY EntitlementStands
<1>3. Weaker(pa.result, fa.result) /\ pa.fields \subseteq fa.fields
  BY EntitlementStands
<1> HIDE DEF few
<1>4. /\ part.visible = pv.result /\ part.visible \in Tri
      /\ part.action \in Tri
      /\ part.action = True <=> pv.result = True /\ pa.result = True
      /\ part.action = False <=> pv.result = False \/ pa.result = False
      /\ part.fields = IF pv.result = True THEN Outputs(ListResource, pa.fields) ELSE {}
  BY <1>1, EvaluateValue
<1>5. /\ full.visible = fv.result /\ full.visible \in Tri
      /\ full.action \in Tri
      /\ full.action = True <=> fv.result = True /\ fa.result = True
      /\ full.action = False <=> fv.result = False \/ fa.result = False
      /\ full.fields = IF fv.result = True THEN Outputs(ListResource, fa.fields) ELSE {}
  BY <1>1, EvaluateValue
<1>6. Outputs(ListResource, pa.fields) \subseteq Outputs(ListResource, fa.fields)
  BY <1>3 DEF Outputs
<1> HIDE DEF part, full, pv, fv, pa, fa
<1>7. /\ DecisionError(part) = "none" <=> part.visible = True /\ part.action = True
      /\ DecisionError(part) = "NOT_FOUND" <=> part.visible = False
      /\ DecisionError(part) = "PERMISSION_DENIED" <=> part.visible # False /\ part.action = False
  BY <1>4, NoError
<1>8. /\ DecisionError(full) = "none" <=> full.visible = True /\ full.action = True
      /\ DecisionError(full) = "NOT_FOUND" <=> full.visible = False
      /\ DecisionError(full) = "PERMISSION_DENIED" <=> full.visible # False /\ full.action = False
  BY <1>5, NoError
<1>9. DecisionError(part) = "none" => DecisionError(full) = "none" /\ part.fields \subseteq full.fields
  BY <1>2, <1>3, <1>4, <1>5, <1>6, <1>7, <1>8, TriDistinct DEF Weaker
<1>10. DecisionError(part) = "PERMISSION_DENIED" => DecisionError(full) \in {"PERMISSION_DENIED", "NOT_FOUND"}
  BY <1>2, <1>3, <1>4, <1>5, <1>7, <1>8, TriDistinct DEF Weaker
<1>11. DecisionError(part) = "NOT_FOUND" => DecisionError(full) = "NOT_FOUND"
  BY <1>2, <1>4, <1>5, <1>7, <1>8, TriDistinct DEF Weaker
<1>12. QED
  BY <1>9, <1>10, <1>11 DEF part, full, few

-----------------------------------------------------------------------------
(* The state of a listing.                                                 *)

TableInv == IsTable(stored) /\ granted \in Grant /\ asked \in DOMAIN RequestOf

Granted == {SegmentOf[d] : d \in granted}

\* The table stays a table and the subject's segments the view's.
LEMMA TableStep ==
  ASSUME TableInv, [ListNext]_listVars
  PROVE  TableInv'
<1> USE DEF TableInv, IsTable
<1>1. CASE Page \/ BeginAgain \/ (\E req \in DOMAIN RequestOf : AskOtherwise(req))
  BY <1>1 DEF Page, BeginAgain, AskOtherwise
<1>2. ASSUME NEW id \in RecordId, NEW row \in DOMAIN RowOf, Put(id, row) PROVE TableInv'
  <2>1. /\ stored' = [i \in DOMAIN stored \cup {id} |-> IF i = id THEN row ELSE stored[i]]
        /\ UNCHANGED <<granted, asked>>
    BY <1>2 DEF Put, RowChanges
  <2>2. IsFiniteSet(DOMAIN stored \cup {id})
    BY FS_AddElement
  <2>3. QED
    BY <2>1, <2>2
<1>3. ASSUME NEW id \in DOMAIN stored, Delete(id) PROVE TableInv'
  <2>1. stored' = [i \in DOMAIN stored \ {id} |-> stored[i]] /\ UNCHANGED <<granted, asked>>
    BY <1>3 DEF Delete, RowChanges, Restrict
  <2>2. IsFiniteSet(DOMAIN stored \ {id})
    BY FS_RemoveElement
  <2>3. QED
    BY <2>1, <2>2
<1>4. ASSUME NEW segs \in Grant, ChangeGrant(segs) PROVE TableInv'
  BY <1>4 DEF ChangeGrant
<1>5. CASE UNCHANGED listVars
  BY <1>5 DEF listVars
<1>6. QED
  BY <1>1, <1>2, <1>3, <1>4, <1>5 DEF ListNext

\* In every state the table is one, and the segments are the view's.
LEMMA Tables == ListSpec => []TableInv
<1>1. ListInit => TableInv
  BY ListAssumption DEF ListInit, TableInv
<1>2. QED
  BY <1>1, TableStep, PTL DEF ListSpec

\* What a state's rows and segments are like.
LEMMA StoredFacts ==
  ASSUME TableInv
  PROVE  /\ \A s \in Granted : GoodSegment(s)
         /\ \A name \in Range(stored) : name \in DOMAIN RowOf /\ FullFacts(RowOf[name].cols)
         /\ \A id \in DOMAIN stored : FullFacts(Row(id).cols)
<1>1. granted \subseteq DOMAIN SegmentOf
  BY ListAssumption DEF TableInv
<1>2. \A d \in granted : GoodSegment(SegmentOf[d])
  BY <1>1, ListAssumption DEF GoodSegment
<1>3. \A id \in DOMAIN stored : stored[id] \in DOMAIN RowOf
  BY DEF TableInv, IsTable
<1>4. QED
  BY <1>2, <1>3, ListAssumption DEF Granted, Range, Row

\* Deciding a record and listing it are the same authorization, for every
\* resource, set of segments, operation, row and time: what evaluate allows is in
\* the plan with its fields, and what is in the plan is allowed with its fields
\* unless a segment and the row meet in the empty path (compile_plan, evaluate).
THEOREM PlansAgree == ListSpec => []PlanAgrees
<1>1. TableInv => PlanAgrees
  <2> SUFFICES ASSUME TableInv, NEW name \in Range(stored)
               PROVE  LET plan == Plan
                          cols == RowOf[name].cols
                          d == Decide(cols)
                          allowed == DecisionError(d) = "none"
                          planned == PlanWhere(plan, cols) = True
                      IN  /\ allowed => planned /\ d.fields \subseteq PlanFields(plan, cols)
                          /\ (planned /\ ~MeetAnywhere(plan.view \cup plan.asked, cols)) =>
                               allowed /\ PlanFields(plan, cols) \subseteq d.fields
    BY DEF PlanAgrees
  <2> DEFINE cols == RowOf[name].cols
  <2>1. (\A s \in Granted : GoodSegment(s)) /\ FullFacts(cols)
    BY StoredFacts
  <2>2. Plan = compile_plan(ListResource, Granted, listOp, Principal, instant)
    BY DEF Plan, PlanOf, Granted
  <2>3. Decide(cols) = evaluate(ListResource, Granted, listOp, cols, Principal, instant)
    BY DEF Decide, Granted
  <2> HIDE DEF cols
  <2>4. LET plan == compile_plan(ListResource, Granted, listOp, Principal, instant)
            d == evaluate(ListResource, Granted, listOp, cols, Principal, instant)
            allowed == DecisionError(d) = "none"
            planned == PlanWhere(plan, cols) = True
        IN  /\ allowed => planned /\ d.fields \subseteq PlanFields(plan, cols)
            /\ (planned /\ ~MeetAnywhere(plan.view \cup plan.asked, cols)) =>
                 allowed /\ PlanFields(plan, cols) \subseteq d.fields
    BY <2>1, PlanIsDecision
  <2>5. QED
    BY <2>2, <2>3, <2>4 DEF cols
<1>2. QED
  BY <1>1, Tables, PTL

\* What is decided without all the facts would be decided with them: an
\* operation allowed stays allowed with no field less, one denied stays denied,
\* and a record said not to be found is not visible (_atom, _segment, _entitled,
\* Decision.error).
THEOREM DecisionsStand == ListSpec => []DecidedForGood
<1>1. TableInv => DecidedForGood
  <2> SUFFICES ASSUME TableInv, NEW name \in Range(stored),
                      NEW missing \in SUBSET DOMAIN RowOf[name].cols
               PROVE  LET cols == RowOf[name].cols
                          full == Decide(cols)
                          part == Decide(Partial(cols, missing))
                          e == DecisionError(part)
                      IN  /\ e = "none" => DecisionError(full) = "none" /\ part.fields \subseteq full.fields
                          /\ e = "PERMISSION_DENIED" =>
                               DecisionError(full) \in {"PERMISSION_DENIED", "NOT_FOUND"}
                          /\ e = "NOT_FOUND" => DecisionError(full) = "NOT_FOUND"
    BY DEF DecidedForGood
  <2> DEFINE cols == RowOf[name].cols
  <2>1. (\A s \in Granted : GoodSegment(s)) /\ FullFacts(cols)
    BY StoredFacts
  <2>2. \A c : Decide(c) = evaluate(ListResource, Granted, listOp, c, Principal, instant)
    BY DEF Decide, Granted
  <2> HIDE DEF cols
  <2>3. LET part == evaluate(ListResource, Granted, listOp, Partial(cols, missing), Principal, instant)
            full == evaluate(ListResource, Granted, listOp, cols, Principal, instant)
            e == DecisionError(part)
        IN  /\ e = "none" => DecisionError(full) = "none" /\ part.fields \subseteq full.fields
            /\ e = "PERMISSION_DENIED" => DecisionError(full) \in {"PERMISSION_DENIED", "NOT_FOUND"}
            /\ e = "NOT_FOUND" => DecisionError(full) = "NOT_FOUND"
    BY <2>1, DecisionStands
  <2>4. QED
    BY <2>2, <2>3 DEF cols
<1>2. QED
  BY <1>1, Tables, PTL

-----------------------------------------------------------------------------
(* A page.                                                                 *)

\* The smaller of two numbers.
LEMMA MinOfTwo ==
  ASSUME NEW a \in Nat, NEW b \in Nat
  PROVE  /\ Min({a, b}) \in Nat /\ Min({a, b}) <= a /\ Min({a, b}) <= b
         /\ Min({a, b}) = a \/ Min({a, b}) = b
<1>1. \E x \in {a, b} : \A y \in {a, b} : x <= y
  <2>1. CASE a <= b
    BY <2>1
  <2>2. CASE b <= a
    BY <2>2
  <2>3. QED
    BY <2>1, <2>2
<1>2. Min({a, b}) \in {a, b} /\ \A y \in {a, b} : Min({a, b}) <= y
  BY <1>1 DEF Min
<1>3. QED
  BY <1>2

\* What a sequence has with the entries of a page added.
LEMMA Appended ==
  ASSUME NEW S, NEW s \in Seq(S), NEW n \in Nat, NEW f \in [1 .. n -> S]
  PROVE  /\ s \o f \in Seq(S)
         /\ DOMAIN s = 1 .. Len(s) /\ Len(s) \in Nat
         /\ DOMAIN (s \o f) = 1 .. (Len(s) + n)
         /\ Len(s \o f) = Len(s) + n
         /\ \A i \in 1 .. Len(s) : (s \o f)[i] = s[i]
         /\ \A i \in 1 .. n : Len(s) + i \in DOMAIN (s \o f) /\ (s \o f)[Len(s) + i] = f[i]
         /\ \A k \in DOMAIN (s \o f) :
              k \in DOMAIN s \/ (k - Len(s) \in 1 .. n /\ (s \o f)[k] = f[k - Len(s)])
<1>1. f \in Seq(S) /\ Len(f) = n
  BY IsASeq
<1>2. /\ s \o f \in Seq(S) /\ Len(s \o f) = Len(s) + n
      /\ \A i \in 1 .. (Len(s) + n) : (s \o f)[i] = IF i <= Len(s) THEN s[i] ELSE f[i - Len(s)]
  BY <1>1, ConcatProperties
<1>3. Len(s) \in Nat /\ DOMAIN s = 1 .. Len(s)
  BY LenProperties
<1>4. DOMAIN (s \o f) = 1 .. (Len(s) + n)
  BY <1>2, LenProperties
<1>5. \A i \in 1 .. Len(s) : (s \o f)[i] = s[i]
  BY <1>2, <1>3
<1>6. \A i \in 1 .. n : Len(s) + i \in 1 .. (Len(s) + n) /\ (s \o f)[Len(s) + i] = f[i]
  <2> SUFFICES ASSUME NEW i \in 1 .. n
               PROVE  Len(s) + i \in 1 .. (Len(s) + n) /\ (s \o f)[Len(s) + i] = f[i]
    OBVIOUS
  <2>1. Len(s) + i \in 1 .. (Len(s) + n) /\ ~(Len(s) + i <= Len(s)) /\ (Len(s) + i) - Len(s) = i
    BY <1>3
  <2>2. QED
    BY <1>2, <2>1
<1>7. \A k \in 1 .. (Len(s) + n) :
        k \in 1 .. Len(s) \/ (k - Len(s) \in 1 .. n /\ (s \o f)[k] = f[k - Len(s)])
  <2> SUFFICES ASSUME NEW k \in 1 .. (Len(s) + n), k \notin 1 .. Len(s)
               PROVE  k - Len(s) \in 1 .. n /\ (s \o f)[k] = f[k - Len(s)]
    OBVIOUS
  <2>1. k - Len(s) \in 1 .. n /\ ~(k <= Len(s))
    BY <1>3
  <2>2. QED
    BY <1>2, <2>1
<1>8. QED
  BY <1>2, <1>3, <1>4, <1>5, <1>6, <1>7

\* The keys of a row, by sortable columns.
LEMMA KeysType ==
  ASSUME TableInv, SortFields(Req) \subseteq Sortable, NEW id \in DOMAIN stored
  PROVE  KeysOf(Row(id), Req.sort) \in [DOMAIN Req.sort -> Int]
<1>1. stored[id] \in DOMAIN RowOf
  BY DEF TableInv, IsTable
<1>2. \A i \in DOMAIN Req.sort : Req.sort[i].field \in Sortable
  BY DEF SortFields
<1>3. \A i \in DOMAIN Req.sort : Row(id).vals[Req.sort[i].field] \in Int
  BY <1>1, <1>2, ListAssumption DEF Row
<1>4. QED
  BY <1>3 DEF KeysOf

\* A page is a part of the rows of its request, in order: the first n of them,
\* all when they are few.
LEMMA PageRows ==
  ASSUME TableInv, Page
  PROVE  /\ ~finished /\ BuildError(Plan, Req, cursor) = "none"
         /\ UNCHANGED <<stored, granted, instant, listOp, asked, steady>>
         /\ \E size \in Nat, n \in Nat : \E rows \in [1 .. size -> Where(Plan, cursor)] :
              /\ n <= size
              /\ InOrder(rows, Where(Plan, cursor))
              /\ listed' = listed \o [i \in 1 .. n |-> Item(Plan, rows[i])]
              /\ \/ finished' = TRUE /\ UNCHANGED cursor /\ n = size
                 \/ /\ finished' = finished /\ n >= 1
                    /\ cursor' = [k |-> KeysOf(Row(rows[n]), Req.sort), id |-> rows[n],
                                  f |-> asked, p |-> Plan.digest]
<1> DEFINE found == Where(Plan, cursor)
           size == Cardinality(found)
           n == Min({size, Limit})
<1>1. found \subseteq DOMAIN stored
  BY DEF Where, Listable
<1>2. IsFiniteSet(found)
  BY <1>1, FS_Subset DEF TableInv, IsTable
<1>3. size \in Nat /\ Limit \in Nat /\ Limit >= 1
  BY <1>2, FS_CardinalityType, ListAssumption
<1>4. n \in Nat /\ n <= size /\ n <= Limit /\ (n = size \/ n = Limit)
  BY <1>3, MinOfTwo
<1>5. PICK rows \in [1 .. size -> found] :
        /\ InOrder(rows, found)
        /\ listed' = listed \o [i \in 1 .. n |-> Item(Plan, rows[i])]
        /\ IF size <= Limit
           THEN finished' = TRUE /\ UNCHANGED cursor
           ELSE /\ cursor' = [k |-> KeysOf(Row(rows[n]), Req.sort), id |-> rows[n],
                              f |-> asked, p |-> Plan.digest]
                /\ UNCHANGED finished
  BY DEF Page
<1>6. /\ ~finished /\ BuildError(Plan, Req, cursor) = "none"
      /\ UNCHANGED <<stored, granted, instant, listOp, asked, steady>>
  BY DEF Page
<1> HIDE DEF n, size
<1>7. size <= Limit => n = size
  BY <1>3, <1>4
<1>8. ~(size <= Limit) => n >= 1
  BY <1>3, <1>4
<1> HIDE DEF found
<1>9. \/ finished' = TRUE /\ UNCHANGED cursor /\ n = size
      \/ /\ finished' = finished /\ n >= 1
         /\ cursor' = [k |-> KeysOf(Row(rows[n]), Req.sort), id |-> rows[n],
                       f |-> asked, p |-> Plan.digest]
  BY <1>5, <1>7, <1>8
<1>10. QED
  BY <1>3, <1>4, <1>5, <1>6, <1>9 DEF found

\* What BuildError's "none" says of a request.
LEMMA BuildPasses ==
  ASSUME NEW plan, NEW req, NEW c, BuildError(plan, req, c) = "none"
  PROVE  /\ SortFields(req) \subseteq Sortable
         /\ \A f \in FilterFields(req) \cup SortFields(req) : Queryable(plan, req, f)
         /\ Given(c) => c.f = asked
  BY DEF BuildError

\* A row that is listed shows each restricted field of the request: some
\* segment that lets it be listed reads the field.
LEMMA ShownFields ==
  ASSUME TableInv, NEW id \in Listable(Plan, Req), BuildError(Plan, Req, cursor) = "none",
         NEW f \in (FilterFields(Req) \cup SortFields(Req)) \cap DOMAIN ListResource.fields,
         ListResource.fields[f].cls # "ordinary"
  PROVE  f \in Shown(Plan, Row(id))
<1> DEFINE cols == Row(id).cols
           plan == Plan
<1>1. /\ plan.asked = Active(Granted, listOp, instant) /\ plan.principal = Principal
      /\ plan.view = Active(Granted, ListResource.view_operation, instant)
      /\ plan.resource = ListResource
  BY DEF Plan, PlanOf, compile_plan, Granted
<1>2. id \in DOMAIN stored /\ Selected(plan, Req, Row(id))
  BY DEF Listable
<1>3. FullFacts(cols) /\ \A s \in Granted : GoodSegment(s)
  BY <1>2, StoredFacts
<1>4. Queryable(plan, Req, f)
  BY BuildPasses
<1> HIDE DEF plan, cols
<1>5. f \in PlanFields(plan, cols)
  <2>1. CASE f \in Req.readable_only
    <3>1. readable_where(plan, f, cols)
      BY <1>2, <2>1 DEF Selected, cols
    <3>2. QED
      BY <3>1 DEF readable_where, PlanFields
  <2>2. CASE f \notin Req.readable_only
    <3>1. \A s \in plan.asked : f \in FieldSet(plan, s)
      BY <1>4, <2>2 DEF Queryable, Restricted, readable_everywhere
    <3>2. \E s \in plan.asked : Hit(s, cols, plan.principal)
      <4> DEFINE view == OrAll({SqlSegment(s, cols, plan.principal) : s \in plan.view})
                 S == {SqlSegment(s, cols, plan.principal) : s \in plan.asked}
      <4>1. \A s \in plan.view \cup plan.asked : GoodSegment(s)
        BY <1>1, <1>3 DEF Active
      <4>2. S \in SUBSET Tri /\ {SqlSegment(s, cols, plan.principal) : s \in plan.view} \in SUBSET Tri
        BY <1>3, <4>1, SegmentsAgree
      <4>3. view \in Tri /\ OrAll(S) \in Tri /\ (OrAll(S) = True => True \in S)
        BY <4>2, OrAllValue
      <4>4. AndAll({view, OrAll(S)}) = True
        BY <1>2 DEF Selected, PlanWhere, cols
      <4> HIDE DEF view
      <4>5. True \in S
        BY <4>3, <4>4, AndTwo
      <4>6. QED
        BY <4>5 DEF Hit
    <3>3. QED
      BY <3>1, <3>2 DEF PlanFields
  <2>3. QED
    BY <2>1, <2>2
<1>6. f \in Outputs(ListResource, DOMAIN ListResource.fields)
  BY <1>1, <1>5 DEF PlanFields, FieldSet, Outputs
<1>7. QED
  BY <1>5, <1>6 DEF Shown, mask, plan, cols

\* The rows of the pages are of the table, with their keys, and show what the
\* request was queried by.
PagesInv == listed \in Seq(ListItem) /\ QueriedIsShown

LEMMA PageTypes ==
  ASSUME TableInv, PagesInv, Page
  PROVE  PagesInv'
<1>1. PICK n \in Nat, size \in Nat : \E rows \in [1 .. size -> Where(Plan, cursor)] :
        n <= size /\ listed' = listed \o [i \in 1 .. n |-> Item(Plan, rows[i])]
  BY PageRows
<1>2. PICK rows \in [1 .. size -> Where(Plan, cursor)] :
        n <= size /\ listed' = listed \o [i \in 1 .. n |-> Item(Plan, rows[i])]
  BY <1>1
<1>3. \A i \in 1 .. n : rows[i] \in Listable(Plan, Req)
  BY <1>2 DEF Where
<1>4. BuildError(Plan, Req, cursor) = "none" /\ asked' = asked
  BY PageRows
<1>5. SortFields(Req) \subseteq Sortable
  BY <1>4, BuildPasses
<1> DEFINE page == [i \in 1 .. n |-> Item(Plan, rows[i])]
<1>6. \A i \in 1 .. n : Item(Plan, rows[i]) \in ListItem
  <2> SUFFICES ASSUME NEW i \in 1 .. n PROVE Item(Plan, rows[i]) \in ListItem
    OBVIOUS
  <2>1. rows[i] \in DOMAIN stored
    BY <1>3 DEF Listable
  <2>2. rows[i] \in RecordId
    BY <2>1 DEF TableInv, IsTable
  <2>3. KeysOf(Row(rows[i]), Req.sort) \in [DOMAIN Req.sort -> Int]
    BY <1>5, <2>1, KeysType
  <2>4. Shown(Plan, Row(rows[i])) \subseteq DOMAIN ListResource.fields
    BY DEF Shown, mask, Outputs
  <2>5. QED
    BY <2>2, <2>3, <2>4 DEF Item, ListItem
<1>7. page \in [1 .. n -> ListItem]
  BY <1>6
<1>8. listed \in Seq(ListItem)
  BY DEF PagesInv
<1>9. /\ listed' \in Seq(ListItem)
      /\ DOMAIN listed = 1 .. Len(listed)
      /\ \A i \in 1 .. Len(listed) : listed'[i] = listed[i]
      /\ \A k \in DOMAIN listed' : k \in DOMAIN listed
           \/ (k - Len(listed) \in 1 .. n /\ listed'[k] = page[k - Len(listed)])
  <2>1. listed' = listed \o page
    BY <1>2
  <2> HIDE DEF page
  <2>2. /\ listed \o page \in Seq(ListItem)
        /\ DOMAIN listed = 1 .. Len(listed)
        /\ \A i \in 1 .. Len(listed) : (listed \o page)[i] = listed[i]
        /\ \A k \in DOMAIN (listed \o page) : k \in DOMAIN listed
             \/ (k - Len(listed) \in 1 .. n /\ (listed \o page)[k] = page[k - Len(listed)])
    BY <1>7, <1>8, Appended
  <2>3. QED
    BY <2>1, <2>2
<1>10. Req' = Req
  BY <1>4 DEF Req
<1>11. ListItem' = ListItem
  BY <1>10 DEF ListItem
<1>12. QueriedIsShown'
  <2> SUFFICES ASSUME NEW k \in DOMAIN listed',
                      NEW f \in (FilterFields(Req) \cup SortFields(Req)) \cap DOMAIN ListResource.fields,
                      ListResource.fields[f].cls # "ordinary"
               PROVE  f \in listed'[k].shown
    BY <1>10 DEF QueriedIsShown
  <2>1. CASE k \in DOMAIN listed
    BY <1>9, <2>1 DEF PagesInv, QueriedIsShown
  <2>2. ASSUME NEW i \in 1 .. n, listed'[k] = page[i] PROVE f \in listed'[k].shown
    <3>1. listed'[k] = Item(Plan, rows[i])
      BY <2>2
    <3>2. f \in Shown(Plan, Row(rows[i]))
      BY <1>3, <1>4, ShownFields
    <3>3. QED
      BY <3>1, <3>2 DEF Item
  <2>3. QED
    BY <1>9, <2>1, <2>2
<1>13. QED
  BY <1>9, <1>11, <1>12 DEF PagesInv

\* Every step keeps the rows of the pages so.
LEMMA PagesStep ==
  ASSUME TableInv, PagesInv, [ListNext]_listVars
  PROVE  PagesInv'
<1>1. ASSUME listed' = <<>> PROVE PagesInv'
  BY <1>1 DEF PagesInv, QueriedIsShown
<1>2. ASSUME UNCHANGED <<listed, asked>> PROVE PagesInv'
  BY <1>2 DEF PagesInv, QueriedIsShown, ListItem, Req
<1>3. CASE BeginAgain \/ \E req \in DOMAIN RequestOf : AskOtherwise(req)
  BY <1>1, <1>3 DEF BeginAgain, AskOtherwise
<1>4. ASSUME NEW id, NEW row, Put(id, row) \/ Delete(id) PROVE PagesInv'
  BY <1>2, <1>4 DEF Put, Delete, RowChanges
<1>5. ASSUME NEW segs, ChangeGrant(segs) PROVE PagesInv'
  BY <1>2, <1>5 DEF ChangeGrant
<1>6. CASE UNCHANGED listVars
  BY <1>2, <1>6 DEF listVars
<1>7. QED
  BY <1>3, <1>4, <1>5, <1>6, PageTypes DEF ListNext

\* In every state the rows of the pages are so.
LEMMA PagesTyped == ListSpec => []PagesInv
<1>1. ListInit => PagesInv
  BY DEF ListInit, PagesInv, QueriedIsShown
<1>2. QED
  BY <1>1, PagesStep, Tables, PTL DEF ListSpec

\* A list tells nothing of what it hides: each row it gives shows every
\* restricted field the request filters or sorts by (build, readable_everywhere,
\* readable_where, mask).
THEOREM QueriedFieldsShown == ListSpec => []QueriedIsShown
<1>1. PagesInv => QueriedIsShown
  BY DEF PagesInv
<1>2. QED
  BY <1>1, PagesTyped, PTL

-----------------------------------------------------------------------------
(* Each row once.                                                          *)

\* No row comes after itself.
LEMMA AfterIrreflexive ==
  ASSUME NEW N \in Nat, NEW sort, DOMAIN sort = 1 .. N, NEW x \in [1 .. N -> Int], NEW a \in Nat
  PROVE  ~IsAfter(x, a, x, a, sort)
  BY DEF IsAfter, After

\* The order of rows is transitive, each key in its own direction.
LEMMA AfterTransitive ==
  ASSUME NEW N \in Nat, NEW sort, DOMAIN sort = 1 .. N,
         NEW x \in [1 .. N -> Int], NEW y \in [1 .. N -> Int], NEW z \in [1 .. N -> Int],
         NEW a \in Nat, NEW b \in Nat, NEW c \in Nat,
         IsAfter(x, a, y, b, sort), IsAfter(y, b, z, c, sort)
  PROVE  IsAfter(x, a, z, c, sort)
<1> DEFINE First(u, v, i) == (\A j \in 1 .. (i - 1) : u[j] = v[j]) /\ After(u[i], v[i], sort[i])
<1>1. \/ \E i \in 1 .. N : First(x, y, i)
      \/ x = y /\ a > b
  BY DEF IsAfter
<1>2. \/ \E i \in 1 .. N : First(y, z, i)
      \/ y = z /\ b > c
  BY DEF IsAfter
<1>3. ASSUME NEW i \in 1 .. N, First(x, z, i) PROVE IsAfter(x, a, z, c, sort)
  BY <1>3 DEF IsAfter
<1>4. CASE x = y /\ a > b /\ y = z /\ b > c
  BY <1>4 DEF IsAfter
<1>5. ASSUME NEW i \in 1 .. N, First(x, y, i), y = z PROVE IsAfter(x, a, z, c, sort)
  BY <1>3, <1>5
<1>6. ASSUME NEW i \in 1 .. N, First(y, z, i), x = y PROVE IsAfter(x, a, z, c, sort)
  BY <1>3, <1>6
<1>7. ASSUME NEW i \in 1 .. N, First(x, y, i), NEW j \in 1 .. N, First(y, z, j)
      PROVE  IsAfter(x, a, z, c, sort)
  <2>1. CASE i < j
    <3>1. (\A k \in 1 .. (i - 1) : x[k] = z[k]) /\ y[i] = z[i]
      BY <1>7, <2>1
    <3>2. First(x, z, i)
      BY <1>7, <3>1
    <3>3. QED
      BY <1>3, <3>2
  <2>2. CASE j < i
    <3>1. (\A k \in 1 .. (j - 1) : x[k] = z[k]) /\ x[j] = y[j]
      BY <1>7, <2>2
    <3>2. First(x, z, j)
      BY <1>7, <3>1
    <3>3. QED
      BY <1>3, <3>2
  <2>3. CASE i = j
    <3>1. \A k \in 1 .. (i - 1) : x[k] = z[k]
      BY <1>7, <2>3
    <3>2. After(x[i], z[i], sort[i])
      BY <1>7, <2>3 DEF After
    <3>3. QED
      BY <1>3, <3>1, <3>2
  <2>4. QED
    BY <2>1, <2>2, <2>3
<1>8. QED
  BY <1>1, <1>2, <1>4, <1>5, <1>6, <1>7

\* A request's sort is a sequence.
LEMMA SortType ==
  ASSUME TableInv
  PROVE  Len(Req.sort) \in Nat /\ DOMAIN Req.sort = 1 .. Len(Req.sort)
<1>1. Req.sort \in Seq(Order)
  BY ListAssumption DEF TableInv, Req
<1>2. QED
  BY <1>1, LenProperties

\* The inductive invariant of the pages' order, beside the types.
EachInv ==
  /\ steady \subseteq Listable(Plan, Req)
  /\ finished \in BOOLEAN
  /\ CursorInv
  /\ Ascending
  /\ SteadyInv

\* What a page does to a listing: its rows, each as it is in the table, after
\* the ones that were there.
LEMMA PageAdds ==
  ASSUME TableInv, PagesInv, Page
  PROVE  \E size \in Nat, n \in Nat : \E rows \in [1 .. size -> Where(Plan, cursor)] :
           /\ n <= size
           /\ InOrder(rows, Where(Plan, cursor))
           /\ Len(listed) \in Nat /\ DOMAIN listed = 1 .. Len(listed)
           /\ Len(listed') = Len(listed) + n /\ DOMAIN listed' = 1 .. (Len(listed) + n)
           /\ \A k \in 1 .. Len(listed) : listed'[k] = listed[k]
           /\ \A i \in 1 .. n : listed'[Len(listed) + i] = Item(Plan, rows[i])
           /\ \/ finished' = TRUE /\ UNCHANGED cursor /\ n = size
              \/ /\ finished' = finished /\ n >= 1
                 /\ cursor' = [k |-> KeysOf(Row(rows[n]), Req.sort), id |-> rows[n],
                               f |-> asked, p |-> Plan.digest]
<1>1. PICK size \in Nat, n \in Nat : \E rows \in [1 .. size -> Where(Plan, cursor)] :
        /\ n <= size
        /\ InOrder(rows, Where(Plan, cursor))
        /\ listed' = listed \o [i \in 1 .. n |-> Item(Plan, rows[i])]
        /\ \/ finished' = TRUE /\ UNCHANGED cursor /\ n = size
           \/ /\ finished' = finished /\ n >= 1
              /\ cursor' = [k |-> KeysOf(Row(rows[n]), Req.sort), id |-> rows[n],
                            f |-> asked, p |-> Plan.digest]
  BY PageRows
<1>2. PICK rows \in [1 .. size -> Where(Plan, cursor)] :
        /\ n <= size
        /\ InOrder(rows, Where(Plan, cursor))
        /\ listed' = listed \o [i \in 1 .. n |-> Item(Plan, rows[i])]
        /\ \/ finished' = TRUE /\ UNCHANGED cursor /\ n = size
           \/ /\ finished' = finished /\ n >= 1
              /\ cursor' = [k |-> KeysOf(Row(rows[n]), Req.sort), id |-> rows[n],
                            f |-> asked, p |-> Plan.digest]
  BY <1>1
<1> DEFINE page == [i \in 1 .. n |-> Item(Plan, rows[i])]
           Entry == ListItem \cup {Item(Plan, rows[i]) : i \in 1 .. n}
<1>3. page \in [1 .. n -> Entry]
  OBVIOUS
<1>4. listed \in Seq(Entry)
  <2>1. listed \in Seq(ListItem) /\ ListItem \subseteq Entry
    BY DEF PagesInv
  <2>2. QED
    BY <2>1, SeqMonotonic
<1>5. \A i \in 1 .. n : page[i] = Item(Plan, rows[i])
  OBVIOUS
<1>6. listed' = listed \o page
  BY <1>2
<1> HIDE DEF page, Entry
<1>7. /\ DOMAIN listed = 1 .. Len(listed) /\ Len(listed) \in Nat
      /\ DOMAIN (listed \o page) = 1 .. (Len(listed) + n)
      /\ Len(listed \o page) = Len(listed) + n
      /\ \A i \in 1 .. Len(listed) : (listed \o page)[i] = listed[i]
      /\ \A i \in 1 .. n : (listed \o page)[Len(listed) + i] = page[i]
  BY <1>3, <1>4, Appended
<1>8. /\ Len(listed) \in Nat /\ DOMAIN listed = 1 .. Len(listed)
      /\ Len(listed') = Len(listed) + n /\ DOMAIN listed' = 1 .. (Len(listed) + n)
      /\ \A k \in 1 .. Len(listed) : listed'[k] = listed[k]
      /\ \A i \in 1 .. n : listed'[Len(listed) + i] = Item(Plan, rows[i])
  BY <1>5, <1>6, <1>7
<1>9. QED
  BY <1>2, <1>8

\* The rows of a page come after every row of the pages before.
LEMMA PageIsAfter ==
  ASSUME TableInv, PagesInv, EachInv, ~finished, BuildError(Plan, Req, cursor) = "none",
         NEW id \in Where(Plan, cursor), NEW k \in DOMAIN listed
  PROVE  IsAfter(KeysOf(Row(id), Req.sort), id, listed[k].keys, listed[k].id, Req.sort)
<1> DEFINE N == Len(Req.sort)
           x == KeysOf(Row(id), Req.sort)
           last == listed[Len(listed)]
<1>1. N \in Nat /\ DOMAIN Req.sort = 1 .. N
  BY SortType
<1>2. /\ Len(listed) \in Nat /\ DOMAIN listed = 1 .. Len(listed) /\ Len(listed) \in DOMAIN listed
      /\ \A i \in DOMAIN listed : listed[i] \in ListItem
  <2>1. listed \in Seq(ListItem)
    BY DEF PagesInv
  <2>2. /\ Len(listed) \in Nat /\ DOMAIN listed = 1 .. Len(listed)
        /\ \A i \in DOMAIN listed : listed[i] \in ListItem
    BY <2>1, LenProperties, ElementOfSeq
  <2>3. QED
    BY <2>2
<1>3. \A i \in DOMAIN listed : listed[i].id \in Nat /\ listed[i].keys \in [1 .. N -> Int]
  BY <1>1, <1>2, ListAssumption DEF ListItem
<1>4. Given(cursor) /\ cursor.f = asked
  <2>1. Given(cursor) => cursor.f = asked
    BY BuildPasses
  <2>2. listed # <<>>
    OBVIOUS
  <2>3. QED
    BY <2>1, <2>2 DEF EachInv, CursorInv
<1>5. cursor.k = last.keys /\ cursor.id = last.id
  BY <1>4 DEF EachInv, CursorInv
<1>6. IsAfter(x, id, last.keys, last.id, Req.sort)
  BY <1>4, <1>5 DEF Where, Resume
<1>7. id \in Nat /\ x \in [1 .. N -> Int]
  <2>1. id \in DOMAIN stored
    BY DEF Where, Listable
  <2>2. id \in Nat
    BY <2>1, ListAssumption DEF TableInv, IsTable
  <2>3. x \in [1 .. N -> Int]
    BY <1>1, <2>1, KeysType, BuildPasses
  <2>4. QED
    BY <2>2, <2>3
<1>8. CASE k = Len(listed)
  BY <1>6, <1>8
<1>9. CASE k < Len(listed)
  <2>1. IsAfter(last.keys, last.id, listed[k].keys, listed[k].id, Req.sort)
    BY <1>2, <1>9 DEF EachInv, Ascending
  <2> HIDE DEF N, x, last
  <2>2. IsAfter(x, id, listed[k].keys, listed[k].id, Req.sort)
    <3>1. last.id \in Nat /\ last.keys \in [1 .. N -> Int]
      BY <1>2, <1>3 DEF last
    <3>2. listed[k].id \in Nat /\ listed[k].keys \in [1 .. N -> Int]
      BY <1>3
    <3>3. id \in Nat
      BY <1>7
    <3>4. QED
      BY <1>1, <1>6, <1>7, <2>1, <3>1, <3>2, <3>3, AfterTransitive, Zenon
  <2>3. QED
    BY <2>2 DEF x
<1>10. QED
  BY <1>2, <1>8, <1>9

\* A page keeps the order, the cursor's place and the steady rows.
LEMMA PageKeepsEach ==
  ASSUME TableInv, PagesInv, EachInv, Page
  PROVE  EachInv'
<1> DEFINE L == Len(listed)
           found == Where(Plan, cursor)
           K(id) == KeysOf(Row(id), Req.sort)
           CursorAt(n, rows) == [k |-> K(rows[n]), id |-> rows[n], f |-> asked, p |-> Plan.digest]
<1>1. PICK size \in Nat, n \in Nat : \E rows \in [1 .. size -> found] :
        /\ n <= size
        /\ InOrder(rows, found)
        /\ L \in Nat /\ DOMAIN listed = 1 .. L
        /\ Len(listed') = L + n /\ DOMAIN listed' = 1 .. (L + n)
        /\ \A k \in 1 .. L : listed'[k] = listed[k]
        /\ \A i \in 1 .. n : listed'[L + i] = Item(Plan, rows[i])
        /\ \/ finished' = TRUE /\ UNCHANGED cursor /\ n = size
           \/ finished' = finished /\ n >= 1 /\ cursor' = CursorAt(n, rows)
  BY PageAdds
<1>2. PICK rows \in [1 .. size -> found] :
        /\ n <= size
        /\ InOrder(rows, found)
        /\ L \in Nat /\ DOMAIN listed = 1 .. L
        /\ Len(listed') = L + n /\ DOMAIN listed' = 1 .. (L + n)
        /\ \A k \in 1 .. L : listed'[k] = listed[k]
        /\ \A i \in 1 .. n : listed'[L + i] = Item(Plan, rows[i])
        /\ \/ finished' = TRUE /\ UNCHANGED cursor /\ n = size
           \/ finished' = finished /\ n >= 1 /\ cursor' = CursorAt(n, rows)
  BY <1>1
<1>3. /\ ~finished /\ BuildError(Plan, Req, cursor) = "none"
      /\ UNCHANGED <<stored, granted, instant, listOp, asked, steady>>
  BY PageRows
<1>4. /\ Req' = Req /\ Plan' = Plan /\ Listable(Plan, Req)' = Listable(Plan, Req)
      /\ \A id : Row(id)' = Row(id)
  BY <1>3 DEF Req, Plan, PlanOf, Listable, Row
<1>5. \A i \in 1 .. n : listed'[L + i].id = rows[i] /\ listed'[L + i].keys = K(rows[i])
  <2>1. \A id : Item(Plan, id).id = id /\ Item(Plan, id).keys = K(id)
    BY DEF Item
  <2>2. \A i \in 1 .. n : listed'[L + i] = Item(Plan, rows[i])
    BY <1>2
  <2>3. QED
    BY <2>1, <2>2
<1>6. \A i, j \in 1 .. size : i < j => IsAfter(K(rows[j]), rows[j], K(rows[i]), rows[i], Req.sort)
  BY <1>2 DEF InOrder
<1>7. \A k \in 1 .. L, i \in 1 .. n : IsAfter(K(rows[i]), rows[i], listed[k].keys, listed[k].id, Req.sort)
  BY <1>2, <1>3, PageIsAfter
<1>8. \A i \in 1 .. size : rows[i] # 0
  BY ListAssumption DEF Where, Listable, TableInv, IsTable
<1>9. \A id \in found : \E i \in 1 .. size : rows[i] = id
  BY <1>2 DEF InOrder, Range
<1>10. found = {id \in Listable(Plan, Req) : Given(cursor) => Resume(K(id), id, cursor, Req.sort)}
  BY DEF Where
<1>11. Given(cursor) => cursor.f = asked
  BY <1>3, BuildPasses
<1>12. \A k \in 1 .. (L + n) : k \in 1 .. L \/ \E i \in 1 .. n : k = L + i
  <2> SUFFICES ASSUME NEW k \in 1 .. (L + n), k \notin 1 .. L PROVE \E i \in 1 .. n : k = L + i
    OBVIOUS
  <2>1. k - L \in 1 .. n /\ k = L + (k - L)
    BY <1>2
  <2>2. QED
    BY <2>1
<1> HIDE DEF L, found, K
<1>13. Ascending'
  <2> SUFFICES ASSUME NEW i \in 1 .. (L + n), NEW j \in 1 .. (L + n), i < j
               PROVE  IsAfter(listed'[j].keys, listed'[j].id, listed'[i].keys, listed'[i].id, Req.sort)
    BY <1>2, <1>4 DEF Ascending
  <2>1. CASE j \in 1 .. L
    <3>1. i \in 1 .. L
      BY <1>2, <2>1
    <3>2. QED
      BY <1>2, <2>1, <3>1 DEF EachInv, Ascending
  <2>2. CASE i \in 1 .. L /\ \E b \in 1 .. n : j = L + b
    BY <1>2, <1>5, <1>7, <2>2
  <2>3. ASSUME NEW a \in 1 .. n, i = L + a, NEW b \in 1 .. n, j = L + b
        PROVE  IsAfter(listed'[j].keys, listed'[j].id, listed'[i].keys, listed'[i].id, Req.sort)
    <3>1. a < b /\ a \in 1 .. size /\ b \in 1 .. size
      BY <1>2, <2>3
    <3>2. IsAfter(K(rows[b]), rows[b], K(rows[a]), rows[a], Req.sort)
      BY <1>6, <3>1
    <3>3. QED
      BY <1>5, <2>3, <3>2
  <2>4. ASSUME NEW a \in 1 .. n, i = L + a, j \in 1 .. L PROVE FALSE
    BY <1>2, <2>4
  <2>5. QED
    BY <1>12, <2>1, <2>2, <2>3, <2>4
<1>14. CursorInv'
  <2>1. CASE finished'
    BY <2>1 DEF CursorInv
  <2>2. CASE ~finished'
    <3>1. n >= 1 /\ cursor' = CursorAt(n, rows)
      BY <1>2, <2>2
    <3>2. n \in 1 .. n /\ n \in 1 .. size
      BY <1>2, <3>1
    <3>3. cursor'.id = rows[n] /\ cursor'.k = K(rows[n])
      BY <3>1
    <3>4. cursor'.id # 0
      BY <1>8, <3>2, <3>3
    <3>5. listed'[Len(listed')].id = rows[n] /\ listed'[Len(listed')].keys = K(rows[n])
      BY <1>2, <1>5, <3>2
    <3>6. listed' # <<>>
      <4>1. L + n \in DOMAIN listed'
        BY <1>2, <3>1
      <4>2. QED
        BY <4>1
    <3>7. QED
      BY <3>3, <3>4, <3>5, <3>6 DEF CursorInv, Given
  <2>3. QED
    BY <2>1, <2>2
<1>15. SteadyInv'
  <2> SUFFICES ASSUME NEW id \in steady
               PROVE  /\ \A k \in 1 .. (L + n) : listed'[k].id = id => listed'[k].keys = K(id)
                      /\ \/ \E k \in 1 .. (L + n) : listed'[k].id = id
                         \/ ~finished' /\ Resume(K(id), id, cursor', Req.sort)
    BY <1>2, <1>3, <1>4 DEF SteadyInv, OnPages, K
  <2>1. /\ id \in Listable(Plan, Req)
        /\ \A k \in 1 .. L : listed[k].id = id => listed[k].keys = K(id)
        /\ \/ \E k \in 1 .. L : listed[k].id = id
           \/ Given(cursor) => Resume(K(id), id, cursor, Req.sort)
    BY <1>2, <1>11 DEF EachInv, SteadyInv, OnPages, K, Following
  <2>2. \A k \in 1 .. (L + n) : listed'[k].id = id => listed'[k].keys = K(id)
    BY <1>2, <1>5, <1>12, <2>1
  <2>3. \A k \in 1 .. L : k \in 1 .. (L + n)
    BY <1>2
  <2>4. CASE \E k \in 1 .. L : listed[k].id = id
    BY <1>2, <2>2, <2>3, <2>4
  <2>5. CASE Given(cursor) => Resume(K(id), id, cursor, Req.sort)
    <3>1. id \in found
      BY <1>10, <2>1, <2>5
    <3>2. PICK i \in 1 .. size : rows[i] = id
      BY <1>9, <3>1
    <3>3. CASE i <= n
      <4>1. i \in 1 .. n /\ L + i \in 1 .. (L + n)
        BY <1>2, <3>3
      <4>2. QED
        BY <1>5, <2>2, <3>2, <4>1
    <3>4. CASE n < i
      <4>1. finished' = finished /\ n >= 1 /\ cursor' = CursorAt(n, rows)
        BY <1>2, <3>4
      <4>2. n \in 1 .. size
        BY <1>2, <4>1
      <4>3. IsAfter(K(id), id, K(rows[n]), rows[n], Req.sort)
        BY <1>6, <3>2, <3>4, <4>2
      <4>4. Resume(K(id), id, cursor', Req.sort)
        BY <4>1, <4>3 DEF Resume
      <4>5. QED
        BY <1>3, <2>2, <4>1, <4>4
    <3>5. QED
      BY <1>2, <3>3, <3>4
  <2>6. QED
    BY <2>1, <2>4, <2>5
<1>16. steady' \subseteq Listable(Plan, Req)'
  BY <1>3, <1>4 DEF EachInv
<1>17. finished' \in BOOLEAN
  BY <1>2 DEF EachInv
<1>18. QED
  BY <1>13, <1>14, <1>15, <1>16, <1>17 DEF EachInv

\* A step that leaves the pages and the cursor, and the rows that stay steady.
LEMMA LeavesPages ==
  ASSUME EachInv, UNCHANGED <<listed, cursor, asked, finished>>,
         steady' \subseteq steady, steady' \subseteq Listable(Plan, Req)',
         \A id \in steady' : Row(id)' = Row(id)
  PROVE  EachInv'
<1>1. Req' = Req /\ \A id \in steady' : KeysOf(Row(id), Req.sort)' = KeysOf(Row(id), Req.sort)
  BY DEF Req, KeysOf
<1>2. CursorInv' /\ Ascending'
  BY <1>1 DEF EachInv, CursorInv, Ascending, Given
<1>3. SteadyInv'
  <2> SUFFICES ASSUME NEW id \in steady'
               PROVE  /\ \A i \in DOMAIN listed :
                           listed[i].id = id => listed[i].keys = KeysOf(Row(id), Req.sort)
                      /\ OnPages(id) \/ ~finished
                      /\ \/ OnPages(id)
                         \/ Following /\ Given(cursor)
                              => Resume(KeysOf(Row(id), Req.sort), id, cursor, Req.sort)
    BY <1>1 DEF SteadyInv, OnPages, Following, Given
  <2>1. QED
    BY DEF EachInv, SteadyInv
<1>4. QED
  BY <1>2, <1>3 DEF EachInv

\* A listing that begins: nothing is listed, and no cursor is given or another
\* request's.
LEMMA Begins ==
  ASSUME listed' = <<>>, finished' = FALSE, Given(cursor)' => cursor'.f # asked',
         steady' \subseteq Listable(Plan, Req)'
  PROVE  EachInv'
<1>1. DOMAIN listed' = {}
  OBVIOUS
<1>2. QED
  BY <1>1 DEF EachInv, CursorInv, Ascending, SteadyInv, OnPages, Following

\* Every step keeps the order, the cursor's place and the steady rows.
LEMMA EachStep ==
  ASSUME TableInv, PagesInv, EachInv, [ListNext]_listVars
  PROVE  EachInv'
<1>1. CASE Page
  BY <1>1, PageKeepsEach
<1>2. CASE BeginAgain
  <2>1. Listable(Plan, Req)' = Listable(Plan, Req)
    BY <1>2 DEF BeginAgain, Listable, Plan, PlanOf, Req, Row
  <2>2. ~Given(cursor)'
    BY <1>2 DEF BeginAgain, Given, NoCursor
  <2>3. finished' = FALSE
    BY <1>2 DEF BeginAgain, EachInv
  <2>4. QED
    BY <1>2, <2>1, <2>2, <2>3, Begins DEF BeginAgain
<1>3. ASSUME NEW req \in DOMAIN RequestOf, AskOtherwise(req) PROVE EachInv'
  <2>1. Listable(Plan, Req)' = Listable(Plan, RequestOf[req])
    BY <1>3 DEF AskOtherwise, Listable, Plan, PlanOf, Req, Row
  <2>2. cursor'.f # asked'
    BY <1>3 DEF AskOtherwise
  <2>3. finished' = FALSE
    BY <1>3 DEF AskOtherwise, EachInv
  <2>4. QED
    BY <1>3, <2>1, <2>2, <2>3, Begins DEF AskOtherwise
<1>4. ASSUME NEW id \in RecordId, Delete(id) \/ \E row \in DOMAIN RowOf : Put(id, row) PROVE EachInv'
  <2>1. /\ steady' = steady \ {id}
        /\ UNCHANGED <<granted, instant, listOp, asked, cursor, listed, finished>>
    BY <1>4 DEF Put, Delete, RowChanges
  <2>2. Plan' = Plan /\ Req' = Req
    BY <2>1 DEF Plan, PlanOf, Req
  <2>3. \A i \in steady' : i \in DOMAIN stored
    BY <2>1 DEF EachInv, Listable
  <2>4. \A i \in steady' : i \in DOMAIN stored' /\ stored'[i] = stored[i]
    <3>1. CASE Delete(id)
      BY <2>1, <2>3, <3>1 DEF Delete, Restrict
    <3>2. ASSUME NEW row \in DOMAIN RowOf, Put(id, row)
          PROVE  \A i \in steady' : i \in DOMAIN stored' /\ stored'[i] = stored[i]
      BY <2>1, <2>3, <3>2 DEF Put
    <3>3. QED
      BY <1>4, <3>1, <3>2
  <2>5. \A i \in steady' : Row(i)' = Row(i)
    BY <2>4 DEF Row
  <2>6. \A i \in steady' : Selected(Plan, Req, Row(i))
    BY <2>1 DEF EachInv, Listable
  <2>7. steady' \subseteq Listable(Plan, Req)'
    BY <2>2, <2>4, <2>5, <2>6 DEF Listable
  <2>8. QED
    BY <2>1, <2>5, <2>7, LeavesPages
<1>5. ASSUME NEW segs \in Grant, ChangeGrant(segs) PROVE EachInv'
  <2>1. \A i : Row(i)' = Row(i)
    BY <1>5 DEF ChangeGrant, Row
  <2>2. Listable(Plan, Req)' = Listable(PlanOf(segs, instant + 1), Req)
    BY <1>5 DEF ChangeGrant, Listable, Plan, PlanOf, Req, Row
  <2>3. QED
    BY <1>5, <2>1, <2>2, LeavesPages DEF ChangeGrant
<1>6. CASE UNCHANGED listVars
  <2>1. Listable(Plan, Req)' = Listable(Plan, Req) /\ \A i : Row(i)' = Row(i)
    BY <1>6 DEF listVars, Listable, Plan, PlanOf, Req, Row
  <2>2. QED
    BY <1>6, <2>1, LeavesPages DEF listVars, EachInv
<1>7. \A id \in DOMAIN stored : id \in RecordId
  BY DEF TableInv, IsTable
<1>8. QED
  BY <1>1, <1>2, <1>3, <1>4, <1>5, <1>6, <1>7 DEF ListNext

\* A listing begins with no row, no cursor and every row it could list.
LEMMA EachInit == ListInit => EachInv
<1> SUFFICES ASSUME ListInit PROVE EachInv
  OBVIOUS
<1>1. DOMAIN listed = {}
  BY DEF ListInit
<1>2. QED
  BY <1>1 DEF ListInit, EachInv, CursorInv, Ascending, SteadyInv, OnPages, Following, Given,
              NoCursor

\* In every state the pages are in order, and a steady row is on them or after
\* the cursor.
LEMMA EachInvariant == ListSpec => []EachInv
  BY EachInit, EachStep, Tables, PagesTyped, PTL DEF ListSpec

\* A listing that came to its end has every row that could be listed all along
\* exactly once, and no row twice at one place: for any table, segments,
\* requests and page size, over inserts, deletes and changes of rows that tie,
\* and each key in its own direction (_Builder.resume, page, Query.next).
THEOREM RowsOnce == ListSpec => []EachRowOnce
<1>1. TableInv /\ PagesInv /\ EachInv => EachRowOnce
  <2> SUFFICES ASSUME TableInv, PagesInv, EachInv PROVE EachRowOnce
    OBVIOUS
  <2>1. \A i, j \in DOMAIN listed : i < j =>
          IsAfter(listed[j].keys, listed[j].id, listed[i].keys, listed[i].id, Req.sort)
    BY DEF EachInv, Ascending
  <2>2. ASSUME finished, NEW id \in steady
        PROVE  Cardinality({i \in DOMAIN listed : listed[i].id = id}) = 1
    <3>1. PICK n \in DOMAIN listed : listed[n].id = id
      BY <2>2 DEF EachInv, SteadyInv, OnPages
    <3>2. ASSUME NEW i \in DOMAIN listed, NEW j \in DOMAIN listed, i < j,
                 listed[i].id = id, listed[j].id = id
          PROVE  FALSE
      <4> DEFINE x == listed[i].keys
      <4>1. listed[j].keys = x
        BY <2>2, <3>2 DEF EachInv, SteadyInv
      <4>2. IsAfter(x, id, x, id, Req.sort)
        BY <2>1, <3>2, <4>1
      <4>3. listed[i] \in ListItem
        BY ElementOfSeq DEF PagesInv
      <4>4. x \in [1 .. Len(Req.sort) -> Int] /\ id \in Nat
        BY <3>2, <4>3, SortType, ListAssumption DEF ListItem
      <4> HIDE DEF x
      <4>5. QED
        BY <4>2, <4>4, SortType, AfterIrreflexive
    <3>3. DOMAIN listed \subseteq Int
      <4>1. DOMAIN listed = 1 .. Len(listed)
        BY LenProperties DEF PagesInv
      <4>2. QED
        BY <4>1
    <3>4. {i \in DOMAIN listed : listed[i].id = id} = {n}
      <4> SUFFICES ASSUME NEW i \in DOMAIN listed, listed[i].id = id, i # n PROVE FALSE
        BY <3>1
      <4>1. i < n \/ n < i
        BY <3>3
      <4>2. QED
        BY <3>1, <3>2, <4>1
    <3>5. QED
      BY <3>4, FS_Singleton
  <2>3. QED
    BY <2>1, <2>2 DEF EachRowOnce
<1>2. QED
  BY <1>1, EachInvariant, Tables, PagesTyped, PTL

\* Type correctness of a listing: what is listed has the keys and fields of the
\* request, and what stays steady could be listed now (build, page).
THEOREM ListTypes == ListSpec => []ListTypeOK
<1>1. TableInv /\ PagesInv /\ EachInv => ListTypeOK
  BY DEF TableInv, PagesInv, EachInv, ListTypeOK
<1>2. QED
  BY <1>1, EachInvariant, Tables, PagesTyped, PTL
=============================================================================
