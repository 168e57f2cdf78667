------------------------------ MODULE Segments ------------------------------
(***************************************************************************)
(* Authorization by complete segments (authz/): the declarations of        *)
(* defs.py, the three-valued decision on one record of segment.py, the     *)
(* plan of a list of plan.py, and the shape of an output of subject.py.    *)
(*                                                                         *)
(* A plan is modelled by what PostgreSQL makes of its text: the value its  *)
(* predicates have on a row, in SQL's three-valued logic. A path of the    *)
(* organization tree is the sequence of the parts its slashes separate, so *)
(* that the empty text is one empty part; an amount is an integer; a       *)
(* segment's digest is a name for its content.                             *)
(***************************************************************************)
EXTENDS Integers, SequencesExt

True == "true"
False == "false"
Unknown == "unknown"    \* SQL's NULL, Tri.UNKNOWN

\* AND and OR over the set of the operands' values.
AndAll(S) == IF False \in S THEN False ELSE IF Unknown \in S THEN Unknown ELSE True
OrAll(S) == IF True \in S THEN True ELSE IF Unknown \in S THEN Unknown ELSE False
Holds(p) == IF p THEN True ELSE False

------------------------------------------------------------------------------
(* defs.py: Definitions.validate. "" is an attribute that is not set.        *)

DimensionKinds == {"value_set", "org_tree", "principal", "amount"}
FieldClasses == {"ordinary", "restricted", "secret"}
Pushdowns == {"local_column", "local_projection", "not_pushdownable"}
Purposes == {"read", "special_read", "export", "action", "create", "manage"}
Paths == {"default", "strict_acceptance", "strict_barrier"}
SideEffects == {"business_write", "external_command", "job_or_subscription",
                "file_capability", "security_change", "notification"}

ValidDimension(d) ==
  /\ d.kind \in DimensionKinds
  /\ d.column # ""
  /\ d.kind = "amount" => d.currency_column # ""
  /\ d.pushdown \in Pushdowns \cup {""}
  /\ d.pushdown = "local_projection" => d.projection_watermark # ""

ValidField(f) ==
  /\ f.cls \in FieldClasses
  /\ f.cls = "restricted" => f.read_key # ""
  /\ f.queryable \subseteq {"filter", "sort", "group", "aggregate"}

ValidOperation(o) ==
  /\ o.key # ""
  /\ o.risk_class \in {"low", "high"}
  /\ o.purpose \in Purposes
  /\ o.minimum_path \in Paths \cup {""}
  /\ o.side_effects \subseteq SideEffects
  /\ o.impersonation_allowed => o.side_effects = {}
  /\ o.tightening_only => o.purpose = "manage" /\ o.side_effects = {"security_change"}

\* Resources and operations are sequences; of two resources with one type the
\* last is the one found.
validate(defs) ==
  LET types == {defs.resources[i].type : i \in DOMAIN defs.resources}
      op(i) == defs.operations[i]
  IN  /\ \A i \in DOMAIN defs.resources :
           LET r == defs.resources[i]
           IN  /\ r.type # ""
               /\ \A d \in DOMAIN r.dimensions : ValidDimension(r.dimensions[d])
               /\ \A f \in DOMAIN r.fields : ValidField(r.fields[f])
               /\ \E j \in DOMAIN defs.operations :
                    op(j).key = r.view_operation /\ op(j).resource_type = r.type
      /\ \A i \in DOMAIN defs.operations :
           /\ ValidOperation(op(i))
           /\ op(i).resource_type \in types
           /\ \A j \in DOMAIN defs.operations : op(j).key = op(i).key => j = i

------------------------------------------------------------------------------
(* segment.py: Segment.check, Segment.active_at. An interval's bound is      *)
(* [v, closed], NoBound when there is none.                                  *)

NoBound == [v |-> 0, closed |-> "none"]

WellFormed(a, d) ==
  CASE a.kind \in {"all", "in"} -> TRUE
    [] a.kind = "tree" -> d.kind = "org_tree"
    [] a.kind = "self" -> d.kind = "principal"
    [] a.kind = "interval" -> d.kind = "amount" /\ (a.lo # NoBound \/ a.hi # NoBound)
    [] OTHER -> FALSE

check(s, r) ==
  /\ DOMAIN s.atoms = DOMAIN r.dimensions
  /\ \A dim \in DOMAIN s.atoms : WellFormed(s.atoms[dim], r.dimensions[dim])
  /\ s.write_fields \subseteq s.read_fields

\* Left-closed and right-open; until 0: no fixed end.
active_at(s, t) == s.from <= t /\ (s.until # 0 => t < s.until)

------------------------------------------------------------------------------
(* segment.py: the decision on one record. A fact is [state, value,          *)
(* currency] with state "value", "null" or "unobtained".                     *)

EmptyPath == <<"">>

\* The part of a path an item covers: the path itself, or all that is under it.
Covers(item, path) ==
  \/ path = item.path
  \/ item.mode = "subtree" /\ IsStrictPrefix(item.path, path)

Above(v, lo) == lo = NoBound \/ v > lo.v \/ (v = lo.v /\ lo.closed = "yes")
Below(v, hi) == hi = NoBound \/ v < hi.v \/ (v = hi.v /\ hi.closed = "yes")

\* _interval
InInterval(a, f) ==
  Holds(f.currency = a.currency /\ Above(f.value, a.lo) /\ Below(f.value, a.hi))

\* Faulty variant: a fact that was not obtained is taken for one that does not match.
NotObtainedIsFalse(a) == False

NotObtained(a) == Unknown

\* _atom
EvalAtom(a, f, principal) ==
  CASE a.kind = "all" -> True
    [] a.kind # "all" /\ f.state = "unobtained" -> NotObtained(a)
    [] a.kind # "all" /\ f.state = "null" -> False
    [] a.kind = "in" /\ f.state = "value" -> Holds(f.value \in a.values)
    [] a.kind = "self" /\ f.state = "value" -> Holds(f.value = principal)
    [] a.kind = "tree" /\ f.state = "value" ->
         Holds(f.value # EmptyPath /\ \E i \in a.items : Covers(i, f.value))
    [] a.kind = "interval" /\ f.state = "value" -> InInterval(a, f)

\* _segment
EvalSegment(s, facts, principal, t) ==
  IF ~active_at(s, t) THEN False
  ELSE AndAll({EvalAtom(s.atoms[dim], facts[dim], principal) : dim \in DOMAIN s.atoms})

\* _entitled: the result, and the fields of the segments that are true.
Entitled(segs, op, facts, principal, t) ==
  LET value(s) == EvalSegment(s, facts, principal, t)
      own == {s \in segs : s.operation = op}
  IN  [result |-> OrAll({value(s) : s \in own}),
       fields |-> UNION {s.read_fields : s \in {x \in own : value(x) = True}}]

\* The declared fields of a set that are not secret.
Outputs(r, names) == {f \in names \cap DOMAIN r.fields : r.fields[f].cls # "secret"}

evaluate(r, segs, op, facts, principal, t) ==
  LET view == Entitled(segs, r.view_operation, facts, principal, t)
      asked == Entitled(segs, op, facts, principal, t)
      viewing == op = r.view_operation
  IN  [visible |-> view.result,
       action |-> IF viewing THEN view.result ELSE AndAll({view.result, asked.result}),
       fields |-> IF view.result = True
                  THEN Outputs(r, IF viewing THEN view.fields ELSE asked.fields) ELSE {}]

\* Decision.error
DecisionError(d) ==
  IF d.visible = False THEN "NOT_FOUND"
  ELSE IF d.action = False THEN "PERMISSION_DENIED"
  ELSE IF Unknown \in {d.visible, d.action} THEN "AUTHORIZATION_UNPROVABLE" ELSE "none"

------------------------------------------------------------------------------
(* plan.py: the compiled predicates, as values on a row whose columns hold   *)
(* the facts.                                                                *)

\* _Compiler.atom refuses what the database cannot decide: QUERY_NOT_COMPLETABLE.
Compilable(s, r) ==
  \A dim \in DOMAIN s.atoms :
    s.atoms[dim].kind # "all" => r.dimensions[dim].pushdown # "not_pushdownable"

\* A comparison with a column.
Compare(f, p) == IF f.state = "null" THEN Unknown ELSE Holds(p)

\* _Compiler.atom; "all" adds no predicate.
SqlAtom(a, f, principal) ==
  CASE a.kind = "in" -> IF a.values = {} THEN False ELSE Compare(f, f.value \in a.values)
    [] a.kind = "self" -> Compare(f, f.value = principal)
    [] a.kind = "tree" -> IF a.items = {} THEN False
                          ELSE Compare(f, \E i \in a.items : Covers(i, f.value))
    [] a.kind = "interval" -> IF f.state = "null" THEN False ELSE InInterval(a, f)

\* _Compiler.segment
SqlSegment(s, cols, principal) ==
  AndAll({SqlAtom(s.atoms[dim], cols[dim], principal) :
            dim \in {d \in DOMAIN s.atoms : s.atoms[d].kind # "all"}})

\* compile_plan: the segments of the WHERE clause, the ones that give the
\* fields, and the digest.
Active(segs, op, t) == {s \in segs : s.operation = op /\ active_at(s, t)}

compile_plan(r, segs, op, principal, t) ==
  LET view == Active(segs, r.view_operation, t)
      asked == Active(segs, op, t)
  IN  [resource |-> r, view |-> view, asked |-> asked, principal |-> principal,
       refused |-> \E s \in view \cup asked : ~Compilable(s, r),
       digest |-> <<{s.digest : s \in view \cup asked}, r.type, op>>]

\* Plan.where
PlanWhere(plan, cols) ==
  AndAll({OrAll({SqlSegment(s, cols, plan.principal) : s \in plan.view}),
          OrAll({SqlSegment(s, cols, plan.principal) : s \in plan.asked})})

\* Faulty variant: a predicate that is NULL counts as a hit.
HitUnlessFalse(s, cols, principal) == SqlSegment(s, cols, principal) # False

\* Plan.hits: COALESCE(..., FALSE)
Hit(s, cols, principal) == SqlSegment(s, cols, principal) = True

\* Plan.sets
FieldSet(plan, s) == Outputs(plan.resource, s.read_fields)

\* Plan.fields
PlanFields(plan, cols) ==
  UNION {FieldSet(plan, s) : s \in {x \in plan.asked : Hit(x, cols, plan.principal)}}

readable_where(plan, name, cols) ==
  \E s \in plan.asked : name \in FieldSet(plan, s) /\ Hit(s, cols, plan.principal)

\* Faulty variant: some segment reads the field.
readable_somewhere(plan, name) == \E s \in plan.asked : name \in FieldSet(plan, s)

readable_everywhere(plan, name) ==
  plan.asked # {} /\ \A s \in plan.asked : name \in FieldSet(plan, s)

------------------------------------------------------------------------------
\* subject.py: mask. What is left of an output object: the values shown, and
\* the names of the others.
mask(r, out, readable) ==
  LET declared == Outputs(r, out)
  IN  [shown |-> declared \cap readable, masked |-> declared \ readable]
=============================================================================
