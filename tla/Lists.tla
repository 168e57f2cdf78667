------------------------------- MODULE Lists --------------------------------
(***************************************************************************)
(* Paging through a component's list (lists.py) while its rows, the        *)
(* subject's segments and the time change between the pages: build with    *)
(* the keyset condition of _Builder.resume, page, Query.next. The caller   *)
(* follows the cursors it is given and starts anew when one is refused.    *)
(***************************************************************************)
EXTENDS Segments

CONSTANTS
  ListResource,   \* the resource, as Segments has it
  ListOperation,  \* the operations a list may have (Spec.operation)
  Sortable, Filterable,   \* fields with a sortable, a filterable column
  Principal,      \* the subject
  RowOf,          \* by name, what a record's row may hold: [cols, vals]
  SegmentOf,      \* by digest, segments
  Grant,          \* the sets of segments' digests the subject may hold
  RequestOf,      \* by name, the caller's requests: [sort, filters, readable_only, q]
  Limit,          \* the page size
  RecordId,       \* record ids, naturals
  FirstRows,      \* the tables a listing may begin with
  MaxChanges,     \* bound: changes of rows
  LastInstant     \* bound: changes of the segments and instants

\* What the tables, segments and requests are: every fact of a row is obtained
\* (its column may be NULL), sortable columns are never NULL and their values
\* are comparable; a segment passed Segment.check, and the path of an item of a
\* tree is some text, the empty one included, that has at least one part.
IsTable(rows) ==
  /\ IsFiniteSet(DOMAIN rows) /\ DOMAIN rows \subseteq RecordId
  /\ rows \in [DOMAIN rows -> DOMAIN RowOf]
FullFacts(cols) ==
  /\ DOMAIN cols = DOMAIN ListResource.dimensions
  /\ \A dim \in DOMAIN cols : /\ DOMAIN cols[dim] = {"state", "value", "currency"}
                            /\ cols[dim].state \in {"value", "null"}
PathsHaveParts(a) ==
  a.kind = "tree" => \A i \in a.items : i.path \in Seq(STRING) /\ i.path # <<>>
Order == [field: STRING, desc: BOOLEAN]

ASSUME ListAssumption ==
  /\ Limit \in Nat \ {0}
  /\ RecordId \subseteq Nat \ {0}
  /\ \A rows \in FirstRows : IsTable(rows)
  /\ \A name \in DOMAIN RowOf :
       FullFacts(RowOf[name].cols) /\ \A f \in Sortable : RowOf[name].vals[f] \in Int
  /\ \A d \in DOMAIN SegmentOf :
       /\ check(SegmentOf[d], ListResource)
       /\ \A dim \in DOMAIN SegmentOf[d].atoms : PathsHaveParts(SegmentOf[d].atoms[dim])
  /\ Grant \subseteq SUBSET DOMAIN SegmentOf
  /\ \A req \in DOMAIN RequestOf : RequestOf[req].sort \in Seq(Order)

VARIABLES
  stored,    \* the table: the rows' names by their ids
  granted,   \* the digests of the subject's segments
  instant,   \* the time
  listOp,    \* the list's operation (Spec.operation)
  asked,     \* the name of the request
  cursor,    \* the cursor the caller has, NoCursor at the beginning
  listed,    \* the rows of the pages so far: [id, keys, shown]
  steady,    \* ids of the rows that were there, unchanged and listable all along
  finished,  \* the last page was given
  changes

listVars == <<stored, granted, instant, listOp, asked, cursor, listed, steady, finished,
              changes>>

NoCursor == [k |-> <<>>, id |-> 0, f |-> "", p |-> <<>>]
Given(c) == c.id # 0
Row(id) == RowOf[stored[id]]
Req == RequestOf[asked]

PlanOf(segs, t) ==
  compile_plan(ListResource, {SegmentOf[d] : d \in segs}, listOp, Principal, t)
Plan == PlanOf(granted, instant)

------------------------------------------------------------------------------
(* _Builder                                                                  *)

KeysOf(row, sort) == [i \in DOMAIN sort |-> row.vals[sort[i].field]]

\* x comes after y in a key's own direction.
After(x, y, o) == IF o.desc THEN x < y ELSE x > y

\* The ORDER BY: the keys each in its own direction, then the id.
IsAfter(keys, id, k, last, sort) ==
  \/ \E i \in DOMAIN sort :
       /\ \A j \in 1 .. (i - 1) : keys[j] = k[j]
       /\ After(keys[i], k[i], sort[i])
  \/ keys = k /\ id > last

\* Faulty variant: the condition has the ids' direction for every key.
ResumeAscending(keys, id, c, sort) ==
  IsAfter(keys, id, c.k, c.id, [i \in DOMAIN sort |-> [sort[i] EXCEPT !.desc = FALSE]])

\* resume: the rows strictly after the cursor's row.
Resume(keys, id, c, sort) == IsAfter(keys, id, c.k, c.id, sort)

FilterHolds(row, f) ==
  CASE f.op = "eq" -> row.vals[f.field] \in f.values
    [] f.op = "in" -> row.vals[f.field] \in f.values
    [] f.op = "gte" -> \A v \in f.values : row.vals[f.field] >= v
    [] f.op = "lt" -> \A v \in f.values : row.vals[f.field] < v

\* A field that may filter or sort only where every listed row shows it.
Restricted(req, name) ==
  /\ name \in DOMAIN ListResource.fields
  /\ ListResource.fields[name].cls # "ordinary"
  /\ name \notin req.readable_only

Queryable(plan, req, name) == Restricted(req, name) => readable_everywhere(plan, name)

SortFields(req) == {req.sort[i].field : i \in DOMAIN req.sort}
FilterFields(req) == {f.field : f \in req.filters}

\* build: the error it ends with. Which one it names first when several apply
\* makes no difference here.
BuildError(plan, req, c) ==
  IF plan.refused THEN "QUERY_NOT_COMPLETABLE"
  ELSE IF req.readable_only \ Outputs(ListResource, req.readable_only) # {} THEN "REQUEST_INVALID"
  ELSE IF \/ FilterFields(req) \ Filterable # {}
          \/ \E f \in req.filters : f.op # "in" /\ Cardinality(f.values) # 1
          \/ SortFields(req) \ Sortable # {} THEN "REQUEST_INVALID"
  ELSE IF \E f \in FilterFields(req) \cup SortFields(req) : ~Queryable(plan, req, f)
       THEN "FIELD_NOT_QUERYABLE"
  ELSE IF Given(c) /\ c.f # asked THEN "CURSOR_INVALID"
  ELSE IF Given(c) /\ c.p # plan.digest THEN "QUERY_PLAN_CHANGED" ELSE "none"

\* The rows of a request without its cursor. The list has no search columns: a
\* keyword, q, matches nothing.
Selected(plan, req, row) ==
  /\ ~req.q
  /\ PlanWhere(plan, row.cols) = True
  /\ \A name \in req.readable_only : readable_where(plan, name, row.cols)
  /\ \A f \in req.filters : FilterHolds(row, f)

Listable(plan, req) == {id \in DOMAIN stored : Selected(plan, req, Row(id))}

\* The WHERE clause of a page.
Where(plan, c) ==
  {id \in Listable(plan, Req) : Given(c) => Resume(KeysOf(Row(id), Req.sort), id, c, Req.sort)}

\* The rows as the database gives them: all of them, by the ORDER BY.
InOrder(rows, ids) ==
  /\ Range(rows) = ids
  /\ \A i, j \in DOMAIN rows : i < j =>
       IsAfter(KeysOf(Row(rows[j]), Req.sort), rows[j],
               KeysOf(Row(rows[i]), Req.sort), rows[i], Req.sort)

------------------------------------------------------------------------------
ListInit ==
  /\ stored \in FirstRows
  /\ granted \in Grant
  /\ instant = 1
  /\ listOp \in ListOperation
  /\ asked \in DOMAIN RequestOf
  /\ cursor = NoCursor
  /\ listed = <<>>
  /\ steady = Listable(Plan, Req)
  /\ finished = FALSE
  /\ changes = 0

\* What a row shows: its fields from the hits, shaped by mask.
Shown(plan, row) ==
  mask(ListResource, DOMAIN ListResource.fields, PlanFields(plan, row.cols)).shown

Item(plan, id) ==
  [id |-> id, keys |-> KeysOf(Row(id), Req.sort), shown |-> Shown(plan, Row(id))]

\* build and page: one row more than the limit is read to know whether
\* another page follows. Query.next makes the cursor.
Page ==
  LET plan == Plan
      found == Where(plan, cursor)
      size == Cardinality(found)
      n == Min({size, Limit})
  IN  /\ ~finished
      /\ BuildError(plan, Req, cursor) = "none"
      /\ \E rows \in [1 .. size -> found] :
           /\ InOrder(rows, found)
           /\ listed' = listed \o [i \in 1 .. n |-> Item(plan, rows[i])]
           /\ IF size <= Limit
              THEN finished' = TRUE /\ UNCHANGED cursor
              ELSE /\ cursor' = [k |-> KeysOf(Row(rows[n]), Req.sort), id |-> rows[n],
                                 f |-> asked, p |-> plan.digest]
                   /\ UNCHANGED finished
      /\ UNCHANGED <<stored, granted, instant, listOp, asked, steady, changes>>

\* The cursor is refused: the caller begins again.
BeginAgain ==
  /\ ~finished
  /\ BuildError(Plan, Req, cursor) \in {"CURSOR_INVALID", "QUERY_PLAN_CHANGED"}
  /\ cursor' = NoCursor
  /\ listed' = <<>>
  /\ steady' = Listable(Plan, Req)
  /\ UNCHANGED <<stored, granted, instant, listOp, asked, finished, changes>>

\* The caller begins another listing and sends the cursor of this one.
AskOtherwise(req) ==
  /\ ~finished /\ Given(cursor) /\ cursor.f = asked /\ req # asked
  /\ asked' = req
  /\ listed' = <<>>
  /\ steady' = Listable(Plan, RequestOf[req])
  /\ UNCHANGED <<stored, granted, instant, listOp, cursor, finished, changes>>

\* A row is inserted, changed or deleted between two pages.
RowChanges(id) ==
  /\ ~finished /\ changes < MaxChanges
  /\ steady' = steady \ {id}
  /\ changes' = changes + 1
  /\ UNCHANGED <<granted, instant, listOp, asked, cursor, listed, finished>>

Put(id, row) ==
  /\ id \in DOMAIN stored => stored[id] # row
  /\ stored' = [i \in DOMAIN stored \cup {id} |-> IF i = id THEN row ELSE stored[i]]
  /\ RowChanges(id)

Delete(id) ==
  /\ stored' = Restrict(stored, DOMAIN stored \ {id})
  /\ RowChanges(id)

\* The subject's view changes, or a segment's validity begins or ends.
ChangeGrant(segs) ==
  /\ ~finished /\ instant < LastInstant
  /\ granted' = segs
  /\ instant' = instant + 1
  /\ steady' = steady \cap Listable(PlanOf(segs, instant + 1), Req)
  /\ UNCHANGED <<stored, listOp, asked, cursor, listed, finished, changes>>

ListNext ==
  \/ Page \/ BeginAgain
  \/ \E req \in DOMAIN RequestOf : AskOtherwise(req)
  \/ \E id \in RecordId, row \in DOMAIN RowOf : Put(id, row)
  \/ \E id \in DOMAIN stored : Delete(id)
  \/ \E segs \in Grant : ChangeGrant(segs)

ListSpec == ListInit /\ [][ListNext]_listVars

------------------------------------------------------------------------------
(* Properties                                                                *)

\* A listing that came to its end has every row that could be listed all along
\* exactly once, and no row twice at one place: its pages ascend strictly, over
\* inserts, deletes and changes of rows that tie, and each key in its own
\* direction (_Builder.resume, page, Query.next).
EachRowOnce ==
  /\ \A i, j \in DOMAIN listed : i < j =>
       IsAfter(listed[j].keys, listed[j].id, listed[i].keys, listed[i].id, Req.sort)
  /\ finished => \A id \in steady : Cardinality({i \in DOMAIN listed : listed[i].id = id}) = 1

\* A list tells nothing of what it hides: each row it gives shows every
\* restricted field the request filters or sorts by (build, readable_everywhere,
\* readable_where, mask).
QueriedIsShown ==
  \A i \in DOMAIN listed :
    \A f \in (FilterFields(Req) \cup SortFields(Req)) \cap DOMAIN ListResource.fields :
      ListResource.fields[f].cls # "ordinary" => f \in listed[i].shown

Decide(facts) ==
  evaluate(ListResource, {SegmentOf[d] : d \in granted}, listOp, facts, Principal, instant)

\* An item of the empty path and a record with the empty path: the query finds
\* them equal, the decision says that an empty path is not the root.
MeetInNothing(a, f) ==
  /\ a.kind = "tree" /\ f.state = "value" /\ f.value = EmptyPath
  /\ \E i \in a.items : i.path = EmptyPath

MeetAnywhere(segs, cols) ==
  \E s \in segs : \E dim \in DOMAIN cols : MeetInNothing(s.atoms[dim], cols[dim])

\* Deciding a record and listing it are the same authorization, NULL columns
\* included: a row that evaluate allows the operation on is in the plan with all
\* of its fields, and a row in the plan is allowed with no field less (compile_plan,
\* evaluate). The second does not hold of a row without a path when a segment
\* that is held names the empty path, which Segment.check lets pass.
PlanAgrees ==
  \A name \in Range(stored) :
    LET plan == Plan
        cols == RowOf[name].cols
        d == Decide(cols)
        allowed == DecisionError(d) = "none"
        planned == PlanWhere(plan, cols) = True
    IN  ~plan.refused =>
          /\ allowed => planned /\ d.fields \subseteq PlanFields(plan, cols)
          /\ (planned /\ ~MeetAnywhere(plan.view \cup plan.asked, cols)) =>
               allowed /\ PlanFields(plan, cols) \subseteq d.fields

\* The facts that are left when some were not obtained.
Partial(cols, missing) ==
  [dim \in DOMAIN cols |->
     IF dim \in missing THEN [cols[dim] EXCEPT !.state = "unobtained"] ELSE cols[dim]]

\* What is decided without all the facts would be decided with them: an
\* operation allowed stays allowed with no field less, one denied stays denied,
\* and a record said not to be found is not visible (_atom, _segment, _entitled,
\* Decision.error).
DecidedForGood ==
  \A name \in Range(stored) :
    LET cols == RowOf[name].cols
        full == Decide(cols)
    IN  \A missing \in SUBSET DOMAIN cols :
    LET part == Decide(Partial(cols, missing))
        e == DecisionError(part)
    IN  /\ e = "none" => DecisionError(full) = "none" /\ part.fields \subseteq full.fields
        /\ e = "PERMISSION_DENIED" => DecisionError(full) \in {"PERMISSION_DENIED", "NOT_FOUND"}
        /\ e = "NOT_FOUND" => DecisionError(full) = "NOT_FOUND"

------------------------------------------------------------------------------
(* The inductive invariants behind the properties of a listing.              *)

ListItem == [id: RecordId, keys: [DOMAIN Req.sort -> Int], shown: SUBSET DOMAIN ListResource.fields]

ListTypeOK ==
  /\ IsTable(stored)
  /\ granted \in Grant
  /\ asked \in DOMAIN RequestOf
  /\ listed \in Seq(ListItem)
  /\ steady \subseteq Listable(Plan, Req)
  /\ finished \in BOOLEAN

\* The caller's cursor is of its request.
Following == Given(cursor) => cursor.f = asked

\* The cursor is the last row of the pages so far.
CursorInv ==
  ~finished =>
    IF Given(cursor)
    THEN cursor.f = asked =>
           listed # <<>> /\ LET last == listed[Len(listed)]
                           IN  cursor.k = last.keys /\ cursor.id = last.id
    ELSE listed = <<>>

Ascending ==
  \A i, j \in DOMAIN listed : i < j =>
    IsAfter(listed[j].keys, listed[j].id, listed[i].keys, listed[i].id, Req.sort)

OnPages(id) == \E i \in DOMAIN listed : listed[i].id = id

\* A steady row is on the pages, as it is, or after the cursor.
SteadyInv ==
  \A id \in steady :
    /\ \A i \in DOMAIN listed : listed[i].id = id => listed[i].keys = KeysOf(Row(id), Req.sort)
    /\ OnPages(id) \/ ~finished
    /\ \/ OnPages(id)
       \/ Following /\ Given(cursor) => Resume(KeysOf(Row(id), Req.sort), id, cursor, Req.sort)
==============================================================================
