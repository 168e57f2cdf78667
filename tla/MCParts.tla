------------------------------ MODULE MCParts -------------------------------
(***************************************************************************)
(* What a member's handlers rely on: the migrations of its schema, the     *)
(* keys that verify a token, the list with its authorization, the          *)
(* transaction with its document number, the audit of denials, and the     *)
(* certificate. They share no state: a behaviour is one of a single part,  *)
(* and the others stay as they began.                                      *)
(***************************************************************************)
EXTENDS Migrate, KeySet, Lists, Tx, Denials, Rotation

VARIABLE part

------------------------------------------------------------------------------
(* A resource with a dimension of each kind and a field of each class.       *)

Dim(kind, currency) ==
  [kind |-> kind, column |-> "c", currency_column |-> currency, pushdown |-> "",
   projection_watermark |-> ""]
Fld(class, key) == [cls |-> class, read_key |-> key, queryable |-> {}]
Opn(key, purpose) ==
  [key |-> key, resource_type |-> "item", purpose |-> purpose, risk_class |-> "low",
   side_effects |-> {}, minimum_path |-> "", impersonation_allowed |-> FALSE,
   tightening_only |-> FALSE]

MCResource ==
  [type |-> "item", view_operation |-> "view",
   dimensions |-> [owner |-> Dim("principal", ""), org |-> Dim("org_tree", ""),
                   amount |-> Dim("amount", "cur"),
                   site |-> [Dim("value_set", "") EXCEPT !.pushdown = "not_pushdownable"]],
   fields |-> [name |-> Fld("ordinary", ""), price |-> Fld("restricted", "rk"),
               pin |-> Fld("secret", "")]]

ASSUME DeclarationsAreValid ==
  validate([resources |-> <<MCResource>>,
            operations |-> <<Opn("view", "read"), Opn("export", "export")>>])

NoAtoms == [dim \in {"owner", "org", "amount", "site"} |-> [kind |-> "all"]]
Seg(digest, op, atoms, read, until) ==
  [digest |-> digest, operation |-> op, atoms |-> atoms, read_fields |-> read,
   write_fields |-> {}, from |-> 1, until |-> until]
Tree(path, mode) == [kind |-> "tree", items |-> {[path |-> path, mode |-> mode]}]
OneToTwo == [kind |-> "interval", currency |-> "eur",
             lo |-> [v |-> 1, closed |-> "no"], hi |-> [v |-> 2, closed |-> "yes"]]
Values(v) == [kind |-> "in", values |-> {v}]

MCSegment ==
  [s1 |-> Seg("s1", "view", [NoAtoms EXCEPT !.org = Tree(<<"x">>, "subtree")], {"name"}, 0),
   s2 |-> Seg("s2", "view", [NoAtoms EXCEPT !.owner = [kind |-> "self"]],
              {"name", "price", "pin"}, 0),
   s3 |-> Seg("s3", "view", [NoAtoms EXCEPT !.amount = OneToTwo], {"name"}, 2),
   s4 |-> Seg("s4", "export", [NoAtoms EXCEPT !.org = Tree(<<"x">>, "exact")], {"name", "price"}, 0),
   s5 |-> Seg("s5", "export", [NoAtoms EXCEPT !.owner = Values("you")], {"name"}, 0),
   s6 |-> Seg("s6", "view", [NoAtoms EXCEPT !.site = Values("s")], {"name"}, 0),
   s7 |-> Seg("s7", "view", [NoAtoms EXCEPT !.org = Tree(EmptyPath, "subtree")], {"name"}, 0)]

ASSUME SegmentsAreComplete == \A s \in DOMAIN MCSegment : check(MCSegment[s], MCResource)

MCGrant == {{"s1", "s2", "s4", "s5", "s7"}, {"s2", "s3"}, {"s2", "s4"}, {"s2", "s6"}}

Value(v, currency) == [state |-> "value", value |-> v, currency |-> currency]
Null == [state |-> "null", value |-> "", currency |-> ""]
RowWith(owner, org, amount, name, price) ==
  [cols |-> [owner |-> owner, org |-> Value(org, ""), amount |-> amount,
             site |-> Value("s", "")],
   vals |-> [name |-> name, price |-> price]]

MCRow ==
  [r1 |-> RowWith(Value("me", ""), <<"x">>, Value(2, "eur"), 1, 1),
   r2 |-> RowWith(Value("me", ""), <<"x", "y">>, Value(1, "eur"), 1, 2),
   r3 |-> RowWith(Value("you", ""), <<"x">>, Value(2, "usd"), 2, 1),
   r4 |-> RowWith(Null, EmptyPath, Value(2, "eur"), 1, 1)]

MCFirstRows == [{1} -> {"r1"}] \cup [{1, 3} -> {"r2", "r4"}]
               \cup {f \in [{1, 2, 3} -> DOMAIN MCRow] :
                       f[1] = "r1" /\ f[2] \in {"r1", "r3"} /\ f[3] \in {"r2", "r3"}}
               \cup {<<>>}

MCRequest ==
  LET by(field, desc) == [field |-> field, desc |-> desc]
      request(sort, filters, readable) ==
        [sort |-> sort, filters |-> filters, readable_only |-> readable, q |-> FALSE]
  IN  [plain |-> request(<<>>, {}, {}),
       narrowed |-> request(<<by("name", TRUE), by("price", FALSE)>>, {}, {"price"}),
       filtered |-> request(<<by("name", TRUE)>>,
                            {[field |-> "price", op |-> "gte", values |-> {1}]}, {})]

------------------------------------------------------------------------------
\* An old image and a new one.
MCImage == [old |-> <<1, 1>>, new |-> <<2, 2>>]

Number(gapless) == [do |-> "number", gapless |-> gapless, last |-> 0]
MCJobs == {[c1 |-> Number(TRUE), c2 |-> Number(TRUE), c3 |-> j] :
             j \in {Number(FALSE), [do |-> "import", gapless |-> TRUE, last |-> 2]}}
MCBudget == [b \in BOOLEAN |-> 1]

------------------------------------------------------------------------------
PartsInit ==
  /\ part \in {"migrate", "keys", "list", "tx", "denials", "rotation"}
  /\ part # "list" => /\ stored = <<>> /\ granted = {"s2", "s4"}
                      /\ listOp = "view" /\ asked = "plain"
  /\ MigInit /\ KeyInit /\ ListInit /\ DenialInit /\ RotationInit
  /\ TxInit /\ (part # "tx" => job.c3.do = "import")

PartsNext ==
  /\ \/ /\ part = "migrate" /\ MigNext
        /\ UNCHANGED <<keyVars, listVars, txVars, denialVars, rotationVars>>
     \/ /\ part = "keys" /\ KeyNext
        /\ UNCHANGED <<migVars, listVars, txVars, denialVars, rotationVars>>
     \/ /\ part = "list" /\ ListNext
        /\ UNCHANGED <<migVars, keyVars, txVars, denialVars, rotationVars>>
     \/ /\ part = "tx" /\ TxNext
        /\ UNCHANGED <<migVars, keyVars, listVars, denialVars, rotationVars>>
     \/ /\ part = "denials" /\ DenialNext
        /\ UNCHANGED <<migVars, keyVars, listVars, txVars, rotationVars>>
     \/ /\ part = "rotation" /\ RotationNext
        /\ UNCHANGED <<migVars, keyVars, listVars, txVars, denialVars>>
  /\ UNCHANGED part

PartsSpec ==
  /\ PartsInit
  /\ [][PartsNext]_<<part, migVars, keyVars, listVars, txVars, denialVars, rotationVars>>
=============================================================================
