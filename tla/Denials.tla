------------------------------ MODULE Denials -------------------------------
(***************************************************************************)
(* The audit of security denials (audit.py: Auditor.denial and flush over  *)
(* be_audit_denial_budget), for one principal and reason. A window is a    *)
(* minute.                                                                 *)
(***************************************************************************)
EXTENDS Naturals, FiniteSets

CONSTANTS
  Denied,        \* denials
  DenialBudget,  \* DENIAL_BUDGET
  LastMinute     \* bound

ASSUME DenialsAssumption == DenialBudget \in Nat /\ LastMinute \in Nat \ {0}

VARIABLES
  minute,   \* the clock's minute
  denial,   \* per denial: [pc, minute], the minute it took before its transaction
  window,   \* per minute, the row as committed: [detailed, overflow, summarized]
  locked,   \* the windows whose row a denial's transaction holds
  details,  \* per minute: the detail rows committed
  summary,  \* per minute: the counts of the summary rows committed
  within    \* per minute: denials past the budget committed before it was over

denialVars == <<minute, denial, window, locked, details, summary, within>>

Minutes == 1 .. LastMinute

DenialInit ==
  /\ minute = 1
  /\ denial = [d \in Denied |-> [pc |-> "none", minute |-> 0]]
  /\ window = [w \in Minutes |-> [detailed |-> 0, overflow |-> 0, summarized |-> FALSE]]
  /\ locked = {}
  /\ details = [w \in Minutes |-> 0]
  /\ summary = [w \in Minutes |-> {}]
  /\ within = [w \in Minutes |-> 0]

Deny(d) ==
  /\ denial[d].pc = "none"
  /\ denial' = [denial EXCEPT ![d] = [pc |-> "denied", minute |-> minute]]
  /\ UNCHANGED <<minute, window, locked, details, summary, within>>

\* The upsert of the window's row, which stays locked.
Count(d) ==
  /\ denial[d].pc = "denied" /\ denial[d].minute \notin locked
  /\ denial' = [denial EXCEPT ![d].pc = "counting"]
  /\ locked' = locked \cup {denial[d].minute}
  /\ UNCHANGED <<minute, window, details, summary, within>>

InBudget(n) == n <= DenialBudget

\* The detail row or the count, and COMMIT.
Recorded(d) ==
  LET w == denial[d].minute
      n == window[w].detailed + 1
  IN  /\ denial[d].pc = "counting"
      /\ denial' = [denial EXCEPT ![d].pc = "recorded"]
      /\ locked' = locked \ {w}
      /\ \/ /\ InBudget(n)
            /\ window' = [window EXCEPT ![w].detailed = n]
            /\ details' = [details EXCEPT ![w] = @ + 1]
            /\ UNCHANGED within
         \/ /\ ~InBudget(n)
            /\ window' = [window EXCEPT ![w].detailed = n, ![w].overflow = @ + 1]
            /\ within' = IF w = minute THEN [within EXCEPT ![w] = @ + 1] ELSE within
            /\ UNCHANGED details
      /\ UNCHANGED <<minute, summary>>

\* The transaction fails: the denial stands, its record is lost.
NotRecorded(d) ==
  /\ denial[d].pc \in {"denied", "counting"}
  /\ denial' = [denial EXCEPT ![d].pc = "lost"]
  /\ locked' = IF denial[d].pc = "counting" THEN locked \ {denial[d].minute} ELSE locked
  /\ UNCHANGED <<minute, window, details, summary, within>>

\* Faulty variant: the minute that is still running is summarized too.
OverNow(w) == w <= minute

Over(w) == w < minute

\* flush: every window due whose row nobody holds (SKIP LOCKED).
Flush ==
  LET due == {w \in Minutes \ locked : window[w].overflow > 0 /\ ~window[w].summarized /\ Over(w)}
  IN  /\ due # {}
      /\ summary' = [w \in Minutes |-> IF w \in due THEN summary[w] \cup {window[w].overflow}
                                                    ELSE summary[w]]
      /\ window' = [w \in Minutes |-> [window[w] EXCEPT !.summarized = @ \/ w \in due]]
      /\ UNCHANGED <<minute, denial, locked, details, within>>

NextMinute ==
  /\ minute < LastMinute
  /\ minute' = minute + 1
  /\ UNCHANGED <<denial, window, locked, details, summary, within>>

DenialNext ==
  \/ \E d \in Denied : Deny(d) \/ Count(d) \/ Recorded(d) \/ NotRecorded(d)
  \/ Flush \/ NextMinute

DenialSpec == DenialInit /\ [][DenialNext]_denialVars

------------------------------------------------------------------------------
RecordedIn(w) == {d \in Denied : denial[d] = [pc |-> "recorded", minute |-> w]}

\* However denials and flushes interleave: a window keeps detail rows up to the
\* budget and counts the rest; it is summarized once, and its summary has every
\* denial past the budget that was committed before the minute was over, and
\* none that was not committed (denial, flush). A denial that took its minute
\* before the minute's end and commits after the flush is in no summary.
DenialsCounted ==
  \A w \in Minutes :
    /\ details[w] + window[w].overflow = Cardinality(RecordedIn(w))
    /\ details[w] <= DenialBudget
    /\ details[w] < DenialBudget => window[w].overflow = 0
    /\ \A n \in summary[w] : within[w] <= n /\ n <= window[w].overflow /\ summary[w] = {n}

------------------------------------------------------------------------------
(* The inductive invariant behind DenialsCounted.                            *)

Window == [detailed : Nat, overflow : Nat, summarized : BOOLEAN]
Taken == [pc : {"none", "denied", "counting", "recorded", "lost"}, minute : Nat]

DenialTypeOK ==
  /\ minute \in Minutes
  /\ denial \in [Denied -> Taken]
  /\ \A d \in Denied : denial[d].pc # "none" => denial[d].minute \in Minutes
  /\ window \in [Minutes -> Window]
  /\ details \in [Minutes -> Nat] /\ within \in [Minutes -> Nat]
  /\ summary \in [Minutes -> SUBSET Nat]

\* The row's count is of the denials recorded; a summary is of a minute that is
\* over, and the row says that it was written.
Counted(w) ==
  /\ IsFiniteSet(RecordedIn(w)) /\ Cardinality(RecordedIn(w)) = window[w].detailed
  /\ window[w].detailed = details[w] + window[w].overflow
  /\ details[w] <= DenialBudget
  /\ details[w] < DenialBudget => window[w].overflow = 0
  /\ within[w] <= window[w].overflow
  /\ summary[w] # {} => window[w].summarized /\ w < minute
  /\ \A n \in summary[w] : within[w] <= n /\ n <= window[w].overflow /\ summary[w] = {n}

DenialInv == DenialTypeOK /\ \A w \in Minutes : Counted(w)
=============================================================================
