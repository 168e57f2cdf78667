------------------------------- MODULE KeySet -------------------------------
(***************************************************************************)
(* The identity keys of a process and the verification of tokens with      *)
(* them (identity/token.py): KeySet.run, KeySet.refresh, KeySet.key and    *)
(* Verifier.verify, against an issuer that publishes and withdraws keys    *)
(* and does not always answer.                                             *)
(***************************************************************************)
EXTENDS Integers

CONSTANTS
  Key,            \* key ids
  FirstKeys,      \* those published at first
  KeyRefresh, UnknownRefresh, KeyMaxAge,   \* KEY_REFRESH, UNKNOWN_KID_REFRESH, KEY_MAX_AGE
  FetchMax        \* the time a fetch may take (ClientTimeout)

\* Ten minutes, half a minute, an hour and ten seconds: a refresh for an unknown
\* kid that waits for one other is over before the next may start.
ASSUME KeyAssumption ==
  /\ FirstKeys \subseteq Key
  /\ KeyRefresh \in Nat \ {0} /\ UnknownRefresh \in Nat /\ KeyMaxAge \in Nat /\ FetchMax \in Nat
  /\ 2 * FetchMax < UnknownRefresh

VARIABLES
  published,   \* the issuer's keys
  rotated,     \* per key: the time since it was published or withdrawn
  held,        \* _keys
  keysAge,     \* the time since _fetched_at
  unknownAge,  \* the time since last_unknown
  unknown,     \* the _unknown task is running
  fetch,       \* the refresh that holds _lock: [on, for, took, got, keys]
  queue,       \* refreshes waiting for _lock
  asleep,      \* the time until run wakes up; Never while it refreshes
  failed,      \* keys published or withdrawn before a fetch that failed
  waiting      \* the keys that requests asked for

keyVars == <<published, rotated, held, keysAge, unknownAge, unknown,
             fetch, queue, asleep, failed, waiting>>

\* Instants are kept as the time since (Never before the first), counted up to
\* where a longer time makes no difference.
Never == -1
Older(age, cap) == IF age = Never \/ age > cap THEN age ELSE age + 1
Long == KeyMaxAge + FetchMax + UnknownRefresh

Idle == [on |-> FALSE, for |-> "none", took |-> 0, got |-> FALSE, keys |-> {}]

KeyInit ==
  /\ published = FirstKeys
  /\ rotated = [k \in Key |-> Never]
  /\ held = {} /\ keysAge = Never
  /\ unknownAge = Never /\ unknown = FALSE
  /\ fetch = Idle /\ queue = {}
  /\ asleep = 0                       \* KeySet.open fetches once
  /\ failed = {}
  /\ waiting = {}

------------------------------------------------------------------------------
(* KeySet.refresh, under _lock                                               *)

\* run: one refresh per period, counted from the end of the one before.
Periodic ==
  /\ asleep = 0
  /\ queue' = queue \cup {"run"}
  /\ asleep' = Never
  /\ UNCHANGED <<published, rotated, held, keysAge, unknownAge, unknown,
                 fetch, failed, waiting>>

BeginFetch(w) ==
  /\ w \in queue /\ ~fetch.on
  /\ queue' = queue \ {w}
  /\ fetch' = [Idle EXCEPT !.on = TRUE, !.for = w]
  /\ UNCHANGED <<published, rotated, held, keysAge, unknownAge, unknown,
                 asleep, failed, waiting>>

\* The issuer answers with the keys it publishes at this moment.
IssuerAnswers ==
  /\ fetch.on /\ ~fetch.got
  /\ fetch' = [fetch EXCEPT !.keys = published, !.got = TRUE]
  /\ UNCHANGED <<published, rotated, held, keysAge, unknownAge, unknown,
                 queue, asleep, failed, waiting>>

\* When whoever wanted the refresh goes on.
Released ==
  /\ fetch' = Idle
  /\ unknown' = (unknown /\ fetch.for # "key")
  /\ asleep' = IF fetch.for = "run" THEN KeyRefresh ELSE asleep

EndFetch ==
  /\ fetch.on /\ fetch.got
  /\ held' = fetch.keys /\ keysAge' = 0
  /\ Released
  /\ UNCHANGED <<published, rotated, unknownAge, queue, failed, waiting>>

\* Faulty variant: a failed fetch is taken for a confirmation of the keys held.
FailRenews == IF keysAge = Never THEN Never ELSE 0

FailKeeps == keysAge

FailFetch ==
  /\ fetch.on
  /\ failed' = Key
  /\ keysAge' = FailKeeps
  /\ Released
  /\ UNCHANGED <<published, rotated, held, unknownAge, queue, waiting>>

------------------------------------------------------------------------------
(* Verifier.verify and KeySet.key                                            *)

\* Faulty variant: the first unknown key's refresh is the only one.
MayRefreshOnce == unknownAge = Never

MayRefresh == unknownAge = Never \/ unknownAge >= UnknownRefresh

\* A token whose header is refused changes nothing. A well-formed one asks for
\* its key; an unknown kid starts a refresh of the key set's own, at most one
\* per period.
Ask(k) ==
  /\ k \notin waiting
  /\ waiting' = waiting \cup {k}
  /\ IF k \notin held /\ MayRefresh
     THEN /\ unknownAge' = 0 /\ unknown' = TRUE
          /\ queue' = queue \cup {"key"}
     ELSE UNCHANGED <<unknownAge, unknown, queue>>
  /\ UNCHANGED <<published, rotated, held, keysAge, fetch, asleep, failed>>

\* Judged when the refresh under way, if any, was awaited.
UsableKeys == keysAge # Never /\ keysAge <= KeyMaxAge

\* The request has its answer: accepted if the signature and the claims are in
\* order, TOKEN_INVALID for an unknown key, DEPENDENCY_UNAVAILABLE.
Answered(k) ==
  /\ k \in waiting /\ ~unknown
  /\ waiting' = waiting \ {k}
  /\ UNCHANGED <<published, rotated, held, keysAge, unknownAge, unknown,
                 fetch, queue, asleep, failed>>

Accept(k) == Answered(k) /\ UsableKeys /\ k \in held
RefuseUnknown(k) == Answered(k) /\ UsableKeys /\ k \notin held
Unavailable(k) == Answered(k) /\ ~UsableKeys

\* The request times out: the refresh it awaited goes on.
Cancelled(k) ==
  /\ k \in waiting
  /\ waiting' = waiting \ {k}
  /\ UNCHANGED <<published, rotated, held, keysAge, unknownAge, unknown,
                 fetch, queue, asleep, failed>>

------------------------------------------------------------------------------
\* The issuer publishes a key or withdraws one, each once.
Rotate(k) ==
  /\ rotated[k] = Never
  /\ published' = IF k \in published THEN published \ {k} ELSE published \cup {k}
  /\ rotated' = [rotated EXCEPT ![k] = 0]
  /\ failed' = failed \ {k}
  /\ UNCHANGED <<held, keysAge, unknownAge, unknown, fetch, queue,
                 asleep, waiting>>

\* Time passes in units longer than a turn of the event loop: what can go on
\* does, and a fetch ends by its timeout.
ClockTicks ==
  /\ fetch.on => fetch.took < FetchMax
  /\ queue # {} => fetch.on
  /\ ~unknown => waiting = {}
  /\ fetch' = IF fetch.on THEN [fetch EXCEPT !.took = @ + 1] ELSE fetch
  /\ rotated' = [k \in Key |-> Older(rotated[k], Long)]
  /\ keysAge' = Older(keysAge, KeyMaxAge)
  /\ unknownAge' = Older(unknownAge, UnknownRefresh)
  /\ asleep' = IF asleep > 0 THEN asleep - 1 ELSE asleep
  /\ UNCHANGED <<published, held, unknown, queue, failed, waiting>>

KeyNext ==
  \/ Periodic \/ IssuerAnswers \/ EndFetch \/ FailFetch \/ ClockTicks
  \/ \E w \in {"run", "key"} : BeginFetch(w)
  \/ \E k \in Key : \/ Ask(k) \/ Accept(k) \/ RefuseUnknown(k)
                      \/ Unavailable(k) \/ Cancelled(k) \/ Rotate(k)

KeySpec == KeyInit /\ [][KeyNext]_keyVars

------------------------------------------------------------------------------
\* A withdrawn key is accepted no longer than KEY_MAX_AGE and the time of one
\* fetch after its withdrawal, however the fetches since then went
\* (KeySet.refresh keeps the keys of a failed one, KeySet.key checks their age
\* after the refresh it awaited).
WithdrawnKeyBounded ==
  [][\A k \in Key : Accept(k) =>
       k \in published \/ rotated[k] <= KeyMaxAge + FetchMax]_keyVars

\* A token signed with a new key is refused as unknown only while the key is
\* new: once it has been published for UNKNOWN_KID_REFRESH, only a fetch that
\* failed since explains a refusal (KeySet.key).
NewKeyAccepted ==
  [][\A k \in Key : RefuseUnknown(k) =>
       \/ k \notin published
       \/ rotated[k] \in 0 .. (UnknownRefresh - 1)
       \/ k \in failed]_keyVars

------------------------------------------------------------------------------
(* The inductive invariant behind both properties.                           *)

Fetch == [on : BOOLEAN, for : {"none", "run", "key"}, took : 0 .. FetchMax,
          got : BOOLEAN, keys : SUBSET Key]

KeyTypeOK ==
  /\ published \in SUBSET Key /\ held \in SUBSET Key /\ failed \in SUBSET Key
  /\ waiting \in SUBSET Key
  /\ rotated \in [Key -> Int] /\ \A k \in Key : rotated[k] >= Never
  /\ keysAge \in Int /\ keysAge >= Never /\ unknownAge \in Int /\ unknownAge >= Never
  /\ asleep \in Int /\ asleep >= Never
  /\ unknown \in BOOLEAN
  /\ fetch \in Fetch
  /\ queue \in SUBSET {"run", "key"}

\* The task of an unknown kid waits for _lock or holds it.
Queued == "key" \in queue
HoldsLock(w) == fetch.on /\ fetch.for = w

\* Each of the two tasks refreshes once at a time, and the one of an unknown kid
\* waits for one other fetch at most.
TasksInv ==
  /\ fetch.for \in {"run", "key"} <=> fetch.on
  /\ fetch.on \/ (~fetch.got /\ fetch.keys = {})
  /\ unknown <=> (Queued \/ HoldsLock("key"))
  /\ ~(Queued /\ HoldsLock("key"))
  /\ ("run" \in queue \/ HoldsLock("run")) <=> asleep = Never
  /\ ~("run" \in queue /\ HoldsLock("run"))
  /\ unknown => unknownAge # Never
  /\ Queued => IF fetch.on THEN unknownAge <= fetch.took
               ELSE unknownAge = 0 \/ (asleep > 0 /\ unknownAge <= FetchMax)
  /\ HoldsLock("key") => fetch.took <= unknownAge /\ unknownAge <= FetchMax + fetch.took

\* A key is held, or was answered, at most as long after its withdrawal as the
\* answer is old.
WithdrawnInv ==
  /\ held # {} => keysAge # Never
  /\ \A k \in Key \ published :
       /\ rotated[k] = Never => k \notin held /\ k \notin fetch.keys
       /\ (k \in held /\ keysAge <= KeyMaxAge) => rotated[k] <= keysAge + FetchMax
       /\ k \in fetch.keys => rotated[k] <= fetch.took

\* A published key is in every answer that is younger than it, and what the last
\* refresh of an unknown kid left is as old as that refresh.
PublishedInv ==
  \A k \in published :
    /\ rotated[k] = Never => (keysAge # Never => k \in held) /\ (fetch.got => k \in fetch.keys)
    /\ (k \in held /\ fetch.got) => k \in fetch.keys
    /\ (fetch.got /\ k \notin fetch.keys) => rotated[k] <= fetch.took
    /\ (k \notin held /\ k \notin failed /\ rotated[k] # Never
          /\ ~unknown /\ unknownAge \in 0 .. UnknownRefresh) => rotated[k] <= unknownAge

\* Who waits for a key that is not held asked while a refresh was due or young.
WaitingInv ==
  \A k \in waiting \ held :
    (k \in published \/ rotated[k] = Never) => unknownAge \in 0 .. (UnknownRefresh - 1)

KeyInv == KeyTypeOK /\ TasksInv /\ WithdrawnInv /\ PublishedInv /\ WaitingInv
=============================================================================
