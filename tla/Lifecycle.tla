----------------------------- MODULE Lifecycle -----------------------------
(***************************************************************************)
(* One process from its first check to its exit: launcher.py runs one      *)
(* component alone, shell.py hosts several members, both with the member   *)
(* of host.py (build, start, mark_ready, stop_all).                        *)
(*                                                                         *)
(* A member is what BrickKit lists of it together with what its definition *)
(* and its configuration say: a record of the set Member below.            *)
(***************************************************************************)
EXTENDS Integers, Sequences, FiniteSetsExt, Functions

CONSTANTS
  Deployments,    \* what may be run: [shell, own |-> BOOLEAN, members |-> Seq(Member)], own:
                  \* the process's own identity, platform keys and database login are right
  SdkVersion,     \* the version of the SDK in the process
  AllowReplace,   \* SHELL_ALLOW_REPLACE
  StopDrain,      \* STOP_DRAIN_DELAY and STOP_TIMEOUT, the largest of the
  StopTimeout     \* process's and the members'

VARIABLES
  deployment,   \* the deployment chosen
  stage,        \* where the main coroutine is
  at,           \* the member it deals with
  state,        \* the members' states, as their readiness answers them
  open,         \* the surfaces that are served: <<"http" | "grpc" | "own", member>>
  busy,         \* those with a request in flight
  started,      \* members whose start was called and whose stop has not ended
  settled,      \* members whose stop ended, one way or the other
  view,         \* submission of the definitions, then the view holder's loop
  authz,        \* how the authorization member answers a submission
  bus, pools, keys,   \* the process's bus, its pools and its identity keys
  attempt,      \* to reach the bus or a database: "none", its "query", the "pause" after
                \* one that failed, or the "durable" check after one that did not
  stop,         \* the stop event, set by the signal
  left,         \* time until the deadline of stop_all
  wasReady,     \* every member was ready once
  cut,          \* a request in flight was cut off
  unclean,      \* a server or a member did not stop cleanly
  code          \* the exit code

lifeVars == <<deployment, stage, at, state, open, busy, started, settled, view,
              authz, bus, pools, keys, attempt, stop, left, wasReady, cut, unclean, code>>

OK == 0
FAILURE == 1
STARTUP_CHECK == 69
CONFIGURATION == 78
NoCode == -1

\* What a definition and its configuration have or set, besides the fields of
\* Member: "protected" routes and "services" of the module, "declared": the
\* authorization definitions are there, valid and name every operation.
Features == {"events", "database", "protected", "services", "declared",
             "deployment", "issuer", "authz url", "cert", "key", "ca"}

Member ==
  [id : {"a", "b", "c"}, ports : Seq(Nat), has : SUBSET Features,
   listed : Nat, built : Nat, dist : Nat,   \* versions; dist 0: no distribution
   needs : Int,                             \* the SDK required at least, -1: none declared
   local : BOOLEAN, valid : BOOLEAN,        \* installed from a path; configuration parses
   jwks : {"", "u1", "u2"},                 \* a process-level key: IAM_JWKS_URL
   target : {"d1", "d2"}, prepared : BOOLEAN]

\* launcher.py runs one component. A shell that lists no member hosts nothing.
ASSUME LifeAssumption ==
  /\ StopDrain \in Nat /\ StopTimeout \in Nat
  /\ \A d \in Deployments :
       /\ d.shell \in BOOLEAN /\ d.members \in Seq(Member) /\ d.members # <<>>
       /\ d.shell \/ Len(d.members) = 1

------------------------------------------------------------------------------
(* shell.check: every refusal before anything is opened.                     *)

sdk_unmet(m) == m.needs < 0 \/ m.needs > SdkVersion

ListedTwice(ms, i) == \E j \in 1 .. (i - 1) : ms[j].id = ms[i].id

\* A port of member i that is not positive or was seen before.
PortTaken(ms, i) ==
  \E p \in DOMAIN ms[i].ports :
    \/ ms[i].ports[p] <= 0
    \/ \E j \in 1 .. i : \E q \in DOMAIN ms[j].ports :
         /\ j < i \/ q < p
         /\ ~ListedTwice(ms, j)
         /\ ms[j].ports[q] = ms[i].ports[p]

MemberRefused(ms, i) ==
  \/ ListedTwice(ms, i)
  \/ PortTaken(ms, i)
  \/ ms[i].built # ms[i].listed
  \/ ms[i].dist # ms[i].listed
  \/ sdk_unmet(ms[i])
  \/ ms[i].local /\ ~AllowReplace
  \/ ~ms[i].valid

Planned(ms) == {i \in DOMAIN ms : ~ListedTwice(ms, i) /\ ms[i].valid}

\* Each member that sets the key is compared with the first that does.
process_keys_agree(ms) ==
  LET Setters == {i \in Planned(ms) : ms[i].jwks # ""}
  IN  \A i \in Setters : ms[i].jwks = ms[Min(Setters)].jwks

Owners(ms) == {i \in Planned(ms) : "database" \in ms[i].has}

\* Each member is compared with the first on its database target.
targets_agree(ms) ==
  \A i \in Owners(ms) :
    LET Same == {j \in Owners(ms) : ms[j].target = ms[i].target}
    IN  ms[i].prepared = ms[Min(Same)].prepared

Refused(d) ==
  \/ ~d.own
  \/ /\ d.shell
     /\ \/ \E i \in DOMAIN d.members : MemberRefused(d.members, i)
        \/ ~process_keys_agree(d.members)
        \/ ~targets_agree(d.members)
  \/ /\ ~d.shell
     /\ ~d.members[1].valid \/ d.members[1].built # d.members[1].listed

------------------------------------------------------------------------------
(* host.build                                                                *)

Files == {"cert", "key", "ca"}

\* The mTLS identity: all three files and the deployment, or none of them.
HasIdentity(m) == Files \cup {"deployment"} \subseteq m.has

ServiceIdentity(m) ==
  IF Files \cap m.has = {} \/ HasIdentity(m) THEN "ok" ELSE "config"

\* Faulty variant: the identity keys of the process are enough.
GuardOfProcess(m) ==
  IF "declared" \notin m.has THEN "failure"
  ELSE IF {"deployment", "issuer"} \subseteq m.has /\ keys = "open" THEN "ok" ELSE "config"

\* Admission of protected routes. The keys are the process's.
Guard(m) ==
  IF "declared" \notin m.has THEN "failure"
  ELSE IF /\ {"deployment", "issuer", "authz url"} \subseteq m.has
          /\ m.jwks # ""
          /\ HasIdentity(m)
          /\ keys = "open"
       THEN "ok" ELSE "config"

\* The system surface is never built without the service identity.
SystemSurface(m) ==
  IF "declared" \in m.has /\ HasIdentity(m) THEN "ok" ELSE "failure"

\* The first part that refuses decides.
BuildOutcome(m) ==
  LET parts == <<ServiceIdentity(m),
                 IF "protected" \in m.has THEN Guard(m) ELSE "ok",
                 IF "services" \in m.has THEN SystemSurface(m) ELSE "ok">>
      bad == {k \in 1 .. 3 : parts[k] # "ok"}
  IN  IF bad = {} THEN "ok" ELSE parts[Min(bad)]

------------------------------------------------------------------------------
Alone == <<"check", "bus", "build", "clock", "db", "listen", "grpc", "start", "wait">>
Shell == <<"check", "clock", "bus", "build", "listen", "grpc", "own", "db", "start", "wait">>

Hosted == Len(deployment.members)
Members == 1 .. Hosted
Current == deployment.members[at]
Uses(f) == \E i \in Members : f \in deployment.members[i].has

LifeInit ==
  /\ deployment \in Deployments
  /\ stage = "check" /\ at = 1
  /\ state = [i \in Members |-> "starting"]
  /\ open = {} /\ busy = {} /\ started = {} /\ settled = {}
  /\ view = [i \in Members |-> "none"]
  /\ authz = "down"
  /\ bus = "none" /\ pools = "none" /\ keys = "none"
  /\ attempt = "none"
  /\ stop = FALSE /\ left = StopTimeout
  /\ wasReady = FALSE /\ cut = FALSE /\ unclean = FALSE
  /\ code = NoCode

\* On to the next stage; a shell builds and listens member by member, awaits the
\* databases member by member, and starts member by member.
Proceed ==
  LET order == IF deployment.shell THEN Shell ELSE Alone
      next == CHOOSE k \in 2 .. Len(order) : order[k - 1] = stage
  IN  CASE at < Hosted /\ stage = "grpc" -> stage' = "build" /\ at' = at + 1
        [] at < Hosted /\ stage \in {"db", "start"} -> stage' = stage /\ at' = at + 1
        [] OTHER -> stage' = order[next] /\ at' = IF stage \in {"grpc", "db"} THEN 1 ELSE at

\* Every server is shut down with no time for its requests.
ShutNow ==
  /\ open' = {} /\ busy' = {}
  /\ cut' = (cut \/ busy # {})

\* run returns c: the finally blocks are next.
Return(c) == stage' = "closing" /\ code' = c /\ UNCHANGED at

Surfaces == <<open, busy, cut>>
Work == <<state, started, settled, view, wasReady>>
Resources == <<bus, pools, keys>>
Shared == <<Resources, attempt>>
Outside == <<deployment, authz, stop, left, unclean>>

\* pools are opened when the checks that need nothing are done.
OpenPools ==
  pools' = IF stage' = "bus" /\ Uses("database") THEN "open" ELSE pools

CheckConfiguration ==
  /\ stage = "check"
  /\ IF Refused(deployment)
     THEN Return(CONFIGURATION) /\ UNCHANGED pools
     ELSE Proceed /\ OpenPools /\ UNCHANGED code
  /\ UNCHANGED <<bus, keys, attempt, Surfaces, Work, Outside>>

CheckClock ==
  /\ stage = "clock"
  /\ \/ Proceed /\ OpenPools /\ UNCHANGED code
     \/ Return(STARTUP_CHECK) /\ UNCHANGED pools
  /\ UNCHANGED <<bus, keys, attempt, Surfaces, Work, Outside>>

\* There is one pool per target; it is awaited in its first member's turn.
FirstOnTarget(i) ==
  /\ "database" \in deployment.members[i].has
  /\ \A j \in 1 .. (i - 1) :
       ~("database" \in deployment.members[j].has
           /\ deployment.members[j].target = deployment.members[i].target)

Awaiting == (stage = "bus" /\ Uses("events")) \/ (stage = "db" /\ FirstOnTarget(at))

\* ready_bus and Pool.ready: an attempt begins at once, the next ones a second
\* after one that failed. Stop is looked at in that second only.
BeginAttempt ==
  /\ Awaiting
  /\ attempt = "none" \/ (attempt = "pause" /\ ~stop)
  /\ attempt' = "query"
  /\ UNCHANGED <<stage, at, code, Resources, Surfaces, Work, Outside>>

\* It cannot connect, or its query fails.
PauseWaiting ==
  /\ attempt = "query"
  /\ attempt' = "pause"
  /\ UNCHANGED <<stage, at, code, Resources, Surfaces, Work, Outside>>

\* The bus answers, or nobody uses one; then the identity keys are opened, a
\* failing first fetch included.
OpenBus ==
  /\ stage = "bus" /\ (Uses("events") => attempt = "query")
  /\ Proceed
  /\ attempt' = "none"
  /\ bus' = IF Uses("events") THEN "open" ELSE bus
  /\ keys' = IF \E i \in Members : deployment.members[i].jwks # "" THEN "open" ELSE keys
  /\ UNCHANGED <<pools, code, Surfaces, Work, Outside>>

\* The database answers: check_durable queries it once more.
DatabaseAnswers ==
  /\ stage = "db" /\ attempt = "query"
  /\ attempt' = "durable"
  /\ UNCHANGED <<stage, at, code, Resources, Surfaces, Work, Outside>>

\* Its settings are durable, or there is no pool to await in this turn.
Database ==
  /\ stage = "db" /\ (FirstOnTarget(at) => attempt = "durable")
  /\ Proceed
  /\ attempt' = "none"
  /\ UNCHANGED <<code, Resources, Surfaces, Work, Outside>>

\* The wait ends without the resource: it refuses what it is asked with, or a
\* start check fails.
GiveUpWaiting ==
  /\ \/ attempt = "query" /\ (Return(CONFIGURATION) \/ Return(STARTUP_CHECK))
     \/ attempt = "durable" /\ Return(STARTUP_CHECK)
  /\ attempt' = "none"
  /\ ShutNow
  /\ UNCHANGED <<Resources, Work, Outside>>

\* Nothing catches an error of check_durable's query: it leaves run as it is,
\* past the servers.
DurableCheckRaises ==
  /\ attempt = "durable"
  /\ Return(FAILURE)
  /\ attempt' = "none"
  /\ UNCHANGED <<Resources, Surfaces, Work, Outside>>

\* Faulty variant: the stop event is not looked at while the database is awaited.
StopNoticedByBus == stop /\ stage = "bus"

StopNoticed == stop

StopWaiting ==
  /\ attempt = "pause" /\ StopNoticed
  /\ Return(OK)
  /\ attempt' = "none"
  /\ ShutNow
  /\ UNCHANGED <<Resources, Work, Outside>>

Build ==
  /\ stage = "build"
  /\ \/ /\ BuildOutcome(Current) = "ok"
        /\ Proceed
        /\ UNCHANGED <<code, Surfaces>>
     \/ /\ BuildOutcome(Current) = "config"
        /\ Return(CONFIGURATION) /\ ShutNow
     \/ /\ ServiceIdentity(Current) = "ok"   \* the module's own wiring may fail too
        /\ Return(FAILURE) /\ ShutNow
  /\ UNCHANGED <<Shared, Work, Outside>>

\* The port may be taken. The member's system surface needs a grpc port.
Listen ==
  /\ stage \in {"listen", "grpc", "own"}
  /\ LET surface == IF stage = "listen" THEN <<"http", at>>
                    ELSE IF stage = "grpc" THEN <<"grpc", at>> ELSE <<"own", 0>>
         needed == stage = "grpc" => "services" \in Current.has
         possible == stage = "grpc" => Len(Current.ports) > 1
     IN  \/ /\ needed /\ possible
            /\ open' = open \cup {surface}
            /\ Proceed
            /\ UNCHANGED <<busy, cut, code>>
         \/ /\ ~needed
            /\ Proceed
            /\ UNCHANGED <<code, Surfaces>>
         \/ needed /\ Return(FAILURE) /\ ShutNow
  /\ UNCHANGED <<Shared, Work, Outside>>

\* Faulty variant: an authorization member that refuses the definitions is not
\* asked again.
SubmittedNoRetry ==
  CASE authz = "up" -> "running" [] authz = "down" -> "retrying" [] OTHER -> "none"

\* What follows the first submission of the definitions.
Submitted == IF authz = "up" THEN "running" ELSE "retrying"

\* Member.start and mark_ready. With protected routes the definitions are
\* submitted once; readiness does not wait for their acceptance.
Start ==
  /\ stage = "start"
  /\ started' = started \cup {at}
  /\ view' = [view EXCEPT ![at] = IF "protected" \in Current.has THEN Submitted ELSE "none"]
  /\ state' = [state EXCEPT ![at] = "ready"]
  /\ wasReady' = (at = Hosted)
  /\ Proceed
  /\ UNCHANGED <<settled, code, Shared, Surfaces, Outside>>

\* A start that fails, perhaps after its first parts: the servers are shut
\* down, the members started are not stopped.
StartFails ==
  /\ stage = "start"
  /\ started' = started \cup {at}
  /\ Return(FAILURE) /\ ShutNow
  /\ UNCHANGED <<state, settled, view, wasReady, Shared, Outside>>

\* _submit_until_accepted: a refusal and a failure are both retried.
RetrySubmission(i) ==
  /\ view[i] = "retrying" /\ authz = "up"
  /\ stage # "exited"
  /\ view' = [view EXCEPT ![i] = "running"]
  /\ UNCHANGED <<deployment, stage, at, state, started, settled, wasReady, authz,
                 stop, left, unclean, code, Shared, Surfaces>>

\* Alone, the end of the user surface ends the process.
ServerEnds ==
  /\ stage = "wait" /\ ~deployment.shell
  /\ open' = open \ {<<"http", 1>>}
  /\ busy' = busy \ {<<"http", 1>>}
  /\ cut' = (cut \/ <<"http", 1>> \in busy)
  /\ Return(FAILURE)
  /\ UNCHANGED <<Shared, Work, Outside>>

------------------------------------------------------------------------------
(* host.stop_all                                                             *)

BeginStop ==
  /\ stage = "wait" /\ stop
  /\ stage' = "drain"
  /\ state' = [i \in Members |-> "stopping"]
  /\ UNCHANGED <<deployment, at, started, settled, view, wasReady, authz, stop, left,
                 unclean, code, Shared, Surfaces>>

Elapsed == StopTimeout - left

\* Faulty variant: the servers go down at once.
NoDrain == 0

DrainTime == Min({StopDrain, StopTimeout})

EndDrain ==
  /\ stage = "drain" /\ Elapsed >= DrainTime
  /\ stage' = "shutdown"
  /\ UNCHANGED <<at, code, Shared, Surfaces, Work, Outside>>

\* A server ends when its requests have, or cuts them off at the deadline. Past
\* the deadline a server that ended late counts as unclean too.
ServerStops(s) ==
  /\ stage = "shutdown" /\ s \in open
  /\ \/ /\ s \notin busy
        /\ unclean' \in {unclean, unclean \/ left <= 0}
     \/ /\ s \in busy /\ left <= 0
        /\ unclean' = TRUE
  /\ open' = open \ {s}
  /\ busy' = busy \ {s}
  /\ cut' = (cut \/ s \in busy)
  /\ UNCHANGED <<deployment, stage, at, authz, stop, left, code, Shared, Work>>

\* stop_background: the tasks of every member are cancelled.
EndShutdown ==
  /\ stage = "shutdown" /\ open = {}
  /\ stage' = "members"
  /\ view' = [i \in Members |-> "none"]
  /\ UNCHANGED <<at, state, started, settled, wasReady, code, Shared, Surfaces, Outside>>

\* Faulty variant: a member whose stop its timeout cancelled is not reported.
NotStoppedUnlessLate == left > 0 \/ unclean

NotStopped == TRUE

\* Member.stop in parallel: it ends, it raises, or its time is up.
MemberStops(i) ==
  /\ stage = "members" /\ i \in Members \ settled
  /\ settled' = settled \cup {i}
  /\ \/ started' = started \ {i} /\ UNCHANGED unclean
     \/ unclean' = NotStopped /\ UNCHANGED started
  /\ UNCHANGED <<deployment, stage, at, state, view, wasReady, authz, stop, left, code,
                 Shared, Surfaces>>

EndStop ==
  /\ stage = "members" /\ settled = Members
  /\ Return(IF unclean THEN FAILURE ELSE OK)
  /\ UNCHANGED <<Shared, Surfaces, Work, Outside>>

\* The finally blocks: the keys, the bus and the pools are closed on every path.
Close ==
  /\ stage = "closing"
  /\ stage' = "exited"
  /\ bus' = IF bus = "open" THEN "closed" ELSE bus
  /\ pools' = IF pools = "open" THEN "closed" ELSE pools
  /\ keys' = IF keys = "open" THEN "closed" ELSE keys
  /\ UNCHANGED <<at, attempt, code, Surfaces, Work, Outside>>

------------------------------------------------------------------------------
(* The surroundings: the signal, requests, the authorization member, time.   *)

Signal ==
  /\ ~stop /\ stage # "exited"
  /\ stop' = TRUE
  /\ UNCHANGED <<deployment, stage, at, authz, left, unclean, code, Shared, Surfaces, Work>>

Arrive(s) ==
  /\ s \in open \ (busy \cup {<<"own", 0>>})
  /\ stage \notin {"shutdown", "exited"}
  /\ busy' = busy \cup {s}
  /\ UNCHANGED <<stage, at, open, cut, code, Shared, Work, Outside>>

Answer(s) ==
  /\ s \in busy /\ stage # "exited"
  /\ busy' = busy \ {s}
  /\ UNCHANGED <<stage, at, open, cut, code, Shared, Work, Outside>>

AuthzChanges ==
  /\ Uses("protected") /\ stage \in {"start", "wait"}
  /\ authz' \in {"down", "refuses", "up"} \ {authz}
  /\ UNCHANGED <<deployment, stage, at, stop, left, unclean, code, Shared, Surfaces, Work>>

\* Time matters from stop_all's deadline on. A server is given up one unit
\* after it (HTTPServer.shutdown waits timeout + 1).
StopTimePasses ==
  /\ \/ stage = "drain" /\ Elapsed < DrainTime
     \/ stage = "shutdown" /\ left > -1
     \/ stage = "members" /\ left > 0
  /\ left' = left - 1
  /\ UNCHANGED <<deployment, stage, at, authz, stop, unclean, code, Shared, Surfaces, Work>>

\* The main coroutine.
Run ==
  \/ CheckConfiguration \/ CheckClock
  \/ BeginAttempt \/ PauseWaiting \/ OpenBus \/ DatabaseAnswers \/ Database
  \/ GiveUpWaiting \/ DurableCheckRaises \/ StopWaiting
  \/ Build \/ Listen
  \/ Start \/ StartFails \/ ServerEnds
  \/ BeginStop \/ EndDrain \/ EndShutdown \/ EndStop \/ Close
  \/ \E s \in open : ServerStops(s)
  \/ \E i \in Members : MemberStops(i)

LifeNext ==
  \/ Run \/ StopTimePasses
  \/ \E i \in Members : RetrySubmission(i)
  \/ \E s \in open : Arrive(s) \/ Answer(s)
  \/ Signal \/ AuthzChanges

\* Awaits without a bound: an attempt's query, and the closing of the bus and of
\* the pools.
Hanging ==
  \/ attempt \in {"query", "durable"}
  \/ stage = "closing" /\ (bus = "open" \/ pools = "open")

\* The event loop runs what is ready: the checks, the module's wiring and start
\* come to an end, and time passes. Neither the bus nor the database, nor a
\* request, nor the authorization member owes an answer.
LifeFairness ==
  /\ WF_lifeVars(CheckConfiguration) /\ WF_lifeVars(CheckClock)
  /\ WF_lifeVars(OpenBus /\ ~Uses("events"))
  /\ WF_lifeVars(BeginAttempt) /\ WF_lifeVars(StopWaiting)
  /\ WF_lifeVars(Build) /\ WF_lifeVars(Listen)
  /\ WF_lifeVars(Database /\ ~FirstOnTarget(at))
  /\ WF_lifeVars(Start \/ StartFails)
  /\ WF_lifeVars(BeginStop) /\ WF_lifeVars(EndDrain) /\ WF_lifeVars(StopTimePasses)
  /\ WF_lifeVars(\E s \in open : ServerStops(s)) /\ WF_lifeVars(EndShutdown)
  /\ WF_lifeVars(\E i \in Members : MemberStops(i)) /\ WF_lifeVars(EndStop)
  /\ WF_lifeVars(Close /\ ~Hanging)
  /\ \A i \in 1 .. 3 : WF_lifeVars(i \in Members /\ RetrySubmission(i))

LifeSpec == LifeInit /\ [][LifeNext]_lifeVars /\ LifeFairness

------------------------------------------------------------------------------
(* Properties                                                                *)

Answers(i) == <<"http", i>> \in open /\ state[i] = "ready"

\* A member that answers ready has everything it serves with: its background
\* work was started, its system surface is up, the pools and the bus it uses
\* are open, and protected routes have the identity keys, the service identity
\* and the authorization member's address (host.build, Member.start, stop_all,
\* the finally blocks). The shell's own port answers ready only when all do.
ReadyIsServing ==
  /\ \A i \in Members : Answers(i) =>
       LET m == deployment.members[i]
       IN  /\ i \in started
           /\ "services" \in m.has => <<"grpc", i>> \in open
           /\ "database" \in m.has => pools = "open"
           /\ "events" \in m.has => bus = "open"
           /\ "protected" \in m.has =>
                keys = "open" /\ HasIdentity(m) /\ m.jwks # "" /\ "authz url" \in m.has
  /\ (<<"own", 0>> \in open /\ stage # "shutdown" /\ \A i \in Members : state[i] = "ready")
       => \A i \in Members : Answers(i)

\* Exit code 0 after the process was ready means a graceful stop: no request in
\* flight was cut off and every member's stop ended well (stop_all's code).
CleanExit ==
  (stage = "exited" /\ wasReady /\ code = OK) => (stop /\ ~cut /\ started = {} /\ open = {})

\* Once the process was ready its surfaces close only after every member has
\* answered not-ready for the drain delay, or for the whole stop timeout when
\* that is shorter (stop_all). Alone, a user surface that ends by itself is the
\* exception.
DrainedFirst ==
  [][(wasReady /\ open' # open /\ stage # "wait") =>
       /\ \A i \in Members : state[i] = "stopping"
       /\ Elapsed >= StopDrain \/ Elapsed >= StopTimeout]_lifeVars

\* A process told to stop exits, wherever it is: while it retries a bus or a
\* database that cannot be reached, with requests that never end, or with a
\* member whose stop hangs (ready_bus, Pool.ready, stop_all). It does not when a
\* single query to the bus or a database, or a close, never ends: stop is looked
\* at only after an attempt, and nothing bounds one.
StopExits == []<>~Hanging => (stop ~> stage = "exited")

\* A ready member with protected routes comes to run its view holder once the
\* authorization member is there to stay, whatever it answered before: also a
\* refusal is retried (Member.start, _submit_until_accepted).
DefinitionsReach ==
  <>[](authz = "up") =>
    \A i \in 1 .. 3 :
      (i \in Members /\ state[i] = "ready" /\ "protected" \in deployment.members[i].has)
        ~> (i \in Members => (view[i] = "running" \/ state[i] # "ready" \/ stage = "exited"))

------------------------------------------------------------------------------
(* The inductive invariant behind ReadyIsServing, CleanExit and DrainedFirst. *)

Opening == {"check", "clock", "bus", "build", "listen", "grpc", "own", "db"}
Stopping == {"drain", "shutdown", "members"}
Over == {"closing", "exited"}
Stages == Opening \cup {"start", "wait"} \cup Stopping \cup Over

LifeTypeOK ==
  /\ deployment \in Deployments
  /\ stage \in Stages /\ (stage = "own" => deployment.shell)
  /\ at \in Members /\ (stage \in {"check", "clock", "bus"} => at = 1)
  /\ state \in [Members -> {"starting", "ready", "stopping"}]
  /\ <<"own", 0>> \in open => deployment.shell
  /\ started \in SUBSET Members /\ settled \in SUBSET Members
  /\ attempt \in {"none", "query", "pause", "durable"}
  /\ attempt # "none" => stage \in {"bus", "db"}
  /\ left \in Int
  /\ {stop, wasReady, cut, unclean} \subseteq BOOLEAN

\* A ready member was started and is not being stopped.
ReadyInv ==
  \A i \in Members :
    /\ state[i] = "ready" => i \in started /\ stage \in {"start", "wait"} \cup Over
    /\ stage \in Stopping => state[i] = "stopping"

\* Before the pools are opened, and before the bus and the keys are.
Unopened == stage \in {"check"} \cup Over \/ (stage = "clock" /\ deployment.shell)
Unbuilt == Unopened \/ stage = "bus"

BuiltSoFar(i) ==
  /\ stage = "build" => i < at
  /\ stage \in {"listen", "grpc"} => i <= at

Guarded(i) ==
  LET m == deployment.members[i]
  IN  "protected" \in m.has =>
        keys = "open" /\ HasIdentity(m) /\ m.jwks # "" /\ "authz url" \in m.has

\* The members that were built have what their routes are guarded with, and
\* what was opened stays open until the end.
ResourceInv ==
  /\ ~Unopened => (Uses("database") => pools = "open")
  /\ ~Unbuilt => /\ Uses("events") => bus = "open"
                 /\ \A i \in Members : BuiltSoFar(i) => Guarded(i)

ServedSoFar(i) ==
  \/ stage \in {"start", "wait", "drain"}
  \/ deployment.shell /\ stage \in {"own", "db"}
  \/ deployment.shell /\ stage \in {"build", "listen", "grpc"} /\ i < at

\* The surfaces of the members that were dealt with are up; none is before
\* listen, nor is the user surface of a ready member in the end.
SurfaceInv ==
  /\ (stage \in {"check", "clock", "bus", "members"}
        \/ (~deployment.shell /\ stage \in {"build", "db", "listen"})) => open = {}
  /\ (stage \in Over /\ \A i \in Members : state[i] = "ready") => <<"own", 0>> \notin open
  /\ \A i \in Members :
       /\ (stage \in Over /\ state[i] = "ready") => <<"http", i>> \notin open
       /\ ServedSoFar(i) =>
            /\ <<"http", i>> \in open
            /\ "services" \in deployment.members[i].has => <<"grpc", i>> \in open
       /\ (stage = "grpc" /\ i = at) => <<"http", i>> \in open

\* What stop_all has done so far, and what an exit code 0 says of it.
StopInv ==
  /\ stage \in Stopping => stop
  /\ stage = "shutdown" => Elapsed >= DrainTime
  /\ wasReady => stage \notin Opening \cup {"start"}
  /\ stage \notin {"members"} \cup Over => settled = {}
  /\ (stage \notin Over /\ cut) => unclean
  /\ (stage = "members" /\ ~unclean) => started \cap settled = {}
  /\ (stage \in Over /\ wasReady /\ code = OK) => (stop /\ ~cut /\ started = {} /\ open = {})

LifeInv == LifeTypeOK /\ ReadyInv /\ ResourceInv /\ SurfaceInv /\ StopInv
=============================================================================
