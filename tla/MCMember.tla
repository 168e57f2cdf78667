------------------------------ MODULE MCMember ------------------------------
(***************************************************************************)
(* What the process of a member does in the end: its lifecycle, and its    *)
(* calls of a dependency. They share no state: a behaviour is one of a     *)
(* single part, and the other stays as it began.                           *)
(***************************************************************************)
EXTENDS Calls, Lifecycle

VARIABLE part

Base == [id |-> "a", ports |-> <<1, 2>>, has |-> {}, listed |-> 1, built |-> 1, dist |-> 1,
         needs |-> 1, local |-> FALSE, valid |-> TRUE, jwks |-> "", target |-> "d1",
         prepared |-> TRUE]
Secured == {"protected", "services", "declared", "deployment", "issuer", "authz url"} \cup Files
A == [Base EXCEPT !.has = Secured \cup {"database", "events"}, !.jwks = "u1"]
B == [Base EXCEPT !.id = "b", !.ports = <<3>>, !.has = {"database"}]
C == [Base EXCEPT !.id = "c", !.ports = <<4>>]

\* Deployments that are fine and ones with one thing wrong.
MCDeployments ==
  {[shell |-> FALSE, own |-> TRUE, members |-> <<m>>] :
     m \in {A, [A EXCEPT !.jwks = ""], [A EXCEPT !.ports = <<1>>],
            [A EXCEPT !.has = @ \ {"ca"}], [A EXCEPT !.has = @ \ {"declared"}],
            [A EXCEPT !.has = @ \ Files], [A EXCEPT !.valid = FALSE]}}
  \cup {[shell |-> TRUE, own |-> FALSE, members |-> <<C>>]}
  \cup {[shell |-> TRUE, own |-> TRUE, members |-> ms] :
     ms \in {<<A, B>>, <<B, C>>, <<A, A>>, <<A, [B EXCEPT !.ports = <<2>>]>>,
             <<A, [B EXCEPT !.prepared = FALSE]>>,
             <<A, [B EXCEPT !.target = "d2"]>>,
             <<[C EXCEPT !.jwks = "u1"], B, [A EXCEPT !.jwks = "u2", !.has = {}]>>,
             <<[B EXCEPT !.jwks = "u1"], [A EXCEPT !.jwks = ""]>>,
             <<[C EXCEPT !.local = TRUE], B>>, <<[C EXCEPT !.dist = 0]>>,
             <<[C EXCEPT !.needs = -1]>>}}

MemberInit ==
  /\ part \in {"calls", "lifecycle"}
  /\ Init
  /\ LifeInit
  /\ part # "lifecycle" => ~deployment.shell /\ deployment.members = <<A>>

MemberNext ==
  \/ part = "calls" /\ Next /\ UNCHANGED <<part, lifeVars>>
  \/ part = "lifecycle" /\ LifeNext /\ UNCHANGED <<part, vars>>

MemberSpec ==
  /\ MemberInit /\ [][MemberNext]_<<part, vars, lifeVars>>
  /\ part = "calls" => CallsFairness
  /\ part = "lifecycle" => LifeFairness
=============================================================================
