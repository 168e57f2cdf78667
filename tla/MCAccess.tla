------------------------------ MODULE MCAccess ------------------------------
(***************************************************************************)
(* What stands between a request and the work it asks for: the view its    *)
(* member holds of the authorizations, and the permits of the calls it     *)
(* makes. They share no state: a behaviour is one of a single part, and    *)
(* the other stays as it began.                                            *)
(***************************************************************************)
EXTENDS Calls, Access

VARIABLE part

RequestInit ==
  /\ part \in {"calls", "access"}
  /\ Init
  /\ AccessInit

RequestNext ==
  \/ part = "calls" /\ Next /\ UNCHANGED <<part, accessVars>>
  \/ part = "access" /\ AccessNext /\ UNCHANGED <<part, vars>>

RequestSpec == RequestInit /\ [][RequestNext]_<<part, vars, accessVars>>
=============================================================================
