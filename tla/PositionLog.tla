----------------------------- MODULE PositionLog -----------------------------
(***************************************************************************)
(* What the numbering of one outbox partition promises its consumers: per  *)
(* epoch an append-only log, every batch of which goes on exactly after    *)
(* the last number given in that epoch, whatever part of the database's    *)
(* own record of it a recovery lost.                                       *)
(***************************************************************************)
EXTENDS Naturals, FiniteSets

CONSTANTS Event, Batch

VARIABLES log,   \* the positions given so far
          epoch  \* the current epoch

Init == log = {} /\ epoch = 1

\* t is the last number given in the current epoch.
IsTop(t) ==
  /\ \A a \in log : a.epoch = epoch => a.seq <= t
  /\ t = 0 \/ \E a \in log : a.epoch = epoch /\ a.seq = t

\* A batch of at most Batch events takes the numbers t+1, t+2, ...
Append(t, new) ==
  /\ IsTop(t)
  /\ Cardinality(new) <= Batch
  /\ \A a \in new : a.ev \in Event /\ a.epoch = epoch
  /\ {a.seq : a \in new} = (t + 1)..(t + Cardinality(new))

Grow ==
  /\ log \subseteq log'
  /\ \E t \in {0} \cup {a.seq : a \in log} : Append(t, log' \ log)
  /\ epoch' = epoch

NewEpoch == epoch' = epoch + 1 /\ log' = log

Next == Grow \/ NewEpoch

Spec == Init /\ [][Next]_<<log, epoch>>
=============================================================================
