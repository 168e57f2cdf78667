------------------------------ MODULE MCOutbox ------------------------------
EXTENDS Outbox, TLC

Symmetry == Permutations(Event) \cup Permutations(Forwarder)
=============================================================================
