----------------------------- MODULE MCPgQueue -----------------------------
EXTENDS PgQueue, TLC

\* The workers and the messages that match are interchangeable.
Symmetry == Permutations(Worker) \cup Permutations(Matching)
=============================================================================
