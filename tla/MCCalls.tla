------------------------------ MODULE MCCalls ------------------------------
EXTENDS Calls, TLC

\* Callers are interchangeable but for what goes through the breaker.
Symmetry == Permutations(Caller \ Background)
=============================================================================
