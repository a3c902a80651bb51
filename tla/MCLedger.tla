------------------------------ MODULE MCLedger ------------------------------
\* Reservations are interchangeable: they are random identities.
EXTENDS AttemptLedger, TLC

Symmetry == Permutations(Attempt)
=============================================================================
