---------------------------- MODULE MCSpendGuard ----------------------------
EXTENDS SpendGuard, TLC

\* Attempt ids are interchangeable.
Symmetry == Permutations(Attempts)
=============================================================================
