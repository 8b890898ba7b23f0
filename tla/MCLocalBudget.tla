--------------------------- MODULE MCLocalBudget ---------------------------
EXTENDS LocalBudget, TLC

\* Operations are interchangeable.
Symmetry == Permutations(Ops)
=============================================================================
