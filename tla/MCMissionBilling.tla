-------------------------- MODULE MCMissionBilling --------------------------
EXTENDS MissionBilling, TLC

\* Quanta are interchangeable.
Symmetry == Permutations(Workers)
=============================================================================
