-------------------------- MODULE MCMissionLedger --------------------------
(* TLC instance of MissionLedger; without symmetry, which liveness forbids. *)
EXTENDS MissionLedger
=============================================================================
