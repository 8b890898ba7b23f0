SPECIFICATION Spec
CONSTANTS
  Voters = {"v1", "v2"}
  ApiVoters = {"v2"}
  Cost <- PlaneCost
  Slots = 1
  ContinueMax = 2
INVARIANTS UsageConserved MeteredOff SlotsAccounted ContinueOnce
PROPERTIES TurnEnds
