---------------------------- MODULE MCAgentTurn ----------------------------
EXTENDS AgentTurn

PlaneCost == [cli |-> 1, api |-> 2]
=============================================================================
