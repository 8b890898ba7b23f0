---------------------------- MODULE MissionTruth ----------------------------
(***************************************************************************)
(* What the mission ledger promises its callers, with nothing of how: a    *)
(* mission is held by one worker at a time under an ever growing epoch,    *)
(* only the holder can decide it, it is decided at most once, and only the *)
(* decider's answer to a completed mission is ever published, once.        *)
(***************************************************************************)
EXTENDS Naturals, Sequences

CONSTANTS Workers, NoOne

VARIABLES
    phase,      \* "none", "open", then "complete" or "failed"
    epoch,      \* grows with every change of holder
    holder,     \* the worker that may decide, or NoOne
    winner,     \* the worker that decided
    published   \* the answers that became session history

truth == <<phase, epoch, holder, winner, published>>

TruthInit ==
    /\ phase = "none" /\ epoch = 0
    /\ holder = NoOne /\ winner = NoOne
    /\ published = <<>>

Grant(w) ==
    /\ phase \in {"none", "open"}
    /\ phase' = "open"
    /\ epoch' = epoch + 1
    /\ holder' = w
    /\ UNCHANGED <<winner, published>>

Withdraw ==
    /\ phase = "open" /\ holder # NoOne
    /\ epoch' = epoch + 1
    /\ holder' = NoOne
    /\ UNCHANGED <<phase, winner, published>>

Decide(w) ==
    /\ phase = "open" /\ holder = w
    /\ phase' \in {"complete", "failed"}
    /\ epoch' = epoch + 1
    /\ holder' = NoOne
    /\ winner' = w
    /\ UNCHANGED published

Publish ==
    /\ phase = "complete" /\ published = <<>>
    /\ published' = <<winner>>
    /\ UNCHANGED <<phase, epoch, holder, winner>>

TruthNext ==
    \/ \E w \in Workers : Grant(w) \/ Decide(w)
    \/ Withdraw \/ Publish

TruthSpec == TruthInit /\ [][TruthNext]_truth
=============================================================================
