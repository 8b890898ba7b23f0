---------------------------- MODULE LocalBudget ----------------------------
(***************************************************************************)
(* The local daily budget ledger (caller_budget.py) and the metered        *)
(* operations that reserve, run and settle against it, through             *)
(* _guarded_provider_call or _run_durable_job, in any number of processes  *)
(* on one database file.                                                   *)
(*                                                                         *)
(* What the provider really charges is part of the model, so that the      *)
(* ledger can be compared with it.  Costs are whole units.                 *)
(***************************************************************************)
EXTENDS Integers, FiniteSets

CONSTANTS
    Ops,        \* metered operations; each mints its own reservation token
    NoOne,      \* SQL NULL for a token
    Limit,      \* the daily limit
    MaxCost,    \* the most one operation can cost
    Lease,      \* _LOCAL_BUDGET_LEASE_SECONDS, in ticks
    LastDay     \* bound: the days are 0..LastDay

ASSUME BudgetAssumption ==
    /\ NoOne \notin Ops
    /\ Limit \in Nat \ {0} /\ MaxCost \in Nat
    /\ Lease \in Nat \ {0} /\ LastDay \in Nat

VARIABLES
    today,      \* the UTC day
    ledger,     \* ledger[d]: the row of table local_daily_budget
    telemetry,  \* telemetry[d]: the cost recorded in telemetry on day d
    before,     \* before[d]: spend of day d outside any reservation
    charged,    \* charged[d]: what the provider charged operations of day d
    op          \* op[o]: where operation o is

vars == <<today, ledger, telemetry, before, charged, op>>

Days == 0..LastDay
Costs == 0..MaxCost

\* lease is lease_expires_at - now; token and lease_expires_at are NULL
\* together.
NoRow == [made |-> FALSE, spent |-> 0, token |-> NoOne, lease |-> 0]
LedgerRows == [made: BOOLEAN, spent: Nat, token: Ops \cup {NoOne}, lease: 0..Lease]

\* receipt: the cost settle_* will be given, -1 for an invalid or missing one.
NewOp == [at |-> "new", day |-> 0, receipt |-> -1]
OpRecords == [at: {"new", "held", "release", "out", "settle", "adrift",
                   "report", "over"},
              day: Days, receipt: -1..MaxCost]

TypeOK ==
    /\ today \in Days
    /\ ledger \in [Days -> LedgerRows]
    /\ telemetry \in [Days -> Nat] /\ before \in [Days -> Nat]
    /\ charged \in [Days -> Nat]
    /\ op \in [Ops -> OpRecords]
    \* a token is only ever on the row of its own day
    /\ \A d \in Days : ledger[d].token # NoOne => op[ledger[d].token].day = d

\* The budget may be switched on after metered work was done without one.
Init ==
    /\ today = 0
    /\ ledger = [d \in Days |-> NoRow]
    /\ \E earlier \in Costs : telemetry = [d \in Days |-> IF d = 0 THEN earlier ELSE 0]
    /\ before = telemetry
    /\ charged = [d \in Days |-> 0]
    /\ op = [o \in Ops |-> NewOp]

-----------------------------------------------------------------------------
(* _reserve_local_budget_sync: one BEGIN IMMEDIATE transaction. *)

\* A missing row starts from the day's telemetry.
Spent(d) == IF ledger[d].made THEN ledger[d].spent ELSE telemetry[d]

AtLeastLimit(n) == IF n > Limit THEN n ELSE Limit

Move(o, s) == op' = [op EXCEPT ![o].at = s]

\* Mutant: a day at its limit still grants.
ReserveAtLimit(o) ==
    /\ op[o].at = "new" /\ ledger[today].token = NoOne
    /\ Spent(today) <= Limit
    /\ ledger' = [ledger EXCEPT ![today] =
         [made |-> TRUE, spent |-> Spent(today), token |-> o, lease |-> Lease]]
    /\ op' = [op EXCEPT ![o] = [at |-> "held", day |-> today, receipt |-> -1]]
    /\ UNCHANGED <<today, telemetry, before, charged>>

\* No lease and budget left: the reservation is granted.
Reserve(o) ==
    /\ op[o].at = "new" /\ ledger[today].token = NoOne
    /\ Spent(today) < Limit
    /\ ledger' = [ledger EXCEPT ![today] =
         [made |-> TRUE, spent |-> Spent(today), token |-> o, lease |-> Lease]]
    /\ op' = [op EXCEPT ![o] = [at |-> "held", day |-> today, receipt |-> -1]]
    /\ UNCHANGED <<today, telemetry, before, charged>>

\* Refused: a live lease, or the limit is reached.  An expired lease stands
\* for a lost receipt and exhausts the day.
Deny(o) ==
    /\ op[o].at = "new"
    /\ \/ /\ ledger[today].token # NoOne /\ ledger[today].lease > 0
          /\ UNCHANGED ledger
       \/ /\ ledger[today].token = NoOne /\ Spent(today) >= Limit
          /\ UNCHANGED ledger
       \/ /\ ledger[today].token # NoOne /\ ledger[today].lease = 0
          /\ ledger' = [ledger EXCEPT ![today] =
               [@ EXCEPT !.spent = AtLeastLimit(ledger[today].spent), !.token = NoOne]]
    /\ Move(o, "over")
    /\ UNCHANGED <<today, telemetry, before, charged>>

-----------------------------------------------------------------------------
(* The operation. *)

\* The circuit breaker rejects the call: the reservation is to be released.
BreakerRejects(o) ==
    /\ op[o].at = "held"
    /\ Move(o, "release")
    /\ UNCHANGED <<today, ledger, telemetry, before, charged>>

Call(o) ==
    /\ op[o].at = "held"
    /\ Move(o, "out")
    /\ UNCHANGED <<today, ledger, telemetry, before, charged>>

\* The provider answers, or raises with incurred_attempts: a valid receipt is
\* what was charged, an invalid one says nothing.
Answer(o) ==
    /\ op[o].at = "out"
    /\ \E cost \in Costs, exact \in BOOLEAN :
         /\ charged' = [charged EXCEPT ![op[o].day] = @ + cost]
         /\ op' = [op EXCEPT ![o].at = "settle",
                             ![o].receipt = IF exact THEN cost ELSE -1]
    /\ UNCHANGED <<today, ledger, telemetry, before>>

\* Cancellation, a crash, or an exception without incurred_attempts: nothing
\* is written; the provider may still charge for what it was asked.
Abandon(o) ==
    /\ op[o].at \in {"held", "release", "out", "settle", "report"}
    /\ Move(o, IF op[o].at = "out" THEN "adrift" ELSE "over")
    /\ UNCHANGED <<today, ledger, telemetry, before, charged>>

LateCharge(o) ==
    /\ op[o].at = "adrift"
    /\ \E cost \in Costs : charged' = [charged EXCEPT ![op[o].day] = @ + cost]
    /\ Move(o, "over")
    /\ UNCHANGED <<today, ledger, telemetry, before>>

-----------------------------------------------------------------------------
(* _update_local_budget_sync. *)

Holds(o) == ledger[op[o].day].token = o

\* A reservation of this operation is closed with n spent; anybody else's row
\* is left alone and the caller gets an error.
Close(o, n) ==
    ledger' = IF Holds(o)
              THEN [ledger EXCEPT ![op[o].day] = [@ EXCEPT !.spent = n, !.token = NoOne]]
              ELSE ledger

\* release_local_budget; its exceptions are suppressed.
Release(o) ==
    /\ op[o].at = "release"
    /\ Close(o, ledger[op[o].day].spent)
    /\ Move(o, "over")
    /\ UNCHANGED <<today, telemetry, before, charged>>

\* Mutant: a missing receipt counts as free.
SettleFree(o) ==
    /\ op[o].at = "settle"
    /\ LET cost == IF op[o].receipt >= 0 THEN op[o].receipt ELSE 0
       IN Close(o, ledger[op[o].day].spent + cost)
    /\ Move(o, "over")
    /\ UNCHANGED <<today, telemetry, before, charged>>

\* settle_local_budget and settle_local_budget_error: add the receipt, or
\* exhaust the day when there is no valid one.
Settle(o) ==
    /\ op[o].at = "settle"
    /\ LET spent == ledger[op[o].day].spent
           cost  == op[o].receipt
       IN Close(o, IF cost >= 0 THEN spent + cost ELSE AtLeastLimit(spent))
    /\ Move(o, IF op[o].receipt >= 0 THEN "report" ELSE "over")
    /\ UNCHANGED <<today, telemetry, before, charged>>

\* The cost goes into telemetry under the day it is written, which need not be
\* the day of the reservation.
Report(o) ==
    /\ op[o].at = "report"
    /\ telemetry' = [telemetry EXCEPT ![today] = @ + op[o].receipt]
    /\ Move(o, "over")
    /\ UNCHANGED <<today, ledger, before, charged>>

-----------------------------------------------------------------------------
(* Time. *)

Tick ==
    /\ \E d \in Days : ledger[d].lease > 0
    /\ ledger' = [d \in Days |->
         [ledger[d] EXCEPT !.lease = IF @ > 0 THEN @ - 1 ELSE 0]]
    /\ UNCHANGED <<today, telemetry, before, charged, op>>

Midnight ==
    /\ today < LastDay
    /\ today' = today + 1
    /\ UNCHANGED <<ledger, telemetry, before, charged, op>>

Next ==
    \/ \E o \in Ops :
         \/ Reserve(o) \/ Deny(o) \/ BreakerRejects(o) \/ Call(o) \/ Answer(o)
         \/ Abandon(o) \/ LateCharge(o) \/ Release(o) \/ Settle(o) \/ Report(o)
    \/ Tick \/ Midnight

Spec == Init /\ [][Next]_vars

-----------------------------------------------------------------------------
\* Metered work of one day is serial at the provider, whatever expires, is
\* cancelled or comes late: at most one reserved operation, adrift ones
\* included, can still cause a charge.
OneInFlight ==
    \A o, p \in Ops :
        /\ op[o].at \in {"held", "out", "adrift"}
        /\ op[p].at \in {"held", "out", "adrift"}
        /\ op[o].day = op[p].day
        => o = p

\* The ledger never undercounts: when no reservation is open, the day's row
\* covers what the provider has charged, or the day is closed.
NeverUndercounts ==
    \A d \in Days :
        ledger[d].made /\ ledger[d].token = NoOne =>
            ledger[d].spent >= Limit \/ ledger[d].spent >= before[d] + charged[d]

\* A day's charges exceed the limit by less than one operation, although
\* costs are known only afterwards.
BoundedOverspend ==
    \A d \in Days : charged[d] > 0 => before[d] + charged[d] < Limit + MaxCost
=============================================================================
