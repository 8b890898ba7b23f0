----------------------------- MODULE SpendGuard -----------------------------
(***************************************************************************)
(* The spend-guard ledger of state.py for one scope: reservations made     *)
(* before a provider call, reconciliation with the actual cost, stale and  *)
(* unknown outcomes, authoritative resolution, and retention pruning.      *)
(* Every action is one BEGIN IMMEDIATE transaction.                        *)
(*                                                                         *)
(* The callers (caller_budget.py) may retry a begin under the same attempt *)
(* id, report an outcome never, late, twice or differently, and crash in   *)
(* between: any order of actions is allowed.  Amounts are ledger ticks.    *)
(***************************************************************************)
EXTENDS Integers, FiniteSets, Functions

CONSTANTS
    Attempts,   \* reservation ids
    Limit,      \* limit_ticks of the scope
    MaxCost,    \* bound: reported costs and baselines are 0..MaxCost
    Stale,      \* stale_after_seconds, in clock ticks
    MaxRows,    \* SPEND_GUARD_MAX_ROWS_PER_SCOPE_DAY
    LastDay     \* bound: the UTC days are 0..LastDay

ASSUME GuardAssumption ==
    /\ IsFiniteSet(Attempts)
    /\ Limit \in Nat /\ MaxCost \in Nat /\ Stale \in Nat \ {0}
    /\ MaxRows \in Nat /\ LastDay \in Nat

VARIABLES
    today,
    resv,       \* resv[a]: the row of spend_guard_reservations
    base,       \* base[d]: spend_guard_telemetry_baselines, -1 before the first
    \* What happened outside the ledger:
    calls,      \* calls[a][d]: provider calls authorized (execute_provider)
    reported,   \* reported[a]: costs that ordinary handlers reported
    resolved    \* attempts settled by resolve_spend_guard_unknown

vars == <<today, resv, base, calls, reported, resolved>>
outside == <<calls, reported, resolved>>

Days == 0..LastDay
Costs == 0..MaxCost
Unknown == -1   \* actual_ticks NULL

\* left is expires_at - now; mode "fixed" or "remaining".
NoResv == [status |-> "none", day |-> 0, mode |-> "fixed", amount |-> 0,
           actual |-> Unknown, left |-> 0]
Resvs == [status: {"none", "pending", "reconciled", "unknown"}, day: Days,
          mode: {"fixed", "remaining"}, amount: 0..Limit,
          actual: Costs \cup {Unknown}, left: 0..Stale]

TypeOK ==
    /\ today \in Days
    /\ resv \in [Attempts -> Resvs]
    /\ base \in [Days -> Costs \cup {-1}]
    /\ calls \in [Attempts -> [Days -> Nat]]
    /\ reported \in [Attempts -> SUBSET Costs]
    /\ resolved \subseteq Attempts
    \* exactly the reconciled rows carry an actual amount
    /\ \A a \in Attempts : resv[a].status = "reconciled" <=> resv[a].actual # Unknown

Init ==
    /\ today = 0
    /\ resv = [a \in Attempts |-> NoResv]
    /\ base = [d \in Days |-> -1]
    /\ calls = [a \in Attempts |-> [d \in Days |-> 0]]
    /\ reported = [a \in Attempts |-> {}]
    /\ resolved = {}

-----------------------------------------------------------------------------
(* _expire_..._connection and _spend_guard_totals_connection. *)

\* Mutant: stale reservations stay pending.
ExpireNothing == resv

\* Every transaction first turns stale pending rows into unknown spend.
Expire == [a \in Attempts |->
    IF resv[a].status = "pending" /\ resv[a].left = 0
    THEN [resv[a] EXCEPT !.status = "unknown"] ELSE resv[a]]

Rows(r, d) == {a \in Attempts : r[a].status # "none" /\ r[a].day = d}
With(r, d, s) == {a \in Rows(r, d) : r[a].status = s}

Pending(r, d) ==
    SumFunctionOnSet([a \in Attempts |-> r[a].amount], With(r, d, "pending"))
Committed(r, b, d) ==
    b[d] + SumFunctionOnSet([a \in Attempts |-> r[a].actual], With(r, d, "reconciled"))

-----------------------------------------------------------------------------
(* reserve_spend_guard. *)

\* What a reservation in this mode would hold.
Amount(mode, n, r, b) ==
    IF mode = "fixed" THEN n
    ELSE LET free == Limit - Committed(r, b, today) - Pending(r, today)
         IN IF free > 0 THEN free ELSE 0

\* Mutant: pending reservations do not count against the limit.
AdmissibleCommitted(amount, mode, r, b) ==
    /\ With(r, today, "unknown") = {}
    /\ mode = "remaining" => Pending(r, today) = 0
    /\ amount > 0
    /\ Committed(r, b, today) + amount <= Limit
    /\ Cardinality(Rows(r, today)) < MaxRows

Admissible(amount, mode, r, b) ==
    /\ With(r, today, "unknown") = {}
    /\ mode = "remaining" => Pending(r, today) = 0
    /\ amount > 0
    /\ Committed(r, b, today) + Pending(r, today) + amount <= Limit
    /\ Cardinality(Rows(r, today)) < MaxRows

\* The day's baseline is taken with the first reserve, admitted or not; spend
\* is the telemetry of the day so far.
Baseline(spend) == IF base[today] = -1 THEN [base EXCEPT ![today] = spend] ELSE base

\* A known id: the existing row is returned and authorizes nothing.
Retry(a) ==
    /\ resv[a].status # "none"
    /\ resv' = Expire
    /\ UNCHANGED <<today, base, outside>>

\* A new id: admitted with a pending row and one provider call, or denied.
Reserve(a, mode, n, spend) ==
    /\ resv[a].status = "none"
    /\ base' = Baseline(spend)
    /\ LET r == Expire
           amount == Amount(mode, n, r, base')
       IN \/ /\ Admissible(amount, mode, r, base')
             /\ resv' = [r EXCEPT ![a] =
                  [status |-> "pending", day |-> today, mode |-> mode,
                   amount |-> amount, actual |-> Unknown, left |-> Stale]]
             /\ calls' = [calls EXCEPT ![a][today] = @ + 1]
          \/ /\ ~Admissible(amount, mode, r, base')
             /\ resv' = r
             /\ UNCHANGED calls
    /\ UNCHANGED <<today, reported, resolved>>

-----------------------------------------------------------------------------
(* _reconcile_spend_guard_sync. *)

MarkUnknown(r, a) == [r EXCEPT ![a].status = "unknown", ![a].actual = Unknown]
MarkKnown(r, a, cost) == [r EXCEPT ![a].status = "reconciled", ![a].actual = cost]

\* Mutant: the last reported amount wins.
ReconciledLastWins(r, a, cost, resolve) ==
    IF r[a].status = "unknown" /\ ~resolve THEN r
    ELSE IF cost = Unknown THEN MarkUnknown(r, a) ELSE MarkKnown(r, a, cost)

\* A repeated amount is idempotent, a contradictory one makes the row unknown;
\* unknown is sticky for ordinary handlers.
Reconciled(r, a, cost, resolve) ==
    CASE r[a].status = "reconciled" ->
           IF cost \in {Unknown, r[a].actual} THEN r ELSE MarkUnknown(r, a)
      [] r[a].status = "unknown" /\ ~resolve -> r
      [] OTHER -> IF cost = Unknown THEN MarkUnknown(r, a) ELSE MarkKnown(r, a, cost)

\* reconcile_spend_guard by a terminal handler; an invalid cost is unknown.
Reconcile(a, cost) ==
    /\ resv[a].status # "none"
    /\ resv' = Reconciled(Expire, a, cost, FALSE)
    /\ reported' = [reported EXCEPT ![a] = @ \cup ({cost} \ {Unknown})]
    /\ UNCHANGED <<today, base, calls, resolved>>

\* resolve_spend_guard_unknown with an authoritative cost.
Resolve(a, cost) ==
    /\ resv[a].status # "none"
    /\ resv' = Reconciled(Expire, a, cost, TRUE)
    /\ resolved' = resolved \cup {a}
    /\ UNCHANGED <<today, base, calls, reported>>

\* spend_guard_status.
Status ==
    /\ resv' = Expire
    /\ UNCHANGED <<today, base, outside>>

-----------------------------------------------------------------------------
(* Retention and time. *)

\* Mutant: retention also removes rows of the present day.
PruneToday ==
    /\ resv' = [a \in Attempts |->
         IF resv[a].status = "reconciled" THEN NoResv ELSE resv[a]]
    /\ reported' = [a \in Attempts |-> IF resv'[a] = NoResv THEN {} ELSE reported[a]]
    /\ resolved' = {a \in resolved : resv'[a] # NoResv}
    /\ UNCHANGED <<today, base, calls>>

\* _prune_retention_connection: a reconciled row of an earlier day goes once
\* the retention window is over; pending and unknown rows are kept for good.
Prune ==
    /\ resv' = [a \in Attempts |->
         IF resv[a].status = "reconciled" /\ resv[a].day < today
         THEN NoResv ELSE resv[a]]
    /\ reported' = [a \in Attempts |-> IF resv'[a] = NoResv THEN {} ELSE reported[a]]
    /\ resolved' = {a \in resolved : resv'[a] # NoResv}
    /\ UNCHANGED <<today, base, calls>>

Tick ==
    /\ \E a \in Attempts : resv[a].left > 0
    /\ resv' = [a \in Attempts |->
         [resv[a] EXCEPT !.left = IF @ > 0 THEN @ - 1 ELSE 0]]
    /\ UNCHANGED <<today, base, outside>>

Midnight ==
    /\ today < LastDay
    /\ today' = today + 1
    /\ UNCHANGED <<resv, base, outside>>

Next ==
    \/ \E a \in Attempts :
         \/ Retry(a)
         \/ \E n \in 1..Limit, spend \in Costs : Reserve(a, "fixed", n, spend)
         \/ \E spend \in Costs : Reserve(a, "remaining", 0, spend)
         \/ \E cost \in Costs \cup {Unknown} : Reconcile(a, cost)
         \/ \E cost \in Costs : Resolve(a, cost)
    \/ Status \/ Prune \/ Tick \/ Midnight

Spec == Init /\ [][Next]_vars

-----------------------------------------------------------------------------
\* A retried begin never pays twice: one attempt id authorizes at most one
\* provider call per UTC day, through expiry, reconciliation and pruning.
ExecuteOnce == \A a \in Attempts, d \in Days : calls[a][d] <= 1

\* The day's accounted spend stays within the limit, concurrent reservations
\* included, unless a call overran its own reservation or an amount was
\* corrected by authority afterwards.
NoOvercommit ==
    \A d \in Days :
        \/ Rows(resv, d) = {}
        \/ Committed(resv, base, d) + Pending(resv, d) <= Limit
        \/ \E a \in Rows(resv, d) : a \in resolved \/ resv[a].actual > resv[a].amount

\* Contradictory receipts are never settled silently: once ordinary handlers
\* have reported two different amounts the row is unknown until resolved.
ConflictFlagged ==
    \A a \in Attempts \ resolved :
        Cardinality(reported[a]) > 1 => resv[a].status = "unknown"

\* Fail closed: whenever a provider call is authorized, no other reservation of
\* that day has an unknown or an overdue outcome.
FailClosed ==
    [][\A a \in Attempts : calls'[a][today] > calls[a][today] =>
          \A b \in Rows(resv, today) \ {a} :
              /\ resv[b].status # "unknown"
              /\ resv[b].status = "pending" => resv[b].left > 0]_vars
=============================================================================
