----------------------------- MODULE SpendProofs -----------------------------
(***************************************************************************)
(* Proofs about money kept in two ledgers: the daily spend guard           *)
(* (SpendGuard) for any finite set of attempt ids, limit, retention,       *)
(* staleness and costs, and the bill of a mission (MissionBilling) for any *)
(* finite set of quanta, costs, receipt window and cost limit.             *)
(*                                                                         *)
(* NoOvercommit is not inductive: its excuses (an overrun, an authoritative*)
(* correction) vanish when a conflict makes the row unknown or retention   *)
(* prunes it.  What is kept by every step is stronger: counting a pending  *)
(* row with its reservation, a settled one with the smaller of reservation *)
(* and actual, and an unknown or corrected one with nothing, the day stays *)
(* within the limit (Covered).  Only an admitted reservation adds to that  *)
(* sum, and admission compares the limit with a larger one.                *)
(*                                                                         *)
(* A mission's bill is the bill of its payments (BillOf): its cost is      *)
(* their capped total, its counters and its window of receipts fit the     *)
(* generations that paid.  A writer works from a bill it read earlier;     *)
(* what makes that safe is that an equal row version means an equal bill,  *)
(* and that every bill ever read was the bill of earlier, smaller payments *)
(* (Snapshot).                                                             *)
(***************************************************************************)
EXTENDS SpendGuard, MissionBilling, SumTheorems, SequenceTheorems

\* What row a of day d is sure to have been admitted for.
Sure(r, res, d) == [a \in Attempts |->
    IF r[a].status \in {"none", "unknown"} \/ r[a].day # d \/ a \in res THEN 0
    ELSE IF r[a].status = "pending" \/ r[a].amount < r[a].actual THEN r[a].amount
    ELSE r[a].actual]

Covered ==
    \A d \in Days : Rows(resv, d) # {} =>
        /\ base[d] \in Costs
        /\ base[d] + SumFunctionOnSet(Sure(resv, resolved, d), Attempts) <= Limit

\* The row of today's authorized call is still there.
OncePerDay ==
    \A a \in Attempts, d \in Days :
        /\ calls[a][d] <= 1
        /\ d > today => calls[a][d] = 0
        /\ d = today /\ calls[a][d] = 1 => resv[a].status # "none" /\ resv[a].day = today

\* What an unresolved row was told by ordinary handlers.
ToldOnce ==
    \A a \in Attempts :
        /\ resv[a].status \in {"none", "pending"} => reported[a] = {}
        /\ resv[a].status = "reconciled" /\ a \notin resolved
             => reported[a] \subseteq {resv[a].actual}

\* Rows that are not there carry nothing, and only settled ones are resolved.
Blank == \A a \in resolved : resv[a].status \in {"reconciled", "unknown"}

GuardInv == TypeOK /\ Covered /\ OncePerDay /\ ToldOnce /\ Blank

-----------------------------------------------------------------------------
(* What one transaction does to one row. *)

\* The constants' ranges.
LEMMA GuardConstants ==
    /\ Unknown \notin Costs /\ 0 \in Days /\ 0 \in 0..Limit /\ 0 \in 0..Stale
    /\ Stale \in 0..Stale /\ Limit \in Nat /\ Costs \subseteq Nat /\ Days \subseteq Nat
    /\ IsFiniteSet(Attempts)
BY GuardAssumption DEF Unknown, Costs, Days

\* The fields of a row.
LEMMA ResvTypes ==
    ASSUME NEW x \in Resvs
    PROVE  /\ x.status \in {"none", "pending", "reconciled", "unknown"}
           /\ x.amount \in Nat /\ x.actual \in Int
           /\ x.actual # Unknown => x.actual \in Costs /\ x.actual \in Nat
           /\ x.day \in Days /\ x.left \in 0..Stale
<1>1. /\ x.status \in {"none", "pending", "reconciled", "unknown"}
      /\ x.amount \in 0..Limit /\ x.actual \in Costs \cup {Unknown}
      /\ x.day \in Days /\ x.left \in 0..Stale
  BY DEF Resvs
<1>2. QED
  BY <1>1, GuardAssumption DEF Costs, Unknown

\* Every transaction first turns overdue rows into unknown ones.
LEMMA ExpireFacts ==
    ASSUME TypeOK
    PROVE  /\ Expire \in [Attempts -> Resvs]
           /\ \A a \in Attempts :
                /\ Expire[a].day = resv[a].day /\ Expire[a].amount = resv[a].amount
                /\ Expire[a].actual = resv[a].actual /\ Expire[a].left = resv[a].left
                /\ Expire[a].status = IF resv[a].status = "pending" /\ resv[a].left = 0
                                      THEN "unknown" ELSE resv[a].status
BY DEF TypeOK, Expire, Resvs

\* What an outcome reported by an ordinary handler or by authority makes of the
\* rows r: q.
Outcome(r, a, cost, who, q) ==
    /\ q \in [Attempts -> Resvs]
    /\ \A b \in Attempts \ {a} : q[b] = r[b]
    /\ q[a].day = r[a].day /\ q[a].amount = r[a].amount
    /\ \/ q[a].status = "unknown" /\ q[a].actual = Unknown
       \/ /\ q[a] = r[a]
          /\ \/ r[a].status = "reconciled" /\ cost \in {Unknown, r[a].actual}
             \/ r[a].status = "unknown"
       \/ /\ r[a].status # "reconciled" /\ cost \in Costs
          /\ r[a].status = "unknown" => who = "authority"
          /\ q[a].status = "reconciled" /\ q[a].actual = cost

\* A late, repeated, contradictory or authoritative outcome of attempt a.
LEMMA ReconciledFacts ==
    ASSUME NEW r \in [Attempts -> Resvs], NEW a \in Attempts,
           NEW cost \in Costs \cup {Unknown}, NEW who \in {"handler", "authority"},
           NEW q, \/ who = "handler" /\ q = Reconciled(r, a, cost, FALSE)
                  \/ who = "authority" /\ q = Reconciled(r, a, cost, TRUE)
    PROVE  Outcome(r, a, cost, who, q)
<1> USE DEF Outcome
<1>1. /\ MarkUnknown(r, a) \in [Attempts -> Resvs]
      /\ \A b \in Attempts \ {a} : MarkUnknown(r, a)[b] = r[b]
      /\ MarkUnknown(r, a)[a].day = r[a].day
      /\ MarkUnknown(r, a)[a].amount = r[a].amount
      /\ MarkUnknown(r, a)[a].left = r[a].left
      /\ MarkUnknown(r, a)[a].status = "unknown" /\ MarkUnknown(r, a)[a].actual = Unknown
  BY DEF MarkUnknown, Resvs
<1>2. ASSUME cost \in Costs
      PROVE  /\ MarkKnown(r, a, cost) \in [Attempts -> Resvs]
             /\ \A b \in Attempts \ {a} : MarkKnown(r, a, cost)[b] = r[b]
             /\ MarkKnown(r, a, cost)[a].day = r[a].day
             /\ MarkKnown(r, a, cost)[a].amount = r[a].amount
             /\ MarkKnown(r, a, cost)[a].left = r[a].left
             /\ MarkKnown(r, a, cost)[a].status = "reconciled"
             /\ MarkKnown(r, a, cost)[a].actual = cost
  BY <1>2 DEF MarkKnown, Resvs
<1>3. CASE r[a].status = "reconciled"
  BY <1>1, <1>3 DEF Reconciled
<1>4. CASE r[a].status = "unknown" /\ who = "handler"
  BY <1>4 DEF Reconciled
<1>5. CASE r[a].status # "reconciled" /\ ~(r[a].status = "unknown" /\ who = "handler")
  <2>1. q = IF cost = Unknown THEN MarkUnknown(r, a) ELSE MarkKnown(r, a, cost)
    BY <1>5 DEF Reconciled
  <2>2. CASE cost = Unknown
    BY <1>1, <2>1, <2>2
  <2>3. CASE cost # Unknown
    BY <1>2, <1>5, <2>1, <2>3
  <2>4. QED
    BY <2>2, <2>3
<1>6. QED
  BY <1>3, <1>4, <1>5

-----------------------------------------------------------------------------
(* The covered sum never grows but by an admission. *)

\* A sure amount is a natural number.
LEMMA SureType ==
    ASSUME NEW r \in [Attempts -> Resvs], NEW res, NEW d,
           \A a \in Attempts : r[a].status = "reconciled" <=> r[a].actual # Unknown
    PROVE  \A a \in Attempts : Sure(r, res, d)[a] \in Nat
<1> SUFFICES ASSUME NEW a \in Attempts PROVE Sure(r, res, d)[a] \in Nat
  OBVIOUS
<1>0. r[a] \in Resvs
  OBVIOUS
<1>1. r[a].amount \in Nat /\ (r[a].status = "reconciled" => r[a].actual \in Nat)
  BY <1>0, ResvTypes
<1>2. r[a].status \in {"none", "pending", "reconciled", "unknown"}
  BY <1>0, ResvTypes
<1>3. QED
  BY <1>1, <1>2 DEF Sure

\* Row a of a step keeps its claim or loses some of it.
Calms(a) ==
    /\ resv'[a].status # "none" => resv[a].status # "none" /\ resv'[a].day = resv[a].day
    /\ \/ resv'[a].status \in {"none", "unknown"}
       \/ a \in resolved'
       \/ /\ resv'[a].status = resv[a].status /\ resv'[a].amount = resv[a].amount
          /\ resv'[a].actual = resv[a].actual /\ a \notin resolved
       \/ /\ resv[a].status = "pending" /\ resv'[a].status = "reconciled"
          /\ resv'[a].amount = resv[a].amount /\ a \notin resolved

\* A calm row's sure amount does not grow.
LEMMA CalmsSure ==
    ASSUME TypeOK, TypeOK', NEW a \in Attempts, Calms(a), NEW d \in Days
    PROVE  Sure(resv', resolved', d)[a] <= Sure(resv, resolved, d)[a]
<1>1. Sure(resv, resolved, d)[a] \in Nat
  BY SureType DEF TypeOK
<1>2. CASE \/ resv'[a].status \in {"none", "unknown"} \/ a \in resolved'
           \/ resv'[a].day # d
  <2>1. Sure(resv', resolved', d)[a] = 0
    BY <1>2 DEF Sure
  <2>2. QED
    BY <1>1, <2>1
<1>3. CASE /\ resv'[a].status \notin {"none", "unknown"} /\ a \notin resolved'
           /\ resv'[a].day = d
  <2>1. resv[a].day = d /\ resv[a].status # "none" /\ a \notin resolved
    BY <1>3 DEF Calms
  <2>2. /\ resv[a].status \in {"none", "pending", "reconciled", "unknown"}
        /\ resv'[a].status \in {"none", "pending", "reconciled", "unknown"}
        /\ resv[a].amount \in Nat /\ resv'[a].amount \in Nat
        /\ resv[a].actual \in Int /\ resv'[a].actual \in Int
    <3>1. resv[a] \in Resvs /\ resv'[a] \in Resvs
      BY DEF TypeOK
    <3>2. QED
      BY <3>1, ResvTypes
  <2>3. CASE resv[a].status = "pending" /\ resv'[a].status = "reconciled"
    <3>1. Sure(resv, resolved, d)[a] = resv[a].amount
      BY <2>1, <2>3 DEF Sure
    <3>2. Sure(resv', resolved', d)[a] =
            IF resv'[a].amount < resv'[a].actual THEN resv'[a].amount ELSE resv'[a].actual
      BY <1>3, <2>3 DEF Sure
    <3>3. resv'[a].amount = resv[a].amount
      BY <1>3, <2>3 DEF Calms
    <3>4. QED
      BY <2>2, <3>1, <3>2, <3>3
  <2>4. CASE resv'[a].status = resv[a].status
    <3>1. resv'[a].amount = resv[a].amount /\ resv'[a].actual = resv[a].actual
      BY <1>3, <2>4 DEF Calms
    <3>2. Sure(resv', resolved', d)[a] = Sure(resv, resolved, d)[a]
      BY <1>3, <2>1, <2>4, <3>1 DEF Sure
    <3>3. QED
      BY <1>1, <3>2
  <2>5. QED
    BY <1>3, <2>3, <2>4 DEF Calms
<1>4. QED
  BY <1>2, <1>3

\* So a day of calm rows stays covered.
LEMMA CoveredDay ==
    ASSUME TypeOK, TypeOK', Covered, \A a \in Attempts : Calms(a),
           NEW d \in Days, base[d] \in Costs => base'[d] = base[d], Rows(resv', d) # {}
    PROVE  /\ base'[d] \in Costs
           /\ base'[d] + SumFunctionOnSet(Sure(resv', resolved', d), Attempts) <= Limit
<1>1. Rows(resv, d) # {}
  BY DEF Rows, Calms
<1>2. /\ base[d] \in Costs /\ base'[d] = base[d]
      /\ base[d] + SumFunctionOnSet(Sure(resv, resolved, d), Attempts) <= Limit
  BY <1>1 DEF Covered
<1> DEFINE f == Sure(resv, resolved, d)
           g == Sure(resv', resolved', d)
<1>3. \A a \in Attempts : f[a] \in Int /\ g[a] \in Int /\ g[a] <= f[a]
  <2>1. \A a \in Attempts : f[a] \in Nat
    BY SureType DEF TypeOK
  <2>2. \A a \in Attempts : g[a] \in Nat
    BY SureType DEF TypeOK
  <2>3. QED
    BY <2>1, <2>2, CalmsSure
<1> HIDE DEF f, g
<1>4. SumFunctionOnSet(g, Attempts) <= SumFunctionOnSet(f, Attempts)
  BY <1>3, GuardConstants, SumLe
<1>5. SumFunctionOnSet(g, Attempts) \in Int /\ SumFunctionOnSet(f, Attempts) \in Int
  BY <1>3, GuardConstants, SumInt
<1>6. base[d] \in Nat /\ Limit \in Nat
  BY <1>2, GuardConstants
<1>7. base[d] + SumFunctionOnSet(f, Attempts) <= Limit
  BY <1>2 DEF f
<1>8. base[d] + SumFunctionOnSet(g, Attempts) <= Limit
  BY <1>4, <1>5, <1>6, <1>7
<1>9. QED
  BY <1>2, <1>8 DEF g

\* And so does every day.
LEMMA CoveredKept ==
    ASSUME TypeOK, TypeOK', Covered, \A a \in Attempts : Calms(a),
           \A d \in Days : base[d] \in Costs => base'[d] = base[d]
    PROVE  Covered'
BY CoveredDay DEF Covered
-----------------------------------------------------------------------------
(* Transactions without a provider call. *)

\* Retries, status reads, ticks and denied reservations: a row stays as it is,
\* ages, or becomes unknown.
Ages(a) ==
    /\ resv'[a].day = resv[a].day /\ resv'[a].amount = resv[a].amount
    /\ resv'[a].actual = resv[a].actual
    /\ \/ resv'[a].status = resv[a].status
       \/ resv[a].status = "pending" /\ resv'[a].status = "unknown"

\* Such a step keeps the invariant.
LEMMA AgesInv ==
    ASSUME GuardInv, resv' \in [Attempts -> Resvs], \A a \in Attempts : Ages(a),
           base' \in [Days -> Costs \cup {-1}],
           \A d \in Days : base[d] \in Costs => base'[d] = base[d],
           UNCHANGED <<today, outside>>
    PROVE  GuardInv'
<1> USE DEF GuardInv, outside
<1>1. TypeOK'
  BY DEF TypeOK, Ages
<1>2. \A a \in Attempts : Calms(a)
  BY DEF Ages, Calms, Blank
<1>3. Covered'
  BY <1>1, <1>2, CoveredKept
<1>4. OncePerDay'
  BY DEF OncePerDay, Ages
<1>5. ToldOnce'
  BY DEF ToldOnce, Ages
<1>6. Blank'
  BY DEF Blank, Ages, TypeOK
<1>7. QED
  BY <1>1, <1>3, <1>4, <1>5, <1>6

\* The baseline of the day is written once.
LEMMA BaselineFacts ==
    ASSUME TypeOK, NEW spend \in Costs
    PROVE  /\ Baseline(spend) \in [Days -> Costs \cup {-1}]
           /\ Baseline(spend)[today] \in Costs
           /\ \A d \in Days : base[d] \in Costs => Baseline(spend)[d] = base[d]
           /\ \A d \in Days : d # today => Baseline(spend)[d] = base[d]
<1>1. base \in [Days -> Costs \cup {-1}] /\ today \in Days /\ -1 \notin Costs
  BY GuardConstants DEF TypeOK, Unknown
<1>2. QED
  BY <1>1 DEF Baseline

\* Expiring is such a step,
LEMMA ExpireAges ==
    ASSUME TypeOK, resv' = Expire
    PROVE  resv' \in [Attempts -> Resvs] /\ \A a \in Attempts : Ages(a)
BY ExpireFacts DEF Ages

\* so are retries and status reads,
LEMMA QuietInv ==
    ASSUME GuardInv, Status \/ \E a \in Attempts : Retry(a)
    PROVE  GuardInv'
<1>1. resv' = Expire /\ base' = base /\ UNCHANGED <<today, outside>>
  BY DEF Status, Retry
<1>2. TypeOK
  BY DEF GuardInv
<1>3. QED
  BY <1>1, <1>2, ExpireAges, AgesInv DEF TypeOK

\* and time passing.
LEMMA TickInv == ASSUME GuardInv, Tick PROVE GuardInv'
<1>1. TypeOK /\ base' = base /\ UNCHANGED <<today, outside>>
  BY DEF Tick, GuardInv
<1>2. ASSUME NEW x \in Resvs, NEW n \in 0..Stale
      PROVE  /\ [x EXCEPT !.left = n] \in Resvs
             /\ [x EXCEPT !.left = n].day = x.day
             /\ [x EXCEPT !.left = n].amount = x.amount
             /\ [x EXCEPT !.left = n].actual = x.actual
             /\ [x EXCEPT !.left = n].status = x.status
  BY DEF Resvs
<1>3. \A a \in Attempts : resv'[a] =
        [resv[a] EXCEPT !.left = IF resv[a].left > 0 THEN resv[a].left - 1 ELSE 0]
  BY DEF Tick
<1>4. ASSUME NEW a \in Attempts PROVE resv'[a] \in Resvs /\ Ages(a)
  <2> DEFINE n == IF resv[a].left > 0 THEN resv[a].left - 1 ELSE 0
  <2>1. resv[a] \in Resvs /\ resv[a].left \in 0..Stale
    BY <1>1, ResvTypes DEF TypeOK
  <2>2. n \in 0..Stale
    BY <2>1, GuardAssumption
  <2>3. resv'[a] = [resv[a] EXCEPT !.left = n]
    BY <1>3
  <2> HIDE DEF n
  <2>4. QED
    BY <1>2, <2>1, <2>2, <2>3 DEF Ages
<1>5. resv' \in [Attempts -> Resvs]
  <2>1. resv' = [a \in Attempts |-> resv'[a]]
    BY DEF Tick
  <2>2. QED
    BY <1>4, <2>1
<1>6. QED
  BY <1>1, <1>4, <1>5, AgesInv DEF TypeOK

\* A new UTC day has no calls yet.
LEMMA MidnightInv == ASSUME GuardInv, Midnight PROVE GuardInv'
<1> USE DEF GuardInv, Midnight, outside
<1>1. today' = today + 1 /\ today \in Nat /\ today' \in Days /\ Days \subseteq Nat
  BY GuardAssumption DEF TypeOK, Days
<1>2. TypeOK'
  BY <1>1 DEF TypeOK
<1>3. Covered' /\ ToldOnce' /\ Blank'
  BY DEF Covered, ToldOnce, Blank, Rows, Sure
<1>4. OncePerDay'
  <2> SUFFICES ASSUME NEW a \in Attempts, NEW d \in Days
               PROVE  /\ calls[a][d] <= 1
                      /\ d > today' => calls[a][d] = 0
                      /\ d = today' /\ calls[a][d] = 1 =>
                           resv[a].status # "none" /\ resv[a].day = today'
    BY DEF OncePerDay
  <2>1. /\ calls[a][d] <= 1 /\ (d > today => calls[a][d] = 0) /\ d \in Nat
    BY <1>1 DEF OncePerDay
  <2>2. QED
    BY <1>1, <2>1
<1>5. QED
  BY <1>2, <1>3, <1>4

\* Retention leaves the rows of today.
LEMMA PruneInv == ASSUME GuardInv, Prune PROVE GuardInv'
<1> USE DEF GuardInv
<1>0. TypeOK /\ NoResv \in Resvs /\ NoResv.status = "none" /\ NoResv.actual = Unknown
  BY GuardConstants DEF NoResv, Resvs
<1>1. \A a \in Attempts : resv'[a] =
        IF resv[a].status = "reconciled" /\ resv[a].day < today THEN NoResv ELSE resv[a]
  BY DEF Prune
<1>2. resv' \in [Attempts -> Resvs]
  BY <1>0 DEF Prune, TypeOK
<1>3. /\ \A a \in Attempts : reported'[a] = IF resv'[a] = NoResv THEN {} ELSE reported[a]
      /\ reported' \in [Attempts -> SUBSET Costs]
  BY <1>0 DEF Prune, TypeOK
<1>4. resolved' = {a \in resolved : resv'[a] # NoResv} /\ resolved' \subseteq Attempts
  BY <1>0 DEF Prune, TypeOK
<1>5. TypeOK'
  <2>1. \A a \in Attempts : resv'[a].status = "reconciled" <=> resv'[a].actual # Unknown
    BY <1>0, <1>1 DEF TypeOK
  <2>2. QED
    BY <1>2, <1>3, <1>4, <2>1 DEF Prune, TypeOK
<1>6. \A a \in Attempts : Calms(a)
  BY <1>0, <1>1, <1>4 DEF Calms
<1>7. Covered'
  BY <1>0, <1>5, <1>6, CoveredKept DEF Prune
<1>8. OncePerDay'
  <2>1. today \in Nat
    BY <1>0, GuardConstants DEF TypeOK
  <2>2. QED
    BY <1>1, <2>1 DEF OncePerDay, Prune
<1>9. ToldOnce'
  BY <1>0, <1>1, <1>3, <1>4 DEF ToldOnce
<1>10. Blank'
  BY <1>0, <1>1, <1>4 DEF Blank, TypeOK
<1>11. QED
  BY <1>5, <1>7, <1>8, <1>9, <1>10

\* An outcome is reported, by a handler or by authority.
LEMMA OutcomeInv ==
    ASSUME GuardInv, NEW a \in Attempts, NEW cost \in Costs \cup {Unknown},
           Reconcile(a, cost) \/ (cost \in Costs /\ Resolve(a, cost))
    PROVE  GuardInv'
<1> USE DEF GuardInv
<1> DEFINE e == Expire
<1>1. PICK who \in {"handler", "authority"} :
        /\ \/ who = "handler" /\ resv' = Reconciled(e, a, cost, FALSE)
           \/ who = "authority" /\ resv' = Reconciled(e, a, cost, TRUE)
        /\ resolved' = IF who = "authority" THEN resolved \cup {a} ELSE resolved
        /\ reported' = IF who = "authority" THEN reported
                       ELSE [reported EXCEPT ![a] = @ \cup ({cost} \ {Unknown})]
        /\ resv[a].status # "none"
        /\ today' = today /\ base' = base /\ calls' = calls
  BY DEF Reconcile, Resolve
<1>2. /\ e \in [Attempts -> Resvs]
      /\ \A b \in Attempts :
           /\ e[b].day = resv[b].day /\ e[b].amount = resv[b].amount
           /\ e[b].actual = resv[b].actual
           /\ e[b].status = IF resv[b].status = "pending" /\ resv[b].left = 0
                            THEN "unknown" ELSE resv[b].status
  BY ExpireFacts
<1> HIDE DEF e
<1>3. /\ resv' \in [Attempts -> Resvs]
      /\ \A b \in Attempts \ {a} : resv'[b] = e[b]
      /\ resv'[a].day = e[a].day /\ resv'[a].amount = e[a].amount
      /\ \/ resv'[a].status = "unknown" /\ resv'[a].actual = Unknown
         \/ /\ resv'[a] = e[a]
            /\ \/ e[a].status = "reconciled" /\ cost \in {Unknown, e[a].actual}
               \/ e[a].status = "unknown"
         \/ /\ e[a].status # "reconciled" /\ cost \in Costs
            /\ e[a].status = "unknown" => who = "authority"
            /\ resv'[a].status = "reconciled" /\ resv'[a].actual = cost
  <2> DEFINE q == resv'
  <2>1. /\ e \in [Attempts -> Resvs]
        /\ \/ who = "handler" /\ q = Reconciled(e, a, cost, FALSE)
           \/ who = "authority" /\ q = Reconciled(e, a, cost, TRUE)
    BY <1>1, <1>2
  <2> HIDE DEF q
  <2>2. Outcome(e, a, cost, who, q)
    BY <2>1, ReconciledFacts
  <2>3. QED
    BY <2>2 DEF q, Outcome
<1>4. e[a].status # "none" /\ Unknown \notin Costs
  BY <1>1, <1>2, GuardConstants
<1>5. /\ reported' \in [Attempts -> SUBSET Costs] /\ resolved' \subseteq Attempts
      /\ \A b \in Attempts \ {a} : reported'[b] = reported[b]
      /\ reported'[a] = IF who = "authority" THEN reported[a] ELSE reported[a] \cup ({cost} \ {Unknown})
  BY <1>1 DEF TypeOK
<1>6. TypeOK'
  <2>1. \A b \in Attempts : resv'[b].status = "reconciled" <=> resv'[b].actual # Unknown
    BY <1>2, <1>3, <1>4 DEF TypeOK
  <2>2. QED
    BY <1>1, <1>3, <1>5, <2>1 DEF TypeOK
<1>7. \A b \in Attempts : Calms(b)
  <2>1. ASSUME NEW b \in Attempts, b # a PROVE Calms(b)
    BY <1>1, <1>2, <1>3, <2>1 DEF Calms, Blank
  <2>2. Calms(a)
    <3>1. /\ resv[a].status # "none" /\ resv'[a].day = resv[a].day
          /\ resv'[a].amount = resv[a].amount
      BY <1>1, <1>2, <1>3
    <3>2. CASE a \in resolved \/ who = "authority"
      BY <1>1, <3>1, <3>2 DEF Calms
    <3>3. CASE a \notin resolved /\ who = "handler"
      <4>1. e[a].status \in {"pending", "reconciled", "unknown"}
        BY <1>2, <1>4, ResvTypes
      <4>2. CASE e[a].status = "pending"
        BY <1>2, <1>3, <3>1, <3>3, <4>2 DEF Calms
      <4>3. CASE e[a].status # "pending"
        BY <1>2, <1>3, <3>1, <3>3, <4>1, <4>3 DEF Calms
      <4>4. QED
        BY <4>2, <4>3
    <3>4. QED
      BY <3>2, <3>3
  <2>3. QED
    BY <2>1, <2>2
<1>8. Covered'
  BY <1>1, <1>6, <1>7, CoveredKept
<1>9. OncePerDay'
  BY <1>1, <1>2, <1>3, <1>4 DEF OncePerDay
<1>10. ToldOnce'
  <2>1. ASSUME NEW b \in Attempts, b # a
        PROVE  /\ resv'[b].status \in {"none", "pending"} => reported'[b] = {}
               /\ resv'[b].status = "reconciled" /\ b \notin resolved'
                    => reported'[b] \subseteq {resv'[b].actual}
    BY <1>1, <1>2, <1>3, <1>5, <2>1 DEF ToldOnce
  <2>2. /\ resv'[a].status \in {"none", "pending"} => reported'[a] = {}
        /\ resv'[a].status = "reconciled" /\ a \notin resolved'
             => reported'[a] \subseteq {resv'[a].actual}
    <3>1. resv'[a].status \notin {"none", "pending"}
      BY <1>3
    <3>2. ASSUME resv'[a].status = "reconciled", a \notin resolved'
          PROVE  reported'[a] \subseteq {resv'[a].actual}
      <4>1. who = "handler" /\ a \notin resolved
        BY <1>1, <3>2
      <4>2. CASE e[a].status = "reconciled"
        <5>1. /\ resv'[a].actual = resv[a].actual /\ resv[a].status = "reconciled"
              /\ cost \in {Unknown, resv[a].actual}
          BY <1>2, <1>3, <3>2, <4>2
        <5>2. QED
          BY <1>5, <4>1, <5>1 DEF ToldOnce
      <4>3. CASE e[a].status # "reconciled"
        <5>1. e[a].status = "pending" /\ resv'[a].actual = cost
          <6>1. e[a].status \in {"none", "pending", "reconciled", "unknown"}
            BY <1>2, ResvTypes
          <6>2. QED
            BY <1>3, <1>4, <3>2, <4>1, <4>3, <6>1
        <5>2. resv[a].status = "pending"
          BY <1>2, <5>1
        <5>3. QED
          BY <1>5, <4>1, <5>1, <5>2 DEF ToldOnce
      <4>4. QED
        BY <4>2, <4>3
    <3>3. QED
      BY <3>1, <3>2
  <2>3. QED
    BY <2>1, <2>2 DEF ToldOnce
<1>11. Blank'
  <2>1. resv'[a].status \in {"reconciled", "unknown"}
    BY <1>3
  <2>2. \A b \in resolved \ {a} : resv'[b].status \in {"reconciled", "unknown"}
    BY <1>2, <1>3 DEF Blank, TypeOK
  <2>3. QED
    BY <1>1, <2>1, <2>2 DEF Blank
<1>12. QED
  BY <1>6, <1>8, <1>9, <1>10, <1>11
-----------------------------------------------------------------------------
(* reserve_spend_guard *)

\* What the admission adds up, as sums over all rows.
Held(r) == [a \in Attempts |->
    IF r[a].status = "pending" /\ r[a].day = today THEN r[a].amount ELSE 0]
Settled(r) == [a \in Attempts |->
    IF r[a].status = "reconciled" /\ r[a].day = today THEN r[a].actual ELSE 0]

\* What the admission test compares, as sums over the attempts.
LEMMA AdmissionSums ==
    ASSUME NEW r \in [Attempts -> Resvs], NEW b, b[today] \in Costs,
           \A a \in Attempts : r[a].status = "reconciled" <=> r[a].actual # Unknown
    PROVE  /\ \A a \in Attempts : Held(r)[a] \in Nat /\ Settled(r)[a] \in Nat
           /\ Pending(r, today) = SumFunctionOnSet(Held(r), Attempts)
           /\ Committed(r, b, today) = b[today] + SumFunctionOnSet(Settled(r), Attempts)
           /\ Pending(r, today) \in Nat /\ Committed(r, b, today) \in Nat
<1>1. ASSUME NEW a \in Attempts
      PROVE  /\ r[a].amount \in Nat
             /\ r[a].status = "reconciled" => r[a].actual \in Nat
  BY <1>1, ResvTypes
<1>2. \A a \in Attempts : Held(r)[a] \in Nat /\ Settled(r)[a] \in Nat
  BY <1>1 DEF Held, Settled
<1> DEFINE P == With(r, today, "pending")
           C == With(r, today, "reconciled")
           am == [a \in Attempts |-> r[a].amount]
           ac == [a \in Attempts |-> r[a].actual]
<1>3. P \in SUBSET Attempts /\ C \in SUBSET Attempts /\ IsFiniteSet(Attempts)
  BY GuardConstants DEF With, Rows
<1>4. SumFunctionOnSet(am, P) = SumFunctionOnSet(Held(r), Attempts)
  <2>1. \A a \in P : am[a] \in Int
    BY <1>1 DEF With, Rows
  <2>2. \A a \in Attempts : Held(r)[a] = IF a \in P THEN am[a] ELSE 0
    BY DEF Held, With, Rows
  <2> HIDE DEF P, am
  <2>3. QED
    BY <1>3, <2>1, <2>2, SumPart
<1>5. SumFunctionOnSet(ac, C) = SumFunctionOnSet(Settled(r), Attempts)
  <2>1. \A a \in C : ac[a] \in Int
    BY <1>1 DEF With, Rows
  <2>2. \A a \in Attempts : Settled(r)[a] = IF a \in C THEN ac[a] ELSE 0
    BY DEF Settled, With, Rows
  <2> HIDE DEF C, ac
  <2>3. QED
    BY <1>3, <2>1, <2>2, SumPart
<1>6. /\ SumFunctionOnSet(Held(r), Attempts) \in Nat
      /\ SumFunctionOnSet(Settled(r), Attempts) \in Nat
  BY <1>2, <1>3, SumNat
<1>7. b[today] \in Nat
  BY GuardConstants
<1>8. /\ Pending(r, today) = SumFunctionOnSet(Held(r), Attempts)
      /\ Committed(r, b, today) = b[today] + SumFunctionOnSet(Settled(r), Attempts)
  BY <1>4, <1>5 DEF Pending, Committed
<1>9. QED
  BY <1>2, <1>6, <1>7, <1>8

\* An admitted amount is within the limit, whichever way it was chosen.
LEMMA AdmittedAmount ==
    ASSUME NEW r \in [Attempts -> Resvs], NEW b, b[today] \in Costs,
           \A a \in Attempts : r[a].status = "reconciled" <=> r[a].actual # Unknown,
           NEW mode \in {"fixed", "remaining"}, NEW n \in 0..Limit,
           NEW amount, amount = Amount(mode, n, r, b), Admissible(amount, mode, r, b)
    PROVE  /\ amount \in 0..Limit /\ amount \in Nat
           /\ Committed(r, b, today) + Pending(r, today) + amount <= Limit
<1>1. Pending(r, today) \in Nat /\ Committed(r, b, today) \in Nat /\ Limit \in Nat
  BY AdmissionSums, GuardConstants
<1>2. amount \in Nat
  <2>1. CASE mode = "fixed"
    BY <2>1, GuardAssumption DEF Amount
  <2>2. CASE mode = "remaining"
    BY <1>1, <2>2 DEF Amount
  <2>3. QED
    BY <2>1, <2>2
<1>3. Committed(r, b, today) + Pending(r, today) + amount <= Limit
  BY DEF Admissible
<1>4. QED
  BY <1>1, <1>2, <1>3

\* The covered sum of today after the admission.
LEMMA CoveredToday ==
    ASSUME NEW r \in [Attempts -> Resvs], NEW b, b[today] \in Costs,
           \A x \in Attempts : r[x].status = "reconciled" <=> r[x].actual # Unknown,
           NEW a \in Attempts, r[a].status = "none", NEW amount \in Nat,
           Committed(r, b, today) + Pending(r, today) + amount <= Limit,
           NEW q \in [Attempts -> Resvs], q[a].amount = amount, q[a].status = "pending",
           \A x \in Attempts : q[x].status = "reconciled" <=> q[x].actual # Unknown,
           \A x \in Attempts \ {a} : q[x] = r[x], NEW res
    PROVE  b[today] + SumFunctionOnSet(Sure(q, res, today), Attempts) <= Limit
<1> DEFINE h == Held(r)
           s == Settled(r)
           t == [x \in Attempts |-> h[x] + s[x]]
           u == [x \in Attempts |-> IF x = a THEN amount ELSE t[x]]
           v == Sure(q, res, today)
           Sum(f) == SumFunctionOnSet(f, Attempts)
<1>1. /\ \A x \in Attempts : h[x] \in Nat /\ s[x] \in Nat
      /\ Pending(r, today) = Sum(h) /\ Committed(r, b, today) = b[today] + Sum(s)
  BY AdmissionSums
<1>2. h[a] = 0 /\ s[a] = 0
  BY DEF Held, Settled
<1>3. \A x \in Attempts : v[x] \in Nat
  BY SureType
<1>4. \A x \in Attempts : v[x] <= u[x]
  <2>1. v[a] <= amount
    BY DEF Sure
  <2>2. ASSUME NEW x \in Attempts, x # a PROVE v[x] <= h[x] + s[x]
    <3>1. q[x] = r[x] /\ r[x] \in Resvs
      BY <2>2
    <3>2. /\ r[x].status \in {"none", "pending", "reconciled", "unknown"}
          /\ r[x].amount \in Nat /\ r[x].actual \in Int
      BY <3>1, ResvTypes
    <3>3. CASE r[x].day = today /\ r[x].status = "pending"
      <4>1. h[x] = r[x].amount /\ s[x] = 0
        BY <3>3 DEF Held, Settled
      <4>2. v[x] \in {0, r[x].amount}
        BY <3>1, <3>3 DEF Sure
      <4>3. QED
        BY <3>2, <4>1, <4>2
    <3>4. CASE r[x].day = today /\ r[x].status = "reconciled"
      <4>1. s[x] = r[x].actual /\ h[x] = 0
        BY <3>4 DEF Held, Settled
      <4>2. v[x] = 0 \/ v[x] = r[x].actual \/ (v[x] = r[x].amount /\ r[x].amount < r[x].actual)
        BY <3>1, <3>4 DEF Sure
      <4>3. s[x] \in Nat
        BY <1>1
      <4>4. QED
        BY <3>2, <4>1, <4>2, <4>3
    <3>5. CASE r[x].day # today \/ r[x].status \in {"none", "unknown"}
      <4>1. v[x] = 0
        BY <3>1, <3>5 DEF Sure
      <4>2. QED
        BY <1>1, <4>1
    <3>6. QED
      BY <3>2, <3>3, <3>4, <3>5
  <2>3. QED
    BY <2>1, <2>2
<1>5. /\ \A x \in Attempts : t[x] = h[x] + s[x] /\ t[x] \in Nat /\ u[x] \in Nat
      /\ t[a] = 0 /\ u[a] = amount /\ \A x \in Attempts : x # a => u[x] = t[x]
  BY <1>1, <1>2
<1>6. IsFiniteSet(Attempts)
  BY GuardConstants
<1> HIDE DEF h, s, t, u, v
<1>7. Sum(t) = Sum(h) + Sum(s)
  BY <1>1, <1>5, <1>6, SumPlus
<1>8. Sum(u) = Sum(t) - 0 + amount
  BY <1>5, <1>6, SumChange
<1>9. Sum(v) <= Sum(u)
  BY <1>3, <1>4, <1>5, <1>6, SumLe
<1>10. Sum(h) \in Int /\ Sum(s) \in Int /\ Sum(t) \in Int /\ Sum(u) \in Int /\ Sum(v) \in Int
  BY <1>1, <1>3, <1>5, <1>6, SumInt
<1>11. b[today] \in Nat /\ Limit \in Nat
  BY GuardConstants
<1> HIDE DEF Sum
<1>12. (b[today] + Sum(s)) + Sum(h) + amount <= Limit
  BY <1>1
<1>13. b[today] + Sum(v) <= Limit
  BY <1>7, <1>8, <1>9, <1>10, <1>11, <1>12
<1>14. QED
  BY <1>13 DEF Sum, v

\* A denied reservation may write the baseline and nothing else.
LEMMA DeniedInv ==
    ASSUME GuardInv, NEW spend \in Costs, base' = Baseline(spend), resv' = Expire,
           UNCHANGED <<today, outside>>
    PROVE  GuardInv'
<1>1. TypeOK
  BY DEF GuardInv
<1>2. QED
  BY <1>1, BaselineFacts, ExpireAges, AgesInv

\* An admitted one adds its row and authorizes one call.
LEMMA AdmittedInv ==
    ASSUME GuardInv, NEW a \in Attempts, resv[a].status = "none",
           NEW mode \in {"fixed", "remaining"}, NEW n \in 0..Limit, NEW spend \in Costs,
           base' = Baseline(spend), NEW amount, amount = Amount(mode, n, Expire, base'),
           Admissible(amount, mode, Expire, base'),
           resv' = [Expire EXCEPT ![a] =
                      [status |-> "pending", day |-> today, mode |-> mode,
                       amount |-> amount, actual |-> Unknown, left |-> Stale]],
           calls' = [calls EXCEPT ![a][today] = @ + 1],
           UNCHANGED <<today, reported, resolved>>
    PROVE  GuardInv'
<1> USE DEF GuardInv
<1> DEFINE r == Expire
<1>1. /\ r \in [Attempts -> Resvs]
      /\ \A x \in Attempts :
           /\ r[x].day = resv[x].day /\ r[x].amount = resv[x].amount
           /\ r[x].actual = resv[x].actual
           /\ r[x].status = IF resv[x].status = "pending" /\ resv[x].left = 0
                            THEN "unknown" ELSE resv[x].status
  BY ExpireFacts
<1>2. /\ base' \in [Days -> Costs \cup {-1}] /\ base'[today] \in Costs
      /\ \A d \in Days : base[d] \in Costs => base'[d] = base[d]
  BY BaselineFacts
<1>3. /\ amount = Amount(mode, n, r, base') /\ Admissible(amount, mode, r, base')
  OBVIOUS
<1>4. resv' = [r EXCEPT ![a] = [status |-> "pending", day |-> today, mode |-> mode,
                       amount |-> amount, actual |-> Unknown, left |-> Stale]]
  OBVIOUS
<1> HIDE DEF r
<1>5. \A x \in Attempts : r[x].status = "reconciled" <=> r[x].actual # Unknown
  BY <1>1 DEF TypeOK
<1>6. /\ amount \in 0..Limit /\ amount \in Nat
      /\ Committed(r, base', today) + Pending(r, today) + amount <= Limit
  BY <1>1, <1>2, <1>3, <1>5, AdmittedAmount
<1>7. /\ resv' \in [Attempts -> Resvs]
      /\ resv'[a].status = "pending" /\ resv'[a].day = today /\ resv'[a].amount = amount
      /\ resv'[a].actual = Unknown
      /\ \A x \in Attempts \ {a} : resv'[x] = r[x]
  <2> DEFINE new == [status |-> "pending", day |-> today, mode |-> mode, amount |-> amount,
                      actual |-> Unknown, left |-> Stale]
  <2>1. /\ new \in Resvs /\ new.status = "pending" /\ new.day = today
        /\ new.amount = amount /\ new.actual = Unknown
    BY <1>6, GuardConstants DEF Resvs, TypeOK
  <2>2. resv' = [r EXCEPT ![a] = new]
    BY <1>4
  <2> HIDE DEF new
  <2>3. QED
    BY <1>1, <2>1, <2>2
<1>8. /\ calls' \in [Attempts -> [Days -> Nat]] /\ calls'[a][today] = calls[a][today] + 1
      /\ \A x \in Attempts, d \in Days : x # a \/ d # today => calls'[x][d] = calls[x][d]
  BY DEF TypeOK
<1>9. TypeOK'
  <2>1. \A x \in Attempts : resv'[x].status = "reconciled" <=> resv'[x].actual # Unknown
    BY <1>5, <1>7
  <2>2. QED
    BY <1>2, <1>7, <1>8, <2>1 DEF TypeOK
<1>10. Covered'
  <2> SUFFICES ASSUME NEW d \in Days, Rows(resv', d) # {}
               PROVE  /\ base'[d] \in Costs
                      /\ base'[d] + SumFunctionOnSet(Sure(resv', resolved', d), Attempts)
                           <= Limit
    BY DEF Covered
  <2>1. CASE d = today
    <3>1. \A x \in Attempts : resv'[x].status = "reconciled" <=> resv'[x].actual # Unknown
      BY <1>9 DEF TypeOK
    <3>2. r[a].status = "none"
      BY <1>1
    <3>3. base'[today] + SumFunctionOnSet(Sure(resv', resolved', today), Attempts) <= Limit
      <4> DEFINE q == resv'
                 b == base'
                 res == resolved'
      <4>1. /\ r \in [Attempts -> Resvs] /\ b[today] \in Costs /\ amount \in Nat
            /\ q \in [Attempts -> Resvs] /\ q[a].amount = amount /\ q[a].status = "pending"
        BY <1>1, <1>2, <1>6, <1>7
      <4>2. /\ \A x \in Attempts : q[x].status = "reconciled" <=> q[x].actual # Unknown
            /\ \A x \in Attempts \ {a} : q[x] = r[x]
            /\ Committed(r, b, today) + Pending(r, today) + amount <= Limit
        BY <1>6, <1>7, <3>1
      <4> HIDE DEF q, b, res
      <4>3. b[today] + SumFunctionOnSet(Sure(q, res, today), Attempts) <= Limit
        BY <1>5, <3>2, <4>1, <4>2, CoveredToday
      <4>4. QED
        BY <4>3 DEF q, b, res
    <3>4. QED
      BY <1>2, <2>1, <3>3
  <2>2. CASE d # today
    <3> DEFINE f == Sure(resv, resolved, d)
               g == Sure(resv', resolved', d)
    <3>1. Rows(resv, d) # {}
      BY <1>1, <1>7, <2>2 DEF Rows
    <3>2. /\ base[d] \in Costs /\ base'[d] = base[d]
          /\ base[d] + SumFunctionOnSet(f, Attempts) <= Limit
      BY <1>2, <3>1 DEF Covered
    <3>3. \A x \in Attempts : f[x] \in Nat
      BY SureType DEF TypeOK
    <3>4. \A x \in Attempts : g[x] \in Nat
      BY <1>9, SureType DEF TypeOK
    <3>5. \A x \in Attempts : g[x] <= f[x]
      <4>1. g[a] = 0
        BY <1>7, <2>2 DEF Sure
      <4>2. ASSUME NEW x \in Attempts, x # a PROVE g[x] = 0 \/ g[x] = f[x]
        BY <1>1, <1>7, <4>2 DEF Sure
      <4> HIDE DEF f, g
      <4>3. ASSUME NEW x \in Attempts PROVE g[x] <= f[x]
        <5>1. f[x] \in Nat /\ (g[x] = 0 \/ g[x] = f[x])
          BY <3>3, <4>1, <4>2
        <5>2. QED
          BY <5>1
      <4>4. QED
        BY <4>3
    <3> HIDE DEF f, g
    <3>6. /\ SumFunctionOnSet(g, Attempts) <= SumFunctionOnSet(f, Attempts)
          /\ SumFunctionOnSet(g, Attempts) \in Int /\ SumFunctionOnSet(f, Attempts) \in Int
      BY <3>3, <3>4, <3>5, GuardConstants, SumLe, SumInt
    <3>7. base[d] \in Nat /\ Limit \in Nat
      BY <3>2, GuardConstants
    <3>8. base'[d] + SumFunctionOnSet(g, Attempts) <= Limit
      BY <3>2, <3>6, <3>7
    <3>9. QED
      BY <3>2, <3>8 DEF g
  <2>3. QED
    BY <2>1, <2>2
<1>11. OncePerDay'
  <2>0. today \in Days /\ calls[a][today] \in Nat
    BY DEF TypeOK
  <2>1. calls[a][today] = 0
    <3>1. calls[a][today] <= 1 /\ calls[a][today] # 1
      BY <2>0 DEF OncePerDay
    <3>2. QED
      BY <2>0, <3>1
  <2>2. today \in Nat /\ Days \subseteq Nat
    BY GuardConstants DEF TypeOK
  <2>3. ASSUME NEW x \in Attempts, NEW d \in Days
        PROVE  /\ calls'[x][d] <= 1
               /\ d > today => calls'[x][d] = 0
               /\ d = today /\ calls'[x][d] = 1 =>
                    resv'[x].status # "none" /\ resv'[x].day = today
    <3>1. CASE x = a /\ d = today
      BY <1>7, <1>8, <2>1, <2>2, <3>1
    <3>2. CASE x = a /\ d # today
      BY <1>8, <3>2 DEF OncePerDay
    <3>3. CASE x # a
      BY <1>1, <1>7, <1>8, <3>3 DEF OncePerDay
    <3>4. QED
      BY <3>1, <3>2, <3>3
  <2>4. QED
    BY <2>3 DEF OncePerDay
<1>12. ToldOnce'
  BY <1>1, <1>7 DEF ToldOnce
<1>13. Blank'
  BY <1>1, <1>7 DEF Blank, TypeOK
<1>14. QED
  BY <1>9, <1>10, <1>11, <1>12, <1>13

\* A reservation, admitted or denied.
LEMMA ReserveInv ==
    ASSUME GuardInv, NEW a \in Attempts, NEW mode \in {"fixed", "remaining"},
           NEW n \in 0..Limit, NEW spend \in Costs, Reserve(a, mode, n, spend)
    PROVE  GuardInv'
<1> DEFINE amount == Amount(mode, n, Expire, base')
<1>1. /\ resv[a].status = "none" /\ base' = Baseline(spend)
      /\ UNCHANGED <<today, reported, resolved>>
  BY DEF Reserve
<1>2. \/ /\ Admissible(amount, mode, Expire, base')
         /\ resv' = [Expire EXCEPT ![a] =
                      [status |-> "pending", day |-> today, mode |-> mode,
                       amount |-> amount, actual |-> Unknown, left |-> Stale]]
         /\ calls' = [calls EXCEPT ![a][today] = @ + 1]
      \/ resv' = Expire /\ calls' = calls
  BY DEF Reserve
<1>3. amount = Amount(mode, n, Expire, base')
  OBVIOUS
<1> HIDE DEF amount
<1>4. QED
  BY <1>1, <1>2, <1>3, AdmittedInv, DeniedInv DEF outside

-----------------------------------------------------------------------------
(* The theorems. *)

\* The empty ledger.
LEMMA GuardInit == Init => GuardInv
<1> SUFFICES ASSUME Init PROVE GuardInv
  OBVIOUS
<1>1. /\ NoResv \in Resvs /\ NoResv.status = "none" /\ NoResv.actual = Unknown
  BY GuardConstants DEF NoResv, Resvs
<1>2. TypeOK
  BY <1>1, GuardConstants DEF Init, TypeOK
<1>3. Covered
  BY <1>1 DEF Init, Covered, Rows
<1>4. OncePerDay /\ ToldOnce /\ Blank
  BY <1>1 DEF Init, OncePerDay, ToldOnce, Blank
<1>5. QED
  BY <1>2, <1>3, <1>4 DEF GuardInv

\* One step per transaction.
LEMMA GuardNext == GuardInv /\ [Next]_vars => GuardInv'
<1> SUFFICES ASSUME GuardInv, [Next]_vars PROVE GuardInv'
  OBVIOUS
<1>1. ASSUME NEW a \in Attempts, NEW n \in 1..Limit, NEW spend \in Costs,
             Reserve(a, "fixed", n, spend)
      PROVE  GuardInv'
  <2>1. n \in 0..Limit
    BY GuardAssumption
  <2>2. QED
    BY <1>1, <2>1, ReserveInv
<1>2. ASSUME NEW a \in Attempts, NEW spend \in Costs, Reserve(a, "remaining", 0, spend)
      PROVE  GuardInv'
  BY <1>2, GuardConstants, ReserveInv
<1>3. CASE UNCHANGED vars
  <2>1. \A a \in Attempts : Ages(a)
    BY <1>3 DEF vars, Ages
  <2>2. QED
    BY <1>3, <2>1, AgesInv DEF vars, outside, GuardInv, TypeOK
<1>4. QED
  BY <1>1, <1>2, <1>3, QuietInv, OutcomeInv, PruneInv, TickInv, MidnightInv DEF Next

\* Every transaction of the ledger keeps the inductive invariant.
THEOREM GuardInvariant == Spec => []GuardInv
BY GuardInit, GuardNext, PTL DEF Spec

\* The rows and baselines keep their types, and exactly the reconciled rows
\* carry actual_ticks.
THEOREM GuardTypeCorrect == Spec => []TypeOK
<1>1. GuardInv => TypeOK
  BY DEF GuardInv
<1>2. QED
  BY <1>1, GuardInvariant, PTL

\* reserve_spend_guard returns execute_provider at most once per attempt id and
\* UTC day: the row that answers a retry is only pruned on a later day.
THEOREM ExecuteOnceHolds == Spec => []ExecuteOnce
<1>1. GuardInv => ExecuteOnce
  BY DEF GuardInv, OncePerDay, ExecuteOnce
<1>2. QED
  BY <1>1, GuardInvariant, PTL

\* _reconcile_spend_guard_sync settles an unresolved row with an amount only
\* while that amount is all that handlers have reported.
THEOREM ConflictFlaggedHolds == Spec => []ConflictFlagged
<1>1. GuardInv => ConflictFlagged
  <2> SUFFICES ASSUME GuardInv, NEW a \in Attempts \ resolved, Cardinality(reported[a]) > 1
               PROVE  resv[a].status = "unknown"
    BY DEF ConflictFlagged
  <2>1. ASSUME resv[a].status # "unknown" PROVE FALSE
    <3>1. reported[a] = {} \/ reported[a] = {resv[a].actual}
      <4>1. resv[a].status \in {"none", "pending", "reconciled", "unknown"}
        BY ResvTypes DEF GuardInv, TypeOK
      <4>2. QED
        BY <2>1, <4>1 DEF GuardInv, ToldOnce
    <3>2. Cardinality(reported[a]) \in {0, 1}
      BY <3>1, FS_EmptySet, FS_Singleton
    <3>3. QED
      BY <3>2
  <2>2. QED
    BY <2>1
<1>2. QED
  BY <1>1, GuardInvariant, PTL

\* Without an excuse the covered sum is the accounted one.
LEMMA CoveredAccounts ==
    ASSUME GuardInv, NEW d \in Days, Rows(resv, d) # {},
           \A a \in Rows(resv, d) : a \notin resolved /\ ~(resv[a].actual > resv[a].amount)
    PROVE  Committed(resv, base, d) + Pending(resv, d) <= Limit
<1> DEFINE P == With(resv, d, "pending")
           C == With(resv, d, "reconciled")
           am == [a \in Attempts |-> resv[a].amount]
           ac == [a \in Attempts |-> resv[a].actual]
           h == [a \in Attempts |-> IF a \in P THEN am[a] ELSE 0]
           s == [a \in Attempts |-> IF a \in C THEN ac[a] ELSE 0]
           v == Sure(resv, resolved, d)
           Sum(f) == SumFunctionOnSet(f, Attempts)
<1>1. P \in SUBSET Attempts /\ C \in SUBSET Attempts /\ IsFiniteSet(Attempts)
  BY GuardConstants DEF With, Rows
<1>2. \A a \in Attempts : am[a] \in Int /\ ac[a] \in Int
  BY ResvTypes DEF GuardInv, TypeOK
<1>3. \A a \in Attempts : h[a] \in Int /\ s[a] \in Int /\ v[a] = h[a] + s[a]
  <2> SUFFICES ASSUME NEW a \in Attempts
               PROVE  h[a] \in Int /\ s[a] \in Int /\ v[a] = h[a] + s[a]
    OBVIOUS
  <2>1. /\ resv[a].status \in {"none", "pending", "reconciled", "unknown"}
        /\ resv[a].amount \in Int /\ resv[a].actual \in Int
    BY ResvTypes DEF GuardInv, TypeOK
  <2>2. CASE a \in P
    <3>1. h[a] = resv[a].amount /\ s[a] = 0
      BY <2>2 DEF With, Rows
    <3>2. v[a] = resv[a].amount
      BY <2>2 DEF Sure, With, Rows
    <3>3. QED
      BY <2>1, <3>1, <3>2
  <2>3. CASE a \in C
    <3>1. h[a] = 0 /\ s[a] = resv[a].actual /\ a \in Rows(resv, d) /\ resv[a].status = "reconciled"
      BY <2>3 DEF With, Rows
    <3>2. ~(resv[a].amount < resv[a].actual) /\ a \notin resolved
      BY <2>1, <3>1
    <3>3. v[a] = resv[a].actual
      BY <2>3, <3>1, <3>2 DEF Sure, With, Rows
    <3>4. QED
      BY <2>1, <3>1, <3>3
  <2>4. CASE a \notin P /\ a \notin C
    <3>1. h[a] = 0 /\ s[a] = 0
      BY <2>4
    <3>2. v[a] = 0
      BY <2>1, <2>4 DEF Sure, With, Rows
    <3>3. QED
      BY <3>1, <3>2
  <2>5. QED
    BY <2>2, <2>3, <2>4
<1>4. /\ base[d] \in Costs /\ base[d] + Sum(v) <= Limit
  BY DEF GuardInv, Covered
<1>5. Pending(resv, d) = SumFunctionOnSet(am, P)
  BY DEF Pending
<1>6. Committed(resv, base, d) = base[d] + SumFunctionOnSet(ac, C)
  BY DEF Committed
<1>7. \A a \in Attempts : /\ h[a] = IF a \in P THEN am[a] ELSE 0
                          /\ s[a] = IF a \in C THEN ac[a] ELSE 0
  OBVIOUS
<1> HIDE DEF P, C, am, ac, h, s, v
<1>8. SumFunctionOnSet(am, P) = Sum(h) /\ SumFunctionOnSet(ac, C) = Sum(s)
  BY <1>1, <1>2, <1>7, SumPart
<1>9. Sum(v) = Sum(h) + Sum(s)
  BY <1>1, <1>3, SumPlus
<1>10. Sum(h) \in Int /\ Sum(s) \in Int
  BY <1>1, <1>3, SumInt
<1> HIDE DEF Sum
<1>11. base[d] \in Nat /\ Limit \in Nat
  BY <1>4, GuardConstants
<1>12. QED
  BY <1>4, <1>5, <1>6, <1>8, <1>9, <1>10, <1>11

\* reserve_spend_guard admits no more than the scope's limit: only an overrun of
\* a reservation or an authoritative correction takes a day above it.
THEOREM NoOvercommitHolds == Spec => []NoOvercommit
<1>1. GuardInv => NoOvercommit
  BY CoveredAccounts DEF NoOvercommit
<1>2. QED
  BY <1>1, GuardInvariant, PTL

\* reserve_spend_guard authorizes nothing on a day with an unknown outcome, nor
\* with an overdue one, which the same transaction expires first.
THEOREM FailClosedHolds == Spec => FailClosed
<1> DEFINE Closed == \A a \in Attempts : calls'[a][today] > calls[a][today] =>
          \A b \in Rows(resv, today) \ {a} :
              /\ resv[b].status # "unknown"
              /\ resv[b].status = "pending" => resv[b].left > 0
<1>1. GuardInv /\ [Next]_vars => Closed
  <2> SUFFICES ASSUME GuardInv, [Next]_vars, NEW a \in Attempts,
                      calls'[a][today] > calls[a][today],
                      NEW b \in Rows(resv, today) \ {a}
               PROVE  /\ resv[b].status # "unknown"
                      /\ resv[b].status = "pending" => resv[b].left > 0
    OBVIOUS
  <2>0. TypeOK /\ calls[a][today] \in Nat
    BY DEF GuardInv, TypeOK
  <2>1. calls' # calls
    BY <2>0
  <2>2. PICK x \in Attempts, mode \in {"fixed", "remaining"}, n \in 0..Limit, spend \in Costs :
          Reserve(x, mode, n, spend)
    <3>1. 0 \in 0..Limit /\ 1..Limit \subseteq 0..Limit
      BY GuardAssumption
    <3>2. ~ UNCHANGED vars
      BY <2>1 DEF vars
    <3>3. \/ \E y \in Attempts, m \in 1..Limit, c \in Costs : Reserve(y, "fixed", m, c)
          \/ \E y \in Attempts, c \in Costs : Reserve(y, "remaining", 0, c)
      BY <2>1, <3>2 DEF Next, Retry, Reconcile, Resolve, Status, Prune, Tick, Midnight, outside
    <3>4. QED
      BY <3>1, <3>3
  <2>3. With(Expire, today, "unknown") = {}
    BY <2>1, <2>2 DEF Reserve, Admissible
  <2>4. /\ Expire[b].day = resv[b].day /\ resv[b].left \in Nat
        /\ Expire[b].status = IF resv[b].status = "pending" /\ resv[b].left = 0
                              THEN "unknown" ELSE resv[b].status
    <3>1. b \in Attempts /\ resv[b] \in Resvs
      BY <2>0 DEF Rows, TypeOK
    <3>2. resv[b].left \in Nat
      BY <3>1, ResvTypes, GuardAssumption
    <3>3. QED
      BY <2>0, <3>1, <3>2, ExpireFacts
  <2>5. Expire[b].status # "unknown"
    BY <2>3, <2>4 DEF With, Rows
  <2>6. QED
    BY <2>4, <2>5
<1>2. QED
  BY <1>1, GuardInvariant, PTL DEF Spec, FailClosed

-----------------------------------------------------------------------------
(* The bill of a mission *)

\* Payments: what each quantum got written, NoUsage for nothing.
Payments == [Workers -> Usages \cup {NoUsage}]
Amounts(p) == [v \in Workers |-> IF p[v] = NoUsage THEN 0 ELSE p[v]]
Total(p) == SumFunctionOnSet(Amounts(p), Workers)
Payers(p) == {v \in Workers : p[v] # NoUsage}

\* w brings the payment up to u.
Raise(p, w, u) == [p EXCEPT ![w] = Max({@, u})]

\* Receipt x is the one of quantum v.
ReceiptOf(x, v, p, g) == x = [gen |-> g[v], cost |-> BillingCost(p[v])]

\* The window: the receipts of some payers, oldest first, up to the last one.
WindowOf(b, p, g) ==
    /\ Len(b.receipts) <= ReceiptLimit
    /\ \A i \in 1..Len(b.receipts) : \E v \in Payers(p) : ReceiptOf(b.receipts[i], v, p, g)
    /\ \A i, j \in 1..Len(b.receipts) : i < j => b.receipts[i].gen < b.receipts[j].gen
    /\ IF Len(b.receipts) = 0 THEN b.last = 0
       ELSE b.receipts[Len(b.receipts)].gen = b.last
    /\ \A v \in Payers(p) : g[v] <= b.last

\* b is the bill of the payments p, made under the generations g.
BillOf(b, p, g) ==
    /\ b \in Bills
    /\ b.cost = BillingCost(Total(p))
    /\ b.quanta = Cardinality(Payers(p))
    /\ b.truncated = b.quanta - Len(b.receipts)
    /\ \A v \in Payers(p) : g[v] > 0
    /\ WindowOf(b, p, g)

\* Each claim has a generation of its own.
GensApart(g) == \A v, w \in Workers : g[v] = g[w] /\ g[v] > 0 => v = w

Claims ==
    /\ GensApart(gen)
    /\ \A v \in Workers : gen[v] <= row.gen /\ (pc[v] = "idle" <=> gen[v] = 0)

\* What w read was the bill of earlier payments; as long as the version stands
\* it is the present one.
Snapshot(w) ==
    /\ seen[w].row.version <= row.version
    /\ seen[w].row.version = row.version => seen[w].bill = bill
    /\ \E p \in Payments : BillOf(seen[w].bill, p, gen) /\ \A v \in Workers : p[v] <= paid[v]

\* The envelope of w holds what the others paid and its own usage once.
Reported(w) ==
    envelope[w] # NoUsage =>
        pc[w] = "done" /\ envelope[w] <= BillingCost(Total(Raise(paid, w, usage[w])))

BillInv ==
    /\ BillTypes /\ Claims /\ BillOf(bill, paid, gen)
    /\ \A w \in Workers : Snapshot(w) /\ Reported(w)

-----------------------------------------------------------------------------
(* Costs, payments and their sums. *)

\* The ranges of the constants.
LEMMA BillConstants ==
    /\ IsFiniteSet(Workers) /\ NoOne \notin Workers /\ CostLimit \in Nat
    /\ ReceiptLimit \in Nat \ {0} /\ Usages \subseteq Nat /\ NoUsage = -1
    /\ NoUsage \notin Nat
BY BillingAssumption DEF Usages, NoUsage

\* max(a, b).
LEMMA MaxPair ==
    ASSUME NEW a \in Int, NEW b \in Int
    PROVE  Max({a, b}) = IF a >= b THEN a ELSE b
<1>1. CASE a >= b
  <2>1. a \in {a, b} /\ \A y \in {a, b} : a >= y
    BY <1>1
  <2>2. \A m \in {a, b} : (\A y \in {a, b} : m >= y) => m = a
    BY <1>1
  <2>3. QED
    BY <1>1, <2>1, <2>2 DEF Max
<1>2. CASE ~(a >= b)
  <2>1. b \in {a, b} /\ \A y \in {a, b} : b >= y
    BY <1>2
  <2>2. \A m \in {a, b} : (\A y \in {a, b} : m >= y) => m = b
    BY <1>2
  <2>3. QED
    BY <1>2, <2>1, <2>2 DEF Max
<1>3. QED
  BY <1>1, <1>2

\* _billing_cost saturates at the limit.
LEMMA CostIs ==
    ASSUME NEW c \in Nat
    PROVE  /\ BillingCost(c) = IF c <= CostLimit THEN c ELSE CostLimit
           /\ BillingCost(c) \in 0..CostLimit
<1>0. CostLimit \in Nat
  BY BillConstants
<1>1. CASE c <= CostLimit
  <2>1. c \in {CostLimit, c} /\ \A y \in {CostLimit, c} : c <= y
    BY <1>0, <1>1
  <2>2. \A m \in {CostLimit, c} : (\A y \in {CostLimit, c} : m <= y) => m = c
    BY <1>0, <1>1
  <2>3. BillingCost(c) = c
    BY <2>1, <2>2 DEF BillingCost, Min
  <2>4. QED
    BY <1>0, <1>1, <2>3
<1>2. CASE ~(c <= CostLimit)
  <2>1. CostLimit \in {CostLimit, c} /\ \A y \in {CostLimit, c} : CostLimit <= y
    BY <1>0, <1>2
  <2>2. \A m \in {CostLimit, c} : (\A y \in {CostLimit, c} : m <= y) => m = CostLimit
    BY <1>0, <1>2
  <2>3. BillingCost(c) = CostLimit
    BY <2>1, <2>2 DEF BillingCost, Min
  <2>4. QED
    BY <1>0, <1>2, <2>3
<1>3. QED
  BY <1>1, <1>2

\* What a quantum adds to a bill, saturated or not.
LEMMA CostAdds ==
    ASSUME NEW t \in Nat, NEW u \in Nat
    PROVE  BillingCost(BillingCost(t) + BillingCost(u)) = BillingCost(t + u)
<1>1. CostLimit \in Nat /\ t + u \in Nat
  BY BillConstants
<1>2. /\ BillingCost(t) = IF t <= CostLimit THEN t ELSE CostLimit
      /\ BillingCost(u) = IF u <= CostLimit THEN u ELSE CostLimit
      /\ BillingCost(t + u) = IF t + u <= CostLimit THEN t + u ELSE CostLimit
  BY <1>1, CostIs
<1>3. BillingCost(t) + BillingCost(u) \in Nat
  BY <1>1, <1>2
<1>4. BillingCost(BillingCost(t) + BillingCost(u)) =
        IF BillingCost(t) + BillingCost(u) <= CostLimit
        THEN BillingCost(t) + BillingCost(u) ELSE CostLimit
  BY <1>3, CostIs
<1>5. QED
  BY <1>1, <1>2, <1>4

\* What a higher charge of a quantum that paid a of t adds.
LEMMA CostGrows ==
    ASSUME NEW t \in Nat, NEW a \in Nat, NEW u \in Nat, a <= t, a <= u
    PROVE  BillingCost(BillingCost(t) + BillingCost(u) - BillingCost(a))
             = BillingCost(t - a + u)
<1>1. CostLimit \in Nat /\ t - a + u \in Nat
  BY BillConstants
<1>2. /\ BillingCost(t) = IF t <= CostLimit THEN t ELSE CostLimit
      /\ BillingCost(u) = IF u <= CostLimit THEN u ELSE CostLimit
      /\ BillingCost(a) = IF a <= CostLimit THEN a ELSE CostLimit
      /\ BillingCost(t - a + u) = IF t - a + u <= CostLimit THEN t - a + u ELSE CostLimit
  BY <1>1, CostIs
<1>3. BillingCost(t) + BillingCost(u) - BillingCost(a) \in Nat
  BY <1>1, <1>2
<1> DEFINE d == BillingCost(t) + BillingCost(u) - BillingCost(a)
<1>4. BillingCost(d) = IF d <= CostLimit THEN d ELSE CostLimit
  <2> HIDE DEF d
  <2>1. d \in Nat
    BY <1>3 DEF d
  <2>2. QED
    BY <2>1, CostIs
<1>5. QED
  BY <1>1, <1>2, <1>4

\* Saturation keeps the order.
LEMMA CostOrder ==
    ASSUME NEW a \in Nat, NEW b \in Nat, a <= b
    PROVE  BillingCost(a) <= BillingCost(b)
<1>1. CostLimit \in Nat
  BY BillConstants
<1>2. /\ BillingCost(a) = IF a <= CostLimit THEN a ELSE CostLimit
      /\ BillingCost(b) = IF b <= CostLimit THEN b ELSE CostLimit
  BY CostIs
<1>3. QED
  BY <1>1, <1>2

\* The amounts of payments.
LEMMA AmountTypes ==
    ASSUME NEW p \in Payments
    PROVE  /\ \A v \in Workers : Amounts(p)[v] \in Nat /\ Amounts(p)[v] \in Int
           /\ \A v \in Workers : p[v] \in Int /\ p[v] >= -1
           /\ \A v \in Payers(p) : p[v] \in Nat /\ Amounts(p)[v] = p[v]
           /\ Total(p) \in Nat
<1>1. \A v \in Workers : p[v] \in Usages \cup {NoUsage}
  BY DEF Payments
<1>2. /\ \A v \in Workers : Amounts(p)[v] \in Nat /\ Amounts(p)[v] \in Int
      /\ \A v \in Workers : p[v] \in Int /\ p[v] >= -1
      /\ \A v \in Payers(p) : p[v] \in Nat /\ Amounts(p)[v] = p[v]
  BY <1>1, BillingAssumption DEF Amounts, Payers, Usages, NoUsage
<1>3. Total(p) \in Nat
  BY <1>2, BillConstants, SumNat DEF Total
<1>4. QED
  BY <1>2, <1>3

\* A charge of u to w, on top of p.
LEMMA RaiseFacts ==
    ASSUME NEW p \in Payments, NEW w \in Workers, NEW u \in Usages \cup {NoUsage}
    PROVE  /\ Raise(p, w, u) \in Payments
           /\ Raise(p, w, u)[w] = IF p[w] >= u THEN p[w] ELSE u
           /\ \A v \in Workers : v # w => Raise(p, w, u)[v] = p[v]
           /\ \A v \in Workers : p[v] <= Raise(p, w, u)[v]
           /\ Total(Raise(p, w, u))
                = Total(p) - Amounts(p)[w] + Amounts(Raise(p, w, u))[w]
           /\ Payers(Raise(p, w, u)) = Payers(p) \cup (IF u = NoUsage THEN {} ELSE {w})
<1> DEFINE q == Raise(p, w, u)
<1>1. p[w] \in Usages \cup {NoUsage} /\ p[w] \in Int /\ u \in Int
  BY BillingAssumption DEF Payments, Usages, NoUsage
<1>2. Max({p[w], u}) = IF p[w] >= u THEN p[w] ELSE u
  BY <1>1, MaxPair
<1>3. /\ q \in Payments /\ q[w] = IF p[w] >= u THEN p[w] ELSE u
      /\ \A v \in Workers : v # w => q[v] = p[v]
  BY <1>1, <1>2 DEF Payments, Raise
<1> HIDE DEF q
<1>4. \A v \in Workers : p[v] <= q[v]
  BY <1>1, <1>3, AmountTypes
<1>5. \A v \in Workers : v # w => Amounts(q)[v] = Amounts(p)[v]
  BY <1>3 DEF Amounts
<1>6. Total(q) = Total(p) - Amounts(p)[w] + Amounts(q)[w]
  BY <1>3, <1>5, AmountTypes, BillConstants, SumChange DEF Total
<1>7. Payers(q) = Payers(p) \cup (IF u = NoUsage THEN {} ELSE {w})
  <2>1. q[w] # NoUsage <=> p[w] # NoUsage \/ u # NoUsage
    <3>1. p[w] \in Nat \/ p[w] = -1
      BY <1>1, BillConstants
    <3>2. u \in Nat \/ u = -1
      BY BillConstants
    <3>3. QED
      BY <1>3, <3>1, <3>2, BillConstants
  <2>2. QED
    BY <1>3, <2>1 DEF Payers
<1>8. QED
  BY <1>3, <1>4, <1>6, <1>7 DEF q

\* More was paid in total when each paid no less.
LEMMA TotalOrder ==
    ASSUME NEW p \in Payments, NEW q \in Payments, \A v \in Workers : p[v] <= q[v]
    PROVE  Total(p) <= Total(q) /\ BillingCost(Total(p)) <= BillingCost(Total(q))
<1>1. \A v \in Workers : Amounts(p)[v] <= Amounts(q)[v]
  <2> TAKE v \in Workers
  <2>1. p[v] \in Usages \cup {NoUsage} /\ q[v] \in Usages \cup {NoUsage} /\ p[v] <= q[v]
    BY DEF Payments
  <2>2. QED
    BY <2>1, BillingAssumption DEF Amounts, Usages, NoUsage
<1>2. Total(p) <= Total(q)
  BY <1>1, AmountTypes, BillConstants, SumLe DEF Total
<1>3. QED
  BY <1>2, AmountTypes, CostOrder

-----------------------------------------------------------------------------
(* merge_mission_billing keeps a bill the bill of its payments. *)

\* The fields of a bill.
LEMMA BillFields ==
    ASSUME NEW b \in Bills
    PROVE  /\ b.cost \in 0..CostLimit /\ b.cost \in Nat /\ b.quanta \in Nat /\ b.last \in Nat
           /\ b.receipts \in Seq(Receipts) /\ Len(b.receipts) \in Nat /\ b.truncated \in Nat
           /\ DOMAIN b.receipts = 1..Len(b.receipts)
           /\ \A i \in 1..Len(b.receipts) :
                /\ b.receipts[i] \in Receipts /\ b.receipts[i].gen \in Nat
                /\ b.receipts[i].cost \in 0..CostLimit /\ b.receipts[i].cost \in Nat
<1>1. /\ b.cost \in 0..CostLimit /\ b.quanta \in Nat /\ b.last \in Nat
      /\ b.receipts \in Seq(Receipts) /\ b.truncated \in Nat
  BY DEF Bills
<1>2. /\ Len(b.receipts) \in Nat /\ DOMAIN b.receipts = 1..Len(b.receipts)
      /\ \A i \in 1..Len(b.receipts) : b.receipts[i] \in Receipts
  BY <1>1
<1>3. QED
  BY <1>1, <1>2, BillConstants DEF Receipts

\* The receipt of a generation names the quantum that claimed it.
LEMMA ReceiptNames ==
    ASSUME NEW g \in [Workers -> Nat], GensApart(g), NEW p \in Payments, NEW b,
           BillOf(b, p, g), NEW w \in Workers, NEW i \in 1..Len(b.receipts),
           b.receipts[i].gen = g[w]
    PROVE  w \in Payers(p) /\ ReceiptOf(b.receipts[i], w, p, g)
<1>1. PICK v \in Payers(p) : ReceiptOf(b.receipts[i], v, p, g)
  BY DEF BillOf, WindowOf
<1>2. v \in Workers /\ g[v] > 0 /\ g[v] = g[w]
  BY <1>1 DEF BillOf, Payers, ReceiptOf
<1>3. QED
  BY <1>1, <1>2 DEF GensApart

\* A generation with a receipt is brought up to the higher charge.
LEMMA ExistingOf ==
    ASSUME NEW g \in [Workers -> Nat], GensApart(g), NEW p \in Payments, NEW b,
           BillOf(b, p, g), NEW w \in Workers, NEW u \in Usages,
           NEW i \in 1..Len(b.receipts), b.receipts[i].gen = g[w]
    PROVE  BillOf(MergeExisting(b, i, BillingCost(u)), Raise(p, w, u), g)
<1> DEFINE q == MergeExisting(b, i, BillingCost(u))
           r == Raise(p, w, u)
           old == b.receipts[i].cost
           top == BillingCost(r[w])
<1>1. /\ b \in Bills /\ w \in Payers(p) /\ b.receipts[i] = [gen |-> g[w], cost |-> BillingCost(p[w])]
  BY ReceiptNames DEF BillOf, ReceiptOf
<1>2. p[w] \in Nat /\ Amounts(p)[w] = p[w] /\ u \in Nat /\ Total(p) \in Nat
  BY <1>1, AmountTypes, BillConstants
<1>3. /\ r \in Payments /\ r[w] = IF p[w] >= u THEN p[w] ELSE u
      /\ \A v \in Workers : v # w => r[v] = p[v]
      /\ Total(r) = Total(p) - Amounts(p)[w] + Amounts(r)[w]
      /\ Payers(r) = Payers(p)
  <2>1. u \in Usages \cup {NoUsage} /\ u # NoUsage
    BY BillConstants
  <2>2. Payers(r) = Payers(p) \cup {w}
    BY <2>1, RaiseFacts
  <2>3. QED
    BY <1>1, <2>1, <2>2, RaiseFacts
<1>4. r[w] \in Nat /\ Amounts(r)[w] = r[w] /\ Total(r) \in Nat
  BY <1>1, <1>3, AmountTypes
<1>5. Max({old, BillingCost(u)}) = top
  <2>1. old = BillingCost(p[w]) /\ old \in Int /\ BillingCost(u) \in Int
    BY <1>1, <1>2, CostIs
  <2>2. Max({old, BillingCost(u)}) = IF old >= BillingCost(u) THEN old ELSE BillingCost(u)
    BY <2>1, MaxPair
  <2>3. CASE p[w] >= u
    <3>1. BillingCost(u) <= BillingCost(p[w])
      BY <1>2, <2>3, CostOrder
    <3>2. QED
      BY <1>3, <2>1, <2>2, <2>3, <3>1
  <2>4. CASE ~(p[w] >= u)
    <3>1. BillingCost(p[w]) <= BillingCost(u)
      BY <1>2, <2>4, CostOrder
    <3>2. QED
      BY <1>3, <2>1, <2>2, <2>4, <3>1
  <2>5. QED
    BY <2>3, <2>4
<1>6. p[w] <= Total(p)
  <2>1. Total(p) = Amounts(p)[w] + SumFunctionOnSet(Amounts(p), Workers \ {w})
    BY AmountTypes, BillConstants, SumRemove DEF Total
  <2>2. SumFunctionOnSet(Amounts(p), Workers \ {w}) \in Nat
    <3>1. IsFiniteSet(Workers \ {w})
      BY BillConstants, FS_Subset
    <3>2. QED
      BY <3>1, AmountTypes, SumNat
  <2>3. QED
    BY <1>2, <2>1, <2>2
<1>7. BillingCost(b.cost + top - old) = BillingCost(Total(r))
  <2>1. b.cost = BillingCost(Total(p)) /\ old = BillingCost(p[w])
    BY <1>1 DEF BillOf
  <2>2. Total(r) = Total(p) - p[w] + r[w] /\ p[w] <= r[w]
    BY <1>2, <1>3, <1>4
  <2>3. BillingCost(BillingCost(Total(p)) + BillingCost(r[w]) - BillingCost(p[w]))
          = BillingCost(Total(p) - p[w] + r[w])
    BY <1>2, <1>4, <1>6, <2>2, CostGrows
  <2>4. QED
    BY <2>1, <2>2, <2>3
<1>8. q = [b EXCEPT !.cost = BillingCost(Total(r)),
                    !.receipts = [b.receipts EXCEPT ![i] = [gen |-> g[w], cost |-> top]]]
  <2>1. q = [b EXCEPT !.cost = BillingCost(b.cost + top - old), !.receipts[i].cost = top]
    BY <1>5 DEF MergeExisting
  <2>2. [b.receipts EXCEPT ![i].cost = top] = [b.receipts EXCEPT ![i] = [gen |-> g[w], cost |-> top]]
    BY <1>1
  <2>3. QED
    BY <1>7, <2>1, <2>2
<1>9. top \in 0..CostLimit /\ BillingCost(Total(r)) \in 0..CostLimit
  BY <1>4, CostIs
<1> HIDE DEF q, r, top
<1>10. /\ q \in Bills /\ q.cost = BillingCost(Total(r)) /\ q.quanta = b.quanta
       /\ q.last = b.last /\ q.truncated = b.truncated
       /\ q.receipts \in Seq(Receipts) /\ Len(q.receipts) = Len(b.receipts)
       /\ \A j \in 1..Len(b.receipts) :
            q.receipts[j] = IF j = i THEN [gen |-> g[w], cost |-> top] ELSE b.receipts[j]
  <2>1. [gen |-> g[w], cost |-> top] \in Receipts
    BY <1>9 DEF Receipts
  <2> DEFINE s == [b.receipts EXCEPT ![i] = [gen |-> g[w], cost |-> top]]
  <2>2. /\ s \in Seq(Receipts) /\ Len(s) = Len(b.receipts)
        /\ \A j \in 1..Len(b.receipts) :
             s[j] = IF j = i THEN [gen |-> g[w], cost |-> top] ELSE b.receipts[j]
    BY <1>1, <2>1, BillFields, ExceptSeq
  <2> HIDE DEF s
  <2>3. q = [b EXCEPT !.cost = BillingCost(Total(r)), !.receipts = s]
    BY <1>8 DEF s
  <2>4. QED
    BY <1>1, <1>9, <2>2, <2>3 DEF Bills
<1>11. \A j \in 1..Len(b.receipts) : q.receipts[j].gen = b.receipts[j].gen
  BY <1>1, <1>10
<1>12. WindowOf(q, r, g)
  <2>1. WindowOf(b, p, g)
    BY DEF BillOf
  <2>2. \A j \in 1..Len(q.receipts) : \E v \in Payers(r) : ReceiptOf(q.receipts[j], v, r, g)
    <3> TAKE j \in 1..Len(q.receipts)
    <3>1. CASE j = i
      BY <1>1, <1>3, <1>10, <3>1 DEF ReceiptOf, top
    <3>2. CASE j # i
      <4>1. PICK v \in Payers(p) : ReceiptOf(b.receipts[j], v, p, g)
        BY <1>10, <2>1 DEF WindowOf
      <4>2. v # w
        <5>1. CASE j < i
          BY <1>1, <1>10, <2>1, <4>1, <5>1, BillFields DEF WindowOf, ReceiptOf
        <5>2. CASE i < j
          BY <1>1, <1>10, <2>1, <4>1, <5>2, BillFields DEF WindowOf, ReceiptOf
        <5>3. QED
          BY <1>1, <1>10, <3>2, <5>1, <5>2, BillFields
      <4>3. v \in Workers /\ r[v] = p[v]
        BY <1>3, <4>2 DEF Payers
      <4>4. QED
        BY <1>3, <1>10, <3>2, <4>1, <4>3 DEF ReceiptOf
    <3>3. QED
      BY <3>1, <3>2
  <2>3. IF Len(q.receipts) = 0 THEN q.last = 0 ELSE q.receipts[Len(q.receipts)].gen = q.last
    <3>1. Len(b.receipts) \in 1..Len(b.receipts) /\ Len(b.receipts) # 0
      BY <1>1, BillFields
    <3>2. b.receipts[Len(b.receipts)].gen = b.last
      BY <2>1, <3>1 DEF WindowOf
    <3>3. QED
      BY <1>10, <1>11, <3>1, <3>2
  <2>4. QED
    BY <1>3, <1>10, <1>11, <2>1, <2>2, <2>3 DEF WindowOf
<1>13. QED
  BY <1>3, <1>10, <1>12 DEF BillOf, q, r

\* A generation beyond the last one adds a quantum; a full window forgets its
\* oldest receipt.
LEMMA QuantumOf ==
    ASSUME NEW g \in [Workers -> Nat], NEW p \in Payments, NEW b,
           BillOf(b, p, g), NEW w \in Workers, NEW u \in Usages, g[w] > b.last
    PROVE  BillOf(AddQuantum(b, g[w], BillingCost(u)), Raise(p, w, u), g)
<1> DEFINE q == AddQuantum(b, g[w], BillingCost(u))
           r == Raise(p, w, u)
           x == [gen |-> g[w], cost |-> BillingCost(u)]
           rs == Append(b.receipts, x)
           n == Len(b.receipts)
<1>1. b \in Bills /\ WindowOf(b, p, g)
  BY DEF BillOf
<1>2. /\ b.last \in Nat /\ n \in Nat /\ b.receipts \in Seq(Receipts) /\ b.quanta \in Nat
      /\ b.truncated \in Nat
  BY <1>1, BillFields
<1>3. w \notin Payers(p) /\ p[w] = NoUsage /\ Amounts(p)[w] = 0
  <2>1. w \notin Payers(p)
    BY <1>1, <1>2 DEF WindowOf
  <2>2. QED
    BY <2>1 DEF Payers, Amounts
<1>4. /\ r \in Payments /\ r[w] = u /\ \A v \in Workers : v # w => r[v] = p[v]
      /\ Total(r) = Total(p) + Amounts(r)[w] /\ Payers(r) = Payers(p) \cup {w}
  <2>1. u \in Nat /\ u # NoUsage /\ Total(p) \in Nat /\ ~(NoUsage >= u)
    BY BillingAssumption, AmountTypes DEF Usages, NoUsage
  <2>2. /\ r \in Payments /\ r[w] = u /\ \A v \in Workers : v # w => r[v] = p[v]
        /\ Total(r) = Total(p) - 0 + Amounts(r)[w] /\ Payers(r) = Payers(p) \cup {w}
    BY <1>3, <2>1, RaiseFacts
  <2>3. Amounts(r)[w] \in Nat
    BY <2>2, AmountTypes
  <2>4. QED
    BY <2>1, <2>2, <2>3
<1>5. u \in Nat /\ Amounts(r)[w] = u /\ Total(p) \in Nat /\ Total(r) \in Nat
  BY <1>4, AmountTypes, BillConstants
<1>6. BillingCost(b.cost + BillingCost(u)) = BillingCost(Total(r))
  BY <1>4, <1>5, CostAdds DEF BillOf
<1>7. x \in Receipts /\ BillingCost(u) \in 0..CostLimit /\ BillingCost(Total(r)) \in 0..CostLimit
  BY <1>5, CostIs DEF Receipts
<1>8. /\ rs \in Seq(Receipts) /\ Len(rs) = n + 1 /\ rs[n + 1] = x
      /\ \A j \in 1..n : rs[j] = b.receipts[j]
  BY <1>2, <1>7, AppendProperties
<1> HIDE DEF q, r, x, rs
<1>9. \E k \in {0, 1} :
        /\ Window(rs) \in Seq(Receipts) /\ Len(Window(rs)) = n + 1 - k
        /\ n + 1 - k <= ReceiptLimit /\ n + 1 - k >= 1
        /\ \A j \in 1..(n + 1 - k) : Window(rs)[j] = rs[j + k]
  <2>1. n <= ReceiptLimit /\ ReceiptLimit \in Nat \ {0}
    BY <1>1, BillConstants DEF WindowOf
  <2>2. n + 1 - ReceiptLimit + 1 \in Int
    BY <1>2, <2>1
  <2>3. Max({1, n + 1 - ReceiptLimit + 1}) = IF 1 >= n + 1 - ReceiptLimit + 1 THEN 1
                                             ELSE n + 1 - ReceiptLimit + 1
    BY <2>2, MaxPair
  <2>4. CASE n = ReceiptLimit
    <3>1. Window(rs) = SubSeq(rs, 2, n + 1)
      BY <1>2, <1>8, <2>1, <2>3, <2>4 DEF Window
    <3>2. \A j \in 2..n + 1 : rs[j] \in Receipts
      BY <1>2, <1>8
    <3>3. /\ SubSeq(rs, 2, n + 1) \in Seq(Receipts)
          /\ Len(SubSeq(rs, 2, n + 1)) = IF 2 <= n + 1 THEN n + 1 - 2 + 1 ELSE 0
          /\ \A j \in 1..n + 1 - 2 + 1 : SubSeq(rs, 2, n + 1)[j] = rs[2 + j - 1]
      BY <1>2, <3>2, SubSeqProperties
    <3>4. QED
      BY <1>2, <2>1, <2>4, <3>1, <3>3
  <2>5. CASE n < ReceiptLimit
    <3>0. Max({1, Len(rs) - ReceiptLimit + 1}) = 1
      BY <1>2, <1>8, <2>1, <2>3, <2>5
    <3>1. Window(rs) = SubSeq(rs, 1, Len(rs))
      BY <3>0 DEF Window
    <3>2. Window(rs) = rs
      BY <1>8, <3>1, SubSeqFull
    <3>3. QED
      BY <1>2, <1>8, <2>1, <2>5, <3>2
  <2>6. QED
    BY <1>2, <2>1, <2>4, <2>5
<1>10. PICK k \in {0, 1} :
        /\ Window(rs) \in Seq(Receipts) /\ Len(Window(rs)) = n + 1 - k
        /\ n + 1 - k <= ReceiptLimit /\ n + 1 - k >= 1
        /\ \A j \in 1..(n + 1 - k) : Window(rs)[j] = rs[j + k]
  BY <1>9
<1>11. /\ q.cost = BillingCost(Total(r)) /\ q.quanta = b.quanta + 1 /\ q.last = g[w]
       /\ q.receipts = Window(rs) /\ q.truncated = b.truncated + k
       /\ q \in Bills
  <2>1. q = [cost |-> BillingCost(Total(r)), quanta |-> b.quanta + 1, last |-> g[w],
             receipts |-> Window(rs), truncated |-> b.truncated + Len(rs) - Len(Window(rs))]
    BY <1>6 DEF q, AddQuantum, rs, x
  <2>2. b.truncated + Len(rs) - Len(Window(rs)) = b.truncated + k
    BY <1>2, <1>8, <1>10
  <2>3. b.truncated + k \in Nat /\ b.quanta + 1 \in Nat
    BY <1>2
  <2>4. QED
    BY <1>7, <1>10, <2>1, <2>2, <2>3 DEF Bills
<1>12. \A j \in 1..n + 1 : \E v \in Payers(r) : ReceiptOf(rs[j], v, r, g)
  <2> TAKE j \in 1..n + 1
  <2>1. CASE j = n + 1
    BY <1>4, <1>8, <2>1 DEF ReceiptOf, x
  <2>2. CASE j # n + 1
    <3>1. j \in 1..n
      BY <1>2, <2>2
    <3>2. PICK v \in Payers(p) : ReceiptOf(b.receipts[j], v, p, g)
      BY <1>1, <3>1 DEF WindowOf
    <3>3. v # w /\ v \in Workers /\ r[v] = p[v]
      BY <1>3, <1>4 DEF Payers
    <3>4. QED
      BY <1>4, <1>8, <3>1, <3>2, <3>3 DEF ReceiptOf
  <2>3. QED
    BY <2>1, <2>2
<1>13. \A i, j \in 1..n + 1 : i < j => rs[i].gen < rs[j].gen
  <2> TAKE i, j \in 1..n + 1
  <2> HAVE i < j
  <2>1. i \in 1..n /\ rs[i].gen = b.receipts[i].gen /\ rs[i].gen \in Nat
    <3>1. i \in 1..n
      BY <1>2
    <3>2. rs[i] = b.receipts[i]
      BY <1>8, <3>1
    <3>3. QED
      BY <1>1, <3>1, <3>2, BillFields
  <2>2. CASE j = n + 1
    <3>1. rs[j].gen = g[w] /\ g[w] \in Nat
      BY <1>8, <2>2 DEF x
    <3>2. b.receipts[n].gen = b.last /\ n \in 1..n
      BY <1>1, <1>2, <2>1 DEF WindowOf
    <3>3. b.receipts[i].gen <= b.receipts[n].gen
      BY <1>1, <1>2, <2>1, <3>2, BillFields DEF WindowOf
    <3>4. QED
      BY <1>2, <2>1, <3>1, <3>2, <3>3
  <2>3. CASE j # n + 1
    <3>1. j \in 1..n
      BY <1>2, <2>3
    <3>2. rs[j] = b.receipts[j]
      BY <1>8, <3>1
    <3>3. QED
      BY <1>1, <2>1, <3>1, <3>2 DEF WindowOf
  <2>4. QED
    BY <2>2, <2>3
<1>14. WindowOf(q, r, g)
  <2>1. \A v \in Payers(r) : g[v] <= q.last
    <3> TAKE v \in Payers(r)
    <3>1. CASE v = w
      BY <1>11, <3>1
    <3>2. CASE v # w
      <4>1. v \in Payers(p) /\ v \in Workers
        BY <1>4, <3>2 DEF Payers
      <4>2. g[v] <= b.last
        BY <1>1, <4>1 DEF WindowOf
      <4>3. QED
        BY <1>2, <1>11, <4>1, <4>2
    <3>3. QED
      BY <3>1, <3>2
  <2>2. q.receipts[Len(q.receipts)].gen = q.last
    <3>1. Len(q.receipts) = n + 1 - k /\ n + 1 - k \in 1..(n + 1 - k) /\ n + 1 - k + k = n + 1
      BY <1>2, <1>10, <1>11
    <3>2. q.receipts[Len(q.receipts)] = rs[n + 1]
      BY <1>10, <1>11, <3>1
    <3>3. QED
      BY <1>8, <1>11, <3>2 DEF x
  <2>3. \A i \in 1..Len(q.receipts) : i + k \in 1..n + 1 /\ q.receipts[i] = rs[i + k]
    BY <1>2, <1>10, <1>11
  <2>4. \A i, j \in 1..Len(q.receipts) : i < j => i + k < j + k
    BY <1>2, <1>10, <1>11
  <2>5. \A i, j \in 1..Len(q.receipts) : i < j => q.receipts[i].gen < q.receipts[j].gen
    BY <1>13, <2>3, <2>4
  <2>6. \A i \in 1..Len(q.receipts) : \E v \in Payers(r) : ReceiptOf(q.receipts[i], v, r, g)
    BY <1>12, <2>3
  <2>7. Len(q.receipts) <= ReceiptLimit /\ Len(q.receipts) # 0
    BY <1>2, <1>10, <1>11
  <2>8. QED
    BY <2>1, <2>2, <2>5, <2>6, <2>7 DEF WindowOf
<1>15. q.quanta = Cardinality(Payers(r)) /\ q.truncated = q.quanta - Len(q.receipts)
  <2>1. IsFiniteSet(Payers(p))
    BY BillConstants, FS_Subset DEF Payers
  <2>2. Cardinality(Payers(r)) = Cardinality(Payers(p)) + 1
    BY <1>3, <1>4, <2>1, FS_AddElement
  <2>3. b.quanta = Cardinality(Payers(p)) /\ b.truncated = b.quanta - n
    BY DEF BillOf
  <2>4. n \in Nat /\ b.quanta \in Nat /\ b.truncated \in Nat /\ k \in {0, 1}
    BY <1>2
  <2>5. Len(q.receipts) = n + 1 - k /\ q.truncated = b.truncated + k /\ q.quanta = b.quanta + 1
    BY <1>10, <1>11
  <2> HIDE DEF n
  <2>6. q.quanta - Len(q.receipts) = b.quanta - n + k
    BY <2>4, <2>5
  <2>7. QED
    BY <2>2, <2>3, <2>4, <2>5, <2>6
<1>16. \A v \in Payers(r) : g[v] > 0
  BY <1>2, <1>4 DEF BillOf, Payers
<1>17. QED
  BY <1>11, <1>14, <1>15, <1>16 DEF BillOf, q, r

\* The merged bill, whichever branch is taken: the charge is in it, or it is
\* the replay of an older generation and nothing changes.
LEMMA MergeOf ==
    ASSUME NEW g \in [Workers -> Nat], GensApart(g), NEW p \in Payments, NEW b,
           BillOf(b, p, g), NEW w \in Workers, NEW u \in Usages \cup {NoUsage}
    PROVE  \/ BillOf(Merge(b, g[w], u), Raise(p, w, u), g)
           \/ /\ Merge(b, g[w], u) = b /\ g[w] <= b.last
              /\ \A i \in 1..Len(b.receipts) : b.receipts[i].gen # g[w]
<1> DEFINE at == {i \in DOMAIN b.receipts : b.receipts[i].gen = g[w]}
<1>1. /\ b \in Bills /\ DOMAIN b.receipts = 1..Len(b.receipts) /\ b.last \in Nat
      /\ Len(b.receipts) \in Nat
  BY BillFields DEF BillOf
<1>2. CASE u = NoUsage
  <2>1. Merge(b, g[w], u) = b
    BY <1>2 DEF Merge
  <2>2. Raise(p, w, u) = p
    <3>1. p[w] >= NoUsage
      BY BillConstants, AmountTypes
    <3>2. Max({p[w], u}) = p[w]
      BY <1>2, <3>1, AmountTypes, MaxPair, BillConstants
    <3>3. QED
      BY <3>2 DEF Raise, Payments
  <2>3. QED
    BY <2>1, <2>2
<1>3. CASE u # NoUsage /\ at # {}
  <2>1. PICK i \in at : TRUE
    BY <1>3
  <2>2. \A j \in at : j = i
    <3> TAKE j \in at
    <3>1. i \in 1..Len(b.receipts) /\ j \in 1..Len(b.receipts)
      BY <1>1, <2>1
    <3>2. ~(i < j) /\ ~(j < i)
      BY <1>1, <2>1, <3>1, BillFields DEF BillOf, WindowOf
    <3>3. QED
      BY <1>1, <3>1, <3>2
  <2>3. Min(at) = i
    <3>1. i \in at /\ \A y \in at : i <= y
      BY <1>1, <2>1, <2>2
    <3> HIDE DEF at
    <3>2. QED
      BY <2>2, <3>1 DEF Min
  <2>4. Merge(b, g[w], u) = MergeExisting(b, i, BillingCost(u))
    BY <1>3, <2>3 DEF Merge
  <2>5. QED
    BY <1>1, <1>3, <2>1, <2>4, ExistingOf
<1>4. CASE u # NoUsage /\ at = {} /\ g[w] > b.last
  <2>1. Merge(b, g[w], u) = AddQuantum(b, g[w], BillingCost(u))
    BY <1>4 DEF Merge
  <2>2. QED
    BY <1>4, <2>1, QuantumOf
<1>5. CASE u # NoUsage /\ at = {} /\ ~(g[w] > b.last)
  <2>1. Merge(b, g[w], u) = b
    BY <1>5 DEF Merge
  <2>2. QED
    BY <1>1, <1>5, <2>1
<1>6. QED
  BY <1>2, <1>3, <1>4, <1>5

\* The same charge on top of more.
LEMMA RaiseOrder ==
    ASSUME NEW p \in Payments, NEW r \in Payments, \A v \in Workers : p[v] <= r[v],
           NEW w \in Workers, NEW u \in Usages \cup {NoUsage}
    PROVE  /\ Raise(p, w, u) \in Payments /\ Raise(r, w, u) \in Payments
           /\ \A v \in Workers : Raise(p, w, u)[v] <= Raise(r, w, u)[v]
           /\ \A v \in Workers : p[v] <= Raise(r, w, u)[v]
<1>1. Raise(p, w, u) \in Payments /\ Raise(r, w, u) \in Payments
  BY RaiseFacts
<1>2. ASSUME NEW v \in Workers
      PROVE  Raise(p, w, u)[v] <= Raise(r, w, u)[v] /\ p[v] <= Raise(r, w, u)[v]
  <2>1. p[v] \in Int /\ r[v] \in Int /\ p[v] <= r[v]
    BY AmountTypes
  <2>2. u \in Int
    BY BillingAssumption DEF Usages, NoUsage
  <2>3. CASE v = w
    <3>1. /\ Raise(p, w, u)[w] = IF p[w] >= u THEN p[w] ELSE u
          /\ Raise(r, w, u)[w] = IF r[w] >= u THEN r[w] ELSE u
      BY RaiseFacts
    <3>2. QED
      BY <2>1, <2>2, <2>3, <3>1
  <2>4. CASE v # w
    <3>1. Raise(p, w, u)[v] = p[v] /\ Raise(r, w, u)[v] = r[v]
      BY <2>4, RaiseFacts
    <3>2. QED
      BY <2>1, <3>1
  <2>5. QED
    BY <2>3, <2>4
<1>3. QED
  BY <1>1, <1>2

\* An envelope is never above what was paid with the sender's usage on top.
LEMMA MergeBelow ==
    ASSUME NEW g \in [Workers -> Nat], GensApart(g), NEW p \in Payments, NEW b,
           BillOf(b, p, g), NEW w \in Workers, NEW u \in Usages \cup {NoUsage},
           NEW r \in Payments, \A v \in Workers : p[v] <= r[v]
    PROVE  /\ Merge(b, g[w], u).cost \in 0..CostLimit
           /\ Merge(b, g[w], u).cost <= BillingCost(Total(Raise(r, w, u)))
<1>1. /\ Raise(p, w, u) \in Payments /\ Raise(r, w, u) \in Payments
      /\ \A v \in Workers : Raise(p, w, u)[v] <= Raise(r, w, u)[v]
      /\ \A v \in Workers : p[v] <= Raise(r, w, u)[v]
  BY RaiseOrder
<1>2. CASE BillOf(Merge(b, g[w], u), Raise(p, w, u), g)
  BY <1>1, <1>2, TotalOrder, BillFields DEF BillOf
<1>3. CASE Merge(b, g[w], u) = b
  BY <1>1, <1>3, TotalOrder, BillFields DEF BillOf
<1>4. QED
  BY <1>2, <1>3, MergeOf

\* The holder of the present generation gets its charge into the bill.
LEMMA MergeByOwner ==
    ASSUME NEW g \in [Workers -> Nat], GensApart(g), NEW p \in Payments, NEW b,
           BillOf(b, p, g), NEW w \in Workers, NEW u \in Usages \cup {NoUsage},
           g[w] > 0, \A v \in Workers : g[v] <= g[w]
    PROVE  BillOf(Merge(b, g[w], u), Raise(p, w, u), g)
<1>1. b \in Bills /\ Len(b.receipts) \in Nat /\ b.last \in Nat
  BY BillFields DEF BillOf
<1>2. CASE Len(b.receipts) = 0
  <2>1. b.last = 0
    BY <1>2 DEF BillOf, WindowOf
  <2>2. QED
    BY <2>1, MergeOf
<1>3. CASE Len(b.receipts) # 0
  <2> DEFINE n == Len(b.receipts)
  <2>1. n \in 1..n /\ b.receipts[n].gen = b.last
    BY <1>1, <1>3 DEF BillOf, WindowOf
  <2>2. PICK v \in Payers(p) : ReceiptOf(b.receipts[n], v, p, g)
    BY <2>1 DEF BillOf, WindowOf
  <2>3. v \in Workers /\ b.last = g[v] /\ g[v] <= g[w]
    BY <2>1, <2>2 DEF Payers, ReceiptOf
  <2>4. QED
    BY <2>1, <2>3, MergeOf
<1>4. QED
  BY <1>2, <1>3

\* A claim gives a generation to a quantum that has paid nothing yet.
LEMMA ClaimedBill ==
    ASSUME NEW g \in [Workers -> Nat], NEW h \in [Workers -> Nat], NEW p \in Payments,
           NEW b, BillOf(b, p, g), NEW w \in Workers, g[w] = 0,
           \A v \in Workers : v # w => h[v] = g[v]
    PROVE  BillOf(b, p, h)
<1>1. \A v \in Payers(p) : h[v] = g[v]
  BY DEF BillOf, Payers
<1>2. QED
  BY <1>1 DEF BillOf, WindowOf, ReceiptOf

-----------------------------------------------------------------------------
(* The steps. *)

\* Any values of the columns make a row.
LEMMA RowChange ==
    \A s \in {"running", "verifying", "waiting_event", "terminal"}, v \in Nat, g \in Nat,
       t \in Workers \cup {NoOne} :
         [status |-> s, version |-> v, gen |-> g, token |-> t] \in MissionRows
BY DEF MissionRows

\* The columns of a row.
LEMMA RowFields ==
    ASSUME NEW r \in MissionRows
    PROVE  /\ r.status \in {"running", "verifying", "waiting_event", "terminal"}
           /\ r.version \in Nat /\ r.gen \in Nat /\ r.token \in Workers \cup {NoOne}
BY DEF MissionRows

\* Steps of w that leave row, bill and payments alone: reads, the provider
\* quantum, an exception, an answer of the seal, the end of the process.
LEMMA LookInv ==
    ASSUME BillInv, NEW w \in Workers, pc[w] \notin {"idle", "done"},
           NEW s \in Steps \ {"idle"}, Goto(w, s),
           UNCHANGED <<row, bill, gen, paid>>,
           UNCHANGED seen \/ See(w),
           \/ /\ UNCHANGED envelope
              /\ \/ UNCHANGED usage
                 \/ \E u \in Usages \cup {NoUsage} : usage' = [usage EXCEPT ![w] = u]
           \/ /\ UNCHANGED usage /\ s = "done"
              /\ \E b \in {bill, seen[w].bill} :
                   envelope' = [envelope EXCEPT ![w] = Merge(b, gen[w], usage[w]).cost]
    PROVE  BillInv'
<1>1. /\ BillTypes /\ Claims /\ BillOf(bill, paid, gen)
      /\ \A v \in Workers : Snapshot(v) /\ Reported(v)
  BY DEF BillInv
<1>2. /\ row \in MissionRows /\ bill \in Bills /\ gen \in [Workers -> Nat]
      /\ paid \in Payments /\ GensApart(gen) /\ usage[w] \in Usages \cup {NoUsage}
      /\ row.version \in Nat
  BY <1>1 DEF BillTypes, Claims, Payments, MissionRows
<1>3. pc' \in [Workers -> Steps] /\ pc'[w] = s /\ \A v \in Workers : v # w => pc'[v] = pc[v]
  BY <1>1 DEF BillTypes, Goto
<1>4. \A b \in {bill, seen[w].bill} :
        /\ Merge(b, gen[w], usage[w]).cost \in 0..CostLimit
        /\ Merge(b, gen[w], usage[w]).cost <= BillingCost(Total(Raise(paid, w, usage[w])))
  <2>1. \A v \in Workers : paid[v] <= paid[v]
    BY <1>2, AmountTypes
  <2>2. PICK p \in Payments : /\ BillOf(seen[w].bill, p, gen)
                              /\ \A v \in Workers : p[v] <= paid[v]
    BY <1>1 DEF Snapshot
  <2>3. QED
    BY <1>1, <1>2, <2>1, <2>2, MergeBelow
<1>5. /\ usage' \in [Workers -> Usages \cup {NoUsage}]
      /\ envelope' \in [Workers -> 0..CostLimit \cup {NoUsage}]
      /\ \A v \in Workers : v # w => usage'[v] = usage[v] /\ envelope'[v] = envelope[v]
      /\ \/ envelope'[w] = envelope[w]
         \/ /\ usage'[w] = usage[w] /\ s = "done"
            /\ envelope'[w] <= BillingCost(Total(Raise(paid, w, usage[w])))
  BY <1>1, <1>4 DEF BillTypes
<1>6. /\ seen' \in [Workers -> [row: MissionRows, bill: Bills]]
      /\ \A v \in Workers : v # w => seen'[v] = seen[v]
      /\ seen'[w] = seen[w] \/ seen'[w] = [row |-> row, bill |-> bill]
  BY <1>1, <1>2 DEF BillTypes, See
<1>7. BillTypes'
  BY <1>1, <1>3, <1>5, <1>6 DEF BillTypes
<1>8. Claims'
  BY <1>1, <1>3 DEF Claims
<1>9. ASSUME NEW v \in Workers PROVE Snapshot(v)'
  <2>1. CASE seen'[v] = seen[v]
    BY <1>1, <2>1 DEF Snapshot
  <2>2. CASE seen'[v] = [row |-> row, bill |-> bill]
    <3>1. \A x \in Workers : paid[x] <= paid[x]
      BY <1>2, AmountTypes
    <3>2. \E p \in Payments : BillOf(bill, p, gen) /\ \A x \in Workers : p[x] <= paid[x]
      BY <1>1, <1>2, <3>1
    <3>3. QED
      BY <1>2, <2>2, <3>2 DEF Snapshot
  <2>3. QED
    BY <1>6, <2>1, <2>2
<1>10. ASSUME NEW v \in Workers PROVE Reported(v)'
  <2>1. CASE v # w
    BY <1>1, <1>3, <1>5, <2>1 DEF Reported
  <2>2. CASE v = w
    <3>1. envelope[w] = NoUsage
      BY <1>1 DEF Reported
    <3>2. QED
      BY <1>3, <1>5, <2>2, <3>1 DEF Reported
  <2>3. QED
    BY <2>1, <2>2
<1>11. QED
  BY <1>1, <1>7, <1>8, <1>9, <1>10 DEF BillInv

\* A CAS that fits under the lease writes the bill that was read with the usage
\* of w merged in, and moves the version.
LEMMA WriteInv ==
    ASSUME BillInv, NEW w \in Workers, pc[w] \notin {"idle", "done"},
           NEW s \in Steps \ {"idle"}, Goto(w, s), CasFits(w), WriteBill(w),
           row' \in MissionRows, row'.version = row.version + 1, row'.gen >= row.gen,
           UNCHANGED <<gen, usage, seen>>,
           \/ UNCHANGED envelope
           \/ /\ s = "done"
              /\ envelope' = [envelope EXCEPT ![w] = Merge(seen[w].bill, gen[w], usage[w]).cost]
    PROVE  BillInv'
<1>1. /\ BillTypes /\ Claims /\ BillOf(bill, paid, gen)
      /\ \A v \in Workers : Snapshot(v) /\ Reported(v)
  BY DEF BillInv
<1>2. /\ row \in MissionRows /\ row.version \in Nat /\ row.gen \in Nat /\ row'.gen \in Nat
      /\ bill \in Bills /\ gen \in [Workers -> Nat] /\ paid \in Payments /\ GensApart(gen)
      /\ usage[w] \in Usages \cup {NoUsage}
  BY <1>1 DEF BillTypes, Claims, Payments, MissionRows
<1>3. pc' \in [Workers -> Steps] /\ pc'[w] = s /\ \A v \in Workers : v # w => pc'[v] = pc[v]
  BY <1>1 DEF BillTypes, Goto
<1>4. /\ seen[w].bill = bill /\ paid' = Raise(paid, w, usage[w])
      /\ bill' = Merge(bill, gen[w], usage[w])
  BY <1>1 DEF Snapshot, CasFits, WriteBill, Raise
<1>5. gen[w] = row.gen /\ gen[w] > 0 /\ \A v \in Workers : gen[v] <= gen[w]
  BY <1>1, <1>2 DEF CasFits, Owner, Claims
<1>6. BillOf(bill', paid', gen)
  BY <1>1, <1>2, <1>4, <1>5, MergeByOwner
<1>7. /\ paid' \in Payments /\ \A v \in Workers : paid[v] <= paid'[v]
      /\ \A v \in Workers : v # w => paid'[v] = paid[v]
      /\ Raise(paid', w, usage[w]) = paid'
  <2>1. /\ paid' \in Payments /\ \A v \in Workers : paid[v] <= paid'[v]
        /\ \A v \in Workers : v # w => paid'[v] = paid[v]
        /\ paid'[w] = IF paid[w] >= usage[w] THEN paid[w] ELSE usage[w]
    BY <1>2, <1>4, RaiseFacts
  <2>2. paid'[w] \in Int /\ usage[w] \in Int /\ paid[w] \in Int
    BY <1>2, <2>1, AmountTypes, BillingAssumption DEF Usages, NoUsage
  <2>3. Max({paid'[w], usage[w]}) = paid'[w]
    BY <2>1, <2>2, MaxPair
  <2>4. QED
    BY <2>1, <2>3 DEF Raise, Payments
<1>8. /\ Merge(bill, gen[w], usage[w]).cost \in 0..CostLimit
      /\ Merge(bill, gen[w], usage[w]).cost <= BillingCost(Total(Raise(paid', w, usage[w])))
  BY <1>1, <1>2, <1>7, MergeBelow
<1>9. /\ envelope' \in [Workers -> 0..CostLimit \cup {NoUsage}]
      /\ \A v \in Workers : v # w => envelope'[v] = envelope[v]
      /\ envelope'[w] # envelope[w] =>
           s = "done" /\ envelope'[w] <= BillingCost(Total(Raise(paid', w, usage[w])))
  BY <1>1, <1>4, <1>8 DEF BillTypes
<1>10. BillTypes'
  <2>1. bill' \in Bills /\ Len(bill'.receipts) <= ReceiptLimit
    BY <1>6 DEF BillOf, WindowOf
  <2>2. QED
    BY <1>1, <1>3, <1>7, <1>9, <2>1 DEF BillTypes, Payments
<1>11. Claims'
  <2>1. \A v \in Workers : gen[v] <= row'.gen
    BY <1>2, <1>5
  <2>2. QED
    BY <1>1, <1>3, <2>1 DEF Claims
<1>12. ASSUME NEW v \in Workers PROVE Snapshot(v)'
  <2>1. PICK p \in Payments : /\ BillOf(seen[v].bill, p, gen)
                              /\ \A x \in Workers : p[x] <= paid[x]
    BY <1>1 DEF Snapshot
  <2>2. \A x \in Workers : p[x] <= paid'[x]
    <3>1. \A x \in Workers : p[x] \in Int /\ paid[x] \in Int /\ paid'[x] \in Int
      BY <1>2, <1>7, AmountTypes
    <3>2. QED
      BY <1>7, <2>1, <3>1
  <2>3. seen[v].row.version <= row.version /\ seen[v].row.version \in Nat
    BY <1>1 DEF Snapshot, BillTypes, MissionRows
  <2>4. seen[v].row.version < row'.version
    BY <1>2, <2>3
  <2>5. seen[v].row.version <= row'.version /\ seen[v].row.version # row'.version
    BY <1>2, <2>3
  <2>6. QED
    BY <2>1, <2>2, <2>5 DEF Snapshot
<1>13. ASSUME NEW v \in Workers PROVE Reported(v)'
  <2>1. CASE v # w
    <3>1. envelope[v] # NoUsage =>
            pc[v] = "done" /\ envelope[v] <= BillingCost(Total(Raise(paid, v, usage[v])))
      BY <1>1 DEF Reported
    <3>2. /\ usage[v] \in Usages \cup {NoUsage} /\ usage[v] \in Int
          /\ envelope[v] \in 0..CostLimit \cup {NoUsage} /\ envelope[v] \in Int
      BY <1>1, BillingAssumption DEF BillTypes, Usages, NoUsage
    <3>3. /\ Raise(paid, v, usage[v]) \in Payments /\ Raise(paid', v, usage[v]) \in Payments
          /\ \A x \in Workers : Raise(paid, v, usage[v])[x] <= Raise(paid', v, usage[v])[x]
      BY <1>2, <1>7, <3>2, RaiseOrder
    <3>4. BillingCost(Total(Raise(paid, v, usage[v]))) <= BillingCost(Total(Raise(paid', v, usage[v])))
      BY <3>3, TotalOrder
    <3>5. /\ BillingCost(Total(Raise(paid, v, usage[v]))) \in 0..CostLimit
          /\ BillingCost(Total(Raise(paid', v, usage[v]))) \in 0..CostLimit
      BY <3>3, AmountTypes, CostIs
    <3>6. envelope[v] # NoUsage => envelope[v] <= BillingCost(Total(Raise(paid', v, usage[v])))
      BY <3>1, <3>2, <3>4, <3>5
    <3>7. QED
      BY <1>3, <1>9, <2>1, <3>1, <3>6 DEF Reported
  <2>2. CASE v = w
    <3>1. envelope[w] = NoUsage
      BY <1>1 DEF Reported
    <3>2. QED
      BY <1>3, <1>9, <2>2, <3>1 DEF Reported
  <2>3. QED
    BY <2>1, <2>2
<1>14. QED
  BY <1>6, <1>10, <1>11, <1>12, <1>13 DEF BillInv

\* A claim moves the generation past every earlier one.
LEMMA ClaimInv == ASSUME BillInv, NEW w \in Workers, Claim(w) PROVE BillInv'
<1>1. /\ BillTypes /\ Claims /\ BillOf(bill, paid, gen)
      /\ \A v \in Workers : Snapshot(v) /\ Reported(v)
  BY DEF BillInv
<1>2. /\ row \in MissionRows /\ row.version \in Nat /\ row.gen \in Nat
      /\ gen \in [Workers -> Nat] /\ paid \in Payments /\ gen[w] = 0
  BY <1>1 DEF BillTypes, Claims, Payments, MissionRows, Claim
<1>3. /\ row' \in MissionRows /\ row'.gen = row.gen + 1 /\ row'.version = row.version
  <2>1. \E t \in {"running", "verifying", "waiting_event", "terminal"} :
          row' = [row EXCEPT !.token = w, !.gen = row.gen + 1, !.status = t]
    <3>1. row.status \in {"running", "verifying", "waiting_event", "terminal"}
      BY <1>2 DEF MissionRows
    <3>2. CASE row.status = "waiting_event"
      BY <3>2 DEF Claim
    <3>3. CASE row.status # "waiting_event"
      BY <3>1, <3>3 DEF Claim
    <3>4. QED
      BY <3>2, <3>3
  <2>2. PICK t \in {"running", "verifying", "waiting_event", "terminal"} :
          row' = [row EXCEPT !.token = w, !.gen = row.gen + 1, !.status = t]
    BY <2>1
  <2>3. row' = [status |-> t, version |-> row.version, gen |-> row.gen + 1, token |-> w]
    BY <1>2, <2>2 DEF MissionRows
  <2>4. row.gen + 1 \in Nat
    BY <1>2
  <2>5. QED
    BY <1>2, <2>3, <2>4, RowChange
<1>4. /\ gen' \in [Workers -> Nat] /\ gen'[w] = row.gen + 1
      /\ \A v \in Workers : v # w => gen'[v] = gen[v]
  BY <1>2 DEF Claim
<1>5. pc' \in [Workers -> Steps] /\ pc'[w] = "turn" /\ \A v \in Workers : v # w => pc'[v] = pc[v]
  BY <1>1 DEF Claim, Goto, BillTypes, Steps
<1>6. UNCHANGED <<bill, usage, seen, paid, envelope>>
  BY DEF Claim
<1>7. BillTypes'
  BY <1>1, <1>3, <1>4, <1>5, <1>6 DEF BillTypes
<1>8. Claims'
  <2>1. \A v \in Workers : gen[v] \in Nat /\ gen[v] <= row.gen /\ (pc[v] = "idle" <=> gen[v] = 0)
    BY <1>1, <1>2 DEF Claims
  <2>2. GensApart(gen')
    BY <1>1, <1>2, <1>4, <2>1 DEF Claims, GensApart
  <2>3. \A v \in Workers : gen'[v] <= row'.gen /\ (pc'[v] = "idle" <=> gen'[v] = 0)
    BY <1>2, <1>3, <1>4, <1>5, <2>1
  <2>4. QED
    BY <2>2, <2>3 DEF Claims, GensApart
<1>9. BillOf(bill, paid, gen')
  BY <1>1, <1>2, <1>4, ClaimedBill
<1>10. ASSUME NEW v \in Workers PROVE Snapshot(v)'
  <2>1. PICK p \in Payments : /\ BillOf(seen[v].bill, p, gen)
                              /\ \A x \in Workers : p[x] <= paid[x]
    BY <1>1 DEF Snapshot
  <2>2. BillOf(seen[v].bill, p, gen')
    BY <1>2, <1>4, <2>1, ClaimedBill
  <2>3. QED
    BY <1>1, <1>3, <1>6, <2>1, <2>2 DEF Snapshot
<1>11. ASSUME NEW v \in Workers PROVE Reported(v)'
  <2>1. pc[w] = "idle" /\ Reported(v)
    BY <1>1 DEF Claim
  <2>2. QED
    BY <1>5, <1>6, <2>1 DEF Reported
<1>12. QED
  BY <1>6, <1>7, <1>8, <1>9, <1>10, <1>11 DEF BillInv

\* A release by CAS: version and generation move on, the token is gone.
LEMMA ReleaseRow ==
    ASSUME row \in MissionRows, NEW to \in {"waiting_event", "terminal"}, Release(to)
    PROVE  row' \in MissionRows /\ row'.version = row.version + 1 /\ row'.gen >= row.gen
<1>1. row.version \in Nat /\ row.gen \in Nat
  BY RowFields
<1>2. row' = [status |-> to, version |-> row.version + 1, gen |-> row.gen + 1,
              token |-> NoOne]
  BY DEF Release, MissionRows
<1>3. row.version + 1 \in Nat /\ row.gen + 1 \in Nat /\ row.gen + 1 >= row.gen
  BY <1>1
<1>4. QED
  BY <1>2, <1>3, RowChange

\* Which step is of which kind.
LEMMA BillStep == BillInv /\ [BillNext]_billVars => BillInv'
<1> SUFFICES ASSUME BillInv, [BillNext]_billVars PROVE BillInv'
  OBVIOUS
<1>0. row \in MissionRows /\ \A v \in Workers : seen[v].row \in MissionRows
  BY DEF BillInv, BillTypes
<1>1. CASE UNCHANGED billVars
  <2>1. BillTypes' /\ Claims' /\ BillOf(bill, paid, gen)'
    BY <1>1 DEF billVars, BillInv, BillTypes, Claims
  <2>2. \A w \in Workers : Snapshot(w)' /\ Reported(w)'
    BY <1>1 DEF billVars, BillInv, Snapshot, Reported
  <2>3. QED
    BY <2>1, <2>2 DEF BillInv
<1>2. ASSUME NEW w \in Workers, Turn(w) PROVE BillInv'
  <2>1. PICK s \in {"load", "errload"} : Goto(w, s)
    BY <1>2 DEF Turn
  <2>2. s \in Steps \ {"idle"}
    BY <2>1 DEF Steps
  <2>3. QED
    BY <1>2, <2>1, <2>2, LookInv DEF Turn
<1>3. ASSUME NEW w \in Workers, NEW next \in Steps \ {"idle"}, pc[w] \notin {"idle", "done"},
             ReadOrReturn(w, next), UNCHANGED <<row, bill, gen, usage, paid>>
      PROVE  BillInv'
  <2>1. CASE See(w) /\ Goto(w, next) /\ UNCHANGED envelope
    BY <1>3, <2>1, LookInv
  <2>2. CASE Return(w, bill) /\ UNCHANGED seen
    <3>1. "done" \in Steps \ {"idle"}
      BY DEF Steps
    <3>2. QED
      BY <1>3, <2>2, <3>1, LookInv DEF Return
  <2>3. QED
    BY <1>3, <2>1, <2>2 DEF ReadOrReturn
<1>4. ASSUME NEW w \in Workers, Load(w) \/ Fresh(w) \/ PreCommit(w) PROVE BillInv'
  <2>1. {"beat", "toverify", "seal"} \subseteq Steps \ {"idle"}
    BY DEF Steps
  <2>2. QED
    BY <1>3, <1>4, <2>1 DEF Load, Fresh, PreCommit
<1>5. ASSUME NEW w \in Workers, Beat(w) PROVE BillInv'
  <2>1. "fresh" \in Steps \ {"idle"} /\ "done" \in Steps \ {"idle"}
    BY DEF Steps
  <2>2. CASE Goto(w, "fresh") /\ UNCHANGED envelope
    BY <1>5, <2>1, <2>2, LookInv DEF Beat
  <2>3. CASE Return(w, seen[w].bill)
    BY <1>5, <2>1, <2>3, LookInv DEF Beat, Return
  <2>4. QED
    BY <1>5, <2>2, <2>3 DEF Beat
<1>6. ASSUME NEW w \in Workers, ToVerifying(w) PROVE BillInv'
  <2>1. "precommit" \in Steps \ {"idle"} /\ "reload" \in Steps \ {"idle"}
    BY DEF Steps
  <2>2. CASE /\ CasFits(w) /\ row' = [row EXCEPT !.status = "verifying", !.version = @ + 1]
             /\ WriteBill(w) /\ Goto(w, "precommit")
    <3>1. row' \in MissionRows /\ row'.version = row.version + 1 /\ row'.gen >= row.gen
      <4>1. row.version \in Nat /\ row.gen \in Nat /\ row.token \in Workers \cup {NoOne}
        BY <1>0, RowFields
      <4>2. row' = [status |-> "verifying", version |-> row.version + 1, gen |-> row.gen,
                    token |-> row.token]
        BY <1>0, <2>2 DEF MissionRows
      <4>3. row.version + 1 \in Nat /\ row.gen >= row.gen
        BY <4>1
      <4>4. QED
        BY <4>1, <4>2, <4>3, RowChange
    <3>2. QED
      BY <1>6, <2>1, <2>2, <3>1, WriteInv DEF ToVerifying
  <2>3. CASE Goto(w, "reload") /\ UNCHANGED <<row, bill, paid>>
    BY <1>6, <2>1, <2>3, LookInv DEF ToVerifying
  <2>4. CASE Goto(w, "precommit") /\ UNCHANGED <<row, bill, paid>>
    BY <1>6, <2>1, <2>4, LookInv DEF ToVerifying
  <2>5. QED
    BY <1>6, <2>2, <2>3, <2>4 DEF ToVerifying
<1>7. ASSUME NEW w \in Workers, Seal(w) PROVE BillInv'
  <2>1. "done" \in Steps \ {"idle"} /\ "reload" \in Steps \ {"idle"}
    BY DEF Steps
  <2>2. CASE CasFits(w) /\ Release("terminal") /\ WriteBill(w) /\ Return(w, seen[w].bill)
    <3>1. row' \in MissionRows /\ row'.version = row.version + 1 /\ row'.gen >= row.gen
      BY <1>0, <2>2, ReleaseRow
    <3>2. QED
      BY <1>7, <2>1, <2>2, <3>1, WriteInv DEF Seal, Return
  <2>3. CASE /\ CasFits(w) /\ Release("waiting_event") /\ WriteBill(w)
             /\ Goto(w, "reload") /\ UNCHANGED envelope
    <3>1. row' \in MissionRows /\ row'.version = row.version + 1 /\ row'.gen >= row.gen
      BY <1>0, <2>3, ReleaseRow
    <3>2. QED
      BY <1>7, <2>1, <2>3, <3>1, WriteInv DEF Seal
  <2>4. CASE Goto(w, "reload") /\ UNCHANGED <<row, bill, paid, envelope>>
    BY <1>7, <2>1, <2>4, LookInv DEF Seal
  <2>5. QED
    BY <1>7, <2>2, <2>3, <2>4 DEF Seal
<1>8. ASSUME NEW w \in Workers, Reload(w) PROVE BillInv'
  <2>1. "done" \in Steps \ {"idle"}
    BY DEF Steps
  <2>2. QED
    BY <1>8, <2>1, LookInv DEF Reload, Return
<1>9. ASSUME NEW w \in Workers, StepRaises(w) PROVE BillInv'
  <2>1. "errload" \in Steps \ {"idle"}
    BY DEF Steps
  <2>2. QED
    BY <1>9, <2>1, LookInv DEF StepRaises
<1>10. ASSUME NEW w \in Workers, ErrLoad(w) \/ Die(w) PROVE BillInv'
  <2>1. "done" \in Steps \ {"idle"} /\ "errrelease" \in Steps \ {"idle"}
    BY DEF Steps
  <2>2. QED
    BY <1>10, <2>1, LookInv DEF ErrLoad, Die
<1>11. ASSUME NEW w \in Workers, ErrRelease(w) PROVE BillInv'
  <2>1. "done" \in Steps \ {"idle"}
    BY DEF Steps
  <2>2. CASE CasFits(w) /\ Release("waiting_event") /\ WriteBill(w)
    <3>1. row' \in MissionRows /\ row'.version = row.version + 1 /\ row'.gen >= row.gen
      BY <1>0, <2>2, ReleaseRow
    <3>2. QED
      BY <1>11, <2>1, <2>2, <3>1, WriteInv DEF ErrRelease
  <2>3. CASE UNCHANGED <<row, bill, paid>>
    BY <1>11, <2>1, <2>3, LookInv DEF ErrRelease
  <2>4. QED
    BY <1>11, <2>2, <2>3 DEF ErrRelease
<1>12. QED
  BY <1>1, <1>2, <1>4, <1>5, <1>6, <1>7, <1>8, <1>9, <1>10, <1>11, ClaimInv DEF BillNext

\* An empty bill is the bill of no payments.
LEMMA BillStart == BillInit => BillInv
<1> SUFFICES ASSUME BillInit PROVE BillInv
  OBVIOUS
<1>1. /\ NewRow \in MissionRows /\ EmptyBill \in Bills /\ "idle" \in Steps
      /\ Len(EmptyBill.receipts) = 0 /\ EmptyBill.last = 0 /\ EmptyBill.cost = 0
      /\ EmptyBill.quanta = 0 /\ EmptyBill.truncated = 0
      /\ NewRow.version = 0 /\ NewRow.gen = 0
  BY BillConstants DEF NewRow, MissionRows, EmptyBill, Bills, Steps
<1>2. BillTypes
  BY <1>1, BillConstants DEF BillInit, BillTypes
<1>3. paid \in Payments /\ Payers(paid) = {} /\ \A v \in Workers : Amounts(paid)[v] = 0
  BY DEF BillInit, Payments, Payers, Amounts
<1>4. Total(paid) = 0 /\ BillingCost(0) = 0
  BY <1>3, BillConstants, SumZero, CostIs DEF Total
<1>5. BillOf(EmptyBill, paid, gen)
  BY <1>1, <1>3, <1>4, FS_EmptySet, BillConstants DEF BillOf, WindowOf
<1>6. Claims
  BY <1>1 DEF BillInit, Claims, GensApart
<1>7. ASSUME NEW w \in Workers PROVE Snapshot(w) /\ Reported(w)
  <2>1. \A v \in Workers : paid[v] <= paid[v]
    BY <1>3, AmountTypes
  <2>2. seen[w].row = NewRow /\ seen[w].bill = EmptyBill /\ row = NewRow /\ bill = EmptyBill
    BY DEF BillInit
  <2>3. Snapshot(w)
    BY <1>1, <1>3, <1>5, <2>1, <2>2 DEF Snapshot
  <2>4. QED
    BY <2>3 DEF BillInit, Reported
<1>8. QED
  BY <1>2, <1>5, <1>6, <1>7 DEF BillInv, BillInit

-----------------------------------------------------------------------------
(* The theorems about the bill. *)

\* The inductive invariant of the mission's bill: the durable bill is that of the
\* payments made, every bill that was read is that of earlier ones and the present
\* one while the version stands, and an answer counts its sender's usage once.
THEOREM BillInvariant == BillSpec => []BillInv
BY BillStart, BillStep, PTL DEF BillSpec

\* Rows, bills and payments keep their types, and a bill never keeps more than
\* _BILLING_RECEIPT_LIMIT receipts.
THEOREM BillTypeCorrect == BillSpec => []BillTypes
<1>1. BillInv => BillTypes
  BY DEF BillInv
<1>2. QED
  BY <1>1, BillInvariant, PTL

\* The bill of merge_mission_billing is the saturated sum of what each quantum
\* got written, for any number of takeovers, replays and crashes, any window of
\* receipts and any limit.
THEOREM BillExactHolds == BillSpec => []BillExact
<1>1. BillInv => BillExact
  <2> SUFFICES ASSUME BillInv PROVE BillExact
    OBVIOUS
  <2>1. BillOf(bill, paid, gen) /\ paid \in Payments
    BY DEF BillInv, BillTypes, Payments
  <2>2. Payers(paid) = Charged
    BY DEF Payers, Charged
  <2>3. SumFunctionOnSet(paid, Charged) = Total(paid)
    <3>1. \A x \in Charged : paid[x] \in Int
      BY <2>1, <2>2, AmountTypes
    <3>2. Charged \in SUBSET Workers
      BY DEF Charged
    <3>3. \A x \in Workers : Amounts(paid)[x] = IF x \in Charged THEN paid[x] ELSE 0
      BY DEF Amounts, Charged
    <3>4. QED
      BY <3>1, <3>2, <3>3, BillConstants, SumPart DEF Total
  <2>4. QED
    BY <2>1, <2>2, <2>3 DEF BillOf, BillExact
<1>2. QED
  BY <1>1, BillInvariant, PTL

\* No answer of a seal, stale or not, bills a quantum twice.
THEOREM EnvelopeNoDoubleHolds == BillSpec => []EnvelopeNoDouble
<1>1. BillInv => EnvelopeNoDouble
  <2> SUFFICES ASSUME BillInv, NEW w \in Workers
               PROVE  envelope[w] <= BillingCost(
                        SumFunction([v \in Workers |-> Max({usage[v], paid[v], 0})]))
    BY DEF EnvelopeNoDouble
  <2> DEFINE top == [v \in Workers |-> Max({usage[v], paid[v], 0})]
             r == Raise(paid, w, usage[w])
  <2>1. /\ paid \in Payments /\ \A v \in Workers : usage[v] \in Usages \cup {NoUsage}
        /\ envelope[w] \in 0..CostLimit \cup {NoUsage} /\ Reported(w)
    BY DEF BillInv, BillTypes, Payments
  <2>2. \A v \in Workers : usage[v] \in Int /\ paid[v] \in Int /\ paid[v] >= -1
    BY <2>1, AmountTypes, BillingAssumption DEF Usages, NoUsage
  <2>3. ASSUME NEW v \in Workers
        PROVE  top[v] \in Nat /\ top[v] >= usage[v] /\ top[v] >= paid[v]
    <3>1. \E m \in {usage[v], paid[v], 0} : \A y \in {usage[v], paid[v], 0} : m >= y
      BY <2>2
    <3>2. /\ Max({usage[v], paid[v], 0}) \in {usage[v], paid[v], 0}
          /\ \A y \in {usage[v], paid[v], 0} : Max({usage[v], paid[v], 0}) >= y
      BY <3>1 DEF Max
    <3>3. QED
      BY <2>2, <3>2
  <2>4. /\ r \in Payments /\ r[w] = (IF paid[w] >= usage[w] THEN paid[w] ELSE usage[w])
        /\ \A v \in Workers : v # w => r[v] = paid[v]
    BY <2>1, RaiseFacts
  <2> HIDE DEF top, r
  <2>5. \A v \in Workers : Amounts(r)[v] <= top[v]
    <3> TAKE v \in Workers
    <3>1. r[v] \in Int /\ (r[v] = paid[v] \/ r[v] = usage[v])
      BY <2>2, <2>4
    <3>2. QED
      BY <2>2, <2>3, <3>1 DEF Amounts
  <2>6. Total(r) <= SumFunctionOnSet(top, Workers) /\ SumFunctionOnSet(top, Workers) \in Nat
    BY <2>3, <2>4, <2>5, AmountTypes, BillConstants, SumLe, SumNat DEF Total
  <2>7. BillingCost(Total(r)) <= BillingCost(SumFunctionOnSet(top, Workers))
    BY <2>4, <2>6, AmountTypes, CostOrder
  <2>8. /\ BillingCost(Total(r)) \in 0..CostLimit
        /\ BillingCost(SumFunctionOnSet(top, Workers)) \in 0..CostLimit
    BY <2>4, <2>6, AmountTypes, CostIs
  <2>9. SumFunction(top) = SumFunctionOnSet(top, Workers)
    BY DEF SumFunction, top
  <2>10. CASE envelope[w] = NoUsage
    <3>1. envelope[w] = -1
      BY <2>10 DEF NoUsage
    <3>2. envelope[w] <= BillingCost(SumFunctionOnSet(top, Workers))
      BY <2>8, <3>1, BillConstants
    <3>3. QED
      BY <2>9, <3>2 DEF top
  <2>11. CASE envelope[w] # NoUsage
    <3>1. envelope[w] <= BillingCost(Total(r)) /\ envelope[w] \in 0..CostLimit
      BY <2>1, <2>11 DEF Reported, r
    <3>2. envelope[w] <= BillingCost(SumFunctionOnSet(top, Workers))
      BY <2>7, <2>8, <3>1, BillConstants
    <3>3. QED
      BY <2>9, <3>2 DEF top
  <2>12. QED
    BY <2>10, <2>11
<1>2. QED
  BY <1>1, BillInvariant, PTL

=============================================================================
