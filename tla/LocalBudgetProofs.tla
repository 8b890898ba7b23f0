-------------------------- MODULE LocalBudgetProofs --------------------------
(***************************************************************************)
(* Proofs about LocalBudget, for any operations, limit, costs, lease and   *)
(* number of days: metered work of a day is serial, the ledger never       *)
(* undercounts, and a day is overspent by less than one operation.         *)
(***************************************************************************)
EXTENDS LocalBudget, TLAPS

\* Where an operation may be, with a charge still to come, and before its row
\* is given back.
Places == {"new", "held", "release", "out", "settle", "adrift", "report", "over"}
InFlight == {"held", "out", "adrift"}
Open == InFlight \cup {"release", "settle"}

\* The day is closed for good: nobody holds it and nothing is left.
Exhausted(d) == ledger[d].made /\ ledger[d].token = NoOne /\ ledger[d].spent >= Limit

\* A day without a row has had no operation, and its row will start from at
\* least what was spent before.
Unmade(d) ==
    /\ before[d] <= telemetry[d]
    /\ ~ledger[d].made => charged[d] = 0 /\ ledger[d].token = NoOne

\* An operation that is not over holds its day, or the day was closed over its
\* expired lease.
Owns(o) ==
    op[o].at \in Open =>
        \/ ledger[op[o].day].made /\ ledger[op[o].day].token = o
        \/ Exhausted(op[o].day)

\* Before its own charge comes the day is below its limit.
Room(o) == op[o].at \in InFlight => before[op[o].day] + charged[op[o].day] < Limit

\* A row nobody holds covers the day's charges or closes the day; a held one
\* covers them together with the receipt its holder is about to settle.
Covers(d) ==
    LET row == ledger[d] IN
    /\ row.made /\ row.token = NoOne =>
         row.spent >= Limit \/ row.spent >= before[d] + charged[d]
    /\ row.token # NoOne =>
         /\ op[row.token].at \in Open \cup {"over"}
         /\ op[row.token].at \in Open \ {"settle"} => row.spent >= before[d] + charged[d]
         /\ op[row.token].at = "settle" /\ op[row.token].receipt >= 0
              => row.spent + op[row.token].receipt >= before[d] + charged[d]

\* Only a valid receipt is reported.
Valued(o) == op[o].at = "report" => op[o].receipt >= 0

\* The overspend of one day.
Bounded(d) == charged[d] > 0 => before[d] + charged[d] < Limit + MaxCost

BudgetInv ==
    /\ TypeOK
    /\ \A d \in Days : Unmade(d) /\ Covers(d) /\ Bounded(d)
    /\ \A o \in Ops : Owns(o) /\ Room(o) /\ Valued(o)
    /\ OneInFlight

-----------------------------------------------------------------------------
(* The first state. *)

LEMMA NewOpTyped == NewOp \in OpRecords /\ NoRow \in LedgerRows
  BY BudgetAssumption DEF NewOp, OpRecords, NoRow, LedgerRows, Days

LEMMA InitInv == Init => BudgetInv
<1> SUFFICES ASSUME Init PROVE BudgetInv
  OBVIOUS
<1> USE BudgetAssumption DEF Init
<1>1. TypeOK
  BY NewOpTyped DEF TypeOK, Days, Costs, NoRow
<1>2. ASSUME NEW d \in Days PROVE Unmade(d) /\ Covers(d) /\ Bounded(d)
  BY DEF Unmade, Covers, Bounded, NoRow, Costs
<1>3. ASSUME NEW o \in Ops PROVE Owns(o) /\ Room(o) /\ Valued(o)
  BY DEF Owns, Room, Valued, NewOp, Open, InFlight
<1>4. OneInFlight
  BY DEF OneInFlight, NewOp
<1>5. QED
  BY <1>1, <1>2, <1>3, <1>4 DEF BudgetInv


-----------------------------------------------------------------------------
(* What the type invariant says of a row and of an operation. *)

LEMMA RowTyped ==
    ASSUME TypeOK, NEW d \in Days
    PROVE  /\ ledger[d] \in LedgerRows
           /\ ledger[d].spent \in Nat /\ ledger[d].token \in Ops \cup {NoOne}
           /\ ledger[d].made \in BOOLEAN /\ ledger[d].lease \in 0..Lease
           /\ telemetry[d] \in Nat /\ before[d] \in Nat /\ charged[d] \in Nat
           /\ ledger[d].token # NoOne => op[ledger[d].token].day = d
  BY DEF TypeOK, LedgerRows

LEMMA OpTyped ==
    ASSUME TypeOK, NEW o \in Ops
    PROVE  /\ op[o] \in OpRecords /\ op[o].at \in Places
           /\ op[o].day \in Days /\ op[o].receipt \in -1..MaxCost
  BY DEF TypeOK, OpRecords, Places

LEMMA RowGivenBack ==
    ASSUME NEW row \in LedgerRows, NEW n \in Nat
    PROVE  LET new == [row EXCEPT !.spent = n, !.token = NoOne] IN
           /\ new \in LedgerRows
           /\ new.spent = n /\ new.token = NoOne
           /\ row.made => new.made
<1>1. [row EXCEPT !.spent = n, !.token = NoOne] \in LedgerRows
  BY DEF LedgerRows
<1>2. [row EXCEPT !.spent = n, !.token = NoOne].spent = n
  BY DEF LedgerRows
<1>3. [row EXCEPT !.spent = n, !.token = NoOne].token = NoOne
  BY DEF LedgerRows
<1>4. ASSUME row.made PROVE [row EXCEPT !.spent = n, !.token = NoOne].made
  BY <1>4, Zenon DEF LedgerRows
<1>5. QED
  BY <1>1, <1>2, <1>3, <1>4

LEMMA MoveFacts ==
    ASSUME TypeOK, NEW o \in Ops, NEW s \in Places, Move(o, s)
    PROVE  /\ op' \in [Ops -> OpRecords]
           /\ op'[o].at = s /\ op'[o].day = op[o].day /\ op'[o].receipt = op[o].receipt
           /\ \A p \in Ops : p # o => op'[p] = op[p]
           /\ \A p \in Ops : op'[p].day = op[p].day
<1>1. op'[o] = [op[o] EXCEPT !.at = s] /\ \A p \in Ops : p # o => op'[p] = op[p]
  BY DEF Move, TypeOK
<1>2. [op[o] EXCEPT !.at = s] \in OpRecords
  BY OpTyped DEF OpRecords, Places
<1>3. op' \in [Ops -> OpRecords]
  BY <1>1, <1>2 DEF Move, TypeOK
<1>4. op'[o].at = s /\ op'[o].day = op[o].day /\ op'[o].receipt = op[o].receipt
  BY <1>1, OpTyped DEF OpRecords
<1>5. QED
  BY <1>1, <1>3, <1>4

-----------------------------------------------------------------------------
(* Steps that move an operation on and leave ledger and charges alone. *)

LEMMA PassInv ==
    ASSUME BudgetInv, NEW o \in Ops, NEW s \in {"release", "out", "adrift", "report", "over"},
           Move(o, s), UNCHANGED <<today, ledger, before, charged>>,
           telemetry' \in [Days -> Nat],
           \A d \in Days : telemetry'[d] >= telemetry[d],
           s \in {"release", "out", "adrift"} => op[o].at \in InFlight,
           s = "report" => op[o].receipt >= 0 /\ \A d \in Days : ledger[d].token # o
    PROVE  BudgetInv'
<1> USE DEF BudgetInv
<1>0. s \in Places
  BY DEF Places
<1>1. /\ op' \in [Ops -> OpRecords]
      /\ op'[o].at = s /\ op'[o].day = op[o].day /\ op'[o].receipt = op[o].receipt
      /\ \A p \in Ops : p # o => op'[p] = op[p]
      /\ \A p \in Ops : op'[p].day = op[p].day
  BY <1>0, MoveFacts
<1>2. TypeOK'
  BY <1>1 DEF TypeOK, LedgerRows
<1>3. ASSUME NEW d \in Days PROVE Unmade(d)' /\ Bounded(d)'
  <2>1. Unmade(d) /\ Bounded(d)
    OBVIOUS
  <2>2. telemetry[d] \in Nat /\ before[d] \in Nat /\ telemetry'[d] \in Nat
    BY RowTyped
  <2>3. telemetry'[d] >= telemetry[d] /\ ledger' = ledger /\ before' = before /\ charged' = charged
    OBVIOUS
  <2>4. QED
    BY <2>1, <2>2, <2>3 DEF Unmade, Bounded
<1>4. ASSUME NEW d \in Days PROVE Covers(d)'
  <2>1. Covers(d)
    OBVIOUS
  <2>2. CASE ledger[d].token = o
    BY <1>1, <2>1, <2>2 DEF Covers, Open, InFlight
  <2>3. CASE ledger[d].token # o
    BY <1>1, <2>1, <2>3, RowTyped DEF Covers
  <2>4. QED
    BY <2>2, <2>3
<1>5. ASSUME NEW p \in Ops PROVE Owns(p)' /\ Room(p)' /\ Valued(p)'
  <2>1. Owns(p) /\ Room(p) /\ Valued(p)
    OBVIOUS
  <2>2. op'[p].at \in Open => op[p].at \in Open
    BY <1>1 DEF Open, InFlight
  <2>3. op'[p].at \in InFlight => op[p].at \in InFlight
    BY <1>1 DEF Open, InFlight
  <2>4. QED
    BY <1>1, <2>1, <2>2, <2>3 DEF Owns, Room, Valued, Exhausted
<1>6. OneInFlight'
  BY <1>1 DEF OneInFlight, InFlight
<1>7. QED
  BY <1>2, <1>3, <1>4, <1>5, <1>6

-----------------------------------------------------------------------------
(* Reservation: an operation takes a row nobody holds. *)

LEMMA ReserveInv == ASSUME BudgetInv, NEW o \in Ops, Reserve(o) PROVE BudgetInv'
<1> USE DEF BudgetInv
<1> DEFINE n == Spent(today)
<1>1. /\ op[o].at = "new" /\ ledger[today].token = NoOne /\ n < Limit
      /\ today \in Days /\ n \in Nat
  BY RowTyped DEF Reserve, TypeOK, Spent
<1>2. /\ ledger' \in [Days -> LedgerRows]
      /\ ledger'[today] = [made |-> TRUE, spent |-> n, token |-> o, lease |-> Lease]
      /\ \A d \in Days : d # today => ledger'[d] = ledger[d]
  <2>1. [made |-> TRUE, spent |-> n, token |-> o, lease |-> Lease] \in LedgerRows
    BY <1>1, BudgetAssumption DEF LedgerRows
  <2> HIDE DEF n
  <2>2. ledger' = [ledger EXCEPT ![today] =
                     [made |-> TRUE, spent |-> n, token |-> o, lease |-> Lease]]
    BY DEF Reserve, n
  <2>3. QED
    BY <1>1, <2>1, <2>2 DEF TypeOK
<1>3. /\ op' \in [Ops -> OpRecords]
      /\ op'[o] = [at |-> "held", day |-> today, receipt |-> -1]
      /\ \A p \in Ops : p # o => op'[p] = op[p]
  <2>1. [at |-> "held", day |-> today, receipt |-> -1] \in OpRecords
    BY <1>1, BudgetAssumption DEF OpRecords
  <2>2. QED
    BY <1>1, <2>1 DEF Reserve, TypeOK
<1>4. UNCHANGED <<today, telemetry, before, charged>>
  BY DEF Reserve
<1> HIDE DEF n
<1>5. ASSUME NEW d \in Days PROVE ledger[d].token # o
  BY <1>1, BudgetAssumption DEF Covers, Open, InFlight
<1>6. before[today] + charged[today] <= n
  <2>1. Unmade(today) /\ Covers(today)
    BY <1>1
  <2>2. CASE ledger[today].made
    BY <1>1, <2>1, <2>2, RowTyped, BudgetAssumption DEF Covers, Spent, n
  <2>3. CASE ~ledger[today].made
    BY <1>1, <2>1, <2>3, RowTyped DEF Unmade, Spent, n
  <2>4. QED
    BY <2>2, <2>3
<1>7. ASSUME NEW p \in Ops PROVE p # o => ~(op[p].at \in Open /\ op[p].day = today)
  <2> SUFFICES ASSUME op[p].at \in Open, op[p].day = today PROVE FALSE
    OBVIOUS
  <2>1. Exhausted(today)
    BY <1>1, BudgetAssumption DEF Owns
  <2>2. n = ledger[today].spent
    BY <2>1 DEF Exhausted, Spent, n
  <2>3. QED
    BY <1>1, <2>1, <2>2, BudgetAssumption DEF Exhausted
<1>8. TypeOK'
  <2>1. ASSUME NEW d \in Days, ledger'[d].token # NoOne
        PROVE op'[ledger'[d].token].day = d
    <3>1. CASE d = today
      BY <1>2, <1>3, <3>1
    <3>2. CASE d # today
      BY <1>2, <1>3, <1>5, <2>1, <3>2, RowTyped
    <3>3. QED
      BY <3>1, <3>2
  <2>2. QED
    BY <1>2, <1>3, <1>4, <2>1 DEF TypeOK
<1>9. ASSUME NEW d \in Days PROVE Unmade(d)' /\ Bounded(d)'
  <2>1. Unmade(d) /\ Bounded(d)
    OBVIOUS
  <2>2. QED
    BY <1>2, <1>4, <2>1 DEF Unmade, Bounded
<1>10. ASSUME NEW d \in Days PROVE Covers(d)'
  <2>1. CASE d = today
    BY <1>2, <1>3, <1>4, <1>6, <2>1, BudgetAssumption DEF Covers, Open, InFlight
  <2>2. CASE d # today
    BY <1>2, <1>3, <1>4, <1>5, <2>2, RowTyped DEF Covers
  <2>3. QED
    BY <2>1, <2>2
<1>11. ASSUME NEW p \in Ops PROVE Owns(p)' /\ Room(p)' /\ Valued(p)'
  <2>1. CASE p = o
    <3>1. op'[p].day = today /\ ledger'[today].made /\ ledger'[today].token = o
      BY <1>2, <1>3, <2>1
    <3>2. before[today] + charged[today] < Limit
      BY <1>1, <1>6, RowTyped, BudgetAssumption
    <3>3. QED
      BY <1>3, <1>4, <2>1, <3>1, <3>2 DEF Owns, Room, Valued
  <2>2. CASE p # o
    <3>1. Owns(p) /\ Room(p) /\ Valued(p) /\ op'[p] = op[p]
      BY <1>3, <2>2
    <3>2. op[p].at \in Open => ledger'[op[p].day] = ledger[op[p].day]
      BY <1>2, <1>7, <2>2, OpTyped
    <3>3. QED
      BY <1>4, <3>1, <3>2 DEF Owns, Room, Valued, Exhausted
  <2>3. QED
    BY <2>1, <2>2
<1>12. OneInFlight'
  BY <1>3, <1>7 DEF OneInFlight, Open, InFlight
<1>13. QED
  BY <1>8, <1>9, <1>10, <1>11, <1>12

-----------------------------------------------------------------------------
(* Steps that give a row back: release, settlement, and the refusal that   *)
(* closes a day over an expired lease.                                     *)

LEMMA GiveBackInv ==
    ASSUME BudgetInv, NEW e \in Days, NEW n \in Nat, NEW o \in Ops,
           NEW s \in {"over", "report"}, Move(o, s),
           NEW new \in LedgerRows, new.made, new.spent = n, new.token = NoOne,
           ledger' = [ledger EXCEPT ![e] = new],
           UNCHANGED <<today, telemetry, before, charged>>,
           ledger[e].made,
           n >= Limit \/ (ledger[e].token = o /\ n >= before[e] + charged[e]),
           s = "report" => op[o].receipt >= 0 /\ ledger[e].token = o
    PROVE  BudgetInv'
<1> USE DEF BudgetInv
<1>0. s \in Places
  BY DEF Places
<1>1. /\ op' \in [Ops -> OpRecords]
      /\ op'[o].at = s /\ op'[o].day = op[o].day /\ op'[o].receipt = op[o].receipt
      /\ \A p \in Ops : p # o => op'[p] = op[p]
      /\ \A p \in Ops : op'[p].day = op[p].day
  BY <1>0, MoveFacts
<1>2. /\ ledger' \in [Days -> LedgerRows]
      /\ ledger'[e].made /\ ledger'[e].spent = n /\ ledger'[e].token = NoOne
      /\ \A d \in Days : d # e => ledger'[d] = ledger[d]
  BY DEF TypeOK
<1>3. TypeOK'
  <2>1. ASSUME NEW d \in Days, ledger'[d].token # NoOne
        PROVE op'[ledger'[d].token].day = d
    BY <1>1, <1>2, <2>1, RowTyped
  <2>2. QED
    BY <1>1, <1>2, <2>1 DEF TypeOK
<1>4. ASSUME NEW d \in Days PROVE Unmade(d)' /\ Bounded(d)'
  <2>1. Unmade(d) /\ Bounded(d)
    OBVIOUS
  <2>2. QED
    BY <1>2, <2>1 DEF Unmade, Bounded
<1>5. ASSUME NEW d \in Days PROVE Covers(d)'
  <2>1. CASE d = e
    BY <1>2, <2>1, BudgetAssumption DEF Covers
  <2>2. CASE d # e
    <3>1. Covers(d) /\ ledger'[d] = ledger[d]
      BY <1>2, <2>2
    <3>2. CASE ledger[d].token = o
      <4>1. op[o].day = d
        BY <3>2, RowTyped, BudgetAssumption
      <4>2. s = "over"
        BY <2>2, <4>1, RowTyped, BudgetAssumption
      <4>3. QED
        BY <1>1, <3>1, <3>2, <4>2, BudgetAssumption DEF Covers, Open, InFlight
    <3>3. CASE ledger[d].token # o
      BY <1>1, <3>1, <3>3, RowTyped DEF Covers
    <3>4. QED
      BY <3>2, <3>3
  <2>3. QED
    BY <2>1, <2>2
<1>6. ASSUME NEW p \in Ops PROVE Owns(p)' /\ Room(p)' /\ Valued(p)'
  <2>1. CASE p = o
    BY <1>1, <2>1 DEF Owns, Room, Valued, Open, InFlight
  <2>2. CASE p # o
    <3>1. Owns(p) /\ Room(p) /\ Valued(p) /\ op'[p] = op[p] /\ op[p].day \in Days
      BY <1>1, <2>2, OpTyped
    <3>2. CASE op[p].day # e
      BY <1>2, <3>1, <3>2 DEF Owns, Room, Valued, Exhausted
    <3>3. CASE op[p].day = e /\ op[p].at \in Open
      <4>1. n >= Limit \/ ledger[e].token = o
        OBVIOUS
      <4>2. CASE n >= Limit
        BY <1>2, <3>1, <3>3, <4>2 DEF Owns, Room, Valued, Exhausted
      <4>3. CASE ledger[e].token = o
        <5>1. FALSE
          BY <2>2, <3>1, <3>3, <4>3, BudgetAssumption DEF Owns, Exhausted
        <5>2. QED
          BY <5>1
      <4>4. QED
        BY <4>1, <4>2, <4>3
    <3>4. CASE op[p].at \notin Open
      BY <3>1, <3>4 DEF Owns, Room, Valued, Open
    <3>5. QED
      BY <3>2, <3>3, <3>4
  <2>3. QED
    BY <2>1, <2>2
<1>7. OneInFlight'
  BY <1>1 DEF OneInFlight, InFlight
<1>8. QED
  BY <1>3, <1>4, <1>5, <1>6, <1>7

-----------------------------------------------------------------------------
(* A charge: the provider was asked by an operation in flight. *)

LEMMA ChargeInv ==
    ASSUME BudgetInv, NEW o \in Ops, NEW cost \in Costs, NEW s \in {"settle", "over"},
           NEW c \in -1..MaxCost,
           op[o].at \in InFlight,
           s = "settle" => op[o].at # "adrift" /\ c \in {cost, -1},
           op' = [op EXCEPT ![o].at = s, ![o].receipt = c],
           charged' = [charged EXCEPT ![op[o].day] = @ + cost],
           s = "over" => ledger[op[o].day].token # o \/ op[o].at = "adrift",
           UNCHANGED <<today, ledger, telemetry, before>>
    PROVE  BudgetInv'
<1> USE DEF BudgetInv
<1> DEFINE e == op[o].day
<1>1. e \in Days /\ cost \in Nat /\ cost <= MaxCost
  BY OpTyped, BudgetAssumption DEF Costs
<1>2. /\ op'[o].at = s /\ op'[o].day = e /\ op'[o].receipt = c
      /\ op' \in [Ops -> OpRecords]
      /\ \A p \in Ops : p # o => op'[p] = op[p]
  <2> DEFINE new == [op[o] EXCEPT !.at = s, !.receipt = c]
  <2>1. op[o] \in OpRecords /\ s \in Places
    BY OpTyped DEF Places
  <2>4. new \in OpRecords /\ new.at = s /\ new.day = op[o].day /\ new.receipt = c
    BY <2>1 DEF OpRecords, Places
  <2> HIDE DEF new
  <2>2. op' = [op EXCEPT ![o] = new]
    BY DEF new, TypeOK
  <2>3. QED
    BY <2>2, <2>4 DEF TypeOK
<1>3. /\ charged' \in [Days -> Nat] /\ charged'[e] = charged[e] + cost
      /\ \A d \in Days : d # e => charged'[d] = charged[d]
  BY <1>1 DEF TypeOK
<1> HIDE DEF e
<1>4. /\ Room(o) /\ Owns(o) /\ before[e] + charged[e] < Limit
  BY DEF Room, e
<1>5. ledger[e].made
  BY <1>4 DEF Owns, Open, Exhausted, e
<1>6. TypeOK'
  BY <1>2, <1>3, RowTyped DEF TypeOK, e
<1>7. ASSUME NEW d \in Days PROVE Unmade(d)' /\ Bounded(d)'
  <2>1. Unmade(d) /\ Bounded(d)
    OBVIOUS
  <2>2. CASE d = e
    BY <1>1, <1>3, <1>4, <1>5, <2>1, <2>2, RowTyped, BudgetAssumption DEF Unmade, Bounded
  <2>3. CASE d # e
    BY <1>3, <2>1, <2>3 DEF Unmade, Bounded
  <2>4. QED
    BY <2>2, <2>3
<1>8. ASSUME NEW d \in Days PROVE Covers(d)'
  <2>1. Covers(d)
    OBVIOUS
  <2>2. CASE d # e
    <3>1. ledger[d].token # o
      BY <2>2, RowTyped, BudgetAssumption DEF e
    <3>2. QED
      BY <1>2, <1>3, <2>1, <2>2, <3>1, RowTyped DEF Covers
  <2>3. CASE d = e
    <3>1. CASE ledger[e].token = o
      BY <1>1, <1>2, <1>3, <2>1, <2>3, <3>1, RowTyped, BudgetAssumption
         DEF Covers, Open, InFlight
    <3>2. CASE ledger[e].token # o
      <4>1. ledger[e].token = NoOne /\ ledger[e].spent >= Limit
        BY <1>4, <3>2 DEF Owns, Exhausted, Open, e
      <4>2. QED
        BY <2>3, <4>1 DEF Covers
    <3>3. QED
      BY <3>1, <3>2
  <2>4. QED
    BY <2>2, <2>3
<1>9. ASSUME NEW p \in Ops PROVE Owns(p)' /\ Room(p)' /\ Valued(p)'
  <2>1. Owns(p) /\ Room(p) /\ Valued(p)
    OBVIOUS
  <2>2. CASE p = o
    BY <1>2, <1>4, <2>2 DEF Owns, Room, Valued, Exhausted, Open, InFlight, e
  <2>3. CASE p # o
    <3>1. op'[p] = op[p] /\ op[p].day \in Days
      BY <1>2, <2>3, OpTyped
    <3>2. op[p].at \in InFlight => op[p].day # e
      BY <2>3 DEF OneInFlight, InFlight, e
    <3>3. QED
      BY <1>3, <2>1, <3>1, <3>2 DEF Owns, Room, Valued, Exhausted
  <2>4. QED
    BY <2>2, <2>3
<1>10. OneInFlight'
  BY <1>2 DEF OneInFlight, InFlight
<1>11. QED
  BY <1>6, <1>7, <1>8, <1>9, <1>10

-----------------------------------------------------------------------------
(* Time. *)

LEMMA TickInv == ASSUME BudgetInv, Tick PROVE BudgetInv'
<1> USE DEF BudgetInv
<1>1. ASSUME NEW d \in Days
      PROVE /\ ledger'[d] \in LedgerRows
            /\ ledger'[d].made = ledger[d].made /\ ledger'[d].spent = ledger[d].spent
            /\ ledger'[d].token = ledger[d].token
  <2> DEFINE n == IF ledger[d].lease > 0 THEN ledger[d].lease - 1 ELSE 0
  <2>1. ledger'[d] = [ledger[d] EXCEPT !.lease = n]
    BY DEF Tick
  <2>2. n \in 0..Lease
    BY RowTyped, BudgetAssumption
  <2> HIDE DEF n
  <2>3. [ledger[d] EXCEPT !.lease = n]
          = [made |-> ledger[d].made, spent |-> ledger[d].spent,
             token |-> ledger[d].token, lease |-> n]
    BY RowTyped DEF LedgerRows
  <2>4. QED
    BY <2>1, <2>2, <2>3, RowTyped DEF LedgerRows
<1>2. UNCHANGED <<today, telemetry, before, charged, op>>
  BY DEF Tick
<1>3. TypeOK'
  <2>1. ledger' \in [Days -> LedgerRows]
    BY <1>1 DEF Tick
  <2>2. QED
    BY <1>1, <1>2, <2>1 DEF TypeOK
<1>4. ASSUME NEW d \in Days PROVE Unmade(d)' /\ Bounded(d)' /\ Covers(d)'
  BY <1>1, <1>2 DEF Unmade, Bounded, Covers
<1>5. ASSUME NEW p \in Ops PROVE Owns(p)' /\ Room(p)' /\ Valued(p)'
  BY <1>1, <1>2, OpTyped DEF Owns, Room, Valued, Exhausted
<1>6. OneInFlight'
  BY <1>2 DEF OneInFlight
<1>7. QED
  BY <1>3, <1>4, <1>5, <1>6

LEMMA StillInv ==
    ASSUME BudgetInv, today' \in Days, UNCHANGED <<ledger, telemetry, before, charged, op>>
    PROVE  BudgetInv'
  BY DEF BudgetInv, TypeOK, Unmade, Covers, Bounded, Owns, Room, Valued, Exhausted, OneInFlight

-----------------------------------------------------------------------------
(* Every step is of one of these kinds. *)

LEMMA DenyInv == ASSUME BudgetInv, NEW o \in Ops, Deny(o) PROVE BudgetInv'
<1>1. TypeOK /\ today \in Days /\ Move(o, "over")
  BY DEF BudgetInv, TypeOK, Deny
<1>2. CASE UNCHANGED ledger
  <2>1. telemetry' = telemetry /\ UNCHANGED <<today, ledger, before, charged>>
    BY <1>2 DEF Deny
  <2>2. telemetry' \in [Days -> Nat] /\ \A d \in Days : telemetry'[d] >= telemetry[d]
    BY <1>1, <2>1 DEF TypeOK
  <2>3. QED
    BY <1>1, <2>1, <2>2, PassInv
<1>3. CASE ledger' # ledger
  <2> DEFINE n   == AtLeastLimit(ledger[today].spent)
             new == [ledger[today] EXCEPT !.spent = n, !.token = NoOne]
  <2>1. /\ ledger[today].token # NoOne
        /\ ledger' = [ledger EXCEPT ![today] = new]
        /\ UNCHANGED <<today, telemetry, before, charged>>
    BY <1>3 DEF Deny
  <2>2. n \in Nat /\ n >= Limit
    BY <1>1, RowTyped, BudgetAssumption DEF AtLeastLimit
  <2>3. ledger[today].made
    BY <1>1, <2>1 DEF BudgetInv, Unmade
  <2>4. new \in LedgerRows /\ new.made /\ new.spent = n /\ new.token = NoOne
    <3>1. ledger[today] \in LedgerRows
      BY <1>1, RowTyped
    <3>2. QED
      BY <2>2, <2>3, <3>1, RowGivenBack
  <2> HIDE DEF n, new
  <2>5. QED
    BY <1>1, <2>1, <2>2, <2>3, <2>4, GiveBackInv
<1>4. QED
  BY <1>2, <1>3

LEMMA AnswerInv == ASSUME BudgetInv, NEW o \in Ops, Answer(o) PROVE BudgetInv'
<1>1. PICK cost \in Costs, exact \in BOOLEAN :
        /\ charged' = [charged EXCEPT ![op[o].day] = @ + cost]
        /\ op' = [op EXCEPT ![o].at = "settle", ![o].receipt = IF exact THEN cost ELSE -1]
  BY DEF Answer
<1>2. op[o].at = "out" /\ UNCHANGED <<today, ledger, telemetry, before>>
  BY DEF Answer
<1> DEFINE c == IF exact THEN cost ELSE -1
<1>3. c \in -1..MaxCost /\ c \in {cost, -1}
  BY BudgetAssumption DEF Costs
<1>4. op' = [op EXCEPT ![o].at = "settle", ![o].receipt = c]
  BY <1>1
<1> HIDE DEF c
<1>5. QED
  BY <1>1, <1>2, <1>3, <1>4, ChargeInv DEF InFlight

LEMMA LateChargeInv == ASSUME BudgetInv, NEW o \in Ops, LateCharge(o) PROVE BudgetInv'
<1>1. PICK cost \in Costs : charged' = [charged EXCEPT ![op[o].day] = @ + cost]
  BY DEF LateCharge
<1>2. op[o].at = "adrift" /\ Move(o, "over") /\ UNCHANGED <<today, ledger, telemetry, before>>
  BY DEF LateCharge
<1>3. TypeOK
  BY DEF BudgetInv
<1>4. op' = [op EXCEPT ![o].at = "over", ![o].receipt = op[o].receipt]
  <2>1. op[o] \in OpRecords
    BY <1>3, OpTyped
  <2>2. [op[o] EXCEPT !.at = "over"] = [[op[o] EXCEPT !.at = "over"] EXCEPT !.receipt = op[o].receipt]
    BY <2>1 DEF OpRecords
  <2>3. QED
    BY <1>2, <1>3, <2>2 DEF Move, TypeOK
<1>5. op[o].receipt \in -1..MaxCost
  BY <1>3, OpTyped
<1>6. QED
  BY <1>1, <1>2, <1>4, <1>5, ChargeInv DEF InFlight

LEMMA CloseInv ==
    ASSUME BudgetInv, NEW o \in Ops, NEW n \in Nat, NEW s \in {"over", "report"},
           op[o].at \in {"release", "settle"},
           Close(o, n), Move(o, s), UNCHANGED <<today, telemetry, before, charged>>,
           s = "report" => op[o].receipt >= 0,
           Holds(o) => n >= Limit \/ n >= before[op[o].day] + charged[op[o].day]
    PROVE  BudgetInv'
<1>1. TypeOK /\ op[o].day \in Days
  BY OpTyped DEF BudgetInv
<1>2. CASE Holds(o)
  <2> DEFINE e   == op[o].day
             new == [ledger[e] EXCEPT !.spent = n, !.token = NoOne]
  <2>1. ledger[e].token = o /\ ledger' = [ledger EXCEPT ![e] = new]
    BY <1>2 DEF Holds, Close
  <2>2. ledger[e].made
    BY <1>1, <2>1, BudgetAssumption DEF BudgetInv, Unmade
  <2>3. n >= Limit \/ (ledger[e].token = o /\ n >= before[e] + charged[e])
    BY <1>2, <2>1
  <2>4. new \in LedgerRows /\ new.made /\ new.spent = n /\ new.token = NoOne
    <3>1. ledger[e] \in LedgerRows
      BY <1>1, RowTyped
    <3>2. QED
      BY <2>2, <3>1, RowGivenBack
  <2>5. e \in Days
    BY <1>1
  <2> HIDE DEF e, new
  <2>6. QED
    BY <2>1, <2>2, <2>3, <2>4, <2>5, GiveBackInv
<1>3. CASE ~Holds(o)
  <2>1. ledger' = ledger
    BY <1>3 DEF Close
  <2>2. \A d \in Days : ledger[d].token # o
    BY <1>1, <1>3, RowTyped, BudgetAssumption DEF Holds
  <2>3. telemetry' \in [Days -> Nat] /\ \A d \in Days : telemetry'[d] >= telemetry[d]
    BY <1>1 DEF TypeOK
  <2>4. QED
    BY <2>1, <2>2, <2>3, PassInv
<1>4. QED
  BY <1>2, <1>3

LEMMA SettleInv == ASSUME BudgetInv, NEW o \in Ops, Settle(o) PROVE BudgetInv'
<1> DEFINE e     == op[o].day
           spent == ledger[e].spent
           cost  == op[o].receipt
           n     == IF cost >= 0 THEN spent + cost ELSE AtLeastLimit(spent)
           s     == IF cost >= 0 THEN "report" ELSE "over"
<1>1. TypeOK /\ e \in Days /\ cost \in -1..MaxCost /\ spent \in Nat
  BY OpTyped, RowTyped DEF BudgetInv
<1>2. /\ op[o].at = "settle" /\ Close(o, n) /\ Move(o, s)
      /\ UNCHANGED <<today, telemetry, before, charged>>
  BY DEF Settle
<1>3. n \in Nat /\ (cost < 0 => n >= Limit)
  BY <1>1, BudgetAssumption DEF AtLeastLimit
<1>4. Holds(o) => n >= Limit \/ n >= before[e] + charged[e]
  <2> SUFFICES ASSUME Holds(o), cost >= 0 PROVE n >= before[e] + charged[e]
    BY <1>1, <1>3
  <2>1. Covers(e) /\ ledger[e].token = o
    BY <1>1 DEF BudgetInv, Holds
  <2>2. QED
    BY <1>1, <1>2, <2>1, BudgetAssumption DEF Covers
<1>5. s \in {"over", "report"} /\ (s = "report" => op[o].receipt >= 0)
  OBVIOUS
<1> HIDE DEF n, s
<1>6. QED
  BY <1>2, <1>3, <1>4, <1>5, CloseInv

LEMMA ReleaseInv == ASSUME BudgetInv, NEW o \in Ops, Release(o) PROVE BudgetInv'
<1> DEFINE n == ledger[op[o].day].spent
<1>1. TypeOK /\ op[o].day \in Days /\ n \in Nat
  BY OpTyped, RowTyped DEF BudgetInv
<1>2. /\ op[o].at = "release" /\ Close(o, n) /\ Move(o, "over")
      /\ UNCHANGED <<today, telemetry, before, charged>>
  BY DEF Release
<1>3. Holds(o) => n >= before[op[o].day] + charged[op[o].day]
  BY <1>1, <1>2, BudgetAssumption DEF BudgetInv, Holds, Covers, Open
<1> HIDE DEF n
<1>4. QED
  BY <1>1, <1>2, <1>3, CloseInv

LEMMA MoveOnInv ==
    ASSUME BudgetInv, NEW o \in Ops,
           BreakerRejects(o) \/ Call(o) \/ Abandon(o) \/ Report(o)
    PROVE  BudgetInv'
<1>1. TypeOK
  BY DEF BudgetInv
<1>2. CASE BreakerRejects(o) \/ Call(o) \/ Abandon(o)
  <2>1. PICK s \in {"release", "out", "adrift", "over"} :
          Move(o, s) /\ (s # "over" => op[o].at \in InFlight)
    BY <1>2 DEF BreakerRejects, Call, Abandon, InFlight
  <2>2. UNCHANGED <<today, ledger, telemetry, before, charged>>
    BY <1>2 DEF BreakerRejects, Call, Abandon
  <2>3. telemetry' \in [Days -> Nat] /\ \A d \in Days : telemetry'[d] >= telemetry[d]
    BY <1>1, <2>2 DEF TypeOK
  <2>4. QED
    BY <2>1, <2>2, <2>3, PassInv
<1>3. CASE Report(o)
  <2>1. /\ op[o].at = "report" /\ Move(o, "over") /\ UNCHANGED <<today, ledger, before, charged>>
        /\ telemetry' = [telemetry EXCEPT ![today] = @ + op[o].receipt]
    BY <1>3 DEF Report
  <2>2. op[o].receipt >= 0
    BY <2>1 DEF BudgetInv, Valued
  <2>3. telemetry' \in [Days -> Nat] /\ \A d \in Days : telemetry'[d] >= telemetry[d]
    BY <1>1, <2>1, <2>2, OpTyped DEF TypeOK
  <2>4. QED
    BY <2>1, <2>3, PassInv
<1>4. QED
  BY <1>2, <1>3

LEMMA StepInv == BudgetInv /\ [Next]_vars => BudgetInv'
<1> SUFFICES ASSUME BudgetInv, [Next]_vars PROVE BudgetInv'
  OBVIOUS
<1>1. TypeOK
  BY DEF BudgetInv
<1>2. ASSUME NEW o \in Ops,
             \/ Reserve(o) \/ Deny(o) \/ BreakerRejects(o) \/ Call(o) \/ Answer(o)
             \/ Abandon(o) \/ LateCharge(o) \/ Release(o) \/ Settle(o) \/ Report(o)
      PROVE BudgetInv'
  BY <1>2, ReserveInv, DenyInv, AnswerInv, LateChargeInv, ReleaseInv, SettleInv, MoveOnInv
<1>3. CASE Tick
  BY <1>3, TickInv
<1>4. CASE Midnight
  <2>1. today' \in Days /\ UNCHANGED <<ledger, telemetry, before, charged, op>>
    BY <1>1, <1>4, BudgetAssumption DEF Midnight, TypeOK, Days
  <2>2. QED
    BY <2>1, StillInv
<1>5. CASE UNCHANGED vars
  <2>1. today' \in Days /\ UNCHANGED <<ledger, telemetry, before, charged, op>>
    BY <1>1, <1>5 DEF vars, TypeOK
  <2>2. QED
    BY <2>1, StillInv
<1>6. QED
  BY <1>2, <1>3, <1>4, <1>5 DEF Next

\* The inductive invariant: whatever operations do, however late they are and
\* whichever of their steps is lost, _reserve_local_budget_sync and
\* _update_local_budget_sync keep row, holder and charges of a day in step.
THEOREM BudgetInvariant == Spec => []BudgetInv
<1>1. Init => BudgetInv
  BY InitInv
<1>2. BudgetInv /\ [Next]_vars => BudgetInv'
  BY StepInv
<1>3. QED
  BY <1>1, <1>2, PTL DEF Spec

\* Metered work of a day is serial at the provider, operations whose caller
\* is gone included: a lease that ran out is never taken over.
THEOREM OneInFlightHolds == Spec => []OneInFlight
<1>1. BudgetInv => OneInFlight
  BY DEF BudgetInv
<1>2. QED
  BY <1>1, BudgetInvariant, PTL

\* The day's row, when nobody holds it, is never below what the provider has
\* charged, or the day is closed, lost and invalid receipts included.
THEOREM NeverUndercountsHolds == Spec => []NeverUndercounts
<1>1. BudgetInv => NeverUndercounts
  BY DEF BudgetInv, Covers, NeverUndercounts
<1>2. QED
  BY <1>1, BudgetInvariant, PTL

\* A day is overspent by less than one operation.
THEOREM BoundedOverspendHolds == Spec => []BoundedOverspend
<1>1. BudgetInv => BoundedOverspend
  BY DEF BudgetInv, Bounded, BoundedOverspend
<1>2. QED
  BY <1>1, BudgetInvariant, PTL

=============================================================================
