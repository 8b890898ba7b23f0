--------------------------- MODULE MissionBilling ---------------------------
(***************************************************************************)
(* The cumulative bill in a mission's checkpoint.  Every quantum reads the *)
(* bill in one transaction, merges its own usage into it in memory, and    *)
(* writes the result with a CAS of a later transaction: first when it goes *)
(* to verifying, again when it releases the row, or in the durable error   *)
(* branch.  A quantum that lost its lease writes nothing and returns an    *)
(* envelope with the bill it would have written.                           *)
(*                                                                         *)
(* Usages are ledger units; tokens are merged the same way.  A lease may    *)
(* expire at any time, so an open row may be claimed at any time.          *)
(***************************************************************************)
EXTENDS Integers, Sequences, FiniteSets, FiniteSetsExt, Functions

CONSTANTS
    Workers,        \* quanta; each claims one lease generation
    NoOne,          \* no lease holder
    MaxUsage,       \* bound: a quantum's cost is 0..MaxUsage
    ReceiptLimit,   \* _BILLING_RECEIPT_LIMIT
    CostLimit       \* _BILLING_COST_LIMIT

ASSUME BillingAssumption ==
    /\ IsFiniteSet(Workers) /\ NoOne \notin Workers
    /\ MaxUsage \in Nat /\ ReceiptLimit \in Nat \ {0} /\ CostLimit \in Nat

VARIABLES
    row,        \* status, checkpoint_version, lease generation and holder
    bill,       \* checkpoint["billing"]
    pc,         \* pc[w]: the transaction w runs next
    gen,        \* gen[w]: the lease generation of w
    usage,      \* usage[w]: what the provider charged w, NoUsage if unknown
    seen,       \* seen[w]: row and bill as w read them
    \* What happened outside the bill:
    paid,       \* paid[w]: the largest usage w got into the durable bill
    envelope    \* envelope[w]: the bill in the answer of w's seal

billVars == <<row, bill, pc, gen, usage, seen, paid, envelope>>

Usages == 0..MaxUsage
NoUsage == -1

Receipts == [gen: Nat, cost: 0..CostLimit]
Bills == [cost: 0..CostLimit, quanta: Nat, last: Nat, receipts: Seq(Receipts),
          truncated: Nat]
EmptyBill == [cost |-> 0, quanta |-> 0, last |-> 0, receipts |-> <<>>, truncated |-> 0]

MissionRows == [status: {"running", "verifying", "waiting_event", "terminal"},
                version: Nat, gen: Nat, token: Workers \cup {NoOne}]
NewRow == [status |-> "waiting_event", version |-> 0, gen |-> 0, token |-> NoOne]

Steps == {"idle", "turn", "load", "beat", "fresh", "toverify", "precommit", "seal",
          "reload", "errload", "errrelease", "done"}

BillTypes ==
    /\ row \in MissionRows
    /\ bill \in Bills /\ Len(bill.receipts) <= ReceiptLimit
    /\ pc \in [Workers -> Steps]
    /\ gen \in [Workers -> Nat]
    /\ usage \in [Workers -> Usages \cup {NoUsage}]
    /\ seen \in [Workers -> [row: MissionRows, bill: Bills]]
    /\ paid \in [Workers -> Usages \cup {NoUsage}]
    /\ envelope \in [Workers -> 0..CostLimit \cup {NoUsage}]

BillInit ==
    /\ row = NewRow
    /\ bill = EmptyBill
    /\ pc = [w \in Workers |-> "idle"]
    /\ gen = [w \in Workers |-> 0]
    /\ usage = [w \in Workers |-> NoUsage]
    /\ seen = [w \in Workers |-> [row |-> NewRow, bill |-> EmptyBill]]
    /\ paid = [w \in Workers |-> NoUsage]
    /\ envelope = [w \in Workers |-> NoUsage]

-----------------------------------------------------------------------------
(* merge_mission_billing. *)

\* _billing_cost: a cost saturates at the limit.
BillingCost(c) == Min({CostLimit, c})

\* The newest receipts, at most ReceiptLimit of them.
Window(rs) == SubSeq(rs, Max({1, Len(rs) - ReceiptLimit + 1}), Len(rs))

\* A generation with a receipt is max-merged.
MergeExisting(b, i, c) ==
    LET old == b.receipts[i].cost
        new == Max({old, c})
    IN [b EXCEPT !.cost = BillingCost(@ + new - old), !.receipts[i].cost = new]

\* A later generation adds one quantum and its receipt.
AddQuantum(b, g, c) ==
    LET rs == Append(b.receipts, [gen |-> g, cost |-> c])
    IN [cost |-> BillingCost(b.cost + c), quanta |-> b.quanta + 1, last |-> g,
        receipts |-> Window(rs),
        truncated |-> b.truncated + Len(rs) - Len(Window(rs))]

\* Mutant: a generation without a receipt is always new.
MergeForgetful(b, g, u) ==
    LET at == {i \in DOMAIN b.receipts : b.receipts[i].gen = g}
        c == BillingCost(u)
    IN IF u = NoUsage THEN b
       ELSE IF at # {} THEN MergeExisting(b, Min(at), c)
       ELSE AddQuantum(b, g, c)

\* A generation older than the last one and without a receipt is a replay whose
\* receipt has rolled out of the window, and adds nothing.
Merge(b, g, u) ==
    LET at == {i \in DOMAIN b.receipts : b.receipts[i].gen = g}
        c == BillingCost(u)
    IN IF u = NoUsage THEN b
       ELSE IF at # {} THEN MergeExisting(b, Min(at), c)
       ELSE IF g > b.last THEN AddQuantum(b, g, c)
       ELSE b

-----------------------------------------------------------------------------
(* The transactions of a quantum that read or write the bill. *)

Owner(w) == row.token = w /\ row.gen = gen[w]
Goto(w, s) == pc' = [pc EXCEPT ![w] = s]
See(w) == seen' = [seen EXCEPT ![w] = [row |-> row, bill |-> bill]]

\* The seal returns with b merged into its envelope.
Return(w, b) ==
    /\ envelope' = [envelope EXCEPT ![w] = Merge(b, gen[w], usage[w]).cost]
    /\ Goto(w, "done")

\* Mutant: a CAS that compares the status only.
CasStatusOnly(w) == row.status = seen[w].row.status

\* cas_mission_status under the row that was read.
CasFits(w) ==
    /\ Owner(w)
    /\ row.status = seen[w].row.status
    /\ row.version = seen[w].row.version

\* checkpoint_update = {"billing": ...}: the bill that was read, with the
\* usage of w merged in.
WriteBill(w) ==
    /\ bill' = Merge(seen[w].bill, gen[w], usage[w])
    /\ paid' = [paid EXCEPT ![w] = Max({@, usage[w]})]

Release(to) ==
    row' = [row EXCEPT !.status = to, !.version = @ + 1, !.gen = @ + 1, !.token = NoOne]

Claim(w) ==
    /\ pc[w] = "idle" /\ row.status # "terminal"
    /\ row' = [row EXCEPT !.token = w, !.gen = @ + 1,
                  !.status = IF @ = "waiting_event" THEN "running" ELSE @]
    /\ gen' = [gen EXCEPT ![w] = row.gen + 1]
    /\ Goto(w, "turn")
    /\ UNCHANGED <<bill, usage, seen, paid, envelope>>

\* The provider quantum (external) answers or raises, with or without usage.
Turn(w) ==
    /\ pc[w] = "turn"
    /\ \E u \in Usages \cup {NoUsage} : usage' = [usage EXCEPT ![w] = u]
    /\ \E s \in {"load", "errload"} : Goto(w, s)
    /\ UNCHANGED <<row, bill, gen, seen, paid, envelope>>

\* A read of the row and its bill by the seal; a stale worker returns.
ReadOrReturn(w, next) ==
    \/ Owner(w) /\ See(w) /\ Goto(w, next) /\ UNCHANGED envelope
    \/ ~Owner(w) /\ Return(w, bill) /\ UNCHANGED seen

Load(w) ==
    /\ pc[w] = "load"
    /\ ReadOrReturn(w, "beat")
    /\ UNCHANGED <<row, bill, gen, usage, paid>>

\* A refused heartbeat returns the bill as read at the entry.
Beat(w) ==
    /\ pc[w] = "beat"
    /\ \/ Owner(w) /\ Goto(w, "fresh") /\ UNCHANGED envelope
       \/ ~Owner(w) /\ Return(w, seen[w].bill)
    /\ UNCHANGED <<row, bill, gen, usage, seen, paid>>

Fresh(w) ==
    /\ pc[w] = "fresh"
    /\ ReadOrReturn(w, "toverify")
    /\ UNCHANGED <<row, bill, gen, usage, paid>>

\* A row found verifying is taken over without a write.
ToVerifying(w) ==
    /\ pc[w] = "toverify"
    /\ \/ /\ seen[w].row.status = "running" /\ CasFits(w)
          /\ row' = [row EXCEPT !.status = "verifying", !.version = @ + 1]
          /\ WriteBill(w) /\ Goto(w, "precommit")
       \/ /\ seen[w].row.status = "running" /\ ~CasFits(w)
          /\ Goto(w, "reload") /\ UNCHANGED <<row, bill, paid>>
       \/ /\ seen[w].row.status = "verifying"
          /\ Goto(w, IF Owner(w) THEN "precommit" ELSE "reload")
          /\ UNCHANGED <<row, bill, paid>>
    /\ UNCHANGED <<gen, usage, seen, envelope>>

PreCommit(w) ==
    /\ pc[w] = "precommit"
    /\ ReadOrReturn(w, "seal")
    /\ UNCHANGED <<row, bill, gen, usage, paid>>

\* CommitDone or FailDone, the waiting_event release, or a refused CAS.
Seal(w) ==
    /\ pc[w] = "seal"
    /\ \/ CasFits(w) /\ Release("terminal") /\ WriteBill(w) /\ Return(w, seen[w].bill)
       \/ /\ CasFits(w) /\ Release("waiting_event") /\ WriteBill(w)
          /\ Goto(w, "reload") /\ UNCHANGED envelope
       \/ /\ ~CasFits(w) /\ Goto(w, "reload")
          /\ UNCHANGED <<row, bill, paid, envelope>>
    /\ UNCHANGED <<gen, usage, seen>>

Reload(w) ==
    /\ pc[w] = "reload"
    /\ Return(w, bill)
    /\ UNCHANGED <<row, bill, gen, usage, seen, paid>>

\* A storage exception in the seal: the error branch collects the usage of the
\* reported result and its attempts anew.
StepRaises(w) ==
    /\ pc[w] \in {"load", "beat", "fresh", "toverify", "precommit", "seal", "reload"}
    /\ \E u \in Usages : usage' = [usage EXCEPT ![w] = u]
    /\ Goto(w, "errload")
    /\ UNCHANGED <<row, bill, gen, seen, paid, envelope>>

ErrLoad(w) ==
    /\ pc[w] = "errload"
    /\ \/ Owner(w) /\ See(w) /\ Goto(w, "errrelease")
       \/ ~Owner(w) /\ Goto(w, "done") /\ UNCHANGED seen
    /\ UNCHANGED <<row, bill, gen, usage, paid, envelope>>

ErrRelease(w) ==
    /\ pc[w] = "errrelease"
    /\ \/ CasFits(w) /\ Release("waiting_event") /\ WriteBill(w)
       \/ ~CasFits(w) /\ UNCHANGED <<row, bill, paid>>
    /\ Goto(w, "done")
    /\ UNCHANGED <<gen, usage, seen, envelope>>

\* Cancellation or a crash of the process.
Die(w) ==
    /\ pc[w] \notin {"idle", "done"}
    /\ Goto(w, "done")
    /\ UNCHANGED <<row, bill, gen, usage, seen, paid, envelope>>

BillNext == \E w \in Workers :
    \/ Claim(w) \/ Turn(w) \/ Load(w) \/ Beat(w) \/ Fresh(w) \/ ToVerifying(w)
    \/ PreCommit(w) \/ Seal(w) \/ Reload(w) \/ StepRaises(w)
    \/ ErrLoad(w) \/ ErrRelease(w) \/ Die(w)

BillSpec == BillInit /\ [][BillNext]_billVars

-----------------------------------------------------------------------------
(* Properties. *)

Charged == {w \in Workers : paid[w] # NoUsage}

\* The durable bill is exact: whatever takeovers, replays of a generation,
\* exceptions and crashes came in between, it is the saturated sum of what
\* each quantum got written, every quantum counted once, even when its receipt
\* has rolled out of the window.
BillExact ==
    /\ bill.cost = BillingCost(SumFunctionOnSet(paid, Charged))
    /\ bill.quanta = Cardinality(Charged)
    /\ bill.truncated = bill.quanta - Len(bill.receipts)

\* An envelope never bills a quantum twice: a late worker merges its usage into
\* a bill that may already hold it, or may have held it and rolled its receipt
\* out, and reports at most what all quanta together were charged.
EnvelopeNoDouble ==
    \A w \in Workers : envelope[w] <= BillingCost(
        SumFunction([v \in Workers |-> Max({usage[v], paid[v], 0})]))

\* A stale worker's envelope still reports its unpersisted spend.
StaleReportsSpend ==
    \A w \in Workers : envelope[w] # NoUsage => envelope[w] >= BillingCost(usage[w])

=============================================================================
