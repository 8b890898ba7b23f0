------------------------ MODULE MissionLedgerProofs ------------------------
(***************************************************************************)
(* Proofs about MissionLedger for any set of workers and any lease TTL.    *)
(*                                                                         *)
(* LedgerInv is inductive.  It has a part about the durable row            *)
(* (LedgerFacts) and a part about each call (WorkerInv).  The heart of the *)
(* argument: lease_generation only grows and every claim and release moves *)
(* it, so a worker that owns the row at its CAS has owned it without a gap *)
(* since its claim, and its fenced artifact and evidence writes happened.  *)
(***************************************************************************)
EXTENDS MissionLedger, TLAPS

-----------------------------------------------------------------------------
(* The inductive invariant. *)

\* A lease belongs to an active row; a released row carries no token, an
\* absent one nothing at all, and every other row has been leased.
RowShape ==
    /\ row.status \in {"absent", "queued", "running", "verifying",
                       "waiting_event", "complete", "failed"}
    /\ row.token # NoOne => row.status \in {"running", "verifying"}
    /\ row.status = "absent" => row = NoRow
    /\ row.status # "absent" => row.gen > 0

\* A terminal row was released by the worker whose candidate it names.
Decided ==
    row.status \in Terminal =>
        /\ row.cand \in Workers
        /\ gen[row.cand] > 0
        /\ row.gen = gen[row.cand] + 1

CompleteBacked ==
    row.status = "complete" => row.cand \in artifacts /\ row.cand \in evidence

LedgerFacts ==
    /\ RowShape /\ GenerationFence /\ Decided /\ CompleteBacked
    /\ ProjectionTruth /\ SessionExactlyOnce /\ OneLiteralRepair

\* Ownership at the time of a CAS implies ownership when the seal's earlier
\* writes were made: a lost generation never comes back.
Frozen == {"fresh", "bind", "toverify", "verify", "precommit", "evidence",
           "commit", "faildone", "waitevent"}
OwnerWrote(w) ==
    Owner(w) =>
        /\ pc[w] \in Frozen => w \in artifacts
        /\ pc[w] = "commit" => w \in evidence
        /\ pc[w] = "waitevent" /\ check[w] = "literal" => row.failures = 0

\* What the post-seal steps remember of the row they may mirror.
PostSeal(w) ==
    /\ pc[w] = "save" => /\ row.status \in {"complete", "failed"}
                         /\ result[w] = row.status /\ row.cand = w
    /\ pc[w] = "session" => snap[w].status = "complete"
    /\ pc[w] = "mirror" => snap[w].status \in {"complete", "failed", "waiting_event"}
    /\ pc[w] = "errmirror" => snap[w].status = "waiting_event"
    /\ pc[w] \in {"session", "mirror"} /\ snap[w].status \in Terminal
         => row.cand = w /\ Fence(row) = snap[w]

WorkerInv(w) ==
    /\ pc[w] \in {"idle", "claim", "blocked"} => gen[w] = 0
    /\ pc[w] \in {"evidence", "commit"} => check[w] = "ok"
    /\ OwnerWrote(w)
    /\ PostSeal(w)

LedgerInv == TypeOK /\ LedgerFacts /\ \A w \in Workers : WorkerInv(w)

-----------------------------------------------------------------------------
(* Types of the row updates. *)

LEMMA LeaseBounds == /\ TTL \in -1..TTL /\ TTL \in Nat
                     /\ -1 \in -1..TTL
BY TTLAssumption

LEMMA FenceType ==
    ASSUME NEW r \in Rows
    PROVE  Fence(r) \in Fences /\ Fence(r).status = r.status
BY DEF Fence, Rows, Fences

LEMMA NoRowType == NoRow \in Rows /\ NoFence \in Fences /\ NoFence.status = "absent"
<1>1. NoRow \in Rows
  BY LeaseBounds DEF NoRow, Rows
<1> QED BY <1>1, FenceType DEF NoFence, NoRow

LEMMA RowUpdate ==
    ASSUME NEW r \in Rows
    PROVE  /\ \A s \in MissionStatus : [r EXCEPT !.status = s] \in Rows
           /\ \A n \in Nat : [r EXCEPT !.version = n] \in Rows
           /\ \A n \in Nat : [r EXCEPT !.gen = n] \in Rows
           /\ \A t \in Workers \cup {NoOne} : [r EXCEPT !.token = t] \in Rows
           /\ \A l \in -1..TTL : [r EXCEPT !.lease = l] \in Rows
           /\ \A n \in Nat : [r EXCEPT !.failures = n] \in Rows
           /\ \A c \in Checks : [r EXCEPT !.last = c] \in Rows
           /\ \A t \in Workers \cup {NoOne} : [r EXCEPT !.cand = t] \in Rows
BY DEF Rows

LEMMA ClearedFacts ==
    ASSUME row \in Rows, NEW to \in MissionStatus
    PROVE  /\ Cleared(to) \in Rows
           /\ Cleared(to).status = to
           /\ Cleared(to).gen = row.gen + 1
           /\ Cleared(to).token = NoOne
           /\ Cleared(to).failures = row.failures
           /\ Cleared(to).last = row.last
           /\ Cleared(to).cand = row.cand
<1>1. row.version + 1 \in Nat /\ row.gen + 1 \in Nat
  BY DEF Rows
<1>2. Cleared(to) \in Rows
  BY <1>1, RowUpdate, LeaseBounds DEF Cleared
<1>3. QED
  BY <1>2 DEF Cleared, Rows

LEMMA SealedFacts ==
    ASSUME row \in Rows, NEW w \in Workers, check[w] \in Checks,
           NEW to \in MissionStatus, NEW bump \in Nat
    PROVE  /\ Sealed(w, to, bump) \in Rows
           /\ Sealed(w, to, bump).status = to
           /\ Sealed(w, to, bump).gen = row.gen + 1
           /\ Sealed(w, to, bump).token = NoOne
           /\ Sealed(w, to, bump).failures = row.failures + bump
           /\ Sealed(w, to, bump).last = check[w]
           /\ Sealed(w, to, bump).cand = w
<1> DEFINE r == Cleared(to)
<1>1. r \in Rows /\ r.failures = row.failures /\ row.failures + bump \in Nat
  BY ClearedFacts DEF Rows
<1>2. Sealed(w, to, bump) = [r EXCEPT !.cand = w, !.last = check[w], !.failures = @ + bump]
  BY DEF Sealed
<1> HIDE DEF r
<1>3. Sealed(w, to, bump) \in Rows
  <2>1. [r EXCEPT !.cand = w] \in Rows
    BY <1>1, RowUpdate
  <2>2. [r EXCEPT !.cand = w, !.last = check[w]] \in Rows
    BY <2>1, RowUpdate
  <2>3. ASSUME NEW q \in Rows PROVE [q EXCEPT !.failures = @ + bump] \in Rows
    <3>1. q.failures + bump \in Nat
      BY DEF Rows
    <3> QED BY <3>1, RowUpdate
  <2>4. QED
    BY <1>2, <2>2, <2>3
<1>4. /\ r.status = to /\ r.gen = row.gen + 1 /\ r.token = NoOne
  BY ClearedFacts DEF r
<1>5. QED
  BY <1>1, <1>2, <1>3, <1>4 DEF Rows

-----------------------------------------------------------------------------
(* What a step of one call leaves of the others. *)

\* A step of w: the program counters and snapshots of the other calls stay.
StepOf(w) ==
    \A v \in Workers \ {w} :
        /\ pc'[v] = pc[v] /\ gen'[v] = gen[v]
        /\ snap'[v] = snap[v] /\ check'[v] = check[v] /\ result'[v] = result[v]

LEMMA OwnerActive ==
    ASSUME LedgerInv, NEW w \in Workers, Owner(w)
    PROVE  /\ row.status \in {"running", "verifying"}
           /\ row.status \notin Terminal
           /\ row.gen > 0 /\ gen[w] > 0
BY NoOneAssumption DEF LedgerInv, LedgerFacts, RowShape, Owner, Terminal

\* The other calls keep their invariant when the row stays, or when an
\* undecided row ends up in the hands of somebody else.
LEMMA Bystander ==
    ASSUME LedgerInv, NEW w \in Workers, StepOf(w),
           artifacts \subseteq artifacts', evidence \subseteq evidence',
           \/ row' = row
           \/ row'.token \in {w, NoOne} /\ row.status \notin Terminal,
           NEW v \in Workers \ {w}
    PROVE  WorkerInv(v)'
<1> USE DEF LedgerInv, StepOf
<1>1. WorkerInv(v)
  OBVIOUS
<1>2. /\ (pc[v] \in {"idle", "claim", "blocked"} => gen[v] = 0)'
      /\ (pc[v] \in {"evidence", "commit"} => check[v] = "ok")'
  BY <1>1 DEF WorkerInv
<1>3. CASE row' = row
  BY <1>1, <1>2, <1>3 DEF WorkerInv, OwnerWrote, PostSeal, Owner
<1>4. CASE row'.token \in {w, NoOne} /\ row.status \notin Terminal
  <2>1. OwnerWrote(v)'
    BY <1>4, NoOneAssumption DEF OwnerWrote, Owner
  <2>2. PostSeal(v)'
    <3>1. row.status \notin {"complete", "failed"}
      BY <1>4 DEF Terminal
    <3>2. row \in Rows /\ Fence(row).status = row.status
      BY FenceType DEF TypeOK
    <3>3. QED
      BY <1>1, <1>4, <3>1, <3>2 DEF WorkerInv, PostSeal, Terminal
  <2>3. QED
    BY <1>2, <2>1, <2>2 DEF WorkerInv
<1>5. QED
  BY <1>3, <1>4

\* The ledger facts survive every step that leaves the row and the history
\* alone, adds artifacts or evidence, or resets the projection.
LEMMA FactsKept ==
    ASSUME LedgerInv, row' = row, gen' = gen, turns' = turns,
           artifacts \subseteq artifacts', evidence \subseteq evidence',
           job' \in {job, RunningJob, LostJob}
    PROVE  LedgerFacts'
<1>1. ProjectionTruth'
  <2>1. /\ RunningJob.status = "running" /\ LostJob.by = NoOne
        /\ LostJob.status = "error"
    BY DEF RunningJob, LostJob
  <2>2. QED
    BY <2>1 DEF LedgerInv, LedgerFacts, ProjectionTruth
<1>2. QED
  BY <1>1 DEF LedgerInv, LedgerFacts, RowShape, GenerationFence, Decided,
              CompleteBacked, SessionExactlyOnce, OneLiteralRepair

LEMMA QuietStep ==
    ASSUME LedgerInv, NEW w \in Workers, StepOf(w), TypeOK', WorkerInv(w)',
           row' = row, gen' = gen, turns' = turns,
           artifacts \subseteq artifacts', evidence \subseteq evidence',
           job' \in {job, RunningJob, LostJob}
    PROVE  LedgerInv'
<1>1. LedgerFacts'
  BY FactsKept
<1>2. \A v \in Workers \ {w} : WorkerInv(v)'
  BY Bystander
<1>3. QED
  BY <1>1, <1>2 DEF LedgerInv

\* A step by which w, the owner of an active row, or a call claiming it, moves
\* the row to itself or releases it.
LEMMA RowStep ==
    ASSUME LedgerInv, NEW w \in Workers, StepOf(w), TypeOK', WorkerInv(w)',
           row'.token \in {w, NoOne}, row.status \notin Terminal,
           artifacts \subseteq artifacts', evidence \subseteq evidence',
           LedgerFacts'
    PROVE  LedgerInv'
<1>1. \A v \in Workers \ {w} : WorkerInv(v)'
  BY Bystander
<1>2. QED
  BY <1>1 DEF LedgerInv

-----------------------------------------------------------------------------
(* Types of the local updates. *)

LEMMA GotoType ==
    ASSUME TypeOK, NEW w \in Workers, NEW s \in Steps, Goto(w, s)
    PROVE  /\ pc' \in [Workers -> Steps] /\ pc'[w] = s
           /\ \A v \in Workers \ {w} : pc'[v] = pc[v]
BY DEF TypeOK, Goto

LEMMA SeeType ==
    ASSUME TypeOK, NEW w \in Workers, See(w)
    PROVE  /\ snap' \in [Workers -> Fences] /\ snap'[w] = Fence(row)
           /\ \A v \in Workers \ {w} : snap'[v] = snap[v]
BY FenceType DEF TypeOK, See

LEMMA SealReturnsType ==
    ASSUME TypeOK, NEW w \in Workers, NEW st \in MissionStatus \cup {"absent"},
           SealReturns(w, st)
    PROVE  /\ result' \in [Workers -> MissionStatus \cup {"absent"}]
           /\ pc' \in [Workers -> Steps] /\ pc'[w] = "truth"
           /\ \A v \in Workers \ {w} : pc'[v] = pc[v] /\ result'[v] = result[v]
BY GotoType DEF TypeOK, SealReturns, Steps, TaskSteps, SealSteps

LEMMA FinishType ==
    ASSUME TypeOK, NEW w \in Workers, Finish(w)
    PROVE  /\ pc' \in [Workers -> Steps] /\ pc'[w] = "done"
           /\ snap' \in [Workers -> Fences]
           /\ check' \in [Workers -> Checks]
           /\ result' \in [Workers -> MissionStatus \cup {"absent"}]
           /\ \A v \in Workers \ {w} :
                 /\ pc'[v] = pc[v] /\ snap'[v] = snap[v]
                 /\ check'[v] = check[v] /\ result'[v] = result[v]
BY NoRowType DEF TypeOK, Finish, Goto, Steps, Checks

-----------------------------------------------------------------------------
(* Steps that leave the mission row alone. *)

LEMMA QuietType ==
    ASSUME TypeOK, NEW w \in Workers,
           \/ Lookup(w) \/ Blocked(w) \/ EvidenceLost(w) \/ EvidenceLoad(w)
           \/ Turn(w) \/ SealLoad(w) \/ Fresh(w) \/ Bind(w) \/ Verify(w)
           \/ PreCommit(w) \/ Reload(w) \/ Truth(w) \/ Reread(w) \/ ErrLoad(w)
           \/ ErrReread(w) \/ StepRaises(w) \/ Die(w) \/ Start(w) \/ Freeze(w)
           \/ AppendEvidence(w) \/ MarkLost(w)
    PROVE  TypeOK' /\ StepOf(w)
<1> USE DEF TypeOK, StepOf, store, local
<1>1. row.status \in MissionStatus \cup {"absent"}
  BY DEF Rows
<1>2. CASE Lookup(w)
  BY <1>2, GotoType DEF Lookup, Steps, TaskSteps, SealSteps, ErrorSteps
<1>3. CASE Blocked(w)
  BY <1>3, GotoType DEF Blocked, Steps, TaskSteps, SealSteps, ErrorSteps
<1>4. CASE EvidenceLost(w)
  BY <1>4, GotoType DEF EvidenceLost, Steps, TaskSteps, SealSteps, ErrorSteps
<1>5. CASE EvidenceLoad(w)
  BY <1>5, GotoType, SeeType DEF EvidenceLoad, Steps, TaskSteps, SealSteps, ErrorSteps
<1>6. CASE Turn(w)
  BY <1>6, GotoType DEF Turn, Steps, TaskSteps, SealSteps, ErrorSteps
<1>7. CASE SealLoad(w)
  BY <1>1, <1>7, GotoType, SeeType, SealReturnsType DEF SealLoad, Steps, TaskSteps, SealSteps, ErrorSteps
<1>8. CASE Fresh(w)
  BY <1>1, <1>8, GotoType, SeeType, SealReturnsType DEF Fresh, Steps, TaskSteps, SealSteps, ErrorSteps
<1>9. CASE Bind(w)
  BY <1>9, GotoType DEF Bind, Steps, TaskSteps, SealSteps, ErrorSteps
<1>10. CASE Verify(w)
  BY <1>10, GotoType DEF Verify, Steps, TaskSteps, SealSteps, ErrorSteps
<1>11. CASE PreCommit(w)
  BY <1>1, <1>11, GotoType, SeeType, SealReturnsType DEF PreCommit, Steps, TaskSteps, SealSteps, ErrorSteps
<1>12. CASE Reload(w)
  BY <1>1, <1>12, GotoType, SealReturnsType DEF Reload, Steps, TaskSteps, SealSteps, ErrorSteps
<1>13. CASE Truth(w)
  BY <1>13, GotoType, SeeType DEF Truth, Steps, TaskSteps, SealSteps, ErrorSteps
<1>14. CASE Reread(w)
  BY <1>14, GotoType DEF Reread, Steps, TaskSteps, SealSteps, ErrorSteps
<1>15. CASE ErrLoad(w)
  BY <1>15, GotoType, SeeType DEF ErrLoad, Steps, TaskSteps, SealSteps, ErrorSteps
<1>16. CASE ErrReread(w)
  BY <1>16, GotoType, SeeType DEF ErrReread, Steps, TaskSteps, SealSteps, ErrorSteps
<1>17. CASE StepRaises(w)
  BY <1>17, GotoType DEF StepRaises, Steps, TaskSteps, SealSteps, ErrorSteps
<1>18. CASE Die(w)
  BY <1>18, FinishType DEF Die
<1>19. CASE Start(w)
  BY <1>19, GotoType DEF Start, Steps, TaskSteps, SealSteps, ErrorSteps, Jobs, JobStatus, RunningJob, LostJob
<1>20. CASE Freeze(w)
  BY <1>20, GotoType DEF Freeze, Steps, TaskSteps, SealSteps, ErrorSteps
<1>21. CASE AppendEvidence(w)
  BY <1>21, GotoType DEF AppendEvidence, Steps, TaskSteps, SealSteps, ErrorSteps
<1>22. CASE MarkLost(w)
  BY <1>22 DEF MarkLost, Steps, TaskSteps, SealSteps, ErrorSteps, Jobs, JobStatus, RunningJob, LostJob
<1>23. QED
  BY <1>2, <1>3, <1>4, <1>5, <1>6, <1>7, <1>8, <1>9, <1>10, <1>11, <1>12,
     <1>13, <1>14, <1>15, <1>16, <1>17, <1>18, <1>19, <1>20, <1>21, <1>22

\* result_owns_truth identifies the decider: generations are never shared.
LEMMA DeciderUnique ==
    ASSUME LedgerInv, NEW w \in Workers, row.status \in Terminal,
           row.gen = gen[w] + 1
    PROVE  row.cand = w
<1>1. row.cand \in Workers /\ gen[row.cand] > 0 /\ row.gen = gen[row.cand] + 1
  BY DEF LedgerInv, LedgerFacts, Decided
<1>2. gen[w] \in Nat /\ gen[row.cand] \in Nat
  BY <1>1 DEF LedgerInv, TypeOK
<1>3. QED
  BY <1>1, <1>2 DEF LedgerInv, LedgerFacts, GenerationFence

LEMMA QuietInv ==
    ASSUME LedgerInv, NEW w \in Workers,
           \/ Lookup(w) \/ Blocked(w) \/ EvidenceLost(w) \/ EvidenceLoad(w)
           \/ Turn(w) \/ SealLoad(w) \/ Fresh(w) \/ Bind(w) \/ Verify(w)
           \/ PreCommit(w) \/ Reload(w) \/ Truth(w) \/ Reread(w) \/ ErrLoad(w)
           \/ ErrReread(w) \/ StepRaises(w) \/ Die(w) \/ Start(w) \/ Freeze(w)
           \/ AppendEvidence(w) \/ MarkLost(w)
    PROVE  LedgerInv'
<1>1. TypeOK /\ TypeOK' /\ StepOf(w) /\ WorkerInv(w) /\ LedgerFacts
  BY QuietType DEF LedgerInv
<1>2. /\ row' = row /\ gen' = gen /\ turns' = turns
      /\ artifacts \subseteq artifacts' /\ evidence \subseteq evidence'
      /\ job' \in {job, RunningJob, LostJob}
  <2>1. CASE Start(w)
    BY <2>1 DEF Start
  <2>2. CASE MarkLost(w)
    BY <2>2 DEF MarkLost
  <2>3. CASE Freeze(w)
    BY <2>3 DEF Freeze
  <2>4. CASE AppendEvidence(w)
    BY <2>4 DEF AppendEvidence
  <2>5. CASE \/ Lookup(w) \/ Blocked(w) \/ EvidenceLost(w) \/ EvidenceLoad(w)
             \/ Turn(w) \/ SealLoad(w) \/ Fresh(w) \/ Bind(w) \/ Verify(w)
             \/ PreCommit(w) \/ Reload(w) \/ Truth(w) \/ Reread(w)
             \/ ErrLoad(w) \/ ErrReread(w) \/ StepRaises(w) \/ Die(w)
    BY <2>5 DEF Lookup, Blocked, EvidenceLost, EvidenceLoad, Turn, SealLoad,
       Fresh, Bind, Verify, PreCommit, Reload, Truth, Reread, ErrLoad,
       ErrReread, StepRaises, Die, store
  <2>6. QED
    BY <2>1, <2>2, <2>3, <2>4, <2>5
<1>3. WorkerInv(w)'
  <2>0. row.status \in MissionStatus \cup {"absent"} /\ Fence(row).status = row.status
    BY <1>1, FenceType DEF TypeOK, Rows
  <2> USE <1>1, <1>2, <2>0 DEF WorkerInv, OwnerWrote, PostSeal, Owner, Frozen, local
  <2>1. CASE Lookup(w)
    BY <2>1, GotoType DEF Lookup, Steps, TaskSteps, SealSteps, ErrorSteps
  <2>2. CASE Blocked(w)
    BY <2>2, GotoType DEF Blocked, Steps, TaskSteps, SealSteps, ErrorSteps
  <2>3. CASE EvidenceLost(w)
    BY <2>3, GotoType DEF EvidenceLost, Steps, TaskSteps, SealSteps, ErrorSteps
  <2>4. CASE EvidenceLoad(w)
    BY <2>4, GotoType, SeeType DEF EvidenceLoad, Steps, TaskSteps, SealSteps, ErrorSteps
  <2>5. CASE Turn(w)
    BY <2>5, GotoType DEF Turn, Steps, TaskSteps, SealSteps, ErrorSteps
  <2>6. CASE SealLoad(w)
    BY <2>6, GotoType, SeeType, SealReturnsType DEF SealLoad, Steps, TaskSteps, SealSteps, ErrorSteps
  <2>7. CASE Fresh(w)
    BY <2>7, GotoType, SeeType, SealReturnsType DEF Fresh, Steps, TaskSteps, SealSteps, ErrorSteps
  <2>8. CASE Bind(w)
    BY <2>8, GotoType DEF Bind, Steps, TaskSteps, SealSteps, ErrorSteps
  <2>9. CASE Verify(w)
    BY <2>9, GotoType DEF Verify, Steps, TaskSteps, SealSteps, ErrorSteps
  <2>10. CASE PreCommit(w)
    <3>1. row.failures \in Nat
      BY DEF TypeOK, Rows
    <3>2. CASE Owner(w)
      BY <2>10, <3>1, <3>2, GotoType
      DEF PreCommit, ShouldTerminalFail, Steps, TaskSteps, SealSteps
    <3>3. CASE ~Owner(w)
      BY <2>10, <3>3, SealReturnsType DEF PreCommit
    <3>4. QED
      BY <3>2, <3>3
  <2>11. CASE Reload(w)
    BY <2>11, GotoType, SealReturnsType DEF Reload, Steps, TaskSteps, SealSteps, ErrorSteps
  <2>12. CASE Truth(w)
    <3>1. OwnsTruth(w) /\ row.status \in Terminal => row.cand = w
      BY DeciderUnique DEF OwnsTruth
    <3>2. CASE pc'[w] \in {"terminal", "done"}
      BY <2>12, <3>2 DEF Truth
    <3>3. CASE pc'[w] \in {"session", "mirror"}
      <4>1. /\ snap'[w] = Fence(row) /\ OwnsTruth(w)
            /\ row.status \in {"complete", "failed", "waiting_event"}
            /\ pc'[w] = "session" => row.status = "complete"
        BY <2>12, <3>3, GotoType, SeeType DEF Truth, Steps, TaskSteps, SealSteps
      <4>2. QED
        BY <3>1, <3>3, <4>1
    <3>4. QED
      BY <2>12, <3>2, <3>3, GotoType DEF Truth, Steps, TaskSteps, SealSteps
  <2>13. CASE Reread(w)
    BY <2>13, GotoType DEF Reread, Steps, TaskSteps, SealSteps, ErrorSteps
  <2>14. CASE ErrLoad(w)
    BY <2>14, GotoType, SeeType DEF ErrLoad, Steps, TaskSteps, SealSteps, ErrorSteps
  <2>15. CASE ErrReread(w)
    BY <2>15, GotoType, SeeType DEF ErrReread, Steps, TaskSteps, SealSteps, ErrorSteps
  <2>16. CASE StepRaises(w)
    BY <2>16, GotoType DEF StepRaises, Steps, TaskSteps, SealSteps, ErrorSteps
  <2>17. CASE Die(w)
    BY <2>17, FinishType DEF Die
  <2>18. CASE Start(w)
    BY <2>18, GotoType DEF Start, Steps, TaskSteps, SealSteps, ErrorSteps
  <2>19. CASE Freeze(w)
    BY <2>19, GotoType DEF Freeze, Steps, TaskSteps, SealSteps, ErrorSteps
  <2>20. CASE AppendEvidence(w)
    BY <2>20, GotoType DEF AppendEvidence, Steps, TaskSteps, SealSteps, ErrorSteps
  <2>21. CASE MarkLost(w)
    BY <2>21 DEF MarkLost, Steps, TaskSteps, SealSteps, ErrorSteps
  <2>22. QED
    BY <2>1, <2>2, <2>3, <2>4, <2>5, <2>6, <2>7, <2>8, <2>9, <2>10, <2>11,
       <2>12, <2>13, <2>14, <2>15, <2>16, <2>17, <2>18, <2>19, <2>20, <2>21
<1>4. QED
  BY <1>1, <1>2, <1>3, QuietStep

-----------------------------------------------------------------------------
(* Steps that write the mission row. *)

LEMMA StatusLiterals ==
    /\ {"waiting_event", "queued", "running", "verifying", "complete", "failed"}
           \subseteq MissionStatus
    /\ {"waiting_event", "queued", "running", "verifying", "absent"} \cap Terminal = {}
    /\ {"complete", "failed"} \subseteq Terminal
BY DEF MissionStatus, Terminal

\* A release or requeue of an undecided row.
LEMMA ReleasedFacts ==
    ASSUME LedgerInv, row.status \notin Terminal, row.status # "absent",
           row'.status \in {"queued", "waiting_event"}, row'.token = NoOne,
           row'.gen = row.gen + 1, OneLiteralRepair',
           gen' = gen, UNCHANGED store
    PROVE  LedgerFacts'
<1> USE StatusLiterals DEF LedgerInv, LedgerFacts, store
<1>1. row.gen \in Nat /\ gen \in [Workers -> Nat]
  BY DEF TypeOK, Rows
<1>2. RowShape' /\ GenerationFence'
  BY <1>1 DEF RowShape, GenerationFence
<1>3. Decided' /\ CompleteBacked'
  BY DEF Decided, CompleteBacked
<1>4. ProjectionTruth' /\ SessionExactlyOnce'
  BY DEF ProjectionTruth, SessionExactlyOnce
<1>5. QED
  BY <1>2, <1>3, <1>4

\* A release that keeps last_verify and verify_failures.
LEMMA ClearedStep ==
    ASSUME LedgerInv, row.status \notin Terminal, row.status # "absent",
           NEW to \in {"queued", "waiting_event"}, row' = Cleared(to),
           gen' = gen, UNCHANGED store
    PROVE  LedgerFacts' /\ row' \in Rows /\ row'.token = NoOne
<1>1. to \in MissionStatus /\ row \in Rows
  BY StatusLiterals DEF LedgerInv, TypeOK
<1>2. OneLiteralRepair'
  BY <1>1, ClearedFacts, StatusLiterals DEF LedgerInv, LedgerFacts, OneLiteralRepair
<1>3. QED
  BY <1>1, <1>2, ClearedFacts, ReleasedFacts

LEMMA OwnerPresent ==
    ASSUME LedgerInv, NEW w \in Workers, Owner(w)
    PROVE  row.status \notin Terminal /\ row.status # "absent"
BY OwnerActive

\* WorkerInv of a worker that has just given the row away.
LEMMA ReleaserInv ==
    ASSUME NEW w \in Workers, row'.token = NoOne,
           pc'[w] \in {"reload", "reread", "errreread", "errlast", "done"}
    PROVE  WorkerInv(w)'
BY NoOneAssumption DEF WorkerInv, OwnerWrote, Owner, PostSeal, Frozen

LEMMA ReleaseInv ==
    ASSUME LedgerInv, NEW w \in Workers,
           EvidenceRelease(w) \/ ErrRelease(w)
    PROVE  LedgerInv'
<1> USE DEF LedgerInv
<1>1. pc'[w] \in {"reread", "errreread", "errlast", "done"} /\ StepOf(w)
      /\ (row' \in Rows => TypeOK')
  <2>1. CASE EvidenceRelease(w)
    BY <2>1, FinishType DEF EvidenceRelease, TypeOK, StepOf, store
  <2>2. CASE ErrRelease(w)
    BY <2>2, GotoType DEF ErrRelease, TypeOK, StepOf, store, local, Steps,
       TaskSteps, ErrorSteps
  <2>3. QED
    BY <2>1, <2>2
<1>2. gen' = gen /\ UNCHANGED store
  BY DEF EvidenceRelease, ErrRelease
<1>3. CASE row' = row
  <2>1. WorkerInv(w)'
    BY <1>1 DEF WorkerInv, OwnerWrote, PostSeal, Frozen
  <2>2. TypeOK'
    BY <1>1, <1>3 DEF TypeOK
  <2>3. QED
    BY <1>1, <1>2, <1>3, <2>1, <2>2, QuietStep DEF store
<1>4. CASE row' # row
  <2>1. Owner(w) /\ row' = Cleared("waiting_event")
    BY <1>4 DEF EvidenceRelease, ErrRelease, CasFits
  <2>2. LedgerFacts' /\ row' \in Rows /\ row'.token = NoOne
    BY <1>2, <2>1, OwnerPresent, ClearedStep
  <2>3. WorkerInv(w)'
    BY <1>1, <2>1, <2>2, ReleaserInv
  <2>4. QED
    BY <1>1, <1>2, <2>1, <2>2, <2>3, OwnerPresent, RowStep DEF store
<1>5. QED
  BY <1>3, <1>4

LEMMA WaitEventInv ==
    ASSUME LedgerInv, NEW w \in Workers, WaitEvent(w)
    PROVE  LedgerInv'
<1> USE DEF LedgerInv
<1>1. pc'[w] = "reload" /\ StepOf(w) /\ (row' \in Rows => TypeOK')
  BY GotoType DEF WaitEvent, TypeOK, StepOf, store, local, Steps, TaskSteps, SealSteps
<1>2. gen' = gen /\ UNCHANGED store
  BY DEF WaitEvent
<1>3. CASE row' = row
  <2>1. WorkerInv(w)'
    BY <1>1 DEF WorkerInv, OwnerWrote, PostSeal, Frozen
  <2>2. TypeOK'
    BY <1>1, <1>3 DEF TypeOK
  <2>3. QED
    BY <1>1, <1>2, <1>3, <2>1, <2>2, QuietStep DEF store
<1>4. CASE row' # row
  <2>1. Owner(w) /\ row' = Sealed(w, "waiting_event", 1)
    BY <1>4 DEF WaitEvent, CasFits
  <2>2. row \in Rows /\ check[w] \in Checks /\ row.failures \in Nat
    BY DEF TypeOK, Rows
  <2>3. /\ row' \in Rows /\ row'.token = NoOne /\ row'.status = "waiting_event"
        /\ row'.gen = row.gen + 1 /\ row'.last = check[w]
        /\ row'.failures = row.failures + 1
    BY <2>1, <2>2, SealedFacts, StatusLiterals
  <2>4. OneLiteralRepair'
    <3>1. check[w] = "literal" => row.failures = 0
      BY <2>1 DEF WorkerInv, OwnerWrote, WaitEvent
    <3>2. QED
      BY <2>2, <2>3, <3>1 DEF OneLiteralRepair
  <2>5. LedgerFacts'
    BY <1>2, <2>1, <2>3, <2>4, OwnerPresent, ReleasedFacts
  <2>6. WorkerInv(w)'
    BY <1>1, <2>3, ReleaserInv
  <2>7. QED
    BY <1>1, <1>2, <2>1, <2>3, <2>5, <2>6, OwnerPresent, RowStep DEF store
<1>5. QED
  BY <1>3, <1>4

\* CommitDone and FailDone: the owner decides the mission.
LEMMA DecideInv ==
    ASSUME LedgerInv, NEW w \in Workers, CommitDone(w) \/ FailDone(w)
    PROVE  LedgerInv'
<1> USE DEF LedgerInv
<1>1. StepOf(w) /\ (row' \in Rows => TypeOK')
      /\ pc'[w] \in {"save", "waitevent", "reload"}
      /\ (pc'[w] = "waitevent" => pc[w] = "commit" /\ UNCHANGED check)
  <2>1. "complete" \in MissionStatus /\ "failed" \in MissionStatus
    BY StatusLiterals
  <2>2. CASE result' = result
    BY <2>2, GotoType DEF CommitDone, FailDone, TypeOK, StepOf, store, Steps,
       TaskSteps, SealSteps
  <2>3. CASE \E st \in {"complete", "failed"} : result' = [result EXCEPT ![w] = st]
    <3>1. /\ result' \in [Workers -> MissionStatus \cup {"absent"}]
          /\ \A v \in Workers \ {w} : result'[v] = result[v]
      BY <2>1, <2>3 DEF TypeOK
    <3>2. QED
      BY <3>1, GotoType DEF CommitDone, FailDone, TypeOK, StepOf, store, Steps,
         TaskSteps, SealSteps
  <2>4. QED
    BY <2>2, <2>3 DEF CommitDone, FailDone
<1>2. gen' = gen /\ UNCHANGED store /\ snap' = snap
  BY DEF CommitDone, FailDone
<1>3. CASE row' = row /\ pc'[w] # "save"
  <2>1. WorkerInv(w)'
    BY <1>1, <1>2, <1>3 DEF WorkerInv, OwnerWrote, Owner, PostSeal, Frozen, store
  <2>2. TypeOK'
    BY <1>1, <1>3 DEF TypeOK
  <2>3. QED
    BY <1>1, <1>2, <1>3, <2>1, <2>2, QuietStep DEF store
<1>4. ASSUME NEW to \in {"complete", "failed"}, NEW bump \in Nat, Owner(w),
             row' = Sealed(w, to, bump), pc'[w] = "save", result'[w] = to,
             to = "complete" => pc[w] = "commit", pc[w] \in Frozen
      PROVE  LedgerInv'
  <2>1. /\ row \in Rows /\ check[w] \in Checks /\ row.gen \in Nat
        /\ gen \in [Workers -> Nat]
    BY DEF TypeOK, Rows
  <2>2. /\ row' \in Rows /\ row'.token = NoOne /\ row'.status = to
        /\ row'.gen = row.gen + 1 /\ row'.cand = w
    BY <1>4, <2>1, SealedFacts, StatusLiterals
  <2>3. /\ row.status \notin Terminal /\ row.status # "absent" /\ row.gen = gen[w]
        /\ gen[w] > 0
    BY <1>4, OwnerActive DEF Owner
  <2>4. RowShape' /\ GenerationFence'
    BY <1>2, <2>1, <2>2, <2>3 DEF LedgerFacts, RowShape, GenerationFence
  <2>5. Decided' /\ CompleteBacked'
    BY <1>2, <1>4, <2>2, <2>3 DEF WorkerInv, OwnerWrote, Decided, CompleteBacked, store
  <2>6. ProjectionTruth' /\ SessionExactlyOnce' /\ OneLiteralRepair'
    BY <1>2, <1>4, <2>2, <2>3, StatusLiterals
    DEF LedgerFacts, ProjectionTruth, SessionExactlyOnce, OneLiteralRepair, store
  <2>7. LedgerFacts'
    BY <2>4, <2>5, <2>6 DEF LedgerFacts
  <2>8. WorkerInv(w)'
    BY <1>4, <2>2, NoOneAssumption DEF WorkerInv, OwnerWrote, Owner, PostSeal, Frozen
  <2>9. QED
    BY <1>1, <1>2, <2>2, <2>3, <2>7, <2>8, RowStep DEF store
<1>5. QED
  <2>1. CASE CommitDone(w) /\ CasFits(w, "verifying", "complete")
    <3>1. pc'[w] = "save" /\ result'[w] = "complete" /\ pc[w] \in Frozen
      BY <2>1, GotoType DEF CommitDone, Steps, TaskSteps, Frozen, TypeOK
    <3>2. QED
      BY <1>4, <2>1, <3>1 DEF CommitDone, CasFits
  <2>2. CASE FailDone(w) /\ CasFits(w, "verifying", "failed")
    <3>1. pc'[w] = "save" /\ result'[w] = "failed" /\ pc[w] \in Frozen
      BY <2>2, GotoType DEF FailDone, Steps, TaskSteps, Frozen, TypeOK
    <3>2. QED
      BY <1>4, <2>2, <3>1 DEF FailDone, CasFits
  <2>3. CASE CommitDone(w) /\ ~CasFits(w, "verifying", "complete")
    BY <1>3, <2>3, GotoType DEF CommitDone, Steps, TaskSteps, SealSteps
  <2>4. CASE FailDone(w) /\ ~CasFits(w, "verifying", "failed")
    BY <1>3, <2>4, GotoType DEF FailDone, Steps, TaskSteps, SealSteps
  <2>5. QED
    BY <2>1, <2>2, <2>3, <2>4

LEMMA CreateInv ==
    ASSUME LedgerInv, NEW w \in Workers, Create(w)
    PROVE  LedgerInv'
<1> USE DEF LedgerInv
<1>1. /\ row' \in Rows /\ row'.status = "running" /\ row'.gen = 1 /\ row'.token = w
      /\ row'.last = "none"
  <2>1. row' = [status |-> "running", version |-> 0, gen |-> 1, token |-> w,
                lease |-> TTL, failures |-> 0, last |-> "none", cand |-> NoOne]
    BY DEF Create, NoRow
  <2>2. QED
    BY <2>1, LeaseBounds, StatusLiterals DEF Rows
<1>2. TypeOK' /\ StepOf(w) /\ pc'[w] = "start" /\ gen'[w] = 1
  BY <1>1, GotoType DEF Create, TypeOK, StepOf, store, local, Steps
<1>3. row.status = "absent" /\ row.gen = 0 /\ row.status \notin Terminal
  BY StatusLiterals DEF Create, LedgerFacts, RowShape, NoRow
<1>4. RowShape' /\ GenerationFence'
  <2>1. \A v \in Workers \ {w} : gen'[v] = 0
    BY <1>2, <1>3 DEF TypeOK, StepOf, LedgerFacts, GenerationFence
  <2>2. QED
    BY <1>1, <1>2, <2>1, NoOneAssumption DEF RowShape, GenerationFence
<1>5. Decided' /\ CompleteBacked' /\ OneLiteralRepair'
  BY <1>1, StatusLiterals DEF Decided, CompleteBacked, OneLiteralRepair
<1>6. ProjectionTruth' /\ SessionExactlyOnce'
  BY <1>3 DEF LedgerFacts, ProjectionTruth, SessionExactlyOnce, Create, store
<1>7. WorkerInv(w)'
  BY <1>2 DEF WorkerInv, OwnerWrote, PostSeal, Frozen
<1>8. QED
  BY <1>1, <1>2, <1>3, <1>4, <1>5, <1>6, <1>7, RowStep DEF LedgerFacts, Create, store

LEMMA ClaimInv ==
    ASSUME LedgerInv, NEW w \in Workers, Claim(w)
    PROVE  LedgerInv'
<1> USE DEF LedgerInv
<1>1. CASE ~Claimable
  <2>1. TypeOK' /\ StepOf(w) /\ pc'[w] = "blocked" /\ row' = row /\ gen' = gen
    BY <1>1, GotoType DEF Claim, TypeOK, StepOf, store, local, Steps
  <2>2. WorkerInv(w)'
    BY <2>1 DEF Claim, WorkerInv, OwnerWrote, PostSeal, Frozen
  <2>3. QED
    BY <2>1, <2>2, QuietStep DEF Claim, store
<1>2. CASE Claimable
  <2>1. /\ row \in Rows /\ row.gen \in Nat /\ gen \in [Workers -> Nat]
        /\ row.status \in {"queued", "waiting_event", "running", "verifying"}
        /\ row.status \notin Terminal /\ row.status # "absent"
    BY <1>2, StatusLiterals DEF TypeOK, Rows, Claimable
  <2> DEFINE st == IF row.status \in {"queued", "waiting_event"} THEN "running"
                   ELSE row.status
  <2>2. st \in {"running", "verifying"} /\ st \in MissionStatus
    BY <2>1, StatusLiterals
  <2>3. row' = [row EXCEPT !.token = w, !.gen = row.gen + 1, !.lease = TTL, !.status = st]
    BY <1>2, <2>1 DEF Claim, Rows
  <2> HIDE DEF st
  <2>4. row' \in Rows
    <3>1. [row EXCEPT !.token = w] \in Rows
      BY <2>1, RowUpdate
    <3>2. row.gen + 1 \in Nat
      BY <2>1
    <3>3. [row EXCEPT !.token = w, !.gen = row.gen + 1] \in Rows
      BY <3>1, <3>2, RowUpdate
    <3>4. [row EXCEPT !.token = w, !.gen = row.gen + 1, !.lease = TTL] \in Rows
      BY <3>3, RowUpdate, LeaseBounds
    <3>5. QED
      BY <2>2, <2>3, <3>4, RowUpdate
  <2>5. /\ row'.status = st /\ row'.gen = row.gen + 1 /\ row'.token = w
        /\ row'.last = row.last /\ row'.failures = row.failures
    BY <2>1, <2>3 DEF Rows
  <2>6. TypeOK' /\ StepOf(w) /\ pc'[w] = "start" /\ gen'[w] = row.gen + 1
    <3>1. /\ gen' \in [Workers -> Nat] /\ gen'[w] = row.gen + 1
          /\ \A v \in Workers \ {w} : gen'[v] = gen[v]
      BY <1>2, <2>1 DEF Claim
    <3>2. QED
      BY <1>2, <2>4, <3>1, GotoType DEF Claim, TypeOK, StepOf, store, local, Steps
  <2>7. RowShape'
    BY <2>1, <2>2, <2>5 DEF RowShape
  <2>8. GenerationFence'
    <3>1. \A v \in Workers \ {w} : gen'[v] \in Nat /\ gen'[v] <= row.gen
      BY <2>1, <2>6 DEF StepOf, LedgerFacts, GenerationFence
    <3>2. \A u, v \in Workers \ {w} : u # v /\ gen'[u] > 0 => gen'[u] # gen'[v]
      BY <2>6 DEF StepOf, LedgerFacts, GenerationFence
    <3>3. QED
      BY <2>1, <2>5, <2>6, <3>1, <3>2 DEF GenerationFence
  <2>9. Decided' /\ CompleteBacked' /\ OneLiteralRepair'
    BY <2>1, <2>2, <2>5, StatusLiterals
    DEF LedgerFacts, Decided, CompleteBacked, OneLiteralRepair
  <2>10. ProjectionTruth' /\ SessionExactlyOnce'
    BY <2>1, StatusLiterals
    DEF LedgerFacts, ProjectionTruth, SessionExactlyOnce, Claim, store
  <2>11. WorkerInv(w)'
    BY <2>6 DEF WorkerInv, OwnerWrote, PostSeal, Frozen
  <2>12. QED
    BY <2>1, <2>5, <2>6, <2>7, <2>8, <2>9, <2>10, <2>11, RowStep
    DEF LedgerFacts, Claim, store
<1>3. QED
  BY <1>1, <1>2

\* Renewing or losing lease time changes nothing the invariant speaks of.
LEMMA LeaseFacts ==
    ASSUME LedgerInv, row.token # NoOne, NEW l \in -1..TTL,
           row' = [row EXCEPT !.lease = l], gen' = gen, UNCHANGED store
    PROVE  /\ LedgerFacts' /\ row' \in Rows /\ row'.token = row.token
           /\ row'.gen = row.gen /\ row'.failures = row.failures
           /\ row.status \notin Terminal
<1> USE DEF LedgerInv, LedgerFacts
<1>1. row \in Rows /\ row' \in Rows
  BY RowUpdate DEF TypeOK
<1>2. /\ row'.status = row.status /\ row'.gen = row.gen /\ row'.token = row.token
      /\ row'.last = row.last /\ row'.failures = row.failures /\ row'.cand = row.cand
  BY <1>1 DEF Rows
<1>3. row.status \in {"running", "verifying"} /\ row.status \notin Terminal
  BY StatusLiterals DEF RowShape
<1>4. RowShape' /\ GenerationFence' /\ OneLiteralRepair'
  BY <1>2, <1>3 DEF RowShape, GenerationFence, OneLiteralRepair
<1>5. Decided' /\ CompleteBacked' /\ ProjectionTruth' /\ SessionExactlyOnce'
  BY <1>2, <1>3 DEF Decided, CompleteBacked, ProjectionTruth, SessionExactlyOnce, store
<1>6. QED
  BY <1>1, <1>2, <1>3, <1>4, <1>5

LEMMA NoSweepType == NoSweep \in Sweeps
BY DEF Sweeps

LEMMA SealBeatInv ==
    ASSUME LedgerInv, NEW w \in Workers, SealBeat(w)
    PROVE  LedgerInv'
<1> USE DEF LedgerInv
<1>1. CASE Owner(w)
  <2>1. /\ row.token = w /\ gen' = gen /\ UNCHANGED store
        /\ row' = [row EXCEPT !.lease = TTL] /\ TTL \in -1..TTL
    BY <1>1, LeaseBounds DEF SealBeat, Renew, Owner
  <2>2. /\ LedgerFacts' /\ row' \in Rows /\ row'.token = w
        /\ row.status \notin Terminal
    BY <2>1, LeaseFacts, NoOneAssumption
  <2>3. TypeOK' /\ StepOf(w) /\ pc'[w] = "freeze"
    BY <1>1, <2>1, <2>2, GotoType, NoSweepType
    DEF SealBeat, Renew, TypeOK, StepOf, store, Steps, TaskSteps, SealSteps
  <2>4. WorkerInv(w)'
    BY <2>3 DEF WorkerInv, OwnerWrote, PostSeal, Frozen
  <2>5. QED
    BY <2>1, <2>2, <2>3, <2>4, RowStep DEF store
<1>2. CASE ~Owner(w)
  <2>1. snap[w].status \in MissionStatus \cup {"absent"}
    BY DEF TypeOK, Fences
  <2>2. TypeOK' /\ StepOf(w) /\ pc'[w] = "truth" /\ row' = row /\ gen' = gen
    BY <1>2, <2>1, SealReturnsType DEF SealBeat, TypeOK, StepOf, store
  <2>3. WorkerInv(w)'
    BY <2>2 DEF WorkerInv, OwnerWrote, PostSeal, Frozen
  <2>4. QED
    BY <2>2, <2>3, QuietStep DEF SealBeat, store
<1>3. QED
  BY <1>1, <1>2

LEMMA ToVerifyingInv ==
    ASSUME LedgerInv, NEW w \in Workers, ToVerifying(w)
    PROVE  LedgerInv'
<1> USE DEF LedgerInv
<1>1. /\ StepOf(w) /\ pc'[w] \in {"verify", "reload"} /\ (row' \in Rows => TypeOK')
      /\ gen' = gen /\ UNCHANGED store /\ UNCHANGED local
  BY GotoType DEF ToVerifying, TypeOK, StepOf, store, local, Steps, TaskSteps, SealSteps
<1>2. CASE row' = row
  <2>1. WorkerInv(w)'
    BY <1>1, <1>2 DEF ToVerifying, WorkerInv, OwnerWrote, Owner, PostSeal, Frozen, store
  <2>2. TypeOK'
    BY <1>1, <1>2 DEF TypeOK
  <2>3. QED
    BY <1>1, <1>2, <2>1, <2>2, QuietStep DEF store
<1>3. CASE row' # row
  <2>1. Owner(w) /\ row' = [row EXCEPT !.status = "verifying", !.version = row.version + 1]
    BY <1>3 DEF ToVerifying, CasFits, TypeOK, Rows
  <2>2. row \in Rows /\ row.version + 1 \in Nat
    BY DEF TypeOK, Rows
  <2>3. row' \in Rows
    BY <2>1, <2>2, RowUpdate, StatusLiterals
  <2>4. /\ row'.status = "verifying" /\ row'.gen = row.gen /\ row'.token = w
        /\ row'.last = row.last /\ row'.failures = row.failures
    BY <2>1, <2>2 DEF Rows, Owner
  <2>5. row.status \notin Terminal /\ row.status # "absent" /\ row.gen > 0
    BY <2>1, OwnerActive
  <2>6. RowShape' /\ GenerationFence' /\ OneLiteralRepair'
    BY <1>1, <2>1, <2>4, <2>5 DEF LedgerFacts, RowShape, GenerationFence, OneLiteralRepair, Owner
  <2>7. Decided' /\ CompleteBacked' /\ ProjectionTruth' /\ SessionExactlyOnce'
    BY <1>1, <2>4, <2>5, StatusLiterals
    DEF LedgerFacts, Decided, CompleteBacked, ProjectionTruth, SessionExactlyOnce, store
  <2>8. WorkerInv(w)'
    BY <1>1, <2>1, <2>4 DEF ToVerifying, WorkerInv, OwnerWrote, Owner, PostSeal, Frozen, store
  <2>9. QED
    BY <1>1, <2>3, <2>4, <2>5, <2>6, <2>7, <2>8, RowStep DEF LedgerFacts, store
<1>4. QED
  BY <1>2, <1>3

\* Tick and Heartbeat are nobody's step: only lease time changes.
LEMMA TimeInv ==
    ASSUME LedgerInv, Tick \/ \E w \in Workers : Heartbeat(w)
    PROVE  LedgerInv'
<1> USE DEF LedgerInv
<1>1. /\ gen' = gen /\ UNCHANGED store /\ UNCHANGED local /\ pc' = pc
      /\ row.token # NoOne
      /\ sweep' \in Sweeps
  BY NoSweepType, NoOneAssumption DEF Tick, Heartbeat, Renew, Owner, TypeOK
<1>2. PICK l \in -1..TTL : row' = [row EXCEPT !.lease = l]
  <2>1. CASE Tick
    <3>1. row.lease \in -1..TTL /\ row.lease >= 0 /\ TTL \in Nat
      BY <2>1, LeaseBounds DEF Tick, TypeOK, Rows
    <3>2. row.lease - 1 \in -1..TTL
      BY <3>1
    <3>3. row' = [row EXCEPT !.lease = row.lease - 1]
      BY <2>1 DEF Tick
    <3>4. QED
      BY <3>2, <3>3
  <2>2. CASE \E w \in Workers : Heartbeat(w)
    BY <2>2, LeaseBounds DEF Heartbeat, Renew
  <2>3. QED
    BY <2>1, <2>2
<1>3. /\ LedgerFacts' /\ row' \in Rows /\ row'.token = row.token
      /\ row'.gen = row.gen /\ row'.failures = row.failures
      /\ row.status \notin Terminal
  BY <1>1, <1>2, LeaseFacts
<1>4. TypeOK'
  BY <1>1, <1>3 DEF TypeOK, store, local
<1>5. ASSUME NEW v \in Workers PROVE WorkerInv(v)'
  <2>1. WorkerInv(v) /\ Fence(row).status = row.status
    BY FenceType DEF TypeOK
  <2>2. OwnerWrote(v)'
    BY <1>1, <1>3, <2>1 DEF WorkerInv, OwnerWrote, Owner, store, local
  <2>3. PostSeal(v)'
    BY <1>1, <1>3, <2>1, StatusLiterals DEF WorkerInv, PostSeal, local
  <2>4. QED
    BY <1>1, <2>1, <2>2, <2>3 DEF WorkerInv, local
<1>6. QED
  BY <1>3, <1>4, <1>5

LEMMA SweepInv ==
    ASSUME LedgerInv, SweepList \/ SweepRequeue
    PROVE  LedgerInv'
<1> USE DEF LedgerInv
<1>1. /\ gen' = gen /\ UNCHANGED store /\ UNCHANGED local /\ pc' = pc
      /\ sweep' \in Sweeps
  <2>1. CASE SweepList
    <3>1. Fence(row) \in Fences /\ Fence(row).status = "running"
      BY <2>1, FenceType, StatusLiterals DEF SweepList, TypeOK, LedgerFacts, RowShape
    <3>2. QED
      BY <2>1, <3>1 DEF SweepList, Sweeps
  <2>2. CASE SweepRequeue
    BY <2>2, NoSweepType DEF SweepRequeue
  <2>3. QED
    BY <2>1, <2>2
<1>2. CASE row' = row
  <2>1. LedgerFacts'
    BY <1>1, <1>2, FactsKept DEF store
  <2>2. TypeOK'
    BY <1>1, <1>2 DEF TypeOK, store, local
  <2>3. ASSUME NEW v \in Workers PROVE WorkerInv(v)'
    <3>1. WorkerInv(v)
      OBVIOUS
    <3>2. QED
      BY <1>1, <1>2, <3>1 DEF WorkerInv, OwnerWrote, Owner, PostSeal, store, local
  <2>4. QED
    BY <2>1, <2>2, <2>3
<1>3. CASE row' # row
  <2>1. row' = Cleared("queued") /\ Fence(row) = sweep.seen /\ sweep.on
    BY <1>3 DEF SweepList, SweepRequeue
  <2>2. row.status \notin Terminal /\ row.status # "absent"
    <3>1. sweep # NoSweep
      BY <2>1 DEF NoSweep
    <3>2. sweep.seen.status = "running"
      BY <3>1 DEF TypeOK, Sweeps
    <3>3. QED
      BY <2>1, <3>2, FenceType, StatusLiterals DEF TypeOK
  <2>3. LedgerFacts' /\ row' \in Rows /\ row'.token = NoOne
    BY <1>1, <2>1, <2>2, ClearedStep
  <2>4. TypeOK'
    BY <1>1, <2>3 DEF TypeOK, store, local
  <2>5. ASSUME NEW v \in Workers PROVE WorkerInv(v)'
    <3>1. WorkerInv(v) /\ Fence(row).status = row.status
      BY FenceType DEF TypeOK
    <3>2. OwnerWrote(v)'
      BY <2>3, NoOneAssumption DEF OwnerWrote, Owner
    <3>3. PostSeal(v)'
      BY <1>1, <2>2, <3>1, StatusLiterals DEF WorkerInv, PostSeal, local
    <3>4. QED
      BY <1>1, <3>1, <3>2, <3>3 DEF WorkerInv, local
  <2>6. QED
    BY <2>3, <2>4, <2>5
<1>4. QED
  BY <1>2, <1>3

-----------------------------------------------------------------------------
(* Steps that write the projection or the session history. *)

LEMMA SaveJobInv ==
    ASSUME LedgerInv, NEW w \in Workers, SaveJob(w)
    PROVE  LedgerInv'
<1> USE DEF LedgerInv
<1>1. /\ row.status \in {"complete", "failed"} /\ result[w] = row.status
      /\ row.cand = w
  BY DEF SaveJob, WorkerInv, PostSeal
<1>2. \/ job' = job
      \/ /\ job' \in Jobs /\ job'.by = w
         /\ job'.status = IF row.status = "complete" THEN "complete" ELSE "error"
  BY <1>1 DEF SaveJob, Jobs, JobStatus
<1>3. TypeOK' /\ StepOf(w) /\ pc'[w] = "truth"
  BY <1>2, GotoType DEF SaveJob, TypeOK, StepOf, local, Steps, TaskSteps, SealSteps
<1>4. /\ row' = row /\ gen' = gen /\ turns' = turns /\ artifacts' = artifacts
      /\ evidence' = evidence
  BY DEF SaveJob
<1>5. ProjectionTruth'
  BY <1>1, <1>2, <1>4 DEF LedgerFacts, ProjectionTruth
<1>6. LedgerFacts'
  BY <1>4, <1>5 DEF LedgerFacts, RowShape, GenerationFence, Decided, CompleteBacked,
     SessionExactlyOnce, OneLiteralRepair
<1>7. WorkerInv(w)'
  BY <1>3 DEF WorkerInv, OwnerWrote, PostSeal, Frozen
<1>8. \A v \in Workers \ {w} : WorkerInv(v)'
  BY <1>3, <1>4, Bystander
<1>9. QED
  BY <1>3, <1>6, <1>7, <1>8

LEMMA MirrorInv ==
    ASSUME LedgerInv, NEW w \in Workers, Mirror(w)
    PROVE  LedgerInv'
<1> USE DEF LedgerInv
<1>1. /\ row' = row /\ gen' = gen /\ turns' = turns /\ artifacts' = artifacts
      /\ evidence' = evidence
  BY DEF Mirror
<1>2. WorkerInv(w) /\ Fence(row).status = row.status
  BY FenceType DEF TypeOK
<1>3. CASE ~MirrorFits(w)
  <2>1. TypeOK' /\ StepOf(w) /\ pc'[w] \in {"reread", "errlast"} /\ job' = job
    BY <1>1, <1>3, GotoType DEF Mirror, TypeOK, StepOf, local, Steps, TaskSteps,
       SealSteps, ErrorSteps
  <2>2. WorkerInv(w)'
    BY <2>1 DEF WorkerInv, OwnerWrote, PostSeal, Frozen
  <2>3. QED
    BY <1>1, <2>1, <2>2, QuietStep
<1>4. CASE MirrorFits(w)
  <2>1. /\ row.status = snap[w].status
        /\ row.status \in {"complete", "failed", "waiting_event"}
        /\ row.status \in Terminal => row.cand = w
    BY <1>2, <1>4, StatusLiterals DEF Mirror, MirrorFits, WorkerInv, PostSeal
  <2>2. /\ job' \in Jobs /\ job'.by = w
        /\ job'.status = "complete" => row.status = "complete"
        /\ job'.status = "error" => row.status = "failed"
    BY <1>4, <2>1 DEF Mirror, Jobs, JobStatus
  <2>3. TypeOK' /\ StepOf(w) /\ pc'[w] = "done"
    BY <1>1, <1>4, <2>2, FinishType DEF Mirror, TypeOK, StepOf
  <2>4. ProjectionTruth'
    BY <1>1, <2>1, <2>2, StatusLiterals DEF ProjectionTruth
  <2>5. LedgerFacts'
    BY <1>1, <2>4 DEF LedgerFacts, RowShape, GenerationFence, Decided,
       CompleteBacked, SessionExactlyOnce, OneLiteralRepair
  <2>6. WorkerInv(w)'
    BY <2>3 DEF WorkerInv, OwnerWrote, PostSeal, Frozen
  <2>7. \A v \in Workers \ {w} : WorkerInv(v)'
    BY <1>1, <2>3, Bystander
  <2>8. QED
    BY <2>3, <2>5, <2>6, <2>7
<1>5. QED
  BY <1>3, <1>4

\* Whatever the projection says, terminal payloads carry the winner's answer.
LEMMA WinnerText ==
    ASSUME LedgerInv, row.status = "complete"
    PROVE  TerminalText = row.cand /\ row.cand \in Workers
BY StatusLiterals
DEF LedgerInv, LedgerFacts, ProjectionTruth, CompleteBacked, Decided, TerminalText

\* A session with one turn is a sequence of turns.
LEMMA OneTurn == ASSUME NEW S, NEW x \in S PROVE <<x>> \in Seq(S)
OBVIOUS

LEMMA HistoryInv ==
    ASSUME LedgerInv, NEW w \in Workers, PersistSession(w) \/ ReturnTerminal(w)
    PROVE  LedgerInv'
<1> USE DEF LedgerInv
<1>1. /\ row' = row /\ gen' = gen /\ job' = job /\ artifacts' = artifacts
      /\ evidence' = evidence
  BY DEF PersistSession, ReturnTerminal
<1>2. WorkerInv(w) /\ Fence(row).status = row.status
  BY FenceType DEF TypeOK
<1>3. pc[w] = "session" => row.status = "complete" /\ row.cand = w /\ Fence(row) = snap[w]
  BY <1>2, StatusLiterals DEF WorkerInv, PostSeal
<1>4. turns' = turns \/ (row.status = "complete" /\ turns' = <<row.cand>>)
  <2>1. CASE PersistSession(w)
    <3>1. AppendOnce(w) /\ row.status = "complete" /\ row.cand = w
      BY <1>3, <2>1 DEF PersistSession
    <3>2. QED
      BY <3>1, Zenon DEF AppendOnce
  <2>2. CASE ReturnTerminal(w)
    <3>1. turns' = turns \/ (row.status = "complete" /\ AppendOnce(TerminalText))
      BY <2>2 DEF ReturnTerminal
    <3>2. row.status = "complete" => TerminalText = row.cand
      BY WinnerText
    <3>3. QED
      BY <3>1, <3>2, Zenon DEF AppendOnce
  <2>3. QED
    BY <2>1, <2>2
<1>5. StepOf(w) /\ TypeOK'
  <2>1. turns' \in Seq(Workers \cup {NoOne})
    <3>1. row.cand \in Workers \cup {NoOne}
      BY DEF TypeOK, Rows
    <3>2. <<row.cand>> \in Seq(Workers \cup {NoOne})
      BY <3>1, OneTurn
    <3>3. turns \in Seq(Workers \cup {NoOne})
      BY DEF TypeOK
    <3>4. QED
      BY <1>4, <3>2, <3>3
  <2>2. CASE PersistSession(w)
    BY <1>1, <2>1, <2>2, GotoType
    DEF PersistSession, TypeOK, StepOf, local, Steps, TaskSteps, SealSteps
  <2>3. CASE ReturnTerminal(w)
    BY <1>1, <2>1, <2>3, FinishType DEF ReturnTerminal, TypeOK, StepOf
  <2>4. QED
    BY <2>2, <2>3
<1>6. SessionExactlyOnce'
  BY <1>1, <1>4 DEF LedgerFacts, SessionExactlyOnce
<1>7. LedgerFacts'
  BY <1>1, <1>6 DEF LedgerFacts, RowShape, GenerationFence, Decided, CompleteBacked,
     ProjectionTruth, OneLiteralRepair
<1>8. WorkerInv(w)'
  <2>1. CASE PersistSession(w)
    <3>1. pc[w] = "session" /\ pc'[w] = "mirror" /\ snap' = snap
      BY <2>1, GotoType DEF PersistSession, local, Steps, TaskSteps, SealSteps
    <3>2. QED
      BY <1>1, <1>2, <1>3, <3>1 DEF WorkerInv, OwnerWrote, PostSeal, Frozen
  <2>2. CASE ReturnTerminal(w)
    BY <2>2, FinishType DEF ReturnTerminal, WorkerInv, OwnerWrote, PostSeal, Frozen
  <2>3. QED
    BY <2>1, <2>2
<1>9. \A v \in Workers \ {w} : WorkerInv(v)'
  BY <1>1, <1>5, Bystander
<1>10. QED
  BY <1>5, <1>7, <1>8, <1>9

-----------------------------------------------------------------------------
(* The invariant is inductive. *)

LEMMA InitInv == Init => LedgerInv
<1> SUFFICES ASSUME Init PROVE LedgerInv
  OBVIOUS
<1>1. /\ NoRow.status = "absent" /\ NoRow.gen = 0 /\ NoRow.token = NoOne
      /\ NoRow.last = "none"
  BY DEF NoRow
<1>2. TypeOK
  BY NoRowType, NoSweepType
  DEF Init, TypeOK, Jobs, JobStatus, Steps, Checks
<1>3. LedgerFacts
  BY <1>1, StatusLiterals, NoOneAssumption
  DEF Init, LedgerFacts, RowShape, GenerationFence, Decided, CompleteBacked,
      ProjectionTruth, SessionExactlyOnce, OneLiteralRepair
<1>4. ASSUME NEW w \in Workers PROVE WorkerInv(w)
  BY DEF Init, WorkerInv, OwnerWrote, PostSeal, Frozen
<1>5. QED
  BY <1>2, <1>3, <1>4 DEF LedgerInv

LEMMA StutterInv == LedgerInv /\ UNCHANGED vars => LedgerInv'
<1> SUFFICES ASSUME LedgerInv, UNCHANGED vars PROVE LedgerInv'
  OBVIOUS
<1> USE DEF vars, LedgerInv
<1>1. TypeOK'
  BY DEF TypeOK
<1>2. LedgerFacts'
  BY FactsKept
<1>3. ASSUME NEW w \in Workers PROVE WorkerInv(w)'
  <2>1. WorkerInv(w)
    OBVIOUS
  <2>2. QED
    BY <2>1 DEF WorkerInv, OwnerWrote, Owner, PostSeal
<1>4. QED
  BY <1>1, <1>2, <1>3

LEMMA NextInv == LedgerInv /\ Next => LedgerInv'
<1> SUFFICES ASSUME LedgerInv, Next PROVE LedgerInv'
  OBVIOUS
<1>1. ASSUME NEW w \in Workers, Call(w) PROVE LedgerInv'
  BY <1>1, CreateInv, QuietInv DEF Call
<1>2. ASSUME NEW w \in Workers, Work(w) PROVE LedgerInv'
  BY <1>2, QuietInv, ClaimInv, ReleaseInv, SealBeatInv, ToVerifyingInv, DecideInv,
     WaitEventInv, SaveJobInv, MirrorInv, HistoryInv DEF Work
<1>3. ASSUME NEW w \in Workers, Fault(w) PROVE LedgerInv'
  BY <1>3, QuietInv DEF Fault
<1>4. QED
  BY <1>1, <1>2, <1>3, TimeInv, SweepInv DEF Next

\* LedgerInv holds in every reachable state, for any number of concurrent calls.
THEOREM LedgerInvariant == Spec => []LedgerInv
<1>1. LedgerInv /\ [Next]_vars => LedgerInv'
  BY NextInv, StutterInv
<1>2. QED
  BY InitInv, <1>1, PTL DEF Spec

\* Every variable keeps its type; in particular no step writes outside the
\* status machine of mission/types.py.
THEOREM TypeCorrect == Spec => []TypeOK
<1>1. LedgerInv => TypeOK
  BY DEF LedgerInv
<1>2. QED
  BY LedgerInvariant, <1>1, PTL

\* A complete mission has a durable artifact and verifier evidence for its
\* committed candidate, and terminal payloads return exactly that candidate.
THEOREM DurableWinnerHolds == Spec => []DurableWinner
<1>1. LedgerInv => DurableWinner
  BY WinnerText DEF LedgerInv, LedgerFacts, CompleteBacked, DurableWinner
<1>2. QED
  BY LedgerInvariant, <1>1, PTL

\* At most one session turn is appended per mission, only after CommitDone and
\* only with the winner's answer.
THEOREM SessionExactlyOnceHolds == Spec => []SessionExactlyOnce
<1>1. LedgerInv => SessionExactlyOnce
  BY DEF LedgerInv, LedgerFacts
<1>2. QED
  BY LedgerInvariant, <1>1, PTL

\* A terminal projection in agent_jobs always belongs to the worker whose
\* terminal CAS decided the mission.
THEOREM ProjectionTruthHolds == Spec => []ProjectionTruth
<1>1. LedgerInv => ProjectionTruth
  BY DEF LedgerInv, LedgerFacts
<1>2. QED
  BY LedgerInvariant, <1>1, PTL

\* The result_owns_truth test of agent() admits only the decider.
THEOREM MirrorByDeciderHolds == Spec => []MirrorByDecider
<1>1. LedgerInv => MirrorByDecider
  BY DEF LedgerInv, WorkerInv, PostSeal, MirrorByDecider
<1>2. QED
  BY LedgerInvariant, <1>1, PTL

\* A literal mission is repaired at most once.
THEOREM OneLiteralRepairHolds == Spec => []OneLiteralRepair
<1>1. LedgerInv => OneLiteralRepair
  BY DEF LedgerInv, LedgerFacts
<1>2. QED
  BY LedgerInvariant, <1>1, PTL

\* No two calls ever hold the same lease generation.
THEOREM GenerationFenceHolds == Spec => []GenerationFence
<1>1. LedgerInv => GenerationFence
  BY DEF LedgerInv, LedgerFacts
<1>2. QED
  BY LedgerInvariant, <1>1, PTL

-----------------------------------------------------------------------------
(* Action properties: who may write the ledger. *)

Ledger == <<row, artifacts, evidence>>

\* The fenced writers of one call: each of them either finds itself the owner
\* of the row, or claims a row that is not terminal, or writes nothing.
LEMMA FencedWriters ==
    ASSUME LedgerInv, NEW w \in Workers,
           Call(w) \/ Work(w) \/ Fault(w) \/ Heartbeat(w)
    PROVE  \/ UNCHANGED Ledger
           \/ Owner(w)
           \/ gen[w] = 0 /\ row.status \notin Terminal
<1> USE DEF store, local
<1>1. ASSUME \/ Lookup(w) \/ Blocked(w) \/ Start(w) \/ EvidenceLost(w) \/
              EvidenceLoad(w) \/ Turn(w) \/ SealLoad(w) \/ Fresh(w) \/
              Bind(w) \/ Verify(w) \/ PreCommit(w) \/ Reload(w) \/
              SaveJob(w) \/ Truth(w) \/ Reread(w) \/ PersistSession(w) \/
              Mirror(w) \/ ReturnTerminal(w) \/ ErrLoad(w) \/ ErrReread(w) \/
              StepRaises(w) \/ Die(w) \/ MarkLost(w)
      PROVE  UNCHANGED Ledger
  BY <1>1 DEF Ledger,
      Lookup, Blocked, Start, EvidenceLost, EvidenceLoad, Turn, SealLoad,
      Fresh, Bind, Verify, PreCommit, Reload, SaveJob, Truth, Reread,
      PersistSession, Mirror, ReturnTerminal, ErrLoad, ErrReread, StepRaises,
      Die, MarkLost
<1>2. CASE Create(w)
  BY <1>2 DEF Create, LedgerInv, WorkerInv, Terminal
<1>3. CASE Claim(w)
  BY <1>3 DEF Claim, Claimable, Ledger, LedgerInv, WorkerInv, Terminal
<1>4. ASSUME EvidenceRelease(w) \/ ToVerifying(w) \/ CommitDone(w) \/ FailDone(w) \/
             WaitEvent(w) \/ ErrRelease(w)
      PROVE  UNCHANGED Ledger \/ Owner(w)
  BY <1>4 DEF Ledger, CasFits, EvidenceRelease, ToVerifying, CommitDone, FailDone,
              WaitEvent, ErrRelease
<1>5. ASSUME SealBeat(w) \/ Freeze(w) \/ AppendEvidence(w) \/ Heartbeat(w)
      PROVE  UNCHANGED Ledger \/ Owner(w)
  BY <1>5 DEF Ledger, SealBeat, Freeze, AppendEvidence, Heartbeat
<1>6. QED
  BY <1>1, <1>2, <1>3, <1>4, <1>5 DEF Call, Work, Fault

\* The clock and the sweeper touch no call and no terminal row.
LEMMA TimeWriters ==
    ASSUME LedgerInv, Tick \/ SweepList \/ SweepRequeue
    PROVE  pc' = pc /\ (row' = row \/ row.status \notin Terminal)
<1>1. CASE Tick
  BY <1>1 DEF Tick, LedgerInv, LedgerFacts, RowShape, Terminal, local, store
<1>2. CASE SweepList
  BY <1>2 DEF SweepList
<1>3. CASE SweepRequeue
  <2>1. row' = row \/ Fence(row) = sweep.seen
    BY <1>3 DEF SweepRequeue
  <2>2. sweep.seen.status = "running"
    <3>1. sweep # NoSweep
      BY <1>3 DEF SweepRequeue, NoSweep
    <3>2. QED
      BY <3>1 DEF LedgerInv, TypeOK, Sweeps
  <2>3. Fence(row).status = row.status
    BY FenceType DEF LedgerInv, TypeOK
  <2>4. pc' = pc
    BY <1>3 DEF SweepRequeue
  <2>5. QED
    BY <2>1, <2>2, <2>3, <2>4 DEF Terminal
<1>4. QED
  BY <1>1, <1>2, <1>3

\* A step of w moves no other program counter.
LEMMA OwnCounter ==
    ASSUME LedgerInv, NEW w \in Workers, NEW v \in Workers \ {w},
           Call(w) \/ Work(w) \/ Fault(w) \/ Heartbeat(w)
    PROVE  pc'[v] = pc[v]
<1>1. ASSUME NEW s, Goto(w, s) PROVE pc'[v] = pc[v]
  BY <1>1 DEF Goto, LedgerInv, TypeOK
<1> USE DEF SealReturns, Finish
<1>2. ASSUME Create(w) \/ Lookup(w) \/ Claim(w) \/
             Blocked(w) \/ Start(w) \/ EvidenceLost(w)
      PROVE  pc'[v] = pc[v]
  BY <1>1, <1>2 DEF Create, Lookup, Claim, Blocked, Start, EvidenceLost
<1>3. ASSUME EvidenceLoad(w) \/ EvidenceRelease(w) \/ Turn(w) \/
             SealLoad(w) \/ SealBeat(w) \/ Freeze(w)
      PROVE  pc'[v] = pc[v]
  BY <1>1, <1>3 DEF EvidenceLoad, EvidenceRelease, Turn, SealLoad, SealBeat, Freeze
<1>4. ASSUME Fresh(w) \/ Bind(w) \/ ToVerifying(w) \/
             Verify(w) \/ PreCommit(w) \/ AppendEvidence(w)
      PROVE  pc'[v] = pc[v]
  BY <1>1, <1>4 DEF Fresh, Bind, ToVerifying, Verify, PreCommit, AppendEvidence
<1>5. ASSUME CommitDone(w) \/ FailDone(w) \/ WaitEvent(w) \/
             Reload(w) \/ SaveJob(w) \/ Truth(w)
      PROVE  pc'[v] = pc[v]
  BY <1>1, <1>5 DEF CommitDone, FailDone, WaitEvent, Reload, SaveJob, Truth
<1>6. ASSUME Reread(w) \/ PersistSession(w) \/
             Mirror(w) \/ ReturnTerminal(w) \/ ErrLoad(w)
      PROVE  pc'[v] = pc[v]
  BY <1>1, <1>6 DEF Reread, PersistSession, Mirror, ReturnTerminal, ErrLoad
<1>7. ASSUME ErrRelease(w) \/ ErrReread(w) \/ StepRaises(w) \/
             Die(w) \/ MarkLost(w) \/ Heartbeat(w)
      PROVE  pc'[v] = pc[v]
  BY <1>1, <1>7 DEF ErrRelease, ErrReread, StepRaises, Die, MarkLost, Heartbeat
<1>8. QED
  BY <1>2, <1>3, <1>4, <1>5, <1>6, <1>7 DEF Call, Work, Fault

\* Terminal truth is final: no CAS, claim, heartbeat, sweep or late worker
\* changes a terminal mission row.
THEOREM TerminalFinalHolds == Spec => TerminalFinal
<1>1. LedgerInv /\ [Next]_vars => [row.status \in Terminal => row' = row]_vars
  <2> SUFFICES ASSUME LedgerInv, Next, row.status \in Terminal
               PROVE  row' = row
    BY DEF vars
  <2>1. ASSUME NEW w \in Workers, Call(w) \/ Work(w) \/ Fault(w) \/ Heartbeat(w)
        PROVE  row' = row
    BY <2>1, FencedWriters, OwnerActive DEF Ledger
  <2>2. QED
    BY <2>1, TimeWriters DEF Next
<1>2. QED
  BY LedgerInvariant, <1>1, PTL DEF Spec, TerminalFinal

\* A worker whose lease generation was superseded never writes the mission row,
\* an artifact or evidence again.
THEOREM StaleReadOnlyHolds == Spec => StaleReadOnly
<1> DEFINE A == \A w \in Workers :
                  0 < gen[w] /\ gen[w] < row.gen /\ pc'[w] # pc[w]
                      => UNCHANGED <<row, artifacts, evidence>>
<1>1. LedgerInv /\ [Next]_vars => [A]_vars
  <2> SUFFICES ASSUME LedgerInv, Next, NEW v \in Workers,
                      0 < gen[v] /\ gen[v] < row.gen /\ pc'[v] # pc[v]
               PROVE  UNCHANGED <<row, artifacts, evidence>>
    BY DEF vars
  <2>0. ~Owner(v) /\ gen[v] # 0
    BY DEF Owner, LedgerInv, TypeOK, Rows
  <2>1. ASSUME NEW w \in Workers, Call(w) \/ Work(w) \/ Fault(w) \/ Heartbeat(w)
        PROVE  UNCHANGED <<row, artifacts, evidence>>
    <3>1. w = v
      BY <2>1, OwnCounter
    <3>2. QED
      BY <2>0, <2>1, <3>1, FencedWriters DEF Ledger
  <2>2. QED
    BY <2>1, TimeWriters DEF Next
<1>2. QED
  BY LedgerInvariant, <1>1, PTL DEF Spec, StaleReadOnly

-----------------------------------------------------------------------------
(* The seal lets go of the lease.  Relative to LedgerInv, what an owner knows *)
(* of the row at each step of its seal: nobody else can write the row while   *)
(* it is owned, so a CAS under the fence that was re-read cannot be refused.  *)

AtFence == {"bind", "toverify", "evidence", "commit", "faildone", "waitevent"}
AtVerifying == {"verify", "precommit", "evidence", "commit", "faildone", "waitevent"}
LetGo == {"reload", "save", "truth"}

HeldBy(w) ==
    Owner(w) =>
        /\ pc[w] \in AtFence => Fence(row) = snap[w]
        /\ pc[w] \in AtVerifying => row.status = "verifying"
        /\ pc[w] \notin LetGo

Held == \A w \in Workers : HeldBy(w)

\* Outside these steps HeldBy says nothing.
LEMMA HeldElsewhere ==
    ASSUME NEW w \in Workers, pc'[w] \notin AtFence \cup AtVerifying \cup LetGo
    PROVE  HeldBy(w)'
BY DEF HeldBy

LEMMA HeldByNoOne ==
    ASSUME NEW w \in Workers, row'.token # w
    PROVE  HeldBy(w)'
BY DEF HeldBy, Owner

\* A step that leaves the row, the position and the snapshot of w alone.
LEMMA HeldStill ==
    ASSUME NEW w \in Workers, HeldBy(w), Fence(row') = Fence(row),
           row'.status = row.status, row'.gen = row.gen, row'.token = row.token,
           pc'[w] = pc[w], gen'[w] = gen[w], snap'[w] = snap[w]
    PROVE  HeldBy(w)'
BY DEF HeldBy, Owner

\* A renewed or ageing lease keeps the fence.
LEMMA LeaseOnly ==
    ASSUME row \in Rows, NEW l, row' = [row EXCEPT !.lease = l]
    PROVE  /\ Fence(row') = Fence(row) /\ row'.status = row.status
           /\ row'.gen = row.gen /\ row'.token = row.token
BY DEF Rows, Fence

\* The CAS of an owner that stands at the fence it read fits.
LEMMA OwnerFits ==
    ASSUME LedgerInv, NEW w \in Workers, HeldBy(w), Owner(w), pc[w] \in AtFence
    PROVE  /\ snap[w].status = row.status /\ snap[w].version = row.version
           /\ row.status = "running" => CasFits(w, "running", "verifying")
           /\ row.status = "verifying" =>
                 /\ CasFits(w, "verifying", "complete")
                 /\ CasFits(w, "verifying", "failed")
                 /\ CasFits(w, "verifying", "waiting_event")
<1>1. Fence(row) = snap[w]
  BY DEF HeldBy
<1>2. snap[w].status = row.status /\ snap[w].version = row.version
  BY <1>1 DEF Fence
<1>3. /\ LegalTransition("running", "verifying")
      /\ LegalTransition("verifying", "complete")
      /\ LegalTransition("verifying", "failed")
      /\ LegalTransition("verifying", "waiting_event")
  BY DEF LegalTransition, Allowed, MissionStatus
<1>4. QED
  BY <1>2, <1>3 DEF CasFits

\* The steps of w's own seal.
LEMMA HeldSeal ==
    ASSUME LedgerInv, NEW w \in Workers, HeldBy(w),
           \/ SealLoad(w) \/ SealBeat(w) \/ Fresh(w) \/ Bind(w) \/ ToVerifying(w)
           \/ Verify(w) \/ PreCommit(w) \/ AppendEvidence(w) \/ CommitDone(w)
           \/ FailDone(w) \/ WaitEvent(w) \/ Reload(w) \/ SaveJob(w)
    PROVE  HeldBy(w)'
<1> USE DEF store, local
<1>0. /\ TypeOK /\ row \in Rows /\ row.status \in MissionStatus \cup {"absent"}
      /\ snap[w].status \in MissionStatus \cup {"absent"}
  BY DEF LedgerInv, TypeOK, Rows, Fences
<1>1. Owner(w) => row.status \in {"running", "verifying"} /\ row.status \notin Terminal
  BY OwnerActive
<1>2. \A to \in {"complete", "failed", "waiting_event"}, b \in {0, 1} :
         Sealed(w, to, b).token # w
  BY <1>0, SealedFacts, StatusLiterals, NoOneAssumption DEF TypeOK
<1>s. {"beat", "freeze", "bind", "toverify", "reload", "verify", "precommit", "evidence",
       "commit", "faildone", "waitevent", "save", "truth"} \subseteq Steps
  BY DEF Steps, TaskSteps, SealSteps
<1>3. CASE SealLoad(w) \/ SealBeat(w)
  <2>1. CASE Owner(w)
    <3>1. pc'[w] \in {"beat", "freeze"}
      BY <1>0, <1>3, <1>s, <2>1, GotoType DEF SealLoad, SealBeat
    <3>2. QED
      BY <3>1, HeldElsewhere DEF AtFence, AtVerifying, LetGo
  <2>2. CASE ~Owner(w)
    BY <1>3, <2>2 DEF SealLoad, SealBeat, HeldBy, Owner
  <2>3. QED
    BY <2>1, <2>2
<1>4. CASE Fresh(w)
  <2>1. CASE Owner(w)
    <3>1. pc'[w] = "bind" /\ snap'[w] = Fence(row) /\ row' = row
      BY <1>0, <1>4, <1>s, <2>1, GotoType, SeeType DEF Fresh
    <3>2. QED
      BY <3>1 DEF HeldBy, AtFence, AtVerifying, LetGo
  <2>2. CASE ~Owner(w)
    BY <1>4, <2>2 DEF Fresh, HeldBy, Owner
  <2>3. QED
    BY <2>1, <2>2
<1>5. CASE Bind(w)
  <2>1. CASE Owner(w)
    <3>1. pc[w] = "bind" /\ pc'[w] = "toverify" /\ snap' = snap /\ row' = row
      BY <1>0, <1>1, <1>5, <1>s, <2>1, GotoType DEF Bind
    <3>2. QED
      BY <2>1, <3>1 DEF HeldBy, AtFence, AtVerifying, LetGo
  <2>2. CASE ~Owner(w)
    BY <1>5, <2>2 DEF Bind, HeldBy, Owner
  <2>3. QED
    BY <2>1, <2>2
<1>6. CASE ToVerifying(w)
  <2>1. CASE Owner(w)
    <3>1. pc[w] \in AtFence
      BY <1>6 DEF ToVerifying, AtFence
    <3>2. row'.status = "verifying" /\ pc'[w] = "verify"
      <4>1. CASE row.status = "running"
        BY <1>0, <1>6, <1>s, <2>1, <3>1, <4>1, GotoType, OwnerFits
        DEF ToVerifying, Rows
      <4>2. CASE row.status = "verifying"
        BY <1>0, <1>6, <1>s, <2>1, <3>1, <4>2, GotoType, OwnerFits
        DEF ToVerifying
      <4>3. QED
        BY <1>1, <2>1, <4>1, <4>2
    <3>3. QED
      BY <3>2 DEF HeldBy, AtFence, AtVerifying, LetGo
  <2>2. CASE ~Owner(w)
    BY <1>6, <2>2 DEF ToVerifying, CasFits, HeldBy, Owner
  <2>3. QED
    BY <2>1, <2>2
<1>7. CASE Verify(w)
  <2>1. pc[w] = "verify" /\ pc'[w] = "precommit" /\ row' = row /\ gen' = gen
    BY <1>0, <1>7, <1>s, GotoType DEF Verify
  <2>2. QED
    BY <2>1 DEF HeldBy, Owner, AtFence, AtVerifying, LetGo
<1>8. CASE PreCommit(w)
  <2>1. CASE Owner(w)
    <3>1. /\ pc[w] = "precommit" /\ pc'[w] \in {"evidence", "faildone", "waitevent"}
          /\ snap'[w] = Fence(row) /\ row' = row
      BY <1>0, <1>8, <1>s, <2>1, GotoType, SeeType DEF PreCommit
    <3>2. QED
      BY <2>1, <3>1 DEF HeldBy, AtFence, AtVerifying, LetGo
  <2>2. CASE ~Owner(w)
    BY <1>8, <2>2 DEF PreCommit, HeldBy, Owner
  <2>3. QED
    BY <2>1, <2>2
<1>9. CASE AppendEvidence(w)
  <2>1. /\ pc[w] = "evidence" /\ pc'[w] = "commit"
        /\ row' = row /\ gen' = gen /\ snap' = snap
    BY <1>0, <1>9, <1>s, GotoType DEF AppendEvidence
  <2>2. QED
    BY <2>1 DEF HeldBy, Owner, AtFence, AtVerifying, LetGo
<1>10. CASE CommitDone(w) \/ FailDone(w) \/ WaitEvent(w)
  <2>1. pc[w] \in AtFence \cap AtVerifying
    BY <1>10 DEF CommitDone, FailDone, WaitEvent, AtFence, AtVerifying
  <2>2. CASE Owner(w)
    <3>1. row.status = "verifying"
      BY <2>1, <2>2 DEF HeldBy
    <3>2. row'.token # w
      BY <1>2, <1>10, <2>1, <2>2, <3>1, OwnerFits DEF CommitDone, FailDone, WaitEvent
    <3>3. QED
      BY <3>2, HeldByNoOne
  <2>3. CASE ~Owner(w)
    BY <1>10, <2>3 DEF CommitDone, FailDone, WaitEvent, CasFits, HeldBy, Owner
  <2>4. QED
    BY <2>2, <2>3
<1>11. CASE Reload(w) \/ SaveJob(w)
  <2>1. pc[w] \in LetGo
    BY <1>11 DEF Reload, SaveJob, LetGo
  <2>2. ~Owner(w)
    BY <2>1 DEF HeldBy
  <2>3. QED
    BY <1>11, <2>2 DEF Reload, SaveJob, HeldBy, Owner
<1>12. QED
  BY <1>3, <1>4, <1>5, <1>6, <1>7, <1>8, <1>9, <1>10, <1>11

\* The steps of w before, after and beside its seal.
LEMMA HeldOutside ==
    ASSUME LedgerInv, NEW w \in Workers, HeldBy(w),
           Call(w) \/ Work(w) \/ Fault(w) \/ Heartbeat(w)
    PROVE  HeldBy(w)'
<1> DEFINE Away == pc'[w] \notin AtFence \cup AtVerifying \cup LetGo
<1> USE DEF AtFence, AtVerifying, LetGo
<1>0. TypeOK
  BY DEF LedgerInv
<1>1. ASSUME NEW s \in {"start", "terminal", "claim", "done", "blocked", "turn",
                        "evload", "evrelease", "load", "errload", "fresh",
                        "session", "mirror", "reread", "errrelease",
                        "errreread", "errmirror", "errlast"}, Goto(w, s)
      PROVE  Away
  BY <1>0, <1>1 DEF Goto, TypeOK
<1>2. ASSUME Finish(w) PROVE Away
  BY <1>0, <1>2, FinishType
<1>3. ASSUME Create(w) \/ Lookup(w) \/ Claim(w) \/ Blocked(w) \/ Start(w) \/
             EvidenceLost(w) \/ EvidenceLoad(w) \/ EvidenceRelease(w) \/ Turn(w)
      PROVE  Away
  BY <1>1, <1>2, <1>3 DEF Create, Lookup, Claim, Blocked, Start, EvidenceLost,
     EvidenceLoad, EvidenceRelease, Turn
<1>4. ASSUME Freeze(w) \/ Truth(w) \/ Reread(w) \/ PersistSession(w) \/ Mirror(w) \/
             ReturnTerminal(w)
      PROVE  Away
  BY <1>1, <1>2, <1>4 DEF Freeze, Truth, Reread, PersistSession, Mirror, ReturnTerminal
<1>5. ASSUME ErrLoad(w) \/ ErrRelease(w) \/ ErrReread(w) \/ StepRaises(w) \/ Die(w)
      PROVE  Away
  BY <1>1, <1>2, <1>5 DEF ErrLoad, ErrRelease, ErrReread, StepRaises, Die
<1>6. CASE MarkLost(w)
  BY <1>6, HeldStill DEF MarkLost, local
<1>7. CASE Heartbeat(w)
  <2>1. row \in Rows /\ row' = [row EXCEPT !.lease = TTL]
    BY <1>0, <1>7 DEF Heartbeat, Renew, TypeOK
  <2>2. QED
    BY <1>7, <2>1, LeaseOnly, HeldStill DEF Heartbeat, local
<1>8. QED
  BY <1>3, <1>4, <1>5, <1>6, <1>7, HeldElsewhere, HeldSeal DEF Call, Work, Fault

\* A step of w leaves the lease generation and the snapshot of the others.
LEMMA OwnLocals ==
    ASSUME LedgerInv, NEW w \in Workers, NEW v \in Workers \ {w},
           Call(w) \/ Work(w) \/ Fault(w) \/ Heartbeat(w)
    PROVE  gen'[v] = gen[v] /\ snap'[v] = snap[v]
<1>1. See(w) \/ Finish(w) \/ snap' = snap => snap'[v] = snap[v]
  BY DEF See, Finish, LedgerInv, TypeOK
<1>2. CASE Create(w) \/ Claim(w)
  BY <1>2 DEF Create, Claim, local, LedgerInv, TypeOK
<1>3. ASSUME Lookup(w) \/ Blocked(w) \/ Start(w) \/ EvidenceLost(w) \/ EvidenceLoad(w) \/
             EvidenceRelease(w) \/ Turn(w) \/ SealLoad(w) \/ SealBeat(w) \/ Freeze(w)
      PROVE  gen' = gen /\ (See(w) \/ Finish(w) \/ snap' = snap)
  BY <1>3 DEF Lookup, Blocked, Start, EvidenceLost, EvidenceLoad, EvidenceRelease,
     Turn, SealLoad, SealBeat, Freeze, local
<1>4. ASSUME Fresh(w) \/ Bind(w) \/ ToVerifying(w) \/ Verify(w) \/ PreCommit(w) \/
             AppendEvidence(w) \/ CommitDone(w) \/ FailDone(w) \/ WaitEvent(w) \/
             Reload(w) \/ SaveJob(w) \/ Truth(w)
      PROVE  gen' = gen /\ (See(w) \/ Finish(w) \/ snap' = snap)
  BY <1>4 DEF Fresh, Bind, ToVerifying, Verify, PreCommit, AppendEvidence,
     CommitDone, FailDone, WaitEvent, Reload, SaveJob, Truth, local
<1>5. ASSUME Reread(w) \/ PersistSession(w) \/ Mirror(w) \/ ReturnTerminal(w) \/
             ErrLoad(w) \/ ErrRelease(w) \/ ErrReread(w) \/ StepRaises(w) \/
             Die(w) \/ MarkLost(w) \/ Heartbeat(w)
      PROVE  gen' = gen /\ (See(w) \/ Finish(w) \/ snap' = snap)
  BY <1>5 DEF Reread, PersistSession, Mirror, ReturnTerminal, ErrLoad, ErrRelease,
     ErrReread, StepRaises, Die, MarkLost, Heartbeat, local
<1>6. QED
  BY <1>1, <1>2, <1>3, <1>4, <1>5 DEF Call, Work, Fault

\* A step of w that writes the row leaves it with w or with nobody.
LEMMA RowHands ==
    ASSUME LedgerInv, NEW w \in Workers,
           Call(w) \/ Work(w) \/ Fault(w) \/ Heartbeat(w)
    PROVE  row' = row \/ row'.token \in {w, NoOne}
<1>0. TypeOK /\ row \in Rows /\ NoRow \in Rows
  BY NoRowType DEF LedgerInv, TypeOK
<1>1. CASE Create(w) \/ Claim(w)
  BY <1>0, <1>1 DEF Create, Claim, Rows
<1>2. CASE EvidenceRelease(w) \/ ErrRelease(w)
  BY <1>0, <1>2, ClearedFacts, StatusLiterals DEF EvidenceRelease, ErrRelease
<1>3. CASE CommitDone(w) \/ FailDone(w) \/ WaitEvent(w)
  <2>1. \A to \in {"complete", "failed", "waiting_event"}, b \in {0, 1} :
           Sealed(w, to, b).token = NoOne
    BY <1>0, SealedFacts, StatusLiterals DEF TypeOK
  <2>2. QED
    BY <1>3, <2>1 DEF CommitDone, FailDone, WaitEvent
<1>4. CASE ToVerifying(w) \/ SealBeat(w) \/ Heartbeat(w)
  BY <1>0, <1>4 DEF ToVerifying, SealBeat, Heartbeat, Renew, CasFits, Owner, Rows
<1>5. ASSUME \/ Lookup(w) \/ Blocked(w) \/ Start(w) \/ EvidenceLost(w) \/
              EvidenceLoad(w) \/ Turn(w) \/ SealLoad(w) \/ Fresh(w) \/
              Bind(w) \/ Verify(w) \/ PreCommit(w) \/ Reload(w) \/
              SaveJob(w) \/ Truth(w) \/ Reread(w) \/ PersistSession(w) \/
              Mirror(w) \/ ReturnTerminal(w) \/ ErrLoad(w) \/ ErrReread(w) \/
              StepRaises(w) \/ Die(w) \/ MarkLost(w) \/ Freeze(w) \/ AppendEvidence(w)
      PROVE  row' = row
  BY <1>5 DEF Lookup, Blocked, Start, EvidenceLost, EvidenceLoad, Turn, SealLoad,
      Fresh, Bind, Verify, PreCommit, Reload, SaveJob, Truth, Reread,
      PersistSession, Mirror, ReturnTerminal, ErrLoad, ErrReread, StepRaises,
      Die, MarkLost, Freeze, AppendEvidence
<1>6. QED
  BY <1>1, <1>2, <1>3, <1>4, <1>5 DEF Call, Work, Fault

LEMMA HeldNext == LedgerInv /\ Held /\ [Next]_vars => Held'
<1> SUFFICES ASSUME LedgerInv, Held, [Next]_vars, NEW v \in Workers
             PROVE  HeldBy(v)'
  BY DEF Held
<1>0. HeldBy(v) /\ row \in Rows
  BY DEF Held, LedgerInv, TypeOK
<1>1. ASSUME NEW w \in Workers, Call(w) \/ Work(w) \/ Fault(w) \/ Heartbeat(w)
      PROVE  HeldBy(v)'
  <2>1. CASE w = v
    BY <1>0, <1>1, <2>1, HeldOutside
  <2>2. CASE w # v
    <3>1. pc'[v] = pc[v] /\ gen'[v] = gen[v] /\ snap'[v] = snap[v]
      BY <1>1, <2>2, OwnCounter, OwnLocals
    <3>2. row' = row \/ row'.token # v
      BY <1>1, <2>2, RowHands, NoOneAssumption
    <3>3. QED
      BY <1>0, <3>1, <3>2, HeldStill, HeldByNoOne
  <2>3. QED
    BY <2>1, <2>2
<1>2. CASE Tick
  <2>1. row' = [row EXCEPT !.lease = row.lease - 1]
    BY <1>2 DEF Tick
  <2>2. QED
    BY <1>0, <1>2, <2>1, LeaseOnly, HeldStill DEF Tick, local
<1>3. CASE SweepList \/ SweepRequeue
  <2>1. row' = row \/ row' = Cleared("queued")
    BY <1>3 DEF SweepList, SweepRequeue
  <2>2. Cleared("queued").token # v
    BY <1>0, ClearedFacts, StatusLiterals, NoOneAssumption
  <2>3. pc' = pc /\ gen' = gen /\ snap' = snap
    BY <1>3 DEF SweepList, SweepRequeue, local
  <2>4. QED
    BY <1>0, <2>1, <2>2, <2>3, HeldStill, HeldByNoOne
<1>4. CASE UNCHANGED vars
  BY <1>0, <1>4, HeldStill DEF vars
<1>5. QED
  BY <1>1, <1>2, <1>3, <1>4 DEF Next

\* No seal returns while it still owns the lease: the branch of
\* _complete_turn_unlocked that releases such a row has nothing to do.
THEOREM SealLetsGoHolds == Spec => []SealLetsGo
<1>1. Init => Held
  <2>1. NoRow.token = NoOne
    BY DEF NoRow
  <2>2. QED
    BY <2>1, NoOneAssumption DEF Init, Held, HeldBy, Owner
<1>2. LedgerInv /\ Held /\ [Next]_vars => Held'
  BY HeldNext
<1>3. Held => SealLetsGo
  BY DEF Held, HeldBy, SealLetsGo, LetGo
<1>4. QED
  BY LedgerInvariant, <1>1, <1>2, <1>3, PTL DEF Spec

-----------------------------------------------------------------------------
(***************************************************************************)
(* The ledger implements MissionTruth.                                     *)
(*                                                                         *)
(* Every step of the ledger is one of five kinds: it grants the lease      *)
(* (create, claim), withdraws it (a release or a requeue), decides the     *)
(* mission (CommitDone, FailDone), publishes the answer (the session turn) *)
(* or leaves the abstract state alone.  The inductive invariant LedgerInv  *)
(* supplies what the map needs: a lease sits on an active row, an absent   *)
(* row has no generation, and the text that is published is the winner's.  *)
(***************************************************************************)

(* The refinement mapping, status by status. *)

Active == {"queued", "running", "verifying", "waiting_event"}

\* No row: no mission yet.
LEMMA MapAbsent == row.status = "absent" => Phase = "none" /\ Winner = NoOne
BY DEF Phase, Winner, Terminal

\* A row that is not terminal, leased or not, maps to an open mission.
LEMMA MapActive ==
    /\ row.status \in Active => Phase = "open" /\ Winner = NoOne
    /\ row'.status \in Active => Phase' = "open" /\ Winner' = NoOne
BY DEF Phase, Winner, Terminal, Active

\* A terminal row maps to a decided mission.
LEMMA MapDecided ==
    /\ row.status = "complete" => Phase = "complete" /\ Winner = row.cand
    /\ row'.status = "complete" => Phase' = "complete" /\ Winner' = row'.cand
    /\ row'.status = "failed" => Phase' = "failed" /\ Winner' = row'.cand
BY DEF Phase, Winner, Terminal

\* Steps that leave the row alone leave the abstract state alone.
LEMMA MapSame == row' = row => Phase' = Phase /\ Winner' = Winner
BY DEF Phase, Winner

-----------------------------------------------------------------------------
(* The kinds of step. *)

\* A claimable or absent row is leased to w under the next generation.
LEMMA GrantStep ==
    ASSUME NEW w \in Workers, row.status \in Active \cup {"absent"},
           row'.status \in Active, row'.gen = row.gen + 1, row'.token = w,
           turns' = turns
    PROVE  Truths!Grant(w)
BY MapAbsent, MapActive DEF Truths!Grant

\* A leased row is released without a verdict.
LEMMA WithdrawStep ==
    ASSUME row.status \in Active, row.token # NoOne, row'.status \in Active,
           row'.gen = row.gen + 1, row'.token = NoOne, turns' = turns
    PROVE  Truths!Withdraw
BY MapActive DEF Truths!Withdraw

\* The owner's terminal CAS.
LEMMA DecideStep ==
    ASSUME NEW w \in Workers, row.status \in Active, row.token = w,
           row'.status \in {"complete", "failed"}, row'.gen = row.gen + 1,
           row'.token = NoOne, row'.cand = w, turns' = turns
    PROVE  Truths!Decide(w)
BY MapActive, MapDecided DEF Truths!Decide

\* The first append_turn_once of a complete mission.
LEMMA PublishStep ==
    ASSUME row.status = "complete", turns = <<>>, turns' = <<row.cand>>, row' = row
    PROVE  Truths!Publish
BY MapDecided, MapSame DEF Truths!Publish

\* Lease renewals, ticks and running -> verifying are invisible.
LEMMA SilentStep ==
    ASSUME \/ row' = row
           \/ row.status \in Active /\ row'.status \in Active,
           row'.gen = row.gen, row'.token = row.token, turns' = turns
    PROVE  UNCHANGED Truths!truth
BY MapSame, MapActive DEF Truths!truth

-----------------------------------------------------------------------------
(* An active row has an owner. *)

\* What a sweep listed as running still has the lease it is about to lose.
Leased == row.status \in {"running", "verifying"} => row.token # NoOne

\* Every step keeps an active row leased.
LEMMA LeasedNext == LedgerInv /\ Leased /\ [Next]_vars => Leased'
<1> SUFFICES ASSUME LedgerInv, Leased, [Next]_vars PROVE Leased'
  OBVIOUS
<1>0. TypeOK /\ row \in Rows /\ NoRow \in Rows /\ NoOne \notin Workers
  BY NoRowType, NoOneAssumption DEF LedgerInv, TypeOK
<1>1. ASSUME row'.status \in {"queued", "waiting_event", "complete", "failed"}
      PROVE  Leased'
  BY <1>1 DEF Leased
<1>2. ASSUME NEW w \in Workers, row'.token = w PROVE Leased'
  BY <1>0, <1>2 DEF Leased
<1>3. ASSUME row' = row PROVE Leased'
  BY <1>3 DEF Leased
<1>4. ASSUME NEW w \in Workers, Call(w) \/ Work(w) \/ Fault(w) \/ Heartbeat(w)
      PROVE  Leased'
  <2>1. CASE Create(w)
    <3>1. row' = [NoRow EXCEPT !.status = "running", !.gen = 1, !.token = w, !.lease = TTL]
      BY <2>1 DEF Create
    <3>2. QED
      BY <1>2, <3>1 DEF NoRow
  <2>2. CASE Claim(w)
    BY <1>0, <1>2, <1>3, <2>2 DEF Claim, Rows
  <2>3. CASE EvidenceRelease(w) \/ ErrRelease(w)
    BY <1>0, <1>1, <1>3, <2>3, ClearedFacts, StatusLiterals DEF EvidenceRelease, ErrRelease
  <2>4. CASE CommitDone(w) \/ FailDone(w) \/ WaitEvent(w)
    <3>1. \A to \in {"complete", "failed", "waiting_event"}, b \in {0, 1} :
             Sealed(w, to, b).status = to
      BY <1>0, SealedFacts, StatusLiterals DEF TypeOK
    <3>2. QED
      BY <1>1, <1>3, <2>4, <3>1 DEF CommitDone, FailDone, WaitEvent
  <2>5. CASE SealBeat(w) \/ ToVerifying(w) \/ Heartbeat(w)
    <3>1. CASE row' # row
      <4>1. row.token = w
        BY <2>5, <3>1 DEF SealBeat, ToVerifying, Heartbeat, CasFits, Owner
      <4>2. row'.token = row.token
        BY <1>0, <2>5 DEF SealBeat, ToVerifying, Heartbeat, Renew, Rows
      <4>3. QED
        BY <1>2, <4>1, <4>2
    <3>2. QED
      BY <1>3, <3>1
  <2>6. CASE row' = row
    BY <1>3, <2>6
  <2>7. ASSUME \/ Lookup(w) \/ Blocked(w) \/ Start(w) \/ EvidenceLost(w)
               \/ EvidenceLoad(w) \/ Turn(w) \/ SealLoad(w) \/ Freeze(w) \/ Fresh(w)
               \/ Bind(w) \/ Verify(w) \/ PreCommit(w) \/ AppendEvidence(w)
               \/ Reload(w) \/ SaveJob(w) \/ Truth(w) \/ Reread(w) \/ Mirror(w)
               \/ PersistSession(w) \/ ReturnTerminal(w) \/ ErrLoad(w)
               \/ ErrReread(w) \/ StepRaises(w) \/ Die(w) \/ MarkLost(w)
        PROVE  row' = row
    BY <2>7 DEF Lookup, Blocked, Start, EvidenceLost, EvidenceLoad, Turn, SealLoad,
       Freeze, Fresh, Bind, Verify, PreCommit, AppendEvidence, Reload, SaveJob,
       Truth, Reread, Mirror, PersistSession, ReturnTerminal, ErrLoad, ErrReread,
       StepRaises, Die, MarkLost
  <2>8. QED
    BY <1>4, <2>1, <2>2, <2>3, <2>4, <2>5, <2>6, <2>7 DEF Call, Work, Fault
<1>5. CASE Tick
  <2>1. row.token # NoOne /\ row' = [row EXCEPT !.lease = row.lease - 1]
    BY <1>5 DEF Tick
  <2>2. QED
    BY <1>0, <2>1, LeaseOnly DEF Leased
<1>6. CASE SweepList \/ SweepRequeue
  BY <1>0, <1>1, <1>3, <1>6, ClearedFacts, StatusLiterals DEF SweepList, SweepRequeue
<1>7. CASE UNCHANGED vars
  BY <1>3, <1>7 DEF vars
<1>8. QED
  BY <1>4, <1>5, <1>6, <1>7 DEF Next

-----------------------------------------------------------------------------
(* Which step is of which kind. *)

Abstract == Truths!TruthNext \/ UNCHANGED Truths!truth

\* A grant is a step of the abstract specification.
LEMMA AsGrant == \A w \in Workers : Truths!Grant(w) => Abstract
BY DEF Abstract, Truths!TruthNext

\* So is a decision.
LEMMA AsDecide == \A w \in Workers : Truths!Decide(w) => Abstract
BY DEF Abstract, Truths!TruthNext

\* So are withdrawing and publishing.
LEMMA AsOther == Truths!Withdraw \/ Truths!Publish => Abstract
BY DEF Abstract, Truths!TruthNext

\* Cleared writes the released row of every release without a verdict.
LEMMA ReleaseAbstract ==
    ASSUME LedgerInv, row.token # NoOne, NEW to \in {"queued", "waiting_event"},
           row' = Cleared(to), turns' = turns
    PROVE  Abstract
<1>1. row \in Rows /\ row.status \in Active
  BY DEF LedgerInv, TypeOK, LedgerFacts, RowShape, Active
<1>2. /\ row'.status = to /\ row'.gen = row.gen + 1 /\ row'.token = NoOne
  BY <1>1, ClearedFacts, StatusLiterals
<1>3. QED
  BY <1>1, <1>2, WithdrawStep, AsOther DEF Active

\* create_mission and claim_mission.
LEMMA LeaseAbstract ==
    ASSUME LedgerInv, NEW w \in Workers, Create(w) \/ Claim(w)
    PROVE  Abstract
<1>0. row \in Rows /\ NoRow \in Rows /\ (row.status = "absent" => row.gen = 0)
  BY NoRowType DEF LedgerInv, TypeOK, LedgerFacts, RowShape, NoRow
<1>1. CASE Create(w)
  <2>1. row' = [NoRow EXCEPT !.status = "running", !.gen = 1, !.token = w, !.lease = TTL]
    BY <1>1 DEF Create
  <2>2. row'.status = "running" /\ row'.gen = 1 /\ row'.token = w
    BY <2>1 DEF NoRow
  <2>3. row.status = "absent" /\ row'.gen = row.gen + 1 /\ turns' = turns
    BY <1>0, <1>1, <2>2 DEF Create, store
  <2>4. QED
    BY <2>2, <2>3, GrantStep, AsGrant DEF Active
<1>2. CASE Claim(w) /\ Claimable
  <2>1. row.status \in Active /\ turns' = turns
    BY <1>2 DEF Claim, Claimable, Active, store
  <2>2. row' = [row EXCEPT !.token = w, !.gen = @ + 1, !.lease = TTL,
                !.status = IF @ \in {"queued", "waiting_event"} THEN "running" ELSE @]
    BY <1>2 DEF Claim
  <2>3. row'.token = w /\ row'.gen = row.gen + 1
    BY <1>0, <2>2 DEF Rows
  <2>4. row'.status \in Active
    BY <1>0, <2>1, <2>2 DEF Rows, Active
  <2>5. QED
    BY <2>1, <2>3, <2>4, GrantStep, AsGrant
<1>3. CASE Claim(w) /\ ~Claimable
  BY <1>3, SilentStep DEF Claim, store, Abstract
<1>4. QED
  BY <1>1, <1>2, <1>3

\* CommitDone and FailDone: a CAS that fits decides, a refused one is silent.
LEMMA DecideAbstract ==
    ASSUME LedgerInv, NEW w \in Workers, CommitDone(w) \/ FailDone(w)
    PROVE  Abstract
<1>0. row \in Rows /\ check[w] \in Checks /\ 0 \in Nat /\ 1 \in Nat
  BY DEF LedgerInv, TypeOK
<1>1. turns' = turns
  BY DEF CommitDone, FailDone, store
<1>2. CASE row' = row
  BY <1>1, <1>2, SilentStep DEF Abstract
<1>3. CASE row' # row
  <2>1. row.status = "verifying" /\ row.token = w
    BY <1>3 DEF CommitDone, FailDone, CasFits, Owner
  <2>2. PICK to \in {"complete", "failed"}, b \in {0, 1} : row' = Sealed(w, to, b)
    BY <1>3 DEF CommitDone, FailDone
  <2>3. /\ row'.status = to /\ row'.gen = row.gen + 1
        /\ row'.token = NoOne /\ row'.cand = w
    BY <1>0, <2>2, SealedFacts, StatusLiterals
  <2>4. QED
    BY <1>1, <2>1, <2>3, DecideStep, AsDecide DEF Active
<1>4. QED
  BY <1>2, <1>3

\* The verifier's rejection, the error branch and lost caller evidence.
LEMMA GiveBackAbstract ==
    ASSUME LedgerInv, NEW w \in Workers,
           WaitEvent(w) \/ EvidenceRelease(w) \/ ErrRelease(w)
    PROVE  Abstract
<1>0. row \in Rows /\ check[w] \in Checks /\ 1 \in Nat /\ w # NoOne
  BY NoOneAssumption DEF LedgerInv, TypeOK
<1>1. turns' = turns
  BY DEF WaitEvent, EvidenceRelease, ErrRelease, store
<1>2. CASE row' = row
  BY <1>1, <1>2, SilentStep DEF Abstract
<1>3. CASE row' # row /\ (EvidenceRelease(w) \/ ErrRelease(w))
  <2>1. row' = Cleared("waiting_event") /\ row.token = w
    BY <1>3 DEF EvidenceRelease, ErrRelease, CasFits, Owner
  <2>2. QED
    BY <1>0, <1>1, <2>1, ReleaseAbstract
<1>4. CASE row' # row /\ WaitEvent(w)
  <2>1. /\ row' = Sealed(w, "waiting_event", 1)
        /\ row.status = "verifying" /\ row.token = w
    BY <1>4 DEF WaitEvent, CasFits, Owner
  <2>2. /\ row'.status = "waiting_event" /\ row'.gen = row.gen + 1
        /\ row'.token = NoOne
    BY <1>0, <2>1, SealedFacts, StatusLiterals
  <2>3. QED
    BY <1>0, <1>1, <2>1, <2>2, WithdrawStep, AsOther DEF Active
<1>5. QED
  BY <1>2, <1>3, <1>4

\* The session turn, written by the winner or by a later reattach.
LEMMA HistoryAbstract ==
    ASSUME LedgerInv, NEW w \in Workers, PersistSession(w) \/ ReturnTerminal(w)
    PROVE  Abstract
<1>0. WorkerInv(w) /\ SessionExactlyOnce /\ row' = row /\ row \in Rows
  BY DEF LedgerInv, LedgerFacts, PersistSession, ReturnTerminal, TypeOK
<1>1. CASE turns' = turns
  BY <1>0, <1>1, SilentStep DEF Abstract
<1>2. CASE turns' # turns
  <2>1. row.status = "complete" /\ turns' = IF turns = <<>> THEN <<row.cand>> ELSE turns
    <3>1. CASE PersistSession(w)
      <4>1. snap[w].status = "complete" /\ row.cand = w /\ Fence(row) = snap[w]
        BY <1>0, <3>1 DEF PersistSession, WorkerInv, PostSeal, Terminal
      <4>2. row.status = "complete"
        BY <1>0, <4>1, FenceType
      <4>3. QED
        BY <3>1, <4>1, <4>2 DEF PersistSession, AppendOnce
    <3>2. CASE ReturnTerminal(w)
      <4>1. row.status = "complete" /\ AppendOnce(TerminalText)
        BY <1>2, <3>2 DEF ReturnTerminal
      <4>2. TerminalText = row.cand
        BY <4>1, WinnerText
      <4>3. QED
        BY <4>1, <4>2 DEF AppendOnce
    <3>3. QED
      BY <3>1, <3>2
  <2>2. turns = <<>> /\ turns' = <<row.cand>>
    BY <1>2, <2>1
  <2>3. QED
    BY <1>0, <2>1, <2>2, PublishStep, AsOther
<1>3. QED
  BY <1>1, <1>2

\* Renewals and running -> verifying.
LEMMA RenewAbstract ==
    ASSUME LedgerInv, NEW w \in Workers, SealBeat(w) \/ ToVerifying(w) \/ Heartbeat(w)
    PROVE  Abstract
<1>0. row \in Rows /\ turns' = turns
  BY DEF LedgerInv, TypeOK, SealBeat, ToVerifying, Heartbeat, store
<1>1. CASE row' = row
  BY <1>0, <1>1, SilentStep DEF Abstract
<1>2. CASE row' # row
  <2>1. Owner(w)
    BY <1>2 DEF SealBeat, ToVerifying, Heartbeat, CasFits
  <2>2. row.status \in Active
    BY <2>1, OwnerActive DEF Active
  <2>3. \/ row' = [row EXCEPT !.lease = TTL]
        \/ row' = [row EXCEPT !.status = "verifying", !.version = @ + 1]
    BY <1>2 DEF SealBeat, ToVerifying, Heartbeat, Renew
  <2>4. row'.status \in Active /\ row'.gen = row.gen /\ row'.token = row.token
    BY <1>0, <2>2, <2>3 DEF Rows, Active
  <2>5. QED
    BY <1>0, <2>2, <2>4, SilentStep DEF Abstract
<1>3. QED
  BY <1>1, <1>2

\* Everything else a call does leaves row and history alone.
LEMMA QuietAbstract ==
    ASSUME LedgerInv, NEW w \in Workers,
           \/ Lookup(w) \/ Blocked(w) \/ Start(w) \/ EvidenceLost(w)
           \/ EvidenceLoad(w) \/ Turn(w) \/ SealLoad(w) \/ Freeze(w) \/ Fresh(w)
           \/ Bind(w) \/ Verify(w) \/ PreCommit(w) \/ AppendEvidence(w)
           \/ Reload(w) \/ SaveJob(w) \/ Truth(w) \/ Reread(w) \/ Mirror(w)
           \/ ErrLoad(w) \/ ErrReread(w) \/ StepRaises(w) \/ Die(w) \/ MarkLost(w)
    PROVE  Abstract
<1>1. row' = row /\ turns' = turns
  BY DEF Lookup, Blocked, Start, EvidenceLost, EvidenceLoad, Turn, SealLoad,
     Freeze, Fresh, Bind, Verify, PreCommit, AppendEvidence, Reload, SaveJob,
     Truth, Reread, Mirror, ErrLoad, ErrReread, StepRaises, Die, MarkLost, store
<1>2. QED
  BY <1>1, SilentStep DEF Abstract

\* The clock and the lease sweeper.
LEMMA TimeAbstract ==
    ASSUME LedgerInv, Leased, Tick \/ SweepList \/ SweepRequeue
    PROVE  Abstract
<1>0. row \in Rows /\ turns' = turns
  BY DEF LedgerInv, TypeOK, Tick, SweepList, SweepRequeue, store
<1>1. CASE row' = row
  BY <1>0, <1>1, SilentStep DEF Abstract
<1>2. CASE Tick
  <2>1. row' = [row EXCEPT !.lease = row.lease - 1] /\ row.token # NoOne
    BY <1>2 DEF Tick
  <2>2. row.status \in Active
    BY <2>1 DEF LedgerInv, LedgerFacts, RowShape, Active
  <2>3. QED
    BY <1>0, <2>1, <2>2, LeaseOnly, SilentStep DEF Abstract
<1>3. CASE SweepRequeue /\ row' # row
  <2>1. row' = Cleared("queued") /\ Fence(row) = sweep.seen
    BY <1>3 DEF SweepRequeue
  <2>2. sweep.on /\ sweep \in Sweeps
    BY <1>3 DEF SweepRequeue, LedgerInv, TypeOK
  <2>3. sweep.seen.status = "running"
    <3>1. sweep # NoSweep
      BY <2>2 DEF NoSweep
    <3>2. QED
      BY <2>2, <3>1 DEF Sweeps
  <2>4. row.token # NoOne
    BY <1>0, <2>1, <2>3, FenceType DEF Leased
  <2>5. QED
    BY <1>0, <2>1, <2>4, ReleaseAbstract
<1>4. QED
  BY <1>1, <1>2, <1>3 DEF SweepList
-----------------------------------------------------------------------------
(* The theorems. *)

\* Every step of the ledger is an abstract step or a stutter.
LEMMA StepAbstract ==
    ASSUME LedgerInv, Leased, [Next]_vars
    PROVE  Abstract
<1>1. ASSUME NEW w \in Workers, Call(w) \/ Work(w) \/ Fault(w) \/ Heartbeat(w)
      PROVE  Abstract
  BY <1>1, LeaseAbstract, DecideAbstract, GiveBackAbstract, HistoryAbstract,
     RenewAbstract, QuietAbstract DEF Call, Work, Fault
<1>2. CASE UNCHANGED vars
  BY <1>2, SilentStep DEF vars, Abstract
<1>3. QED
  BY <1>1, <1>2, TimeAbstract DEF Next

\* The mission row always has an owner while it is running or verifying: every
\* step that takes the token away also takes the row out of those states.
THEOREM ActiveRowLeased == Spec => []Leased
<1>1. Init => Leased
  BY DEF Init, Leased, NoRow
<1>2. QED
  BY <1>1, LedgerInvariant, LeasedNext, PTL DEF Spec

\* The ledger of state.py and the seal around it implement MissionTruth:
\* whatever the calls, crashes, sweeps and mirrors do, the mission is held by
\* one worker at a time, decided once and by its holder, and only the decider's
\* answer to a complete mission becomes session history, once.
THEOREM LedgerImplementsTruth == Spec => ImplementsTruth
<1>1. Init => Truths!TruthInit
  <2>1. Init => row.status = "absent" /\ row.gen = 0 /\ row.token = NoOne /\ turns = <<>>
    BY DEF Init, NoRow
  <2>2. QED
    BY <2>1, MapAbsent DEF Truths!TruthInit
<1>2. LedgerInv /\ Leased /\ [Next]_vars => [Truths!TruthNext]_(Truths!truth)
  BY StepAbstract DEF Abstract
<1>3. QED
  BY <1>1, <1>2, LedgerInvariant, ActiveRowLeased, PTL
  DEF Spec, ImplementsTruth, Truths!TruthSpec

=============================================================================
