--------------------------- MODULE MissionLedger ---------------------------
(***************************************************************************)
(* One Mission V2 row of the SQLite ledger and every agent call (quantum)  *)
(* that works on it: creation, reattach by continue_token, the fenced      *)
(* lease, the seal (freeze -> verifying -> CommitDone / FailDone /         *)
(* waiting_event), the post-seal reconciliation with the poll projection   *)
(* and the session history, the provider-error path, heartbeats, the lease *)
(* sweeper, storage exceptions, cancellation, shutdown and process crash.  *)
(*                                                                         *)
(* A step of the model is one SQLite transaction together with the code    *)
(* that runs up to the next await.  Everything read in one transaction and *)
(* used in a later one is kept in the worker's snapshot.  The calls may    *)
(* live in one server process or in several that share the database file.  *)
(***************************************************************************)
EXTENDS Integers, Sequences

CONSTANTS
    Workers,    \* the agent calls; a call mints one lease token: itself
    NoOne,      \* SQL NULL for a token or a candidate
    TTL         \* lease_ttl_seconds, counted in clock ticks

ASSUME NoOneAssumption == NoOne \notin Workers
ASSUME TTLAssumption == TTL \in Nat \ {0}

VARIABLES
    row,        \* the row of table missions
    artifacts,  \* candidates whose projection is in mission_artifacts
    evidence,   \* candidates with a structural record in mission_evidence
    job,        \* the agent_jobs row: the poll projection of the mission
    turns,      \* assistant turns this job appended to its session
    pc,         \* pc[w]: the transaction worker w runs next
    gen,        \* gen[w]: mission_lease_generation of w (0 before a claim)
    snap,       \* snap[w]: what w read of the mission row and acts upon
    check,      \* check[w]: outcome of verify_commit for w's candidate
    result,     \* result[w]: result["mission"]["status"] of w's seal
    sweep       \* what a sweep listed as expired and is about to requeue

vars == <<row, artifacts, evidence, job, turns, pc, gen, snap, check, result,
          sweep>>
store == <<artifacts, evidence, job, turns>>
local == <<snap, check, result>>

-----------------------------------------------------------------------------
(* Status machine of mission/types.py. *)

Terminal == {"complete", "failed", "budget_exhausted", "cancelled"}
MissionStatus == Terminal \cup {"queued", "running", "verifying",
    "waiting_event", "waiting_timer", "dormant", "escalated"}

\* _ALLOWED: the successors of every non-terminal status.
Allowed == [s \in MissionStatus |->
    CASE s = "queued"        -> {"running"}
      [] s = "running"       -> {"verifying", "waiting_event", "waiting_timer",
                                 "dormant", "escalated", "failed", "queued",
                                 "budget_exhausted", "cancelled"}
      [] s = "verifying"     -> {"complete", "running", "failed", "escalated",
                                 "waiting_event", "queued"}
      [] s = "waiting_event" -> {"queued", "running"}
      [] s = "waiting_timer" -> {"queued"}
      [] s = "dormant"       -> {"queued"}
      [] s = "escalated"     -> {"queued", "cancelled"}
      [] OTHER               -> {}]

LegalTransition(cur, nxt) == cur \in MissionStatus /\ nxt \in Allowed[cur]

\* Outcome of verify_commit: no gap; a repairable gap; literal_mismatch; a gap
\* of _UNREPAIRABLE_GAPS.
Checks == {"ok", "repairable", "literal", "unrepairable"}

-----------------------------------------------------------------------------
(* Types and initial state. *)

NoRow == [status |-> "absent", version |-> 0, gen |-> 0, token |-> NoOne,
          lease |-> -1, failures |-> 0, last |-> "none", cand |-> NoOne]

\* lease is lease_expires_at - now, saturating at -1: <= 0 is claimable,
\* < 0 is expired for the sweeper.  token and lease_expires_at are NULL together.
\* last is checkpoint.last_verify, cand is checkpoint.candidate_hash.
Rows == [status: MissionStatus \cup {"absent"}, version: Nat, gen: Nat,
         token: Workers \cup {NoOne}, lease: -1..TTL, failures: Nat,
         last: Checks \cup {"none"}, cand: Workers \cup {NoOne}]

\* The fence a reader keeps of the row: status, checkpoint_version,
\* lease_generation.
Fences == [status: MissionStatus \cup {"absent"}, version: Nat, gen: Nat]
Fence(r) == [status |-> r.status, version |-> r.version, gen |-> r.gen]
NoFence == Fence(NoRow)

JobStatus == {"none", "running", "complete", "error", "needs_continuation"}
Jobs == [status: JobStatus, by: Workers \cup {NoOne}]
RunningJob == [status |-> "running", by |-> NoOne]   \* save_agent_job(.., "running")
LostJob == [status |-> "error", by |-> NoOne]        \* shutdown's "lost" payload

\* A storage exception in one of these steps reaches _complete_turn's handler.
SealSteps == {"load", "beat", "freeze", "fresh", "bind", "toverify", "verify",
              "precommit", "evidence", "commit", "faildone", "waitevent",
              "reload", "truth", "reread", "session", "mirror"}
ErrorSteps == {"errload", "errrelease", "errreread", "errmirror", "errlast"}
\* The detached task of a call: from create_task to its last transaction.
TaskSteps == {"turn", "save", "terminal"} \cup SealSteps \cup ErrorSteps
Steps == {"idle", "claim", "blocked", "start", "evload", "evrelease", "done"}
         \cup TaskSteps

NoSweep == [on |-> FALSE, seen |-> NoFence]
\* A sweep lists only rows that hold a lease and are not verifying.
Sweeps == {NoSweep} \cup [on: {TRUE}, seen: {f \in Fences : f.status = "running"}]

TypeOK ==
    /\ row \in Rows
    /\ artifacts \subseteq Workers
    /\ evidence \subseteq Workers
    /\ job \in Jobs
    /\ turns \in Seq(Workers \cup {NoOne})
    /\ pc \in [Workers -> Steps]
    /\ gen \in [Workers -> Nat]
    /\ snap \in [Workers -> Fences]
    /\ check \in [Workers -> Checks]
    /\ result \in [Workers -> MissionStatus \cup {"absent"}]
    /\ sweep \in Sweeps

Init ==
    /\ row = NoRow
    /\ artifacts = {} /\ evidence = {}
    /\ job = [status |-> "none", by |-> NoOne]
    /\ turns = <<>>
    /\ pc = [w \in Workers |-> "idle"]
    /\ gen = [w \in Workers |-> 0]
    /\ snap = [w \in Workers |-> NoFence]
    /\ check = [w \in Workers |-> "ok"]
    /\ result = [w \in Workers |-> "absent"]
    /\ sweep = NoSweep

-----------------------------------------------------------------------------
(* Fences and row updates of state.py. *)

\* The token and generation test of heartbeat_mission, put_mission_artifact,
\* append_mission_evidence, touch_mission_envelope and of the seal's reads.
Owner(w) == row.token = w /\ row.gen = gen[w]

\* Mutant: a claim that forgets which statuses are claimable.
ClaimableAnyStatus == row.token = NoOne \/ row.lease <= 0

Claimable == /\ row.status \in {"queued", "waiting_event", "running", "verifying"}
             /\ row.token = NoOne \/ row.lease <= 0

\* cas_mission_status: the row is still what the worker read, and still its own.
CasFits(w, from, to) ==
    /\ LegalTransition(from, to)
    /\ row.status = from
    /\ row.version = snap[w].version
    /\ Owner(w)

\* clear_lease=True: the release fences out the generation that held the row.
Cleared(to) == [row EXCEPT !.status = to, !.version = @ + 1, !.gen = @ + 1,
                           !.token = NoOne, !.lease = -1]

\* Mutant: one literal repair too many.
ShouldTerminalFailLate(c, failures) ==
    \/ c = "unrepairable"
    \/ c = "literal" /\ failures >= 2

\* should_terminal_fail.  Its "same wrong candidate again" clause is implied by
\* the second one: last_verify is never written without bumping verify_failures.
ShouldTerminalFail(c, failures) ==
    \/ c = "unrepairable"
    \/ c = "literal" /\ failures >= 1

\* result_owns_truth: the terminal or released row is this worker's own release.
OwnsTruth(w) == result[w] = row.status /\ row.gen = gen[w] + 1

\* mirror_mission_result writes only under the exact row that was read.
MirrorFits(w) == Fence(row) = snap[w]

\* The answer _terminal_payload returns for a complete mission: the stored
\* projection if it is complete, else the sealed artifact of the checkpoint's
\* candidate, else a notice that it is unavailable.
TerminalText ==
    IF job.status = "complete" THEN job.by
    ELSE IF row.cand \in artifacts THEN row.cand
    ELSE NoOne

\* Mutant: append_turn instead of append_turn_once.
AppendAgain(text) == turns' = Append(turns, text)

\* append_turn_once with commit_key = job_id.
AppendOnce(text) == turns' = IF turns = <<>> THEN <<text>> ELSE turns

Goto(w, s) == pc' = [pc EXCEPT ![w] = s]
See(w) == snap' = [snap EXCEPT ![w] = Fence(row)]
Finish(w) ==
    /\ Goto(w, "done")
    /\ snap' = [snap EXCEPT ![w] = NoFence]
    /\ check' = [check EXCEPT ![w] = "ok"]
    /\ result' = [result EXCEPT ![w] = "absent"]

-----------------------------------------------------------------------------
(* agent(): from the request to its detached task. *)

\* A fresh call creates the mission already leased to itself.
Create(w) ==
    /\ pc[w] = "idle" /\ row.status = "absent"
    /\ row' = [NoRow EXCEPT !.status = "running", !.gen = 1, !.token = w,
                            !.lease = TTL]
    /\ gen' = [gen EXCEPT ![w] = 1]
    /\ Goto(w, "start")
    /\ UNCHANGED <<store, local, sweep>>

\* A call with the continue_token: terminal truth is returned, a quantum in
\* flight in the same process is awaited instead of stealing its lease,
\* otherwise the mission will be claimed.
Lookup(w) ==
    /\ pc[w] = "idle" /\ row.status # "absent"
    /\ \/ row.status \in Terminal /\ Goto(w, "terminal")
       \/ row.status \notin Terminal /\ Goto(w, "claim")
       \/ /\ row.status \notin Terminal
          /\ \E v \in Workers : pc[v] \in TaskSteps
          /\ Goto(w, "done")
    /\ UNCHANGED <<row, store, gen, local, sweep>>

\* claim_mission under a fresh token.
Claim(w) ==
    /\ pc[w] = "claim"
    /\ \/ /\ Claimable
          /\ row' = [row EXCEPT !.token = w, !.gen = @ + 1, !.lease = TTL,
                !.status = IF @ \in {"queued", "waiting_event"} THEN "running" ELSE @]
          /\ gen' = [gen EXCEPT ![w] = row.gen + 1]
          /\ Goto(w, "start")
       \/ ~Claimable /\ Goto(w, "blocked") /\ UNCHANGED <<row, gen>>
    /\ UNCHANGED <<store, local, sweep>>

\* A rejected claim re-reads the row: terminal truth, or "retry shortly".
Blocked(w) ==
    /\ pc[w] = "blocked"
    /\ Goto(w, IF row.status \in Terminal THEN "terminal" ELSE "done")
    /\ UNCHANGED <<row, store, gen, local, sweep>>

\* Caller evidence is durable; the projection is reset to running (an
\* unconditional upsert whose exceptions are suppressed) and the task starts.
Start(w) ==
    /\ pc[w] = "start"
    /\ job' \in {job, RunningJob}
    /\ Goto(w, "turn")
    /\ UNCHANGED <<row, artifacts, evidence, turns, gen, local, sweep>>

\* Caller evidence could not be written: give the claim back before raising.
EvidenceLost(w) ==
    /\ pc[w] = "start"
    /\ Goto(w, "evload")
    /\ UNCHANGED <<row, store, gen, local, sweep>>

EvidenceLoad(w) ==
    /\ pc[w] = "evload"
    /\ \/ Owner(w) /\ See(w) /\ Goto(w, "evrelease")   \* a terminal row has no owner
       \/ ~Owner(w) /\ Goto(w, "done") /\ UNCHANGED snap
    /\ UNCHANGED <<row, store, gen, check, result, sweep>>

EvidenceRelease(w) ==
    /\ pc[w] = "evrelease"
    /\ row' = IF CasFits(w, snap[w].status, "waiting_event")
              THEN Cleared("waiting_event") ELSE row
    /\ Finish(w)
    /\ UNCHANGED <<store, gen, sweep>>

\* The provider quantum (external): a candidate or an exception.
Turn(w) ==
    /\ pc[w] = "turn"
    /\ \E s \in {"load", "errload"} : Goto(w, s)
    /\ UNCHANGED <<row, store, gen, local, sweep>>

-----------------------------------------------------------------------------
(* seal_mission_epoch(): CommitDone for a finished quantum. *)

\* The seal returns with the mission status st; agent() then compares it with
\* the durable row.
SealReturns(w, st) ==
    /\ result' = [result EXCEPT ![w] = st]
    /\ Goto(w, "truth")

\* Entry: terminal truth, lease not owned, or go on to renew the lease.
SealLoad(w) ==
    /\ pc[w] = "load"
    /\ \/ Owner(w) /\ See(w) /\ Goto(w, "beat") /\ UNCHANGED result
       \/ ~Owner(w) /\ SealReturns(w, row.status) /\ UNCHANGED snap
    /\ UNCHANGED <<row, store, gen, check, sweep>>

\* heartbeat_mission.  A sweep that listed the old expiry can no longer match.
Renew == row' = [row EXCEPT !.lease = TTL] /\ sweep' = NoSweep

SealBeat(w) ==
    /\ pc[w] = "beat"
    /\ \/ Owner(w) /\ Renew /\ Goto(w, "freeze") /\ UNCHANGED result
       \/ ~Owner(w) /\ SealReturns(w, snap[w].status) /\ UNCHANGED <<row, sweep>>
    /\ UNCHANGED <<store, gen, snap, check>>

\* Mutant: an artifact write without the lease fence.
FreezeUnfenced(w) ==
    /\ pc[w] = "freeze"
    /\ artifacts' = artifacts \cup {w}
    /\ Goto(w, "fresh")
    /\ UNCHANGED <<row, evidence, job, turns, gen, local, sweep>>

\* put_mission_artifact; its refusal is not looked at here.
Freeze(w) ==
    /\ pc[w] = "freeze"
    /\ artifacts' = IF Owner(w) THEN artifacts \cup {w} ELSE artifacts
    /\ Goto(w, "fresh")
    /\ UNCHANGED <<row, evidence, job, turns, gen, local, sweep>>

\* Re-read of the fence before the first CAS.
Fresh(w) ==
    /\ pc[w] = "fresh"
    /\ \/ Owner(w) /\ See(w) /\ Goto(w, "bind") /\ UNCHANGED result
       \/ ~Owner(w) /\ SealReturns(w, row.status) /\ UNCHANGED snap
    /\ UNCHANGED <<row, store, gen, check, sweep>>

\* touch_mission_envelope.
Bind(w) ==
    /\ pc[w] = "bind"
    /\ Goto(w, IF Owner(w) /\ row.status \notin Terminal THEN "toverify"
               ELSE "reload")
    /\ UNCHANGED <<row, store, gen, local, sweep>>

\* Mutant: a row found verifying is not taken over.
ToVerifyingOnlyRunning(w) ==
    /\ pc[w] = "toverify"
    /\ \/ /\ CasFits(w, "running", "verifying")
          /\ row' = [row EXCEPT !.status = "verifying", !.version = @ + 1]
          /\ Goto(w, "verify")
       \/ /\ ~CasFits(w, "running", "verifying")
          /\ Goto(w, "reload") /\ UNCHANGED row
    /\ UNCHANGED <<store, gen, local, sweep>>

\* running -> verifying; a row found verifying (its worker died there) is
\* taken over as it is.
ToVerifying(w) ==
    /\ pc[w] = "toverify"
    /\ \/ /\ snap[w].status = "verifying"
          /\ Goto(w, "verify") /\ UNCHANGED row
       \/ /\ snap[w].status = "running" /\ CasFits(w, "running", "verifying")
          /\ row' = [row EXCEPT !.status = "verifying", !.version = @ + 1]
          /\ Goto(w, "verify")
       \/ /\ snap[w].status = "running" /\ ~CasFits(w, "running", "verifying")
          /\ Goto(w, "reload") /\ UNCHANGED row
    /\ UNCHANGED <<store, gen, local, sweep>>

\* verify_commit on the frozen candidate: any outcome, but never "ok" under a
\* row re-read with another lease_generation.
Verify(w) ==
    /\ pc[w] = "verify"
    /\ \E c \in Checks :
         /\ c = "ok" => snap[w].status = "verifying" \/ row.gen = gen[w]
         /\ check' = [check EXCEPT ![w] = c]
    /\ Goto(w, "precommit")
    /\ UNCHANGED <<row, store, gen, snap, result, sweep>>

\* Re-read of the fence after verification.
PreCommit(w) ==
    /\ pc[w] = "precommit"
    /\ \/ /\ Owner(w) /\ See(w) /\ UNCHANGED result
          /\ Goto(w, IF check[w] = "ok" THEN "evidence"
                     ELSE IF ShouldTerminalFail(check[w], row.failures)
                     THEN "faildone" ELSE "waitevent")
       \/ ~Owner(w) /\ SealReturns(w, row.status) /\ UNCHANGED snap
    /\ UNCHANGED <<row, store, gen, check, sweep>>

\* Mutant: evidence as best effort.
AppendEvidenceBestEffort(w) ==
    /\ pc[w] = "evidence"
    /\ evidence' \in {evidence, evidence \cup {w}}
    /\ Goto(w, "commit")
    /\ UNCHANGED <<row, artifacts, job, turns, gen, local, sweep>>

\* append_mission_evidence of the verifier's structural record.
AppendEvidence(w) ==
    /\ pc[w] = "evidence"
    /\ evidence' = IF Owner(w) THEN evidence \cup {w} ELSE evidence
    /\ Goto(w, "commit")
    /\ UNCHANGED <<row, artifacts, job, turns, gen, local, sweep>>

\* checkpoint_update of the seal's three exits.
Sealed(w, to, bump) ==
    [Cleared(to) EXCEPT !.cand = w, !.last = check[w], !.failures = @ + bump]

\* Mutant: the outcome of the complete CAS is not looked at.
CommitDoneUnchecked(w) ==
    /\ pc[w] = "commit"
    /\ row' = IF CasFits(w, "verifying", "complete")
              THEN Sealed(w, "complete", 0) ELSE row
    /\ result' = [result EXCEPT ![w] = "complete"]
    /\ Goto(w, "save")
    /\ UNCHANGED <<store, gen, snap, check, sweep>>

\* CommitDone.  A lost race falls through to the waiting_event CAS.
CommitDone(w) ==
    /\ pc[w] = "commit"
    /\ \/ /\ CasFits(w, "verifying", "complete")
          /\ row' = Sealed(w, "complete", 0)
          /\ result' = [result EXCEPT ![w] = "complete"]
          /\ Goto(w, "save")
       \/ /\ ~CasFits(w, "verifying", "complete")
          /\ Goto(w, "waitevent") /\ UNCHANGED <<row, result>>
    /\ UNCHANGED <<store, gen, snap, check, sweep>>

FailDone(w) ==
    /\ pc[w] = "faildone"
    /\ \/ /\ CasFits(w, "verifying", "failed")
          /\ row' = Sealed(w, "failed", 1)
          /\ result' = [result EXCEPT ![w] = "failed"]
          /\ Goto(w, "save")
       \/ /\ ~CasFits(w, "verifying", "failed")
          /\ Goto(w, "reload") /\ UNCHANGED <<row, result>>
    /\ UNCHANGED <<store, gen, snap, check, sweep>>

\* Verifier rejected the candidate: back to waiting_event for a repair quantum.
WaitEvent(w) ==
    /\ pc[w] = "waitevent"
    /\ row' = IF CasFits(w, "verifying", "waiting_event")
              THEN Sealed(w, "waiting_event", 1) ELSE row
    /\ Goto(w, "reload")
    /\ UNCHANGED <<store, gen, local, sweep>>

\* load_mission behind a CAS or an envelope write: the status the seal reports.
Reload(w) ==
    /\ pc[w] = "reload"
    /\ SealReturns(w, row.status)
    /\ UNCHANGED <<row, store, gen, snap, check, sweep>>

\* save_agent_job behind a terminal CAS; exceptions are suppressed.
SaveJob(w) ==
    /\ pc[w] = "save"
    /\ job' \in {job, [status |-> IF result[w] = "complete" THEN "complete"
                                  ELSE "error", by |-> w]}
    /\ Goto(w, "truth")
    /\ UNCHANGED <<row, artifacts, evidence, turns, gen, local, sweep>>

-----------------------------------------------------------------------------
(* _complete_turn_unlocked(): reconciling the seal with durable truth. *)

\* Only the release of this worker's own generation may be mirrored; terminal
\* truth of another is returned.  The code also releases an active row that is
\* still its own, which never happens (SealLetsGo).
Truth(w) ==
    /\ pc[w] = "truth" /\ ~Owner(w)
    /\ \/ row.status \in Terminal /\ ~OwnsTruth(w)
          /\ Goto(w, "terminal") /\ UNCHANGED snap
       \/ row.status = "complete" /\ OwnsTruth(w)
          /\ See(w) /\ Goto(w, "session")
       \/ row.status \in {"failed", "waiting_event"} /\ OwnsTruth(w)
          /\ See(w) /\ Goto(w, "mirror")
       \/ /\ row.status \notin Terminal
          /\ ~(row.status = "waiting_event" /\ OwnsTruth(w))
          /\ Goto(w, "done") /\ UNCHANGED snap
    /\ UNCHANGED <<row, store, gen, check, result, sweep>>

\* load_mission after a refused mirror or release: terminal or recoverable.
Reread(w) ==
    /\ pc[w] \in {"reread", "errlast"}
    /\ Goto(w, IF row.status \in Terminal THEN "terminal" ELSE "done")
    /\ UNCHANGED <<row, store, gen, local, sweep>>

\* _persist_committed_session_turn with this worker's own answer.
PersistSession(w) ==
    /\ pc[w] = "session"
    /\ AppendOnce(w)
    /\ Goto(w, "mirror")
    /\ UNCHANGED <<row, artifacts, evidence, job, gen, local, sweep>>

\* mirror_mission_result, on the success path and on the error path.
Mirror(w) ==
    /\ pc[w] \in {"mirror", "errmirror"}
    /\ \/ /\ MirrorFits(w)
          /\ job' = [status |-> CASE snap[w].status = "complete" -> "complete"
                                  [] snap[w].status = "failed" -> "error"
                                  [] OTHER -> "needs_continuation", by |-> w]
          /\ Finish(w)
       \/ /\ ~MirrorFits(w)
          /\ Goto(w, IF pc[w] = "mirror" THEN "reread" ELSE "errlast")
          /\ UNCHANGED <<job, local>>
    /\ UNCHANGED <<row, artifacts, evidence, turns, gen, sweep>>

\* _durable_mission_terminal_payload: a complete mission's session turn is
\* reconciled from the durable winner; an exception leaves it pending.
ReturnTerminal(w) ==
    /\ pc[w] = "terminal"
    /\ \/ row.status = "complete" /\ AppendOnce(TerminalText)
       \/ UNCHANGED turns
    /\ Finish(w)
    /\ UNCHANGED <<row, artifacts, evidence, job, gen, sweep>>

-----------------------------------------------------------------------------
(* The durable error branch of _complete_turn. *)

ErrLoad(w) ==
    /\ pc[w] = "errload"
    /\ \/ Owner(w) /\ See(w) /\ Goto(w, "errrelease")
       \/ row.status \in Terminal /\ Goto(w, "terminal") /\ UNCHANGED snap
       \/ ~Owner(w) /\ row.status \notin Terminal
          /\ Goto(w, "done") /\ UNCHANGED snap
    /\ UNCHANGED <<row, store, gen, check, result, sweep>>

\* The quantum failed: release to waiting_event; a refused CAS is re-read.
ErrRelease(w) ==
    /\ pc[w] = "errrelease"
    /\ \/ /\ CasFits(w, snap[w].status, "waiting_event")
          /\ row' = Cleared("waiting_event")
          /\ Goto(w, "errreread")
       \/ /\ ~CasFits(w, snap[w].status, "waiting_event")
          /\ Goto(w, "errlast") /\ UNCHANGED row
    /\ UNCHANGED <<store, gen, local, sweep>>

\* Never adopt a newer fence for this worker's payload.
ErrReread(w) ==
    /\ pc[w] = "errreread"
    /\ LET mine == [status |-> "waiting_event", version |-> snap[w].version + 1,
                    gen |-> gen[w] + 1]
       IN \/ Fence(row) = mine /\ See(w) /\ Goto(w, "errmirror")
          \/ row.status \in Terminal /\ Goto(w, "terminal") /\ UNCHANGED snap
          \/ Fence(row) # mine /\ row.status \notin Terminal
             /\ Goto(w, "done") /\ UNCHANGED snap
    /\ UNCHANGED <<row, store, gen, check, result, sweep>>

\* A storage exception: re-enter only the durable error branch.
StepRaises(w) ==
    /\ pc[w] \in SealSteps
    /\ Goto(w, "errload")
    /\ UNCHANGED <<row, store, gen, local, sweep>>

\* Cancellation of the request or of the task, an exception in the error
\* branch, or a crash of the process (every call of the process dies).
\* Nothing is written: the lease stays until it expires.
Die(w) ==
    /\ pc[w] \notin {"idle", "done"}
    /\ Finish(w)
    /\ UNCHANGED <<row, store, gen, sweep>>

\* shutdown_jobs marks the projection of a running task "lost", and then
\* cancels the task (Die), which may still finish first.
MarkLost(w) ==
    /\ pc[w] \in TaskSteps
    /\ job' = LostJob
    /\ UNCHANGED <<row, artifacts, evidence, turns, pc, gen, local, sweep>>

-----------------------------------------------------------------------------
(* Time: heartbeats, lease expiry, sweep_expired_leases. *)

\* Mutant: the heartbeat task outlives the quantum.
HeartbeatForever(w) ==
    /\ Owner(w) /\ row.lease < TTL
    /\ Renew
    /\ UNCHANGED <<store, pc, gen, local>>

\* _heartbeat_owned_mission lives exactly as long as the task.
Heartbeat(w) ==
    /\ pc[w] \in TaskSteps
    /\ Owner(w) /\ row.lease < TTL
    /\ Renew
    /\ UNCHANGED <<store, pc, gen, local>>

Tick ==
    /\ row.token # NoOne /\ row.lease >= 0
    /\ row' = [row EXCEPT !.lease = @ - 1]
    /\ UNCHANGED <<store, pc, gen, local, sweep>>

\* list_expired_mission_leases and the sweeper's own filter.
SweepList ==
    /\ row.token # NoOne /\ row.lease < 0
    /\ row.status \notin Terminal \cup {"verifying", "escalated"}
    /\ LegalTransition(row.status, "queued")
    /\ ~sweep.on
    /\ sweep' = [on |-> TRUE, seen |-> Fence(row)]
    /\ UNCHANGED <<row, store, pc, gen, local>>

\* Mutant: a requeue without the fence that was listed.
SweepRequeueBlind ==
    /\ sweep.on
    /\ row' = Cleared("queued")
    /\ sweep' = NoSweep
    /\ UNCHANGED <<store, pc, gen, local>>

\* requeue_expired_mission, or the sweep dies with its process.
SweepRequeue ==
    /\ sweep.on
    /\ row' \in {row, IF Fence(row) = sweep.seen /\ row.lease < 0
                      THEN Cleared("queued") ELSE row}
    /\ sweep' = NoSweep
    /\ UNCHANGED <<store, pc, gen, local>>

-----------------------------------------------------------------------------
Call(w) == Create(w) \/ Lookup(w)

\* Steps a live call takes by itself.
Work(w) ==
    \/ Claim(w) \/ Blocked(w) \/ Start(w) \/ EvidenceLost(w)
    \/ EvidenceLoad(w) \/ EvidenceRelease(w) \/ Turn(w)
    \/ SealLoad(w) \/ SealBeat(w) \/ Freeze(w) \/ Fresh(w) \/ Bind(w)
    \/ ToVerifying(w) \/ Verify(w) \/ PreCommit(w) \/ AppendEvidence(w)
    \/ CommitDone(w) \/ FailDone(w) \/ WaitEvent(w) \/ Reload(w) \/ SaveJob(w)
    \/ Truth(w) \/ Reread(w) \/ PersistSession(w)
    \/ Mirror(w) \/ ReturnTerminal(w)
    \/ ErrLoad(w) \/ ErrRelease(w) \/ ErrReread(w)

Fault(w) == StepRaises(w) \/ Die(w) \/ MarkLost(w)

Next ==
    \/ \E w \in Workers : Call(w) \/ Work(w) \/ Fault(w) \/ Heartbeat(w)
    \/ Tick \/ SweepList \/ SweepRequeue

Spec == Init /\ [][Next]_vars

\* A live task is scheduled until it ends and the clock advances; calls,
\* faults, heartbeats and sweeps may never come.
Fairness == WF_vars(Tick) /\ \A w \in Workers : WF_vars(Work(w))

FairSpec == Spec /\ Fairness

-----------------------------------------------------------------------------
(* Safety. *)

\* A complete mission always has a durable answer and the verifier's record of
\* it, and what _terminal_payload returns is the committed candidate, whatever
\* later calls, shutdowns or failed mirrors did to the poll projection.
DurableWinner ==
    row.status = "complete" =>
        /\ row.cand \in artifacts
        /\ row.cand \in evidence
        /\ TerminalText = row.cand

\* Session history is commit-gated and exactly-once: append_turn_once stores no
\* turn before CommitDone, at most one ever, and only the winner's answer,
\* whether the worker itself or a later reattach writes it.
SessionExactlyOnce ==
    turns = <<>> \/ (row.status = "complete" /\ turns = <<row.cand>>)

\* The poll projection never claims an outcome the mission row does not have:
\* an agent_jobs row carrying a worker's terminal payload names the worker
\* whose terminal CAS won.
ProjectionTruth ==
    /\ job.status = "complete" => row.status = "complete" /\ job.by = row.cand
    /\ job.status = "error" /\ job.by # NoOne
         => row.status = "failed" /\ job.by = row.cand

\* result_owns_truth is sound: a worker about to mirror or to persist a terminal
\* row is the worker whose candidate decided it, although the test only
\* compares a status and a generation.
MirrorByDecider ==
    \A w \in Workers :
        pc[w] \in {"session", "mirror"} /\ snap[w].status \in Terminal
            => row.cand = w /\ Fence(row) = snap[w]

\* A seal that returns has let go of the lease: every exit of
\* seal_mission_epoch follows a release or a loss, even when it found the row
\* already verifying, so no worker walks off with a lease it still owns.
SealLetsGo == \A w \in Workers : pc[w] = "truth" => ~Owner(w)

\* A literal mission gets at most one repair quantum: should_terminal_fail
\* cannot be defeated by releases, crashes or reclaims in between, which all
\* keep verify_failures.
OneLiteralRepair ==
    row.status \notin Terminal /\ row.last = "literal" => row.failures = 1

\* Every claim and every release moves lease_generation on, so no two workers
\* ever hold the same one, and the token on the row is that of its generation.
GenerationFence ==
    /\ \A w \in Workers : gen[w] <= row.gen
    /\ \A v, w \in Workers : v # w /\ gen[v] > 0 => gen[v] # gen[w]
    /\ row.token # NoOne => gen[row.token] = row.gen

-----------------------------------------------------------------------------
(* Action properties. *)

\* Terminal truth is final: no CAS, claim, heartbeat, sweep or late worker
\* changes anything in a terminal mission row.
TerminalFinal == [][row.status \in Terminal => row' = row]_vars

\* A worker whose generation was superseded is read-only: no step it takes
\* writes the mission row, an artifact or evidence.
StaleReadOnly ==
    [][\A w \in Workers :
          0 < gen[w] /\ gen[w] < row.gen /\ pc'[w] # pc[w]
              => UNCHANGED <<row, artifacts, evidence>>]_vars

-----------------------------------------------------------------------------
(* Liveness. *)

\* No mission is stranded: when the calls are over, whether they ended, were
\* cancelled or crashed, the row is terminal, released, or open to the next
\* claim for good, in verifying too, which the sweeper skips.
LeaseNotStranded ==
    <>[](row.status \in Terminal \/ row.token = NoOne \/ row.lease <= 0)

-----------------------------------------------------------------------------
(* The ledger implements the abstract promise. *)

Phase == CASE row.status = "absent"   -> "none"
           [] row.status = "complete" -> "complete"
           [] row.status \in Terminal \ {"complete"} -> "failed"
           [] OTHER -> "open"
Winner == IF row.status \in Terminal THEN row.cand ELSE NoOne

Truths == INSTANCE MissionTruth WITH
    phase <- Phase, epoch <- row.gen, holder <- row.token, winner <- Winner,
    published <- turns

\* Every behaviour of claims, seals, releases, sweeps, mirrors and crashes is a
\* behaviour of MissionTruth: one decision, by the current holder, whose answer
\* alone is published.
ImplementsTruth == Truths!TruthSpec

=============================================================================
