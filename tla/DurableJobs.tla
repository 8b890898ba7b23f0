---------------------------- MODULE DurableJobs ----------------------------
(***************************************************************************)
(* One durable job: its detached tasks, the tool calls that start them,    *)
(* agent_result polls, the in-memory registry with its TTL cleanup,        *)
(* graceful shutdown, crash and restart.  kind says which tool started it: *)
(*   "job"     _run_durable_job (chat, search, media, files);              *)
(*   "review"  review_pull_request over agent(), autonomy off: metadata is *)
(*             attached to a pending job while its task may be finishing;  *)
(*   "agent"   agent() with legacy autonomy (UNIGROK_AUTONOMY on, Mission  *)
(*             V2 off): continue_token starts further quanta under the     *)
(*             same job id.                                                *)
(* A task is named by the caller that starts it: a resuming caller may     *)
(* repeat its call until one starts a quantum.  Job ids are never reused,  *)
(* so jobs meet only in their own registry key.                            *)
(*                                                                         *)
(* A step is one database access with the code up to the next await; the   *)
(* write lock orders the writes.                                           *)
(***************************************************************************)
EXTENDS Integers, FiniteSets

CONSTANTS Pollers,   \* concurrent agent_result calls
          Resumes    \* concurrent callers of agent(continue_token = ...)

First == "first"
Calls == {First} \cup Resumes
NoOne == "no one"

ASSUME CallNames == IsFiniteSet(Resumes) /\ First \notin Resumes /\ NoOne \notin Calls

VARIABLES
    kind,
    server,     \* "up", the steps of shutdown_jobs, or "down"
    row,        \* payload class of the agent_jobs row
    rowMeta,    \* review metadata in that payload
    memMeta,    \* ... and in _JOB_ENRICHMENT
    attach,     \* how far review_pull_request got with attaching it
    auto,       \* status of the autonomy_jobs row
    claim,      \* its claim_lease
    turns,      \* turns of this job in the session history
    call,       \* call[c]: where tool call c is
    memo,       \* memo[c]: the status or the task that call c looked up
    task,       \* task[c]: where the task started by call c is
    outcome,    \* outcome[c]: what its payload says
    carry,      \* carry[c]: its payload has the review metadata
    receipt,    \* receipt[c]: its telemetry row(s), until it has ended
    record,     \* whose task _DURABLE_JOBS[job_id] holds
    poll,       \* poll[p]: where poll p is
    pollOf,     \* pollOf[p]: the task poll p waits for
    told,       \* terminal verdicts that callers received
    mishap

stored == <<row, rowMeta, auto, claim, turns>>
tasks  == <<task, outcome, carry, receipt>>
calls  == <<call, memo>>
polls  == <<poll, pollOf>>
review == <<memMeta, attach>>
vars == <<kind, server, stored, review, calls, tasks, record, polls, told, mishap>>

Outcomes == {"complete", "continue", "error", "cancelled"}
\* Payloads stored under a status of TERMINAL_JOB_STATUSES.
TerminalRows == Outcomes \cup {"lost"}
\* What makes a caller's view of a job differ from what the job did:
\*   "disturbed"  a save failed (it is suppressed), the error branch could not
\*                read the row either, or shutdown_jobs ran;
\*   "cut"        the process stopped with a task at work, or a request was
\*                cancelled after it had saved the row as running and before
\*                its task existed;
\*   "raced"      the waiter of an older task dropped the record of a newer
\*                one, or a resumed job set the row back to running while a
\*                poll that had found no record was about to read it.
Mishaps == {"disturbed", "cut", "raced"}
Working == {"work", "final", "seal", "session", "settle", "fail", "last", "record"}

TypeOK ==
    /\ kind \in {"job", "review", "agent"}
    /\ server \in {"up", "marking", "marked", "draining", "down"}
    /\ row \in {"none", "running"} \cup TerminalRows
    /\ rowMeta \in {"none", "pending", "merged"}
    /\ memMeta \in BOOLEAN /\ attach \in {"no", "memory", "stored"}
    /\ auto \in {"none", "running", "needs_continuation", "committed"}
    /\ claim \in Calls \cup {NoOne}
    /\ turns \in 0..1
    /\ call \in [Calls -> {"idle", "create", "check", "join", "claim", "held",
                           "resume", "begin", "start", "wait", "reload", "left"}]
    /\ memo \in [Calls -> {"none", "running", "needs_continuation", "committed"} \cup Calls]
    /\ task \in [Calls -> {"none", "done", "gone"} \cup Working]
    /\ outcome \in [Calls -> {"none", "raised"} \cup Outcomes]
    /\ carry \in [Calls -> BOOLEAN]
    /\ receipt \in [Calls -> {"none", "turn", "partial", "error", "twice"}]
    /\ record \in Calls \cup {NoOne}
    /\ poll \in [Pollers -> {"idle", "await", "load", "reload"}]
    /\ pollOf \in [Pollers -> Calls \cup {NoOne}]
    /\ told \subseteq TerminalRows \cup {"unknown"}
    /\ mishap \subseteq Mishaps
    \* a task that has settled knows its outcome, and only a task that
    \* started holds the record
    /\ \A c \in Calls : task[c] \in {"record", "done"} => outcome[c] # "none"
    /\ record # NoOne => task[record] \in Working \cup {"done"}
    /\ claim # First

Init ==
    /\ kind \in {"job", "review", "agent"}
    /\ server = "up"
    /\ row = "none" /\ rowMeta = "none" /\ memMeta = FALSE /\ attach = "no"
    /\ auto = "none" /\ claim = NoOne /\ turns = 0
    /\ call = [c \in Calls |-> "idle"] /\ memo = [c \in Calls |-> "none"]
    /\ task = [c \in Calls |-> "none"] /\ outcome = [c \in Calls |-> "none"]
    /\ carry = [c \in Calls |-> FALSE] /\ receipt = [c \in Calls |-> "none"]
    /\ record = NoOne
    /\ poll = [p \in Pollers |-> "idle"] /\ pollOf = [p \in Pollers |-> NoOne]
    /\ told = {} /\ mishap = {}

Alive == server # "down"
Autonomy == kind = "agent"

\* save_agent_job under contextlib.suppress(Exception): an upsert that
\* replaces status and payload.
Save(r, meta) ==
    \/ row' = r /\ rowMeta' = meta /\ UNCHANGED mishap
    \/ UNCHANGED <<row, rowMeta>> /\ mishap' = mishap \cup {"disturbed"}

\* set_autonomy_status, suppressed too; it updates no row where there is none.
SetAutonomy(s) == auto' \in {auto, IF auto = "none" THEN "none" ELSE s}

\* create_autonomy_job, suppressed as well.
CreateAutonomy == auto' \in {auto, "running"}

\* claim_autonomy: a lease that is held keeps others out until it expires.
ClaimAutonomy(c) == claim' = c
ClaimBlocked == claim # NoOne /\ UNCHANGED claim

\* release_autonomy_claim clears the caller's own lease only (suppressed).
ReleaseClaim(c) == claim' \in {claim, IF claim = c THEN NoOne ELSE claim}

Goto(c, pc) == call' = [call EXCEPT ![c] = pc]
Step(c, pc) == task' = [task EXCEPT ![c] = pc]

\* A caller is told verdict v.  The quanta of a resumable job may differ, so
\* of those only a report of loss is kept.
Tell(v) == told' = told \cup IF Autonomy THEN {v} \cap {"lost"} ELSE {v}

\* _DURABLE_JOBS.pop(job_id, None) by a waiter for the task of call c, whose
\* wait may have been held up by report_progress: it does not look whose
\* record it drops.
Pop(c) ==
    /\ record' = NoOne
    /\ mishap' = IF record \notin {c, NoOne} THEN mishap \cup {"raced"} ELSE mishap

-----------------------------------------------------------------------------
(* Starting a task: _run_durable_job and agent(). *)

\* agent() with autonomy on creates the autonomy row (suppressed).
Create ==
    /\ Autonomy /\ call[First] = "idle" /\ server = "up"
    /\ CreateAutonomy
    /\ Goto(First, "begin")
    /\ UNCHANGED <<kind, server, row, rowMeta, claim, turns, review, memo, tasks, record, polls, told, mishap>>

\* Save the row as running "so immediate polls never 404" ...
Begin(c) ==
    /\ server = "up"
    /\ call[c] = "begin" \/ (c = First /\ call[c] = "idle" /\ ~Autonomy)
    /\ \/ row' = "running" /\ rowMeta' = "none"
          /\ mishap' = IF \E p \in Pollers : poll[p] = "load"
                       THEN mishap \cup {"raced"} ELSE mishap
       \/ UNCHANGED <<row, rowMeta>> /\ mishap' = mishap \cup {"disturbed"}
    /\ Goto(c, "start")
    /\ UNCHANGED <<kind, server, auto, claim, turns, review, memo, tasks, record, polls, told>>

\* ... then create the task and register it.
Start(c) ==
    /\ call[c] = "start" /\ Alive
    /\ Step(c, "work") /\ record' = c /\ Goto(c, "wait")
    /\ UNCHANGED <<kind, server, stored, review, memo, outcome, carry, receipt, polls, told, mishap>>

\* The request is cancelled while it waits for storage, so it goes no further:
\* it saves no running row, or, if the row is saved, it creates no task (the
\* write itself runs on in its thread).  A claim under way may be recorded.
CancelRequest(c) ==
    /\ call[c] \in {"check", "claim", "resume", "begin", "start", "reload"} /\ Alive
    /\ Goto(c, IF c = First \/ call[c] = "reload" THEN "left" ELSE "idle")
    /\ memo' = [memo EXCEPT ![c] = "none"]
    /\ claim' \in {claim} \cup (IF call[c] = "claim" THEN {c} ELSE {})
    /\ mishap' = IF call[c] = "start" THEN mishap \cup {"cut"} ELSE mishap
    /\ UNCHANGED <<kind, server, row, rowMeta, auto, turns, review, tasks, record, polls, told>>

\* review_pull_request is answered: metadata for a result that is not final is
\* left in memory before it is merged into the row.
Answered(status) ==
    IF kind = "review" /\ status \in {"pending", "continue"}
    THEN memMeta' = TRUE /\ attach' = "memory"
    ELSE UNCHANGED review

\* The call gets the result of its task, or its sync window expires, or its
\* request is cancelled; neither of the latter touches the task.  A task that
\* raised is popped and the row is asked.
Wait(c) ==
    /\ call[c] = "wait" /\ Alive
    /\ \/ /\ task[c] = "done" /\ outcome[c] \in Outcomes \ {"cancelled"}
          /\ Goto(c, "left") /\ Tell(outcome[c]) /\ Pop(c)
          /\ Answered(outcome[c])
       \/ /\ task[c] = "done" /\ outcome[c] = "raised"
          /\ Goto(c, "reload") /\ Pop(c)
          /\ UNCHANGED <<told, review>>
       \/ /\ Goto(c, "left")
          /\ Answered("pending") \/ UNCHANGED review
          /\ UNCHANGED <<told, record, mishap>>
    /\ UNCHANGED <<kind, server, stored, memo, tasks, polls>>

\* "fail closed if SQLite has one": a terminal row, or the exception again.
Reload(c) ==
    /\ call[c] = "reload" /\ Alive
    /\ Goto(c, "left")
    /\ IF row \in TerminalRows THEN Tell(row) /\ Answered(row) ELSE UNCHANGED <<told, review>>
    /\ UNCHANGED <<kind, server, stored, memo, tasks, record, polls, mishap>>

-----------------------------------------------------------------------------
(* agent(continue_token = ...) on a legacy autonomy job. *)

\* Somebody has the token: the first call, which started its task, returned it.
LoadToken(c) ==
    /\ Autonomy /\ c \in Resumes /\ server = "up"
    /\ call[c] = "idle" /\ call[First] = "left" /\ task[First] # "none" /\ auto # "none"
    /\ memo' = [memo EXCEPT ![c] = auto] /\ Goto(c, "check")
    /\ UNCHANGED <<kind, server, stored, review, tasks, record, polls, told, mishap>>

\* "Prefer awaiting an in-flight quantum over stealing its claim lease."
CheckInflight(c) ==
    /\ call[c] = "check" /\ Alive
    /\ IF record # NoOne /\ task[record] # "done"
       THEN Goto(c, "join") /\ memo' = [memo EXCEPT ![c] = record]
       ELSE Goto(c, "claim") /\ UNCHANGED memo
    /\ UNCHANGED <<kind, server, stored, review, tasks, record, polls, told, mishap>>

\* The joined task's result, which drops the record; else a continue envelope.
Join(c) ==
    /\ call[c] = "join" /\ Alive
    /\ Goto(c, "idle") /\ memo' = [memo EXCEPT ![c] = "none"]
    /\ \/ /\ task[memo[c]] = "done" /\ outcome[memo[c]] \in Outcomes \ {"cancelled"}
          /\ Tell(outcome[memo[c]]) /\ Pop(memo[c])
       \/ UNCHANGED <<told, record, mishap>>
    /\ UNCHANGED <<kind, server, stored, review, tasks, polls>>

\* Without the claim the call returns an envelope that says claim_blocked.
Claim(c) ==
    /\ call[c] = "claim" /\ Alive
    /\ \/ ClaimAutonomy(c) /\ Goto(c, "held") /\ UNCHANGED memo
       \/ ClaimBlocked /\ Goto(c, "idle") /\ memo' = [memo EXCEPT ![c] = "none"]
    /\ UNCHANGED <<kind, server, row, rowMeta, auto, turns, review, tasks, record, polls, told, mishap>>

\* The work under the claim.  A job read as committed is answered from its row;
\* otherwise the request is rebuilt from its snapshot, or is invalid.  The
\* claim is released (suppressed) in any case, before a quantum exists.
Preflight(c) ==
    /\ call[c] = "held" /\ Alive
    /\ ReleaseClaim(c)
    /\ memo' = [memo EXCEPT ![c] = "none"]
    /\ IF memo[c] = "committed" /\ row \in TerminalRows
       THEN Goto(c, "idle") /\ Tell(row)
       ELSE (Goto(c, "resume") \/ Goto(c, "idle")) /\ UNCHANGED told
    /\ UNCHANGED <<kind, server, row, rowMeta, auto, turns, review, tasks, record, polls, mishap>>

\* What the rebuilt request is checked for after the claim is gone.
InvalidRequest(c) ==
    /\ call[c] = "resume" /\ Alive
    /\ Goto(c, "idle")
    /\ UNCHANGED <<kind, server, stored, review, memo, tasks, record, polls, told, mishap>>

\* set_autonomy_status("running") and a BudgetSlice event.
Resume(c) ==
    /\ call[c] = "resume" /\ Alive
    /\ SetAutonomy("running")
    /\ Goto(c, "begin")
    /\ UNCHANGED <<kind, server, row, rowMeta, claim, turns, review, memo, tasks, record, polls, told, mishap>>

-----------------------------------------------------------------------------
(* The detached task: _complete of a generic job, _complete_turn of an agent. *)

TaskStep(c) == task[c] \in Working /\ Alive

\* save_telemetry under contextlib.suppress(Exception).  "turn" is the row of a
\* turn whose result got its id; "partial" one of a turn that ran out of budget:
\* apply_soft_continue_markers copied the result, so the id went to the copy;
\* "error" says that only error rows exist, "twice" that the turn's spend is in
\* its own row and in an error row.
SaveReceipt(c, r) ==
    \/ receipt' = [receipt EXCEPT ![c] = IF @ \in {"none", r} THEN r ELSE "twice"]
       /\ UNCHANGED mishap
    \/ receipt' = receipt /\ mishap' = mishap \cup {"disturbed"}

\* produce() of a generic job returns or raises; its budget is settled and its
\* own telemetry saved before the result.
Produce(c) ==
    /\ TaskStep(c) /\ kind = "job" /\ task[c] = "work"
    /\ \E o \in {"complete", "error"} : outcome' = [outcome EXCEPT ![c] = o]
    /\ Step(c, "record")
    /\ UNCHANGED <<kind, server, stored, review, calls, carry, receipt, record, polls, told, mishap>>

\* _turn() returns and its telemetry row is saved, or it raises.  Without
\* autonomy a turn the local plane bounded keeps its status "continue".
Turn(c) ==
    /\ TaskStep(c) /\ kind # "job" /\ task[c] = "work"
    /\ \/ /\ \E o \in {"complete"} \cup (IF Autonomy THEN {} ELSE {"continue"}) :
                outcome' = [outcome EXCEPT ![c] = o]
          /\ \E r \in {"turn", "partial"} : SaveReceipt(c, r)
          /\ Step(c, "final")
       \/ /\ Step(c, "fail")
          /\ UNCHANGED <<outcome, receipt, mishap>>
    /\ UNCHANGED <<kind, server, stored, review, calls, carry, record, polls, told>>

\* _finalize_job_payload: pending metadata of the row, then of memory, goes
\* into the payload.  If the row cannot be read, _complete_turn enters the error
\* branch once; in that one ("last") it makes the task itself raise.
Finalize(c) ==
    /\ TaskStep(c) /\ task[c] \in {"final", "last"}
    /\ \/ /\ carry' = [carry EXCEPT ![c] = memMeta \/ rowMeta = "pending"]
          /\ memMeta' = FALSE
          /\ Step(c, IF Autonomy /\ outcome[c] = "complete" THEN "seal" ELSE "record")
          /\ UNCHANGED <<outcome, receipt, mishap>>
       \/ /\ task[c] = "final" /\ Step(c, "fail")
          /\ UNCHANGED <<carry, memMeta, outcome, receipt, mishap>>
       \/ /\ task[c] = "last" /\ Step(c, "done")
          /\ outcome' = [outcome EXCEPT ![c] = "raised"]
          /\ receipt' = [receipt EXCEPT ![c] = "none"]
          /\ mishap' = mishap \cup {"disturbed"}
          /\ UNCHANGED <<carry, memMeta>>
    /\ UNCHANGED <<kind, server, stored, attach, calls, record, polls, told>>

\* A turn that ran out of budget with something to show: continue, unchecked.
SealSoftly(c) ==
    /\ TaskStep(c) /\ task[c] = "seal" /\ auto # "none" /\ receipt[c] # "turn"
    /\ SetAutonomy("needs_continuation")
    /\ Step(c, "settle") /\ outcome' = [outcome EXCEPT ![c] = "continue"]
    /\ UNCHANGED <<kind, server, row, rowMeta, claim, turns, review, calls, carry, receipt, record, polls, told, mishap>>

\* The checker accepts any other answer (CommitDone) or rejects it; without an
\* autonomy row the answer stands as it is, uncommitted.  A read that fails ends
\* in the error branch.
Seal(c) ==
    /\ TaskStep(c) /\ task[c] = "seal"
    /\ \/ /\ auto # "none" /\ receipt[c] # "partial" /\ SetAutonomy("committed")
          /\ Step(c, "session") /\ UNCHANGED outcome
       \/ /\ auto # "none" /\ receipt[c] # "partial" /\ SetAutonomy("needs_continuation")
          /\ Step(c, "settle") /\ outcome' = [outcome EXCEPT ![c] = "continue"]
       \/ /\ auto = "none" /\ Step(c, "settle")
          /\ UNCHANGED <<auto, outcome>>
       \/ Step(c, "fail") /\ UNCHANGED <<auto, outcome>>
    /\ UNCHANGED <<kind, server, row, rowMeta, claim, turns, review, calls, carry, receipt, record, polls, told, mishap>>

\* append_turn_once: the commit key is the job id.
AppendTurnOnce == IF turns = 0 THEN 1 ELSE turns

\* Mutant: a session turn that cannot be written is let pass.
PersistSuppressed(c) ==
    /\ TaskStep(c) /\ task[c] = "session"
    /\ turns' \in {turns, AppendTurnOnce} /\ Step(c, "settle")
    /\ UNCHANGED <<kind, server, row, rowMeta, auto, claim, review, calls, outcome, carry, receipt, record, polls, told, mishap>>

\* The commit-gated session turn.
PersistSession(c) ==
    /\ TaskStep(c) /\ task[c] = "session"
    /\ \/ turns' = AppendTurnOnce /\ Step(c, "settle")
       \/ turns' = turns /\ Step(c, "fail")
    /\ UNCHANGED <<kind, server, row, rowMeta, auto, claim, review, calls, outcome, carry, receipt, record, polls, told, mishap>>

Settle(c) ==
    /\ TaskStep(c) /\ task[c] = "settle"
    /\ SetAutonomy(IF outcome[c] = "complete" THEN "committed" ELSE "needs_continuation")
    /\ Step(c, "record")
    /\ UNCHANGED <<kind, server, row, rowMeta, claim, turns, review, calls, outcome, carry, receipt, record, polls, told, mishap>>

\* Mutant: a result that was reported is never given an error row.
FailReceiptLost(c) ==
    \/ /\ receipt[c] = "turn"
       /\ receipt' = [receipt EXCEPT ![c] = "error"] /\ UNCHANGED mishap
    \/ receipt[c] = "partial" /\ UNCHANGED <<receipt, mishap>>
    \/ receipt[c] \notin {"turn", "partial"} /\ SaveReceipt(c, "error")

\* The telemetry of a failed quantum: a row whose id the reported result has is
\* reclassified (suppressed); where there is none, one is added.
FailReceipt(c) ==
    \/ /\ receipt[c] = "turn"
       /\ \/ receipt' = [receipt EXCEPT ![c] = "error"] /\ UNCHANGED mishap
          \/ receipt' \in {receipt, [receipt EXCEPT ![c] = "twice"]}
             /\ mishap' = mishap \cup {"disturbed"}
    \/ receipt[c] # "turn" /\ SaveReceipt(c, "error")

\* The durable error branch, up to its own _finalize_job_payload.  It is entered
\* by a turn that raised, and once more by anything that fails after that.
Fail(c) ==
    /\ TaskStep(c) /\ task[c] = "fail"
    /\ FailReceipt(c)
    /\ SetAutonomy("needs_continuation")
    /\ outcome' = [outcome EXCEPT ![c] = "error"]
    /\ Step(c, IF outcome[c] = "none" THEN "final" ELSE "last")
    /\ UNCHANGED <<kind, server, row, rowMeta, claim, turns, review, calls, carry, record, polls, told>>

RowMetaOf(c) == IF carry[c] THEN "merged" ELSE "none"

\* The write lock is first come, first served: a merge of metadata asked for
\* before the task got to its final save (which then carries it) goes first,
\* one asked for later waits for that save.
MergeFirst == attach = "memory" /\ (task[First] = "record" => carry[First])

\* Mutant: a turn the local plane bounded is saved as complete.
RecordComplete(c) ==
    /\ TaskStep(c) /\ task[c] = "record" /\ ~MergeFirst
    /\ Save(IF outcome[c] = "continue" THEN "complete" ELSE outcome[c], RowMetaOf(c))
    /\ Step(c, "done") /\ receipt' = [receipt EXCEPT ![c] = "none"]
    /\ UNCHANGED <<kind, server, auto, claim, turns, review, calls, outcome, carry, record, polls, told>>

\* Mutant: the final save gives way to every metadata merge, which waits for it.
RecordYields(c) ==
    /\ TaskStep(c) /\ task[c] = "record" /\ attach # "memory"
    /\ Save(outcome[c], RowMetaOf(c))
    /\ Step(c, "done") /\ receipt' = [receipt EXCEPT ![c] = "none"]
    /\ UNCHANGED <<kind, server, auto, claim, turns, review, calls, outcome, carry, record, polls, told>>

\* "Persist result before treating the job as terminal for pollers."
Record(c) ==
    /\ TaskStep(c) /\ task[c] = "record" /\ ~MergeFirst
    /\ Save(outcome[c], RowMetaOf(c))
    /\ Step(c, "done") /\ receipt' = [receipt EXCEPT ![c] = "none"]
    /\ UNCHANGED <<kind, server, auto, claim, turns, review, calls, outcome, carry, record, polls, told>>

\* Mutant: metadata is never merged into a terminal row.
MergedMetaPending == IF row = "running" THEN "pending" ELSE rowMeta

\* merge_agent_job_enrichment: into a terminal payload at once, otherwise for
\* _finalize_job_payload to find; without a row there is nothing to do.
MergedMeta == CASE row = "none" -> "none"
                [] row \in TerminalRows -> "merged"
                [] OTHER -> "pending"

\* review_pull_request after it was told "pending" (the merge is suppressed).
AttachReview ==
    /\ MergeFirst /\ Alive
    /\ attach' = "stored"
    /\ \/ rowMeta' = MergedMeta /\ UNCHANGED mishap
       \/ rowMeta' = rowMeta /\ mishap' = mishap \cup {"disturbed"}
    /\ UNCHANGED <<kind, server, row, auto, claim, turns, memMeta, calls, tasks, record, polls, told>>

-----------------------------------------------------------------------------
(* agent_result. *)

PollBegin(p) ==
    /\ poll[p] = "idle" /\ Alive /\ task[First] # "none"
    /\ poll' = [poll EXCEPT ![p] = IF record # NoOne THEN "await" ELSE "load"]
    /\ pollOf' = [pollOf EXCEPT ![p] = record]
    /\ mishap' = IF record = NoOne /\ \E c \in Calls : call[c] = "start"
                 THEN mishap \cup {"raced"} ELSE mishap
    /\ UNCHANGED <<kind, server, stored, review, calls, tasks, record, told>>

\* Mutant: the record is popped when the poll window expires, too.
PollAwaitPops(p) ==
    /\ poll[p] = "await" /\ Alive
    /\ poll' = [poll EXCEPT ![p] = "idle"] /\ pollOf' = [pollOf EXCEPT ![p] = NoOne]
    /\ LET c == pollOf[p]
       IN  /\ IF task[c] = "done" /\ outcome[c] \in Outcomes \ {"cancelled"}
              THEN Tell(outcome[c]) ELSE UNCHANGED told
           /\ Pop(c)
    /\ UNCHANGED <<kind, server, stored, review, calls, tasks>>

\* The task is done: its payload, with metadata still in memory, is the answer
\* and the record goes (a cancelled task raises instead and keeps it, one that
\* failed is popped and the row asked); otherwise "pending".
PollAwait(p) ==
    /\ poll[p] = "await" /\ Alive
    /\ pollOf' = [pollOf EXCEPT ![p] = NoOne]
    /\ LET c == pollOf[p]
       IN  \/ /\ task[c] = "done" /\ outcome[c] \in Outcomes \ {"cancelled"}
              /\ poll' = [poll EXCEPT ![p] = "idle"]
              /\ Tell(outcome[c]) /\ Pop(c) /\ memMeta' = FALSE
           \/ /\ task[c] = "done" /\ outcome[c] = "raised"
              /\ poll' = [poll EXCEPT ![p] = "reload"]
              /\ Pop(c) /\ UNCHANGED <<told, memMeta>>
           \/ /\ poll' = [poll EXCEPT ![p] = "idle"]
              /\ UNCHANGED <<told, record, mishap, memMeta>>
    /\ UNCHANGED <<kind, server, stored, attach, calls, tasks>>

\* Without a record the row answers; a row that never became terminal is
\* reported lost, a missing one unknown.
StoredVerdict == CASE row = "none" -> "unknown"
                   [] row \in TerminalRows -> row
                   [] OTHER -> "lost"

PollLoad(p) ==
    /\ poll[p] = "load" /\ Alive
    /\ poll' = [poll EXCEPT ![p] = "idle"]
    /\ Tell(StoredVerdict)
    /\ memMeta' = IF row \in TerminalRows THEN FALSE ELSE memMeta
    /\ UNCHANGED <<kind, server, stored, attach, calls, tasks, record, pollOf, mishap>>

PollReload(p) ==
    /\ poll[p] = "reload" /\ Alive
    /\ poll' = [poll EXCEPT ![p] = "idle"]
    /\ IF row \in TerminalRows
       THEN Tell(row) /\ memMeta' = FALSE
       ELSE UNCHANGED <<told, memMeta>>
    /\ UNCHANGED <<kind, server, stored, attach, calls, tasks, record, pollOf, mishap>>

\* _cleanup_durable_jobs in some later call, AGENT_JOB_TTL_SECONDS after.
Cleanup ==
    /\ record # NoOne /\ task[record] = "done" /\ Alive
    /\ record' = NoOne
    /\ UNCHANGED <<kind, server, stored, review, calls, tasks, polls, told, mishap>>

-----------------------------------------------------------------------------
(* shutdown_jobs, crash and restart. *)

\* task.done() is looked at before the "lost" payload is handed to the writer.
ShutdownBegin ==
    /\ server = "up"
    /\ server' = IF record # NoOne /\ task[record] # "done" THEN "marking" ELSE "marked"
    /\ mishap' = mishap \cup {"disturbed"}
    /\ UNCHANGED <<kind, stored, review, calls, tasks, record, polls, told>>

ShutdownMark ==
    /\ server = "marking"
    /\ Save("lost", "none")
    /\ server' = "marked"
    /\ UNCHANGED <<kind, auto, claim, turns, review, calls, tasks, record, polls, told>>

\* task.cancel() of every unfinished task.  In produce() the CancelledError
\* handler of a generic job goes on to record "Job cancelled"; an agent's task,
\* and a task at its final save, just ends, and the write under way may or may
\* not have reached the database.
ShutdownCancel ==
    /\ server = "marked"
    /\ server' = "draining"
    /\ LET handled == {c \in Calls : kind = "job" /\ task[c] = "work"}
           ended   == {c \in Calls : task[c] \in Working} \ handled
           saving  == {c \in ended : task[c] = "record"}
       IN  /\ task' = [c \in Calls |-> CASE c \in handled -> "record"
                                         [] c \in ended -> "done"
                                         [] OTHER -> task[c]]
           /\ outcome' = [c \in Calls |-> IF c \in handled \cup ended THEN "cancelled" ELSE outcome[c]]
           /\ receipt' = [c \in Calls |-> IF c \in ended THEN "none" ELSE receipt[c]]
           /\ \/ UNCHANGED <<row, rowMeta>>
              \/ \E c \in saving : row' = outcome[c] /\ rowMeta' = RowMetaOf(c)
    /\ UNCHANGED <<kind, auto, claim, turns, review, calls, carry, record, polls, told, mishap>>

\* The bounded wait is over, or the process crashes: everything in memory goes.
Stop ==
    /\ Alive
    /\ server' = "down"
    /\ task' = [c \in Calls |-> IF task[c] = "none" THEN "none" ELSE "gone"]
    /\ outcome' = [c \in Calls |-> "none"] /\ carry' = [c \in Calls |-> FALSE]
    /\ receipt' = [c \in Calls |-> "none"]
    /\ record' = NoOne /\ memMeta' = FALSE
    /\ attach' = IF attach = "memory" THEN "no" ELSE attach
    /\ call' = [c \in Calls |-> IF call[c] = "idle" \/ (c # First /\ task[c] = "none")
                                THEN "idle" ELSE "left"]
    /\ memo' = [c \in Calls |-> "none"]
    /\ poll' = [p \in Pollers |-> "idle"] /\ pollOf' = [p \in Pollers |-> NoOne]
    /\ mishap' = IF \E c \in Calls : task[c] \in Working \/ call[c] = "start"
                 THEN mishap \cup {"cut"} ELSE mishap
    /\ UNCHANGED <<kind, stored, told>>

Restart ==
    /\ server = "down"
    /\ server' = "up"
    /\ UNCHANGED <<kind, stored, review, calls, tasks, record, polls, told, mishap>>

-----------------------------------------------------------------------------
TaskNext(c) ==
    \/ Produce(c) \/ Turn(c) \/ Finalize(c) \/ SealSoftly(c) \/ Seal(c) \/ PersistSession(c)
    \/ Settle(c) \/ Fail(c) \/ Record(c)

CallNext(c) ==
    \/ Begin(c) \/ Start(c) \/ CancelRequest(c) \/ Wait(c) \/ Reload(c)
    \/ LoadToken(c) \/ CheckInflight(c) \/ Join(c) \/ Claim(c)
    \/ Preflight(c) \/ InvalidRequest(c) \/ Resume(c)

Next ==
    \/ Create
    \/ \E c \in Calls : CallNext(c)
    \/ \E c \in Calls : TaskNext(c)
    \/ AttachReview
    \/ \E p \in Pollers : PollBegin(p) \/ PollAwait(p) \/ PollLoad(p) \/ PollReload(p)
    \/ Cleanup
    \/ ShutdownBegin \/ ShutdownMark \/ ShutdownCancel \/ Stop \/ Restart

\* Storage answers or raises and provider calls end, so a started task and a
\* merge under way go on, and a request that saved its running row creates its
\* task or is cancelled first; nobody has to poll, and the process may stop at
\* any time.
Spec ==
    /\ Init /\ [][Next]_vars
    /\ WF_vars(AttachReview)
    /\ \A c \in Calls : WF_vars(Start(c) \/ CancelRequest(c))
    /\ \A c \in Calls : WF_vars(TaskNext(c))

-----------------------------------------------------------------------------
\* Every caller of a job that is not resumed, the tool call and any number of
\* polls, before or after the record was dropped or the process crashed and
\* came back, is told the same verdict, unless a save failed or shutdown_jobs
\* interfered.
OneVerdict ==
    ~Autonomy /\ "disturbed" \notin mishap => Cardinality(told) <= 1

\* "lost" is told only of a job that was really cut off: its process stopped
\* before it finished, shutdown marked it, or its result could not be saved.
\* Of a job that is being resumed it is also told after a resuming request was
\* cancelled between its running row and its task, and in two races: after the
\* waiter of an earlier quantum dropped the running one's record, and by a poll
\* overtaken by the start of a quantum (LostMeansStopped is about those).
NoFalseLost ==
    "lost" \in told => mishap \cap (IF Autonomy THEN Mishaps ELSE {"disturbed", "cut"}) # {}

\* Metadata that review_pull_request attached to a pending or continued job is
\* in the recorded result, whichever of the attachment and the end of the task
\* came first in memory and in the database.
ReviewStored ==
    attach = "stored" /\ row \in {"complete", "continue", "error"} /\ mishap = {} => rowMeta = "merged"

\* Telemetry never calls a failed quantum anything else: one that is about to be
\* recorded as an error, at whichever point it failed and whatever had been
\* saved for it by then, has an error row; any other has its own row only.
ReceiptTruth ==
    \A c \in Calls :
        task[c] = "record" /\ kind # "job" /\ "disturbed" \notin mishap
            => receipt[c] \in IF outcome[c] = "error" THEN {"error", "twice"} ELSE {"turn", "partial"}

\* An answer that callers are given as complete, of a job that has an autonomy
\* row, is in the session's history, over crashes between the commit, the
\* session turn and the saved row, and over quanta that run side by side.
CommittedInHistory ==
    Autonomy /\ row = "complete" /\ auto # "none" => turns = 1

\* A job whose row says running reaches a terminal row, also when waiters of
\* other quanta drop records: no quantum ends without having recorded what
\* happened to it, unless its process stops, a save fails, shutdown interferes
\* or its request is cancelled before there is a task.
JobSettles ==
    (row = "running") ~> (row # "running" \/ mishap \cap {"disturbed", "cut"} # {})

\* CHANGELOG.md: "a post-provider error reclassifies one telemetry row instead
\* of counting the spend twice".
SpendCountedOnce ==
    \A c \in Calls : "disturbed" \notin mishap => receipt[c] # "twice"

\* docs/reference.md: lost means that "a non-Mission durable worker stopped
\* before a terminal result was recorded"; of a resumed job, too.
LostMeansStopped == "lost" \in told => mishap \cap {"disturbed", "cut"} # {}

\* docs/architecture.md: lost must not be silently rewritten as caller
\* cancellation.
LostNotCancelled == [][row = "lost" => row' # "cancelled"]_vars
=============================================================================
