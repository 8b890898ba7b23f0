# A TLA+ model of the UniGrok MCP gateway

The repository is an MCP server (`src/unigrok_public`, Python, asyncio, one
SQLite file) that puts Grok behind durable agent jobs: slow provider work is
detached from the request, recorded in the database, resumed with a
`continue_token`, metered, and guarded by budgets and circuit breakers. This
directory models the parts of it whose correctness depends on what happens
*between* two awaits: who may decide a mission, what a poll is told, what is
charged, which answer counts, who is let in.

Everything below is translated from the source; `PROJECT.json` maps every
definition to its lines. Paths in this file are relative to
`src/unigrok_public` of the repository.

## Inventory

| Component | State | Operations | What is hard |
|---|---|---|---|
| Mission V2 ledger and seal (`state.py`, `mission/epoch.py`, `mission/sweeper.py`, `server.py: agent`) | `missions` row (status, checkpoint version, lease token / generation / expiry, verify failures, checkpoint), artifacts, evidence, poll projection, session turn | create, claim, heartbeat, freeze, verify, commit / fail / wait, mirror, persist session, sweep, release after error | a dozen awaited transactions per quantum; takeover after expiry; crash or exception between any two |
| Circuit breaker (`server.py`) | failures, open_until, half_open, generation per key | admit, success, failure, abandon | answers arriving after the state changed; cancelled probes still running |
| Durable jobs (`server.py: _run_durable_job, agent, agent_result, review_pull_request, shutdown_jobs`) with legacy autonomy (`autonomy.py`, `state.py`) | `agent_jobs` row, `_DURABLE_JOBS`, `_JOB_TASKS`, `_JOB_ENRICHMENT`, `autonomy_jobs` row with a claim, session history, telemetry | start, record, poll, resume, join, claim, seal, attach review metadata, clean up, shut down | registry, rows and tasks disagree for a while; several quanta under one job id; shutdown races recording |
| Local daily budget (`caller_budget.py`) | one row per UTC day with a lease | reserve, settle, settle after error, release | cost known only afterwards; lost receipts; several processes; midnight |
| Spend guard (`state.py`, `caller_budget.py`) | reservation rows, telemetry baseline | reserve (fixed / remaining), reconcile, resolve, status, prune | retries, late and contradictory receipts, stale rows |
| Mission billing (`mission/epoch.py`) | billing block of the checkpoint | read, merge, write with a CAS, return | read-modify-write across awaits; replays of a generation; receipts that rolled out of the window |
| Commit verifier (`mission/verify.py`, `task_class.py`, `evidence.py`) | none | classify, verify, should_terminal_fail | gap rules over many flags |
| Agent turn (`server.py: _execute_team_turn, _run_unified, _run_hive` and helpers) | locals of the turn, slot semaphore of the local plane | route votes, router, specialist, hive, unified call with recovery and cross-plane fallback, local floor, polish | usage of rejected and failed replies; parallel voters; which failure falls back where |
| Governor (`mission/governor.py`, `harness.py`, `server.py: agent`) | none; a frozen recommendation in the mission | beliefs, score, recommend, freeze, resolve depth | many floors and ceilings that must not undo each other |
| 429 storm breaker of the local plane (`server.py`) | storm state | note, claim, result | no production caller |
| Build plane (`grok_build.py`) | worker table, process, pending requests, turns | run, start, read, fail, close | shared process of concurrent turns; restart against an old reader |
| xAI API plane (`xai_api.py`) | two permit pools, threads of the default executor | chat, vision, search, media, files; retry of reads | timed-out threads outlive their permit; retries of what may have been done |
| Authentication (`remote_auth.py`, `local_auth.py`, `github_affiliation.py`) | shared introspection tasks, failure limiter, cache | origin, local token, service token, introspect | callers sharing one introspection, cancelled or revoked meanwhile; outages |
| Cabinet, context pack (`cabinet/`, `context_pack.py`) | derived index, markdown files | walk, fuse, pack, condense | budgets at their limit |
| Facade, peers, mirror, tools, UX | none | translation and presentation | nothing stateful |

Interactions: a request passes the authentication gates, then reaches a tool;
`agent` and the tools run provider work through
`_guarded_provider_call`, which takes a local-budget reservation, then a breaker
admission, and on the API plane a permit and a thread; the work runs in a detached task that records its result in
`agent_jobs`; for a mission the row of `missions` is the truth and `agent_jobs`
only a projection of it. All durable state is in one SQLite file that several
processes may share; everything else is in-process and changes only between two
awaits.

The correctness properties that matter, per component: a mission is decided at
most once and by its current owner, and everything else that callers can see
(projection, session history, terminal payload) agrees with that decision; a
breaker lets one probe through and is never locked; a poll tells the truth, and
a resumed job leaves one turn in the session; a turn reports exactly the usage
it caused; a budget never believes less was spent than was; a request is served
within what its credential grants and reaches the provider at most once. `PROJECT.json` lists the hazards
behind each of them, at the line where they bite.

## Modules

### MissionLedger

One mission row and the agent calls (`Workers`) working on it. A step is one
SQLite transaction together with the code up to the next await. What a call read
in one transaction and uses in a later one is in `snap[w]`; `pc[w]` names the
transaction it runs next.

* `row` is the row of `missions`; `lease` is the time left (`lease_expires_at -
  now`, saturating at -1, because the sweeper tests `<` and the claim `<=`).
* A candidate answer is named by the worker that produced it; so are its
  artifact, its evidence record and the session turn.
* `Create` ... `Turn` are `agent()` up to its detached task, `SealLoad` ...
  `SaveJob` are `seal_mission_epoch`, `Truth` ... `ReturnTerminal` what
  `_complete_turn_unlocked` does with the seal's answer, `ErrLoad` ...
  `ErrReread` its durable error branch.
* `StepRaises` is a storage exception in any transaction of the seal,
  `Die` a cancellation or a process crash at any point, `MarkLost` the write of
  `shutdown_jobs`, `Heartbeat` the heartbeat task (alive exactly as long as the
  task), `SweepList` / `SweepRequeue` the two transactions of the sweeper.
* The outcome of `verify_commit` is a free choice among its four classes (no
  gap, repairable gap, literal mismatch, unrepairable gap) except that its own
  generation and status checks are kept.

`_complete_turn_unlocked` also releases an active row the seal left in its own
hands ("post_seal_active_state_released"). No behaviour gets there: `SealLetsGo`
says that a seal which returns has let go of the lease, so the model has no
action for it.

Left out: events (append-only, never read back by this code), mission billing
(a module of its own),
the `autonomy_jobs` status that a terminal CAS also updates, statuses no code
path of the server writes (`waiting_timer`, `dormant`, `escalated`,
`budget_exhausted`, `cancelled` are in the transition table but never reached),
and the in-process session lock (calls of several processes are not ordered by
it, so the model does not order any).

### MissionTruth

The abstract promise: a mission is held by one worker at a time under a growing
epoch, only the holder decides, once, and only the decider's answer is ever
published, once. `MissionLedger!ImplementsTruth` is the refinement: `epoch` is
`lease_generation`, `holder` is `lease_token`, `winner` the candidate of a
terminal row, `published` the session turns.

### CircuitBreaker

One breaker key and the calls through `_guarded_provider_call`. `wait` is
`open_until - now`. A cancelled call's provider operation may go on for up to
`Deadline` ticks (`left`), which is what the abandon delay is about.

### DurableJobs

One job id, its tasks, the tool calls that start them, `Pollers` concurrent
`agent_result` calls, cleanup, `shutdown_jobs` (mark, cancel, bounded wait),
crash and restart. `kind` is the tool: a plain `_run_durable_job`; a
`review_pull_request`, which attaches metadata to a pending job in memory and in
the row (`AttachReview`) while its task may be finishing; or `agent()` with
legacy autonomy, where callers of `Resumes` load the token, look for a task in
flight (`CheckInflight`, `Join`), claim the autonomy row, and start further
quanta. A quantum runs the turn, finalizes, seals, appends the session turn and
records; `receipt` is its telemetry, which a late failure reclassifies or, for a
turn that ran out of budget, adds to.

A request may be cancelled at any await (`CancelRequest`), also while it saves the
row as running: the write goes on in its thread and the task is never created.

`told` collects the terminal verdicts callers received. `mishap` remembers the
events that change them: `disturbed` (a suppressed save failed, the error branch
could not read the row, or shutdown ran), `cut` (the process stopped with a task at
work, or a request was cancelled between its running row and its task), `raced`
(the waiter of an older quantum dropped a newer one's record, or a poll was
overtaken by the start of a quantum). `LostMeansStopped` and `SpendCountedOnce` do
not hold, see Findings. With Mission V2 the quantum's ledger is
`MissionLedger`.

### AgentTurn

One turn at a time of `_execute_team_turn` with everything it awaits, after
which the next may begin. `lane[l]` is an activation of `_run_unified`: `"main"`
for the sequential stages, one lane per route vote or hive persona, which run
concurrently and compete for the local slots. `CallReplies`, `CallRaises`,
`CallLosesReply` are one provider call with its recovery (`Recoverable`), its
retry and its single cross-plane fallback (`AlternatePlanes`); `LocalSlot`,
`LocalServes`, `LocalRaises` the local floor with `_apply_continue_bound`. The
stages `Begin` ... `Wrap` follow the source's order. `due` is what the replies
of the turn cost, kept beside what the code adds up, so that both can be
compared; replies that a call itself drops (`LostReply`: capability answers of
the CLI, a failed settlement after the reply) are not in it. A reply is an
answer, junk or empty; an exception is its class in `_classify_fallback_reason`.

A turn that is resumed with a `continue_token` begins as a new one does, because no
caller of `_execute_team_turn` passes `prior_continue_count`; so the bound is modelled,
and stated (`ContinueOnce`), per turn.

### Governor

Pure functions: the beliefs and score of a task, its rung on the ladder of
thresholds (`Rung`), the level and roles of the rung raised by what is at stake
(`StakesLevel`, `Roles`), the recommendation under a ceiling (`Recommend`), the
frozen form and what loads from it, and what `agent()` makes of the caller's level, depth and voters. Fractions are
hundredths. Compared with the running `governor.py` on 2,688 inputs the operators
gave the same answers. `AgentTurn` takes its depths from here. What is proved of
them (`GovernorMonotone`) is about a recommendation made afresh: a mission that is
resumed loads the one frozen at its creation, so verifications that failed since do
not change it. `verification_depth` is stored and read by no verifier, and the
`destructive` belief of a package that `agent()` makes is always false.

### RequestAuth, ApiPool, RequestPath

`RequestAuth` is the way of an HTTP request through `LocalAuth`, `RemoteAuth`
(service token first), `ReadBody`, `CheckScope` and `Introspect`, which joins or
starts the shared task of a key (token and required scope). `Perform` is the
answer of the control service (external: it knows which scopes a token has,
whether it is revoked, and may be down), `Finish` the removal of the task's
entry, `Cancel` a client that leaves. Bodies are the set of tools they name.

`ApiPool` is `xai_api.py`: an operation is the sequence of blocking functions it
runs; each takes a permit (`Acquire`), a thread (`StartThread`), is awaited with
a deadline, and makes one or two RPCs of which each has the SDK's deadline.
`Timeout` and `CancelCall` give the permit back while the thread goes on; `clock`
counts from the await until the thread is over.
`sent` counts what the provider carried out for a call.

`RequestPath` composes the two: a served request whose body names `agent` may
begin a call (`Invoke`). Jobs, budgets and routing between them are the subject
of the modules above; here they decide only whether and when a call is made.

### LocalBudget

The daily row, the operations that reserve against it, and beside them what the
provider really charged (`charged`), so that ledger and reality can be compared.
Operations may be refused by the breaker, answered with or without a valid
receipt, abandoned (cancelled, crashed, failed without usage), and charged late.

### SpendGuard

One scope of the reservation ledger. Every action is one `BEGIN IMMEDIATE`
transaction; the callers may retry, report never, late, twice or differently,
so any order of actions is allowed. `calls`, `reported` and `resolved` record
what happened outside.

### MissionBilling

The bill in the mission's checkpoint and the transactions of a quantum that read
or write it. `Merge` is `merge_mission_billing`; `seen[w]` is the row and the
bill as read, `WriteBill` what a CAS stores. `paid[w]` records, beside the bill,
the largest usage each quantum got written, so that the bill can be compared
with it; `envelope[w]` is the total in the answer of the seal. A lease may
expire at any time, so an open row may be claimed at any time; the rest of the
mission row is in `MissionLedger`. Token counters (merged like the cost) and the
list of incurred attempts are left out.

### BuildPool

The worker table of one Build profile, its worker objects with process,
readiness, start lock and write lock, the processes with their stdout readers, and
the runs that share them. `Get` and `Except` are `GrokBuildACPManager.run`, `Start` ...
`Closed` are `start()`, `close()` and the requests of `GrokBuildWorker.run`;
`Exit`, `Reaped`, `ReaderEnds` and `StreamBreaks` are what the process and its
reader do; `Cancel` is a cancellation at any await. A send takes the write lock and
drains (`GetWriteLock`, `Drained`) before the deadline of its request begins to run;
the `session/cancel` of an abandoned prompt (`SendCancel`, `CancelSent`) and the
reader's answers to what the process asks (`Answer`, `AnswerGetsLock`,
`AnswerDrained`) queue for the same lock. A process that ended or was
killed is `"dying"` until the event loop has its returncode: the end of its output
may be read before or after that, and what it wrote before it ended is still an
answer.

The `MC*` modules instantiate these for TLC and define the symmetry sets of
the runs that check safety only.

## Runs

| Run | Instance | Shows |
|---|---|---|
| `mission_ledger` | 2 workers, TTL 1, with fairness; 475,207 states | `DurableWinner`, `SessionExactlyOnce`, `ProjectionTruth`, `SealLetsGo`, `OneLiteralRepair`, `TerminalFinal`, `StaleReadOnly`, the refinement `ImplementsTruth`, and `LeaseNotStranded` |
| `circuit_breaker` | 6 calls, threshold 2, cooldown 1, deadline 2, with fairness; 526,509 states | `OneProbe`, `ProbeHeld`, `StaleIgnored`, `ProbeAvailable` |
| `jobs_polls` | 1 poll, 1 resuming caller, any number of restarts, with fairness; 994,864 states | `OneVerdict`, `NoFalseLost`, `ReviewStored`, `CommittedInHistory`, `ReceiptTruth`, `JobSettles` |
| `jobs_lost_rewritten` | the same | violation of `LostNotCancelled`, see Findings |
| `local_budget` | 3 operations, limit 2, cost up to 2, 2 days; 69,507 states | `NeverUndercounts`, `BoundedOverspend` |
| `spend_guard` | 2 attempts, limit 2, cost up to 2, at most 2 rows, 2 days; 981,000 states | `NoOvercommit`, `ConflictFlagged`, `ExecuteOnce`, `FailClosed` |
| `billing_exact` | 3 quanta, usage 0..1 or unknown, window of 1 receipt, limit 2; 744,773 states | `BillExact`, `EnvelopeNoDouble` |
| `billing_stale_envelope` | 2 quanta, usage 0..2 | violation of `StaleReportsSpend`, see Findings |
| `build_runs_end` | 2 runs of one profile, with fairness; 88,035 states | `NoDeafWait`, `RunsEnd` |
| `build_start_cancelled` | 2 runs | violation of `CacheUsable`, see Findings |
| `agent_turn` | 2 voters (one on the API plane), 1 local slot, `continue_max` 2, costs 1 and 2, with fairness; 252,734 states | `UsageConserved`, `MeteredOff`, `SlotsAccounted`, `ContinueOnce`, `TurnEnds` |
| `request_gates` | 2 connections, 1 OAuth token, 9 kinds of request, 4 operations, pools of 1, 1 worker, deadline 2, margin 1, with fairness; 221,042 states | `ServedWithinGrant`, `DeniedForCause`, `OnceAtProvider`, `ThreadsInTime`, `RequestEnds` |

Three more configurations are kept for findings 4 to 6. They are not among the runs
of `PROJECT.json`; each ends in the counterexample described there:

| Configuration | Module | Violates |
|---|---|---|
| `MCDurableJobsReceipt.cfg` | `MCDurableJobs` | `SpendCountedOnce` |
| `MCDurableJobsRunning.cfg` | `MCDurableJobs` | `LostMeansStopped` |
| `MCAgentTurnAnswer.cfg` | `MCAgentTurn` | `AnswerNotContinued` |

### Why the bounds are enough

* Two workers on a mission show every race the code guards against: an owner and
  a challenger, where either may be stale, sweep, crash or take over. A third one
  only repeats the challenger's part (and costs more than four million states);
  the theorems below hold for any number. `TTL = 1` separates live, expiring
  (`lease = 0`, claimable) and expired (`lease = -1`, sweepable) leases.
* Six breaker calls: two to trip it, a probe that fails, one that is cancelled,
  a late plain answer and a further probe. A cooldown shorter than the deadline
  is the case in which the abandon delay matters.
* A limit of 2 with costs 0..2 gives free, partial, exact and overrunning
  operations; two days put settlement, telemetry and retries on the other side
  of midnight. `LastDay`, `MaxCost` and `MaxRows` are bounds of the model
  (`MaxRows` is a limit of the code, set low so that it is reached).
* Three quanta and a window of one receipt let a receipt roll out while its
  worker is still under way; a limit below the sum makes the total saturate.
* Two Build runs are a starter that is cancelled or fails and one that waits for its
  lock, replaces its process while the old reader lives on, or shares it; with the
  readers, up to four senders queue for one write lock. `NoDeafWait` is proved for
  any number of runs, `RunsEnd` is checked for two.
* One resuming caller may repeat its call, so quanta of two callers meet, and
  with the first call three parties race for one registry entry; a poll reads
  between any two of their steps.
* Two voters suffice for parallel votes: one slot for two lanes makes one of
  them shed, one on each plane makes their failures differ. Different costs per
  plane keep a reply counted on the wrong side from cancelling out. A
  `continue_max` of 2 is the code's default (no row of that name is seeded: the
  seed is called `continue_max_per_job_on_shed` and nothing reads it). A turn counts
  one continue at most, so the branch of the bound that says `error` is not reached
  (finding 7).
* In `request_gates` only requests with the local token go on to the API plane,
  and only OAuth requests to introspection: the two share no state, so that the
  state space is a sum and not a product. One permit, one worker and one
  introspection at a time make every limit be reached by the second request.
  The four operations run every kind of blocking work between them. With a
  deadline of 2 and a margin of 1, threads start with a lag of 0, 1 or 2 and outlive
  their await with one RPC (late) and with two.
* `CHECK_DEADLOCK FALSE` stands where the system may stop: every call is made
  once and is over, or the last day has come.

### Fairness

* `MissionLedger`: weak fairness of a live call's own steps (the event loop runs
  every ready task) and of the clock. New calls, heartbeats, sweeps and faults
  are not assumed to come; a step is not assumed to be retried after `Die`.
* `CircuitBreaker`: weak fairness of the clock and of a call's completion
  (every provider call has a deadline).
* `BuildPool`: weak fairness of a run's own steps: the event loop, the deadline
  a request has once it is sent, and the kill three seconds after a terminate; strong
  fairness of getting the write lock, which `asyncio.Lock` hands on in order. A drain
  has none: nothing makes a process read, so `RunsEnd` is stated for behaviours in
  which every drain ends. Cancellation, process exits and broken streams are not
  assumed.
* `DurableJobs`: weak fairness of a started task, of a merge of review metadata
  under way, and of a request with a saved running row: it creates its task or is
  cancelled. Nobody has to poll or resume, and
  the process may stop at any time.
* `AgentTurn`: weak fairness of the turn's and every lane's steps: providers and
  the local runtime have timeouts. A call of the Build plane has one except while it
  sends (`BuildPool`); `TurnEnds` assumes that its process reads what it is sent.
* `RequestPath`: weak fairness of awaited steps, of the control service's answer
  (the introspection client has a timeout), of what an RPC's own deadline brings
  about (`ApiDue`: the provider need not answer) and of the clock; strong fairness of
  taking a permit and a thread, because `asyncio.Semaphore` and the executor
  serve their queues in order. Reading a body has none: it comes when the client
  sends it.

`LocalBudget`, `SpendGuard` and `MissionBilling` are checked for safety only.

## Findings

1. `shutdown_jobs` stores `lost` for a running job, then cancels its task; the
   task's `CancelledError` handler saves "Job cancelled" with status `error`
   over it. `docs/architecture.md` says that `lost` "must not be silently
   rewritten as caller cancellation". Run `jobs_lost_rewritten`: begin, shutdown,
   mark, cancel, record.
2. `merge_mission_billing` takes a generation that is not above the last one and
   has no receipt for a replay. A worker that lost its lease after a successor
   recorded a quantum therefore returns an envelope without its own spend, which the
   bill does not get either (its telemetry row has it). `tests/test_mission_billing.py` has
   "test_stale_worker_envelope_still_reports_its_unpersisted_spend", which looks
   at the case in which no successor has written. Run `billing_stale_envelope`.
3. `GrokBuildWorker.start` closes the process in an `except Exception` clause
   under the comment "Never leave a live-but-unusable process in the worker
   cache." A cancellation is no `Exception`: the process stays in the cached
   worker, live and not authenticated. Run `build_start_cancelled`: get, start,
   spawn, cancel.
4. `apply_soft_continue_markers` returns a copy of a result that ran out of budget,
   and the telemetry id is stored in the copy; the error branch looks for it in the
   original. If finalizing then fails, a second row with the same spend is added.
   `CHANGELOG.md` says that "a post-provider error reclassifies one telemetry row
   instead of counting the spend twice". `MCDurableJobsReceipt.cfg`: begin, start, turn,
   finalize (the row cannot be read), fail.
5. A resumed legacy-autonomy job is told `lost`, "interrupted by a service restart",
   while its quantum goes on: the resume saves the row as running before its task is
   registered, and waiters of an earlier quantum pop `_DURABLE_JOBS[job_id]` without
   looking whose task it holds. `docs/reference.md` says of `lost` that "a non-Mission
   durable worker stopped before a terminal result was recorded".
   `MCDurableJobsRunning.cfg`: after the first quantum a resume begins, and a poll finds no
   record and the running row.
6. The tail of the failover applies the continue bound to a local answer that
   succeeded, because the receipt of the swap overlays its trigger. A comment at the
   serve ("Success: continue_count 0; do NOT invent a status key") and
   `tests/test_local_plane_m3.py` say the contrary. `MCAgentTurnAnswer.cfg`.
7. The continue bound is called job-level ("Job-level threading is done at the agent
   continue_token resume boundary"), but neither call of `_execute_team_turn` passes
   `prior_continue_count`: every turn of a job counts from 0, and with the default
   bound the job never hardens to an error. This one is seen by reading: nothing that
   a turn could do depends on the job it belongs to.

Met while reading, without a run of their own:

* A Build process whose output has ended accepts requests until its returncode is
  set. Such a request has no reader any more and waits for its deadline (15
  seconds for `session/new`, the turn's timeout for a prompt). `NoDeafWait`
  excludes this wait only for processes that work.
* `shutdown_jobs` looks at `task.done()` before it awaits the unconditional save
  of `lost`: a task whose save is already queued records `complete` and is then
  overwritten, although `docs/known-limits.md` says that a job "whose terminal
  result was already recorded remains pollable". In the model it is part of
  `disturbed`.
* A request that is cancelled while it saves its row as running leaves that row
  without a task; a poll then tells `lost`, and "interrupted by a service restart" is
  not what happened. Nothing was sent to a provider. In the model it is part of `cut`.
* `_send` waits for the write lock and for `drain()` before the deadline of its
  request starts. A Build process that does not read its input holds up its sender
  and everyone who writes to the same worker, the reader included; no document
  promises a deadline there. `RunsEnd` leaves out exactly these behaviours.
* A resume reads the legacy status before it looks for a task in flight, so a
  quantum that is committing can be run again; `docs/reference.md` asks callers
  to reattach serially. The commit key keeps the session at one turn.
* In autonomy mode review metadata merged between the quantum's finalization and
  its last save can be overwritten; `ReviewStored` is about the plain mode.
* `docs/reference.md` says that known usage survives failures; it does not for
  replies in which the CLI lacks a capability, nor when the settlement after the
  reply fails (`LostReply`).
* The client timeout of `xai_api.py` is per RPC. Work of several RPCs (catalog
  probe, a sample repeated without `reasoning_effort`, video polling) can outlive
  its await, as can a thread that started later than the margin and any thread of a
  cancelled call; such threads run without a permit, for as long as `ThreadsInTime`
  says. Waiting for a permit has no deadline.
* `_api_is_official` caches `False` after a network failure or a 5xx, where its
  docstring promises `None`.
* A comment in `main()` calls the home mirror outermost; it is the innermost
  layer.
* At the top score a destructive task is recommended `max`, a non-destructive
  one `ultra`.
* Without a production caller: the 429 storm functions, `resolve_m2_plane_route`,
  `begin_spend_guard_attempt` and `finish_spend_guard_attempt`,
  `_local_op_invoke`, `cancel_job`; no code of the application writes
  `local_concurrency_budget`.

## Proofs

Eight modules are checked by TLAPS for every value of the constants their named
`ASSUME`s allow: `MissionLedgerProofs` (`NoOneAssumption`, `TTLAssumption`: any
workers, any positive TTL), `PlaneProofs` on the breaker and the Build pool
(`BreakerAssumption`: any calls, positive threshold, cooldown, deadline;
`PoolAssumption`: any runs), `RequestPathProofs` (`AuthConstants`,
`ApiConstants`, `CallsAreRequests`: any connections, tokens, grants, pools,
workers, operations, and a deadline above its margin), `LocalBudgetProofs`
(`BudgetAssumption`: any operations, limit, costs, lease, days), `SpendProofs` on
the spend guard and the mission bill (`GuardAssumption`: any finite set of
attempts, any limit, costs, staleness, retention; `BillingAssumption`: any finite
set of quanta, any costs, cost limit and positive receipt window),
`DurableJobsProofs` (`CallNames`: any finite set of resuming calls, any polls),
`AgentTurnProofs` (`TurnAssumption`: any finite set of voters, positive costs of a
reply, any slots and `continue_max`; the part on the governor has no assumption),
and `SumTheorems`, the lemmas on sums that the two ledgers, the turn and the
governor's score rest on.

**Sums.** The models add with `SumFunctionOnSet`. What it returns for one more
element, one changed value or two pointwise ordered functions is an induction
over finite sets. The library's induction rules take a predicate as parameter,
which the provers cannot instantiate; `SumTheorems` instead takes a smallest
subset for which the fact fails (`FS_StrictSubsetOrderingWellFounded` gives one)
and refutes it.

**Mission ledger.** None of the safety invariants is inductive alone: that a
complete mission has its artifact says nothing about a worker that is about to
commit. `LedgerInv` adds

* `RowShape`: a token only on `running` and `verifying` rows;
* `Decided`: a terminal row has exactly the generation after the one of the
  worker it names;
* `OwnerWrote(w)`: *if* `w` still owns the row, then the artifact (after
  `Freeze`), the evidence (before `CommitDone`) and a failure count of zero
  (before a literal repair) are there, because `w` owned the row when it wrote
  them: a lost generation never comes back (`GenerationFence`);
* `PostSeal(w)`: a worker at `session` or `mirror` with a terminal snapshot sees
  the row as it is and is its candidate.

Steps fall into a few kinds, each with a lemma: steps that leave the ledger
alone (`QuietInv`), releases (`ReleaseInv`, `WaitEventInv`), decisions
(`DecideInv`), claims (`ClaimInv`), lease time (`TimeInv`, `SweepInv`), and the
projection and history writes (`SaveJobInv`, `MirrorInv`, `HistoryInv`).
`Bystander` says what a step of one worker leaves of another one's part. From
`LedgerInvariant` follow the invariants of `mission_ledger` and the two action
properties. `SealLetsGo` needs one more invariant on top of it, `Held`: an owner
at a CAS of its seal still sees the row as it read it, in the status the CAS
starts from, so the CAS cannot be refused and the seal leaves through a release.

**Refinement.** `LedgerImplementsTruth` states `ImplementsTruth`: every behaviour
of the ledger is one of `MissionTruth` under the mapping of `MissionLedger`. A
step is one of five kinds, each with a lemma over the mapped state: a claim is a
`Grant`, a release without a verdict a `Withdraw`, the fenced terminal CAS a
`Decide` by the holder, the first `append_turn_once` of a complete mission a
`Publish`, and everything else (the mirror, the projection, renewals, polls,
crashes) is silent. `LedgerInv` says who holds and who decides; the
mapping needs one invariant more, `Leased`: a running or verifying row always
has a token, so a mapped holder exists.

**Circuit breaker.** `BreakerInv` ties each call to the breaker: a running probe
is of the present generation and holds `half_open`, a running plain call of the
present generation means the breaker is closed, and a cancelled probe's
remaining time at the provider never exceeds `wait`. The last conjunct is why
`OneProbe` needs the maximum in the abandon delay.

**Build pool.** `NoDeafWait` is about a process a run has written to; its worker
may have replaced that one since. `PoolInv` follows processes from the run that
started them: the process a worker has was started for it and is read as long as
it works (`Kept`), and a request that is being sent or waits is for a process
started for the run's own worker (`Heard`). A reader, of whatever age, that stops therefore fails
every request that could wait for its process, and the process a worker keeps
after that is dying. A request that is made later finds a process that is read, or
one that is dying. Steps are requests (`RequestInv`), steps that end a wait
(`ThroughInv`, `LeaveInv`), steps of the write lock (`SendingInv`), the end of a
process or reader (`EndInv`), `Get` and `Spawn`.
`PoolInv` says nothing about locks: the property holds whoever holds them.

**Request path.** `PathInv` is the conjunction of two invariants whose steps
leave each other's variables alone. `AuthInv`: what an introspection entry or its
answer may contain depends on whether its task began before a revocation
(`KeyInv`), and every request is at a place its credential can reach (`Placed`),
waits only for a task of its own key (`Awaits`), and has only claims its
credential backs (`Backed`, `Served`, `Denied`). `ServedWithinGrant` alone is not
inductive: a request about to be served must already hold backed claims, and
those come from a task that may have been started by another request, before the
revocation. `ApiInv`: the stage, pool and thread of a call agree (`Linked`), a
call that may still send has not sent (`Unspent`), and the clocks of await, RPC
and lag are in step (`Paced`), so that a thread is over within the deadlines of its RPCs.

**Local budget.** `BudgetInv` ties each day's row to its holder and to what was
charged: an operation that is not over holds its day or the day was closed over
its expired lease (`Owns`); before its own charge the day is below the limit
(`Room`); a free row covers the charges or closes the day, a held one covers them
together with the receipt about to be settled (`Covers`). `OneInFlight` is part
of it: without serial work the last charge could come on top of another one and
`BoundedOverspend` would fail. Steps fall into five kinds, each with a lemma:
moving on (`PassInv`), reserving (`ReserveInv`), charging (`ChargeInv`), giving a
row back (`GiveBackInv`) and time.

**Spend guard.** `NoOvercommit` is not inductive: its excuses (an overrun, an
authoritative correction) vanish when a conflict makes the row unknown or
retention prunes it, while the other rows stay. `GuardInv` keeps a stronger sum
(`Covered`): a pending row counts with its reservation, a settled one with the
smaller of reservation and actual, an unknown or corrected one with nothing, and
base plus that sum stays within the limit. No step but an admission adds to it,
and the admission compared the limit with a sum at least as large. `OncePerDay`
and `ToldOnce` carry `ExecuteOnce` and `ConflictFlagged`. `FailClosedHolds` is an
action property: only `Reserve` counts a call, after it has expired overdue rows
and found the day without an unknown one, so no row was unknown or overdue
before it.

**Mission bill.** `BillExact` compares the bill with `paid`, what each quantum got
recorded. `BillInv` says it is the bill of these payments (`BillOf`): the cost is
their capped total, `quanta` their number, the window holds receipts of payers
under growing generations up to `last`, and the counter of truncated receipts is
the rest. A quantum merges into a bill it read earlier, so the invariant also
covers what was read (`Snapshot`): the version seen is not above the row's, an
equal version means an equal bill, and every bill seen was the bill of earlier
payments, none larger than now. With `Claims` (each generation belongs to one
quantum, none is above the row's) a merge either finds the receipt of its own
generation and raises it, adds one receipt above all others, or is a replay whose
receipt rolled out of the window and changes nothing (`Merge`). Because the CAS compares
versions, a write replaces exactly the bill it merged into. `Reported` bounds an
envelope by the payments with the quantum's own usage put in once; as payments
only grow, a stale envelope stays below that bound, which is `EnvelopeNoDouble`.
Steps look (`LookInv`), write (`WriteInv`) or claim (`ClaimInv`).

**Durable jobs.** What callers are told rests on facts no single handler states.
`JobInv` has, besides the types, the order of a call's steps (`CallsOrdered`),
what a payload says by where its task is (`OutcomeKnown`), that shutdown is noted
as a disturbance (`ShutdownNoted`), that a job which is not resumed has one task
and keeps its record while it works (`OneTask`), that without a mishap a running row
has a task in the registry or a call about to put it there (`Attended`), that even
with races some quantum still works on it unless the job was cut off or disturbed
(`RunningOwned`), that a complete answer on its way to the row, and then the row, is
in the history (`HistoryKept`), the telemetry of a
quantum by stage (`ReceiptKept`), that what was told agrees with the row and the
row with its task (`SameVerdict`), and that metadata handed to a pending review
is where the final save will find it (`MetaOnItsWay`). One lemma per action.

**Agent turn.** `TurnInv` is a balance sheet: `due`, what the turn owes, is the
sum of what its own locals hold (`Owns`: router, draft, hive, result) and what
each activation holds (`Held`: a rejected first attempt, the attempts of a plane
given up, a result not yet collected). Every handler moves usage between
holders. It needs `Sound` (a result never lists more attempts than it costs, so
the residual attempt makes up the rest; it was bounded once at most, and exactly
once if it says continue) and `Placed`
(only lanes of the present stage hold anything, so clearing them loses nothing).
Free permits and lanes in a local call add up to `Slots`. `UsageConserved`,
`MeteredOff`, `SlotsAccounted` and `ContinueOnce` follow.

**Governor.** `GovernorMonotone` goes beyond what TLC enumerates: two signal sets
of which one contains the other, any two numbers of failures, all ceilings. Each
stage is shown to keep the order: floors are maxima over growing sets
(`FloorOrder`), beliefs (`BeliefOrder`), the weighted score (`ScoreOrder`, a sum of
ordered terms), the rung (`RungOrder`), the level under floors and ceiling
(`StakesOrder`, `CapOrder`), the roles (`RolesOrder`), and what the turn makes of
them (`SettingsOrder`).
It is a theorem about the functions, and so about the moment a mission is created.

**Only model-checked**: liveness (`LeaseNotStranded`, `ProbeAvailable`,
`JobSettles`, `RunsEnd`, `TurnEnds`, `RequestEnds`) and the fairness it rests on,
which are outside what the prover handles. Every invariant, action property and
refinement that a passing run checks is also a theorem.

## Not modelled

`PROJECT.json` lists every component with its status. Out of reach or without
interest for a model checker:

* text: finding signals in a task, the gap rules of `verify_commit`, context
  packs, condensation, prompts and catalogs. They are pure functions of strings;
  a model would repeat them character by character;
* the context cabinet (rank fusion, a walk and a token budget over files) and the
  loading and ranking of local models: file layout and process I/O;
* HTTP and header parsing, token digests, the counting of the failure limiter
  (its 429 is a free choice in `RequestAuth`), the affiliation cache;
* the OpenAI facade, peers, mirror, tools and presentation: no state of their
  own;
* code without a production caller (see Findings).

## Plan

Done in this order: the mission ledger with its refinement and proofs, the
breaker, budgets, billing, Build pool; then the agent turn with the governor,
durable jobs with reviews and resumes, the request path with its proofs, the
proofs of the local budget; then the refinement of `MissionTruth` and the safety
of `SpendGuard`, `DurableJobs` and `AgentTurn` as theorems; then those of
`MissionBilling`, `BuildPool` and the governor. Left:

1. Review metadata in autonomy mode, and a registry that several job ids share.
2. Several Build profiles, whose toolless recovery runs on a worker of its own.
