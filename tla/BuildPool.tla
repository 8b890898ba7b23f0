----------------------------- MODULE BuildPool -----------------------------
(***************************************************************************)
(* The Grok Build ACP pool of grok_build.py for one profile key: the       *)
(* manager's worker table, the worker objects, their processes and stdout  *)
(* readers, and concurrent runs that share a worker.  A step is the code   *)
(* between two awaits.                                                     *)
(*                                                                         *)
(* A worker object, and a process, is named by the run that created it.    *)
(* initialize and authenticate are one request, and so are session/prompt  *)
(* and its single repetition after a "cancelled" stop.                     *)
(* GrokBuildACPManager.close, which the server never calls, and the runs   *)
(* of other profiles (the toolless recovery) are left out.                 *)
(***************************************************************************)
EXTENDS Integers, FiniteSets

CONSTANTS Runs, NoOne

ASSUME PoolAssumption == NoOne \notin Runs

VARIABLES
    table,      \* _workers[key]
    worker,     \* worker[o]: process, _ready, the holder of _start_lock
    proc,       \* proc[p]: "started", then "authed" when it answered initialize
                \* and authenticate, "dying" (it ended, or was sent a kill, and
                \* returncode is still None), "exited" (returncode is set)
    reader,     \* processes whose _read_stdout task runs
    pc,
    mine,       \* mine[r]: the worker object of run r
    reply,      \* reply[r]: the future of r's request in _pending
    sent,       \* sent[r]: the process r writes to or has written to, or the
                \* process that r is waiting for in close()
    write,      \* write[r]: r waits in _send for _write_lock, or holds it and
                \* waits in drain(), which has no deadline
    answer,     \* answer[p]: the same of the reader of p, which answers what
    answerTo    \* the process asks; answerTo[p]: the process it writes to

answers == <<answer, answerTo>>
poolVars == <<table, worker, proc, reader, pc, mine, reply, sent, write, answers>>

NoWorker == [process |-> NoOne, ready |-> FALSE, lock |-> NoOne]

SendTypes ==
    /\ write \in [Runs -> {"no", "lock", "drain"}]
    /\ answer \in [Runs -> {"no", "lock", "drain"}]
    /\ answerTo \in [Runs -> Runs \cup {NoOne}]

PoolTypes ==
    /\ table \in Runs \cup {NoOne}
    /\ worker \in [Runs -> [process: Runs \cup {NoOne}, ready: BOOLEAN,
                            lock: Runs \cup {NoOne}]]
    /\ proc \in [Runs -> {"none", "started", "authed", "dying", "exited"}]
    /\ reader \subseteq Runs
    /\ pc \in [Runs -> {"idle", "start", "spawn", "init", "closing", "new",
                        "prompt", "abort", "leave", "except", "done"}]
    /\ mine \in [Runs -> Runs \cup {NoOne}]
    /\ reply \in [Runs -> {"none", "wait", "failed"}]
    /\ sent \in [Runs -> Runs \cup {NoOne}]
    /\ SendTypes
    \* a request is pending exactly while its run waits for it
    /\ \A r \in Runs : reply[r] # "none" <=> pc[r] \in {"init", "new", "prompt"}

PoolInit ==
    /\ table = NoOne
    /\ worker = [o \in Runs |-> NoWorker]
    /\ proc = [p \in Runs |-> "none"]
    /\ reader = {}
    /\ pc = [r \in Runs |-> "idle"]
    /\ mine = [r \in Runs |-> NoOne]
    /\ reply = [r \in Runs |-> "none"]
    /\ sent = [r \in Runs |-> NoOne]
    /\ write = [r \in Runs |-> "no"]
    /\ answer = [p \in Runs |-> "no"] /\ answerTo = [p \in Runs |-> NoOne]

-----------------------------------------------------------------------------
Working == {"started", "authed"}

\* A process that can be written to: returncode is None.
Alive(o) == worker[o].process # NoOne /\ proc[worker[o].process] \in Working \cup {"dying"}

\* start() returns at once; the manager keeps the worker.
Usable(o) == worker[o].ready /\ Alive(o)

Goto(r, s) == pc' = [pc EXCEPT ![r] = s]

\* _fail_pending of worker o: every future that waits gets the exception.
FailPending(o) ==
    [r \in Runs |-> IF mine[r] = o /\ reply[r] = "wait" THEN "failed" ELSE reply[r]]

\* Somebody other than run r is in _send of worker o, at one of the stages.
Sending(o, stages, r) ==
    \/ \E q \in Runs \ {r} : mine[q] = o /\ write[q] \in stages
    \/ \E p \in Runs : mine[p] = o /\ answer[p] \in stages

\* Where _send of run r (or of a reader: NoOne) first has to wait: in the queue
\* of _write_lock, in drain() if the process has not read enough, or nowhere.
Enter(o, r) == IF Sending(o, {"lock", "drain"}, r) THEN {"lock"} ELSE {"no", "drain"}

\* Its send is over, or raises because the process is gone.
SendOver(r) == write[r] = "no" \/ (write[r] = "drain" /\ proc[sent[r]] \notin Working)

\* _request of run r in state s: registered and being sent, or _send raises.
Request(r, s) ==
    IF Alive(mine[r])
    THEN /\ Goto(r, s)
         /\ reply' = [reply EXCEPT ![r] = "wait"]
         /\ sent' = [sent EXCEPT ![r] = worker[mine[r]].process]
         /\ \E w \in Enter(mine[r], r) : write' = [write EXCEPT ![r] = w]
    ELSE /\ Goto(r, "except")
         /\ reply' = [reply EXCEPT ![r] = "none"]
         /\ sent' = [sent EXCEPT ![r] = NoOne]
         /\ write' = [write EXCEPT ![r] = "no"]

\* The run is through with its request, in state s.
Through(r, s) ==
    /\ Goto(r, s)
    /\ reply' = [reply EXCEPT ![r] = "none"]
    /\ sent' = [sent EXCEPT ![r] = NoOne]
    /\ write' = [write EXCEPT ![r] = "no"]

\* The handler of a prompt that timed out or was cancelled sends session/cancel
\* and waits for that like any other send.
SendCancel(r, s) ==
    /\ Alive(mine[r])
    /\ Goto(r, s)
    /\ reply' = [reply EXCEPT ![r] = "none"]
    /\ sent' = [sent EXCEPT ![r] = worker[mine[r]].process]
    /\ \E w \in Enter(mine[r], r) \ {"no"} : write' = [write EXCEPT ![r] = w]

\* GrokBuildACPManager.run: the worker of the profile, created if there is none.
Get(r) ==
    /\ pc[r] = "idle"
    /\ table' = IF table = NoOne THEN r ELSE table
    /\ mine' = [mine EXCEPT ![r] = table']
    /\ Goto(r, "start")
    /\ UNCHANGED <<worker, proc, reader, reply, sent, write, answers>>

\* start() under _start_lock: a usable process is shared.
Start(r) ==
    /\ pc[r] = "start" /\ worker[mine[r]].lock = NoOne
    /\ \/ Usable(mine[r]) /\ Request(r, "new") /\ UNCHANGED worker
       \/ /\ ~Usable(mine[r]) /\ Goto(r, "spawn")
          /\ worker' = [worker EXCEPT ![mine[r]].lock = r]
          /\ UNCHANGED <<reply, sent, write>>
    /\ UNCHANGED <<table, proc, reader, mine, answers>>

\* create_subprocess_exec; initialize is sent to the new process.
Spawn(r) ==
    /\ pc[r] = "spawn"
    /\ proc' = [proc EXCEPT ![r] = "started"]
    /\ worker' = [worker EXCEPT ![mine[r]].process = r]
    /\ reader' = reader \cup {r}
    /\ Goto(r, "init")
    /\ reply' = [reply EXCEPT ![r] = "wait"]
    /\ sent' = [sent EXCEPT ![r] = r]
    /\ \E w \in Enter(mine[r], r) : write' = [write EXCEPT ![r] = w]
    /\ UNCHANGED <<table, mine, answers>>

\* A request is written once the lock is free; the process takes what is in the
\* pipe, if it ever reads.
GetWriteLock(r) ==
    /\ write[r] = "lock" /\ ~Sending(mine[r], {"drain"}, r)
    /\ \E w \in {"no", "drain"} : write' = [write EXCEPT ![r] = w]
    /\ UNCHANGED <<table, worker, proc, reader, pc, mine, reply, sent, answers>>

Drained(r) ==
    /\ write[r] = "drain"
    /\ write' = [write EXCEPT ![r] = "no"]
    /\ UNCHANGED <<table, worker, proc, reader, pc, mine, reply, sent, answers>>

\* The answer to what run r sent is read: its future gets the result.
Read(r) ==
    /\ reply[r] = "wait" /\ write[r] = "no"
    /\ sent[r] \in reader /\ answer[sent[r]] = "no"

\* _ready, the lock is released, session/new follows.
Initialized(r) ==
    /\ pc[r] = "init" /\ Read(r)
    /\ proc' = [proc EXCEPT ![sent[r]] = IF @ = "started" THEN "authed" ELSE @]
    /\ worker' = [worker EXCEPT ![mine[r]].ready = TRUE, ![mine[r]].lock = NoOne]
    /\ Request(r, "new")
    /\ UNCHANGED <<table, reader, mine, answers>>

\* An answer to session/new is read, then one to session/prompt; the process
\* may have ended since it wrote it.
Answered(r) ==
    /\ pc[r] \in {"new", "prompt"} /\ Read(r)
    /\ \/ pc[r] = "new" /\ Request(r, "prompt")
       \/ pc[r] = "prompt" /\ Through(r, "done")
    /\ UNCHANGED <<table, worker, proc, reader, mine, answers>>

\* A request of the turn fails: its send, a shared failure, its deadline, which
\* runs from the end of the send, or an error answer.
TurnFails(r) ==
    /\ pc[r] \in {"new", "prompt"} /\ SendOver(r)
    /\ \/ Through(r, "except")
       \/ pc[r] = "prompt" /\ write[r] = "no" /\ reply[r] = "wait" /\ SendCancel(r, "abort")
    /\ UNCHANGED <<table, worker, proc, reader, mine, answers>>

\* session/cancel is sent or cannot be; what it followed goes on, a cancellation
\* replaced by the error of the send.
CancelSent(r) ==
    /\ pc[r] \in {"abort", "leave"} /\ SendOver(r)
    /\ Through(r, IF pc[r] = "leave" /\ write[r] = "no" THEN "done" ELSE "except")
    /\ UNCHANGED <<table, worker, proc, reader, mine, answers>>

\* start() raises: close() lets go of the process, cancels its reader, whose
\* finally fails what is pending, and terminates the process.
StartFails(r) ==
    /\ pc[r] = "spawn" \/ (pc[r] = "init" /\ SendOver(r))
    /\ LET p == worker[mine[r]].process
       IN /\ worker' = [worker EXCEPT ![mine[r]].ready = FALSE,
                                      ![mine[r]].process = NoOne]
          /\ reader' = reader \ {p}
          /\ answer' = [q \in Runs |-> IF q = p THEN "no" ELSE answer[q]]
          /\ answerTo' = [q \in Runs |-> IF q = p THEN NoOne ELSE answerTo[q]]
          /\ sent' = [sent EXCEPT ![r] = p]
    /\ reply' = [FailPending(mine[r]) EXCEPT ![r] = "none"]
    /\ write' = [write EXCEPT ![r] = "no"]
    /\ Goto(r, "closing")
    /\ UNCHANGED <<table, proc, mine>>

\* Mutant: the start lock is kept when start() raises.
ClosedKeepsLock(r) ==
    /\ pc[r] = "closing"
    /\ proc' = [p \in Runs |-> IF p = sent[r] THEN "exited" ELSE proc[p]]
    /\ reply' = FailPending(mine[r])
    /\ Goto(r, "except") /\ sent' = [sent EXCEPT ![r] = NoOne]
    /\ UNCHANGED <<table, worker, reader, mine, write, answers>>

\* The process is gone, or killed after 3 seconds; the lock is released.
Closed(r) ==
    /\ pc[r] = "closing"
    /\ proc' = [p \in Runs |-> IF p = sent[r] THEN "exited" ELSE proc[p]]
    /\ reply' = FailPending(mine[r])
    /\ worker' = [worker EXCEPT ![mine[r]].lock = NoOne]
    /\ Goto(r, "except") /\ sent' = [sent EXCEPT ![r] = NoOne]
    /\ UNCHANGED <<table, reader, mine, write, answers>>

\* The manager's handler: a worker that is not usable leaves the table.
Except(r) ==
    /\ pc[r] = "except"
    /\ table' = IF table = mine[r] /\ ~Usable(mine[r]) THEN NoOne ELSE table
    /\ Goto(r, "done")
    /\ UNCHANGED <<worker, proc, reader, mine, reply, sent, write, answers>>

\* CancelledError is no Exception: neither start() nor the manager cleans up;
\* only locks and the pending request are given back.
Cancel(r) ==
    /\ pc[r] \in {"start", "spawn", "init", "closing", "new", "prompt", "abort", "leave"}
    /\ worker' = [o \in Runs |-> IF worker[o].lock = r
                                 THEN [worker[o] EXCEPT !.lock = NoOne] ELSE worker[o]]
    /\ Through(r, "done") \/ (pc[r] = "prompt" /\ SendCancel(r, "leave"))
    /\ UNCHANGED <<table, proc, reader, mine, answers>>

\* A process ends.  The end of its output and its returncode reach the event
\* loop separately, in either order.
Exit(p) ==
    /\ proc[p] \in Working
    /\ proc' = [proc EXCEPT ![p] = "dying"]
    /\ UNCHANGED <<table, worker, reader, pc, mine, reply, sent, write, answers>>

Reaped(p) ==
    /\ proc[p] = "dying"
    /\ proc' = [proc EXCEPT ![p] = "exited"]
    /\ UNCHANGED <<table, worker, reader, pc, mine, reply, sent, write, answers>>

\* The reader answers a request of the process (permission, unknown method) and
\* reads nothing until that is sent, to whatever process the worker has by now.
Answer(p) ==
    /\ p \in reader /\ answer[p] = "no" /\ Alive(mine[p])
    /\ \E w \in Enter(mine[p], NoOne) \ {"no"} : answer' = [answer EXCEPT ![p] = w]
    /\ answerTo' = [answerTo EXCEPT ![p] = worker[mine[p]].process]
    /\ UNCHANGED <<table, worker, proc, reader, pc, mine, reply, sent, write>>

\* The reader of p goes on.
AnswerSent(p) ==
    /\ answer' = [answer EXCEPT ![p] = "no"]
    /\ answerTo' = [answerTo EXCEPT ![p] = NoOne]

AnswerGetsLock(p) ==
    /\ answer[p] = "lock" /\ ~Sending(mine[p], {"drain"}, NoOne)
    /\ AnswerSent(p) \/ (answer' = [answer EXCEPT ![p] = "drain"] /\ UNCHANGED answerTo)
    /\ UNCHANGED <<table, worker, proc, reader, pc, mine, reply, sent, write>>

AnswerDrained(p) ==
    /\ answer[p] = "drain"
    /\ AnswerSent(p)
    /\ UNCHANGED <<table, worker, proc, reader, pc, mine, reply, sent, write>>

\* _read_stdout meets the end of the stream.
ReaderEnds(p) ==
    /\ p \in reader /\ proc[p] \notin Working /\ answer[p] = "no"
    /\ reader' = reader \ {p}
    /\ reply' = FailPending(mine[p])
    /\ UNCHANGED <<table, worker, proc, pc, mine, sent, write, answers>>

\* An oversized line was read, or the send of an answer raises.
ReaderRaises(p) ==
    p \in reader /\ (answer[p] = "no" \/ (answer[p] = "drain" /\ proc[answerTo[p]] \notin Working))

\* Mutant: the process is not killed.
StreamBreaksOnly(p) ==
    /\ ReaderRaises(p)
    /\ reader' = reader \ {p}
    /\ reply' = FailPending(mine[p])
    /\ AnswerSent(p)
    /\ UNCHANGED <<table, worker, proc, pc, mine, sent, write>>

\* The reader fails what is pending and kills whatever process the worker has
\* by now.
StreamBreaks(p) ==
    /\ ReaderRaises(p)
    /\ reader' = reader \ {p}
    /\ reply' = FailPending(mine[p])
    /\ proc' = [q \in Runs |-> IF q = worker[mine[p]].process /\ proc[q] \in Working
                               THEN "dying" ELSE proc[q]]
    /\ AnswerSent(p)
    /\ UNCHANGED <<table, worker, pc, mine, sent, write>>

\* What the event loop, the deadlines, the kill timeout and the end of a process
\* that is written to bring about.
Progress(r) ==
    \/ Start(r) \/ Spawn(r) \/ Initialized(r) \/ Answered(r) \/ TurnFails(r)
    \/ CancelSent(r) \/ StartFails(r) \/ Closed(r) \/ Except(r)

PoolStep(r) ==
    \/ Get(r) \/ Progress(r) \/ GetWriteLock(r) \/ Drained(r) \/ Cancel(r)
    \/ Exit(r) \/ Reaped(r) \/ Answer(r) \/ AnswerGetsLock(r) \/ AnswerDrained(r)
    \/ ReaderEnds(r) \/ StreamBreaks(r)

PoolNext == \E r \in Runs : PoolStep(r)

\* asyncio.Lock serves its waiters in order, so nobody is passed over forever;
\* nothing makes a process read what it is sent.
PoolFairness ==
    \A r \in Runs :
        /\ WF_poolVars(Progress(r))
        /\ SF_poolVars(GetWriteLock(r)) /\ SF_poolVars(AnswerGetsLock(r))
PoolSpec == PoolInit /\ [][PoolNext]_poolVars /\ PoolFairness

-----------------------------------------------------------------------------
\* Every run ends, unless some send waits forever for a process to read its
\* input: no failed start, cancelled run, broken stream or dead process, and no
\* queue for _start_lock or _write_lock, leaves another run waiting forever.
RunsEnd ==
    (\A p \in Runs : []<>(write[p] # "drain") /\ []<>(answer[p] # "drain"))
        => \A r \in Runs : pc[r] = "start" ~> pc[r] = "done"

\* No run waits on a process that works while its output has no reader, though
\* readers of replaced processes live on beside the present one and may fail,
\* and kill, what is not theirs.  (A request to a process that is dying, its
\* returncode not yet set, may be left to its deadline.)
NoDeafWait ==
    \A r \in Runs : reply[r] = "wait" /\ proc[sent[r]] \in Working => sent[r] \in reader

\* start() never leaves a live but unusable process in the worker cache: unless
\* somebody is starting it, a working process there is ready and authenticated.
CacheUsable ==
    table # NoOne /\ worker[table].lock = NoOne /\ worker[table].process # NoOne =>
        LET p == worker[table].process
        IN proc[p] \in Working => worker[table].ready /\ proc[p] = "authed"

=============================================================================
