------------------------------ MODULE ApiPool ------------------------------
(***************************************************************************)
(* Calls of the xAI API plane (xai_api.py): a permit of the generation or  *)
(* the file pool, a thread of the loop's default executor that does the    *)
(* blocking SDK work, an await deadline around it, the SDK's own deadline  *)
(* for each RPC, and retries of idempotent reads.  Time passes in units    *)
(* shared by all deadlines; waiting for a permit and backing off have no   *)
(* deadline of their own.                                                  *)
(***************************************************************************)
EXTENDS Integers, Sequences, FiniteSets

CONSTANTS
    Ops,           \* the operations of Operations that are called
    Calls,         \* callers, each with one call at a time
    GenPermits,    \* API_MAX_INFLIGHT
    FilePermits,   \* API_MAX_FILE_INFLIGHT
    WorkerCounts,  \* sizes the default executor may have
    Deadline,      \* the await deadline
    Margin         \* how much sooner an RPC is to end

VARIABLES
    workers,   \* threads of the default executor
    op,        \* op[c]: the stages of call c
    stage,     \* stage[c]: the one it is at
    attempt,   \* attempt[c]: attempts at that stage, this one included
    st,        \* st[c]: where the awaiting side is, or how it left its thread
    clock,     \* clock[c]: time since the await began, counted on while its
               \* thread runs; 0 if there is neither
    thread,    \* thread[c]: the work it gave to the executor
    left,      \* left[c]: RPCs that thread may still make, this one included
    rpc,       \* rpc[c]: time since this RPC began
    lag,       \* lag[c]: clock[c] when the thread started
    sent       \* sent[c]: times the provider did what c is charged for, or
               \* what changes its files

threads == <<thread, left, rpc, lag>>
apiVars == <<workers, op, stage, attempt, st, clock, threads, sent>>

\* What a blocking function does: list two catalogs; one read; one sample,
\* repeated without reasoning_effort if the provider refuses that; one
\* mutation; start a video and poll for it (the SDK does so).
Work == {"probe", "read", "sample", "mutate", "video"}

\* The operations: the blocking functions each runs, in order.
probe_models      == <<"probe">>
resolve_model     == probe_models
chat              == resolve_model \o <<"sample">>
vision            == resolve_model \o <<"mutate">>
chat_files        == resolve_model \o <<"mutate">>
search            == resolve_model \o <<"mutate">>
code_execution    == resolve_model \o <<"mutate">>
generate_image    == <<"mutate">>
generate_video    == <<"video">>
extend_video      == <<"video">>
upload_file       == <<"mutate">>
delete_file       == <<"mutate">>
list_files        == <<"read">>
get_file          == <<"read">>
get_file_content  == get_file \o <<"read">>
Operations == {probe_models, chat, vision, chat_files, search, code_execution,
               generate_image, generate_video, extend_video, upload_file, delete_file,
               list_files, get_file, get_file_content}

ASSUME ApiConstants ==
    /\ Ops \subseteq Operations
    /\ GenPermits \in Nat \ {0} /\ FilePermits \in Nat \ {0}
    /\ WorkerCounts \subseteq Nat \ {0}
    /\ Margin \in Nat \ {0} /\ Deadline \in Nat /\ Deadline > Margin

Over == {"idle", "timeout", "cancelled"}
ReadAttempts == 3     \* len(_READ_RETRY_BACKOFFS) + 1

\* Mutant: the SDK's deadline is the await deadline.
RpcTimeoutSame == Deadline

\* _rpc_timeout: sooner than the await deadline, "so gRPC loses the race
\* cleanly" (here: ends first).
RpcTimeout == Deadline - Margin

Doing(c) == op[c][stage[c]]
RpcsOf(work) == IF work \in {"probe", "sample", "video"} THEN 2 ELSE 1
\* _blocking_read for reads, _blocking for everything else.
Pool(work) == IF work \in {"probe", "read"} THEN "file" ELSE "gen"
Permits(pool) == IF pool = "gen" THEN GenPermits ELSE FilePermits
Holders(pool) == {c \in Calls : st[c] = "await" /\ Pool(Doing(c)) = pool}
Running == {c \in Calls : thread[c] = "run"}

ApiTypeOK ==
    /\ workers \in Nat \ {0}
    /\ op \in [Calls -> Operations \cup {<<>>}]
    /\ stage \in [Calls -> 1..2] /\ attempt \in [Calls -> 1..ReadAttempts]
    /\ st \in [Calls -> {"permit", "await", "backoff"} \cup Over]
    /\ clock \in [Calls -> 0..(3 * Deadline)]
    /\ thread \in [Calls -> {"none", "queued", "run"}]
    /\ left \in [Calls -> 0..2] /\ rpc \in [Calls -> 0..Deadline] /\ lag \in [Calls -> 0..Deadline]
    /\ sent \in [Calls -> 0..ReadAttempts]

ApiInit ==
    /\ workers \in WorkerCounts
    /\ op = [c \in Calls |-> <<>>] /\ stage = [c \in Calls |-> 1]
    /\ attempt = [c \in Calls |-> 1] /\ st = [c \in Calls |-> "idle"]
    /\ clock = [c \in Calls |-> 0] /\ thread = [c \in Calls |-> "none"]
    /\ left = [c \in Calls |-> 0] /\ rpc = [c \in Calls |-> 0]
    /\ lag = [c \in Calls |-> 0] /\ sent = [c \in Calls |-> 0]

-----------------------------------------------------------------------------
Begin(c) ==
    /\ st[c] = "idle"
    /\ \E o \in Ops : op' = [op EXCEPT ![c] = o]
    /\ st' = [st EXCEPT ![c] = "permit"] /\ sent' = [sent EXCEPT ![c] = 0]
    /\ UNCHANGED <<workers, stage, attempt, clock, threads>>

\* async with the pool's semaphore, then wait_for(to_thread(call), deadline).
Acquire(c) ==
    /\ st[c] = "permit" /\ Cardinality(Holders(Pool(Doing(c)))) < Permits(Pool(Doing(c)))
    /\ st' = [st EXCEPT ![c] = "await"]
    /\ thread' = [thread EXCEPT ![c] = "queued"]
    /\ UNCHANGED <<workers, op, stage, attempt, clock, left, rpc, lag, sent>>

\* The executor has a thread for it; _client is made with the RPC deadline.
StartThread(c) ==
    /\ thread[c] = "queued" /\ Cardinality(Running) < workers
    /\ thread' = [thread EXCEPT ![c] = "run"]
    /\ left' = [left EXCEPT ![c] = RpcsOf(Doing(c))]
    /\ rpc' = [rpc EXCEPT ![c] = 0] /\ lag' = [lag EXCEPT ![c] = clock[c]]
    /\ UNCHANGED <<workers, op, stage, attempt, st, clock, sent>>

\* Time passes for every await and every RPC; none of them oversleeps.
Tick ==
    LET waiting == {c \in Calls : st[c] = "await"} IN
    /\ waiting \cup Running # {}
    /\ \A c \in waiting : clock[c] < Deadline
    /\ \A c \in Running : rpc[c] < RpcTimeout
    /\ clock' = [c \in Calls |-> IF c \in waiting \cup Running
                             THEN clock[c] + 1 ELSE clock[c]]
    /\ rpc' = [c \in Calls |-> IF c \in Running THEN rpc[c] + 1 ELSE rpc[c]]
    /\ UNCHANGED <<workers, op, stage, attempt, st, thread, left, lag, sent>>

\* The RPCs after which the thread goes on with the next one.
GoesOn(c) == left[c] = 2 /\ Doing(c) \in {"probe", "video"}
\* The RPCs that change something at the provider, or are charged.
HasEffect(c) == Doing(c) \in {"sample", "mutate"} \/ (Doing(c) = "video" /\ left[c] = 2)

\* An RPC succeeds and is not the thread's last, or the provider refuses
\* reasoning_effort and the sample is repeated without it.
NextRpc(c) ==
    /\ thread[c] = "run"
    /\ \/ GoesOn(c) /\ sent' = [sent EXCEPT ![c] = IF HasEffect(c) THEN @ + 1 ELSE @]
       \/ Doing(c) = "sample" /\ left[c] = 2 /\ UNCHANGED sent
    /\ left' = [left EXCEPT ![c] = @ - 1] /\ rpc' = [rpc EXCEPT ![c] = 0]
    /\ UNCHANGED <<workers, op, stage, attempt, st, clock, thread, lag>>

\* Mutant: generation and mutations are retried like reads.
RetryableAlways(c, result) == result = "fault" /\ attempt[c] < ReadAttempts

\* Only connection faults of reads (_is_retryable), never a timeout.
Retryable(c, result) ==
    /\ Pool(Doing(c)) = "file" /\ result = "fault" /\ attempt[c] < ReadAttempts

\* Call c is over, with a result or an exception; c is free for another.
Return(c) ==
    /\ st' = [st EXCEPT ![c] = "idle"] /\ op' = [op EXCEPT ![c] = <<>>]
    /\ stage' = [stage EXCEPT ![c] = 1] /\ attempt' = [attempt EXCEPT ![c] = 1]

\* What the awaiting side of call c makes of its thread's result: go on with
\* the next function, back off, or return.  It also returns early: a catalog
\* may lack the model asked for, and file metadata may forbid the download or
\* show that there is nothing to download.
Settle(c, result) ==
    \/ /\ result = "ok" /\ stage[c] < Len(op[c])
       /\ stage' = [stage EXCEPT ![c] = @ + 1] /\ attempt' = [attempt EXCEPT ![c] = 1]
       /\ st' = [st EXCEPT ![c] = "permit"] /\ UNCHANGED op
    \/ /\ Retryable(c, result)
       /\ st' = [st EXCEPT ![c] = "backoff"] /\ UNCHANGED <<op, stage, attempt>>
    \/ ~Retryable(c, result) /\ Return(c)

\* The thread returns or raises: "fault" a connection fault, "error" anything
\* else, "deadline" the SDK's deadline.  An RPC that failed may have been
\* carried out all the same.  Nobody hears of a thread whose await is over.
ThreadEnds(c) ==
    /\ thread[c] = "run"
    /\ \E result \in {"ok", "fault", "error", "deadline"} :
         /\ result = "deadline" <=> rpc[c] >= RpcTimeout
         /\ result = "ok" => ~GoesOn(c)
         /\ \E done \in {0, 1} :
              /\ done = 1 => HasEffect(c)
              /\ result = "ok" /\ HasEffect(c) => done = 1
              /\ sent' = [sent EXCEPT ![c] = @ + done]
         /\ IF st[c] = "await" THEN Settle(c, result) ELSE Return(c)
    /\ thread' = [thread EXCEPT ![c] = "none"] /\ clock' = [clock EXCEPT ![c] = 0]
    /\ left' = [left EXCEPT ![c] = 0] /\ rpc' = [rpc EXCEPT ![c] = 0]
    /\ lag' = [lag EXCEPT ![c] = 0]
    /\ UNCHANGED workers

\* The await of call c is over.  Work that is still queued is withdrawn; a
\* thread that runs goes on, and without it c would be free.
Abandon(c, how) ==
    /\ IF thread[c] = "run"
       THEN st' = [st EXCEPT ![c] = how] /\ UNCHANGED <<op, stage, attempt, thread, clock>>
       ELSE /\ Return(c) /\ thread' = [thread EXCEPT ![c] = "none"]
            /\ clock' = [clock EXCEPT ![c] = 0]
    /\ UNCHANGED <<workers, left, rpc, lag, sent>>

\* wait_for gives up.
Timeout(c) == st[c] = "await" /\ clock[c] = Deadline /\ Abandon(c, "timeout")

\* The task that makes the call is cancelled.
CancelCall(c) == st[c] \in {"permit", "await", "backoff"} /\ Abandon(c, "cancelled")

\* Mutant: the attempts are counted from one again.
RetryAfresh(c) ==
    /\ st[c] = "backoff" /\ st' = [st EXCEPT ![c] = "permit"]
    /\ attempt' = [attempt EXCEPT ![c] = 1]
    /\ UNCHANGED <<workers, op, stage, clock, threads, sent>>

\* The backoff is over; it was spent without a permit.
Retry(c) ==
    /\ st[c] = "backoff" /\ st' = [st EXCEPT ![c] = "permit"]
    /\ attempt' = [attempt EXCEPT ![c] = @ + 1]
    /\ UNCHANGED <<workers, op, stage, clock, threads, sent>>

ApiStep(c) ==
    \/ Acquire(c) \/ StartThread(c) \/ NextRpc(c) \/ ThreadEnds(c) \/ Timeout(c) \/ Retry(c)

\* What happens without the provider: its answer may never come, the SDK's
\* deadline does.
ApiDue(c) ==
    \/ Acquire(c) \/ StartThread(c) \/ Timeout(c) \/ Retry(c)
    \/ rpc[c] >= RpcTimeout /\ (NextRpc(c) \/ ThreadEnds(c))

-----------------------------------------------------------------------------
\* "Mutations and metered generation NEVER retry here": however its response
\* was lost, whoever gave up on it, the provider carries a call out at most
\* once.
OnceAtProvider == \A c \in Calls : sent[c] <= 1

\* "The Client timeout cancels the RPC so the thread can exit": whichever way
\* its await ended (a timeout and a cancellation give the permit back and leave
\* the thread running), a thread is gone within the native deadlines of its RPCs
\* from when it got its worker.  So a thread with one RPC that got its worker
\* within the margin never runs past its call's await deadline; one that had to
\* queue longer, or makes two RPCs, may, by no more than this bound says.
ThreadsInTime ==
    \A c \in Calls : thread[c] = "run" =>
        clock[c] <= lag[c] + RpcsOf(Doing(c)) * (Deadline - Margin)
=============================================================================
