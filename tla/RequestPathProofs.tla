-------------------------- MODULE RequestPathProofs --------------------------
(***************************************************************************)
(* Proofs about RequestPath, for any set of connections, tokens, grants,   *)
(* configurations, pool sizes and deadlines: nobody is served beyond a     *)
(* grant or refused without a cause, the provider carries out a call once, *)
(* and every thread ends within the deadlines of its RPCs.                 *)
(*                                                                         *)
(* The two components share no variable, so each has its own inductive     *)
(* invariant (ApiInv, AuthInv), kept by its own actions.                   *)
(***************************************************************************)
EXTENDS RequestPath, TLAPS

-----------------------------------------------------------------------------
(* The API plane *)

\* What call c and its thread know of each other.  A thread whose await is over
\* is still there; a queued one has an await.
Linked(c) ==
    /\ st[c] = "idle" => thread[c] = "none" /\ stage[c] = 1 /\ attempt[c] = 1
    /\ st[c] # "idle" => op[c] \in Operations /\ stage[c] \in 1..Len(op[c])
    /\ st[c] \in {"permit", "backoff"} => thread[c] = "none"
    /\ st[c] = "backoff" => attempt[c] < ReadAttempts
    /\ st[c] \in {"timeout", "cancelled"} => thread[c] = "run"
    /\ st[c] # "await" /\ thread[c] # "run" => clock[c] = 0
    /\ st[c] = "await" => clock[c] <= Deadline
    /\ thread[c] = "run" => left[c] \in 1..RpcsOf(Doing(c)) /\ rpc[c] <= RpcTimeout

\* The provider has done nothing yet for a call under way, unless a video is
\* being polled for.
Unspent(c) ==
    /\ sent[c] <= 1
    /\ st[c] # "idle" => \/ sent[c] = 0
                         \/ thread[c] = "run" /\ Doing(c) = "video" /\ left[c] = 1

\* The RPCs that are over took no longer than each may.
Paced(c) ==
    thread[c] = "run" =>
        clock[c] <= lag[c] + rpc[c]
                      + (IF left[c] < RpcsOf(Doing(c)) THEN RpcTimeout ELSE 0)

CallInv(c) == Linked(c) /\ Unspent(c) /\ Paced(c)

ApiInv == /\ ApiTypeOK
          /\ \A c \in Calls : CallInv(c)

\* An operation has one or two functions, and only its last one changes
\* anything at the provider.
LEMMA OperationShape ==
    \A o \in Operations :
        /\ Len(o) \in 1..2
        /\ \A i \in 1..Len(o) : o[i] \in Work
        /\ Len(o) = 2 => o[1] \in {"probe", "read"}
<1> DEFINE Shaped(o) == /\ Len(o) \in 1..2
                        /\ \A i \in 1..Len(o) : o[i] \in Work
                        /\ Len(o) = 2 => o[1] \in {"probe", "read"}
<1>1. ASSUME NEW w \in Work PROVE Shaped(<<w>>)
  OBVIOUS
<1>2. ASSUME NEW v \in {"probe", "read"}, NEW w \in Work PROVE Shaped(<<v, w>>)
  BY DEF Work
<1> HIDE DEF Shaped
<1>3. Operations = {<<"probe">>, <<"read">>, <<"mutate">>, <<"video">>} \cup
                   {<<"probe", "sample">>, <<"probe", "mutate">>, <<"read", "read">>}
  BY DEF Operations, probe_models, chat, vision, chat_files, search, code_execution,
       resolve_model, generate_image, generate_video, extend_video, upload_file,
       delete_file, list_files, get_file, get_file_content
<1>4. \A o \in Operations : Shaped(o)
  BY <1>1, <1>2, <1>3 DEF Work
<1>5. QED
  BY <1>4 DEF Shaped

LEMMA ApiInitInv == ApiInit => ApiInv
  BY ApiConstants DEF ApiInit, ApiInv, CallInv, ApiTypeOK, Linked, Unspent, Paced,
     Over, ReadAttempts

\* Nothing of call d changes.
Same(d) ==
    /\ op'[d] = op[d] /\ stage'[d] = stage[d] /\ attempt'[d] = attempt[d]
    /\ st'[d] = st[d] /\ clock'[d] = clock[d] /\ thread'[d] = thread[d]
    /\ left'[d] = left[d] /\ rpc'[d] = rpc[d] /\ lag'[d] = lag[d] /\ sent'[d] = sent[d]

\* The invariant of a call depends on its own components only.
LEMMA SameInv == ASSUME NEW d \in Calls, CallInv(d), Same(d) PROVE CallInv(d)'
  BY DEF CallInv, Same, Linked, Unspent, Paced, Doing, RpcsOf

LEMMA SentTyped == ASSUME ApiInv, NEW c \in Calls PROVE sent[c] \in 0..1
<1>1. Unspent(c) /\ sent[c] \in 0..ReadAttempts
  BY DEF ApiInv, CallInv, ApiTypeOK
<1>2. QED
  BY <1>1 DEF Unspent, ReadAttempts

\* What is to be shown of a call that goes to wait for a permit.
LEMMA WaitsLinked ==
    ASSUME NEW c \in Calls, op'[c] \in Operations, stage'[c] \in 1..Len(op'[c]),
           st'[c] = "permit", thread'[c] = "none", clock'[c] = 0
    PROVE  Linked(c)'
  BY DEF Linked

\* The steps of a call, one lemma each.
LEMMA BeginInv == ASSUME ApiInv, NEW c \in Calls, Begin(c) PROVE ApiInv'
<1> USE ApiConstants DEF ApiInv, CallInv
<1>1. ApiTypeOK'
  BY DEF ApiTypeOK, Linked, Unspent, threads, ReadAttempts, Over, Begin
<1>2. ASSUME NEW d \in Calls, d # c PROVE CallInv(d)'
  <2>1. Same(d)
    BY <1>2 DEF ApiTypeOK, Same, threads, ReadAttempts, Over, Begin
  <2>2. QED
    BY <2>1, SameInv
<1>3. Linked(c)'
  <2>1. PICK o \in Ops : op' = [op EXCEPT ![c] = o]
    BY DEF Begin
  <2>2. o \in Operations /\ op'[c] = o /\ stage'[c] = 1 /\ st'[c] = "permit"
    BY <2>1 DEF ApiTypeOK, Begin, Linked
  <2>3. ASSUME NEW n \in 1..2 PROVE 1 \in 1..n
    OBVIOUS
  <2>4. thread'[c] = "none" /\ clock'[c] = 0
    BY DEF ApiTypeOK, Linked, Begin, threads
  <2>5. stage'[c] \in 1..Len(op'[c])
    <3>1. Len(o) \in 1..2
      BY <2>2, OperationShape
    <3>2. 1 \in 1..Len(o)
      BY <3>1, <2>3
    <3>3. QED
      BY <2>2, <3>2
  <2>6. QED
    BY <2>2, <2>4, <2>5, WaitsLinked
<1>4. Unspent(c)'
  BY DEF ApiTypeOK, Linked, Unspent, Doing, threads, ReadAttempts, Over, Begin
<1>5. Paced(c)'
  BY DEF ApiTypeOK, Linked, Paced, Doing, threads, ReadAttempts, Over, Begin
<1>6. QED
  BY <1>1, <1>2, <1>3, <1>4, <1>5

LEMMA AcquireInv == ASSUME ApiInv, NEW c \in Calls, Acquire(c) PROVE ApiInv'
<1> USE ApiConstants DEF ApiInv, CallInv
<1>1. ApiTypeOK'
  BY DEF ApiTypeOK, Linked, Unspent, threads, ReadAttempts, Over, Acquire
<1>2. ASSUME NEW d \in Calls, d # c PROVE CallInv(d)'
  <2>1. Same(d)
    BY <1>2 DEF ApiTypeOK, Same, threads, ReadAttempts, Over, Acquire
  <2>2. QED
    BY <2>1, SameInv
<1>3. Linked(c)'
  <2>1. /\ st[c] = "permit" /\ st'[c] = "await" /\ thread'[c] = "queued" /\ op'[c] = op[c]
        /\ stage'[c] = stage[c] /\ clock'[c] = clock[c] /\ clock[c] = 0
    BY DEF ApiTypeOK, Linked, Acquire
  <2>2. QED
    BY <2>1 DEF Linked
<1>4. Unspent(c)'
  BY DEF ApiTypeOK, Linked, Unspent, Doing, threads, ReadAttempts, Over, Acquire
<1>5. Paced(c)'
  BY DEF ApiTypeOK, Linked, Paced, Doing, threads, ReadAttempts, Over, Acquire
<1>6. QED
  BY <1>1, <1>2, <1>3, <1>4, <1>5

LEMMA StartThreadInv == ASSUME ApiInv, NEW c \in Calls, StartThread(c) PROVE ApiInv'
<1> USE ApiConstants DEF ApiInv, CallInv
<1>1. ApiTypeOK'
  <2>1. st[c] = "await"
    BY DEF ApiTypeOK, Linked, Over, StartThread
  <2>2. clock[c] \in 0..Deadline
    BY <2>1 DEF ApiTypeOK, Linked
  <2>3. QED
    BY <2>2 DEF ApiTypeOK, threads, StartThread, RpcsOf
<1>2. ASSUME NEW d \in Calls, d # c PROVE CallInv(d)'
  <2>1. Same(d)
    BY <1>2 DEF ApiTypeOK, Same, threads, ReadAttempts, Over, StartThread, RpcsOf,
       RpcTimeout, Work
  <2>2. QED
    BY <2>1, SameInv
<1>3. Linked(c)'
  BY DEF ApiTypeOK, Linked, Doing, threads, ReadAttempts, Over, StartThread, RpcsOf,
     RpcTimeout, Work
<1>4. Unspent(c)'
  BY DEF ApiTypeOK, Linked, Unspent, Doing, threads, ReadAttempts, Over, StartThread,
     RpcsOf, RpcTimeout, Work
<1>5. Paced(c)'
  BY DEF ApiTypeOK, Linked, Paced, Doing, threads, ReadAttempts, Over,
     StartThread, RpcsOf, RpcTimeout, Work
<1>6. QED
  BY <1>1, <1>2, <1>3, <1>4, <1>5

LEMMA NextRpcInv == ASSUME ApiInv, NEW c \in Calls, NextRpc(c) PROVE ApiInv'
<1> USE ApiConstants DEF ApiInv, CallInv
<1>1. ApiTypeOK'
  <2>1. op' \in [Calls -> Operations \cup {<<>>}]
    BY DEF ApiTypeOK, Linked, Unspent, Doing, threads, ReadAttempts, Over, NextRpc,
       RpcsOf, RpcTimeout, Work, GoesOn, HasEffect
  <2>2. stage' \in [Calls -> 1..2] /\ attempt' \in [Calls -> 1..ReadAttempts]
    BY DEF ApiTypeOK, Linked, Unspent, Doing, threads, ReadAttempts, Over, NextRpc,
       RpcsOf, RpcTimeout, Work, GoesOn, HasEffect
  <2>3. st' \in [Calls -> {"permit", "await", "backoff"} \cup Over]
    BY DEF ApiTypeOK, Linked, Unspent, Doing, threads, ReadAttempts, Over, NextRpc,
       RpcsOf, RpcTimeout, Work, GoesOn, HasEffect
  <2>4. clock' \in [Calls -> 0..(3 * Deadline)]
    BY DEF ApiTypeOK, Linked, Unspent, Doing, threads, ReadAttempts, Over, NextRpc,
       RpcsOf, RpcTimeout, Work, GoesOn, HasEffect
  <2>5. thread' \in [Calls -> {"none", "queued", "run"}]
    BY DEF ApiTypeOK, Linked, Unspent, Doing, threads, ReadAttempts, Over, NextRpc,
       RpcsOf, RpcTimeout, Work, GoesOn, HasEffect
  <2>6. left' \in [Calls -> 0..2] /\ rpc' \in [Calls -> 0..Deadline]
    BY DEF ApiTypeOK, Linked, Unspent, Doing, threads, ReadAttempts, Over, NextRpc,
       RpcsOf, RpcTimeout, Work, GoesOn, HasEffect
  <2>7. lag' \in [Calls -> 0..Deadline]
    BY DEF ApiTypeOK, Linked, Unspent, Doing, threads, ReadAttempts, Over, NextRpc,
       RpcsOf, RpcTimeout, Work, GoesOn, HasEffect
  <2>8. sent' \in [Calls -> 0..ReadAttempts]
    <3>1. sent[c] \in 0..1
      BY SentTyped
    <3>2. sent' = sent \/ sent' = [sent EXCEPT ![c] = @ + 1]
      BY DEF ApiTypeOK, NextRpc
    <3>3. sent[c] \in 0..3 /\ sent[c] + 1 \in 0..3
      BY <3>1
    <3>4. QED
      BY <3>2, <3>3 DEF ApiTypeOK, ReadAttempts
  <2>9. QED
    BY <2>1, <2>2, <2>3, <2>4, <2>5, <2>6, <2>7, <2>8 DEF ApiTypeOK, threads,
       ReadAttempts, Over, NextRpc, RpcsOf, RpcTimeout, Work, GoesOn, HasEffect
<1>2. ASSUME NEW d \in Calls, d # c PROVE CallInv(d)'
  <2>1. Same(d)
    BY <1>2 DEF ApiTypeOK, Same, threads, ReadAttempts, Over, NextRpc, RpcsOf,
       RpcTimeout, Work, GoesOn, HasEffect
  <2>2. QED
    BY <2>1, SameInv
<1>3. Linked(c)'
  BY DEF ApiTypeOK, Linked, Doing, threads, ReadAttempts, Over, NextRpc, RpcsOf,
     RpcTimeout, Work, GoesOn, HasEffect
<1>4. Unspent(c)'
  BY DEF ApiTypeOK, Linked, Unspent, Doing, threads, ReadAttempts, Over, NextRpc,
     RpcsOf, RpcTimeout, Work, GoesOn, HasEffect
<1>5. Paced(c)'
  BY DEF ApiTypeOK, Linked, Paced, Doing, threads, ReadAttempts, Over,
     NextRpc, RpcsOf, RpcTimeout, Work, GoesOn, HasEffect
<1>6. QED
  BY <1>1, <1>2, <1>3, <1>4, <1>5

LEMMA ReturnTyped ==
    ASSUME ApiTypeOK, NEW c \in Calls, Return(c)
    PROVE  /\ op' \in [Calls -> Operations \cup {<<>>}]
           /\ stage' \in [Calls -> 1..2] /\ attempt' \in [Calls -> 1..ReadAttempts]
           /\ st' \in [Calls -> {"permit", "await", "backoff"} \cup Over]
  BY DEF ApiTypeOK, Return, ReadAttempts, Over

LEMMA ThreadEndsInv == ASSUME ApiInv, NEW c \in Calls, ThreadEnds(c) PROVE ApiInv'
<1> USE OperationShape, ApiConstants DEF ApiInv, CallInv
<1>1. PICK result \in {"ok", "fault", "error", "deadline"}, done \in {0, 1} :
        /\ done = 1 => HasEffect(c)
        /\ sent' = [sent EXCEPT ![c] = @ + done]
        /\ IF st[c] = "await" THEN Settle(c, result) ELSE Return(c)
  BY DEF ThreadEnds
<1>2. st[c] # "idle" /\ op[c] \in Operations /\ stage[c] \in 1..Len(op[c]) /\ thread[c] = "run"
  BY DEF ThreadEnds, Linked
<1>3. sent'[c] \in 0..1 /\ (sent'[c] = 1 => Doing(c) \in {"sample", "mutate", "video"})
  <2>1. sent[c] \in 0..1 /\ sent'[c] = sent[c] + done
    BY <1>1, SentTyped DEF ApiTypeOK
  <2>2. sent[c] = 0 \/ (Doing(c) = "video" /\ left[c] = 1)
    BY <1>2 DEF Unspent
  <2>3. QED
    BY <1>1, <2>1, <2>2 DEF HasEffect
<1>4. /\ sent' \in [Calls -> 0..ReadAttempts] /\ workers' = workers
      /\ thread' \in [Calls -> {"none", "queued", "run"}] /\ clock' \in [Calls -> 0..(3 * Deadline)]
      /\ left' \in [Calls -> 0..2] /\ rpc' \in [Calls -> 0..Deadline]
      /\ lag' \in [Calls -> 0..Deadline]
  <2>1. sent' \in [Calls -> 0..ReadAttempts]
    BY <1>1, <1>3 DEF ApiTypeOK, ReadAttempts
  <2>2. QED
    BY <2>1 DEF ThreadEnds, ApiTypeOK
<1>5. ASSUME NEW d \in Calls, d # c PROVE CallInv(d)'
  <2>1. Same(d)
    BY <1>1, <1>5 DEF ApiTypeOK, Same, ThreadEnds, Settle, Return
  <2>2. QED
    BY <2>1, SameInv
<1>6. thread'[c] = "none" /\ clock'[c] = 0
  BY DEF ThreadEnds, ApiTypeOK
<1>7. CASE Return(c)
  <2>1. ApiTypeOK'
    BY <1>4, <1>7, ReturnTyped DEF ApiTypeOK
  <2>2. st'[c] = "idle" /\ stage'[c] = 1 /\ attempt'[c] = 1
    BY <1>7 DEF Return, ApiTypeOK
  <2>3. CallInv(c)'
    BY <1>3, <1>6, <2>2 DEF Linked, Unspent, Paced
  <2>4. QED
    BY <1>5, <2>1, <2>3
<1>8. CASE /\ stage[c] < Len(op[c])
           /\ stage' = [stage EXCEPT ![c] = @ + 1] /\ attempt' = [attempt EXCEPT ![c] = 1]
           /\ st' = [st EXCEPT ![c] = "permit"] /\ UNCHANGED op
  <2>1. stage[c] = 1 /\ Len(op[c]) = 2
    BY <1>2, <1>8
  <2>2. sent'[c] = 0
    BY <1>2, <1>3, <2>1 DEF Doing
  <2>3. ApiTypeOK'
    BY <1>4, <1>8, <2>1 DEF ApiTypeOK, ReadAttempts
  <2>4. st'[c] = "permit" /\ stage'[c] = 2 /\ op'[c] = op[c]
    BY <1>8, <2>1 DEF ApiTypeOK
  <2>5. CallInv(c)'
    <3>1. Linked(c)'
      <4>1. stage'[c] \in 1..Len(op'[c])
        BY <2>1, <2>4
      <4>2. QED
        BY <1>2, <1>6, <2>4, <4>1, WaitsLinked
    <3>2. QED
      BY <1>6, <2>2, <2>4, <3>1 DEF Unspent, Paced
  <2>6. QED
    BY <1>5, <2>3, <2>5
<1>9. CASE Retryable(c, result) /\ st' = [st EXCEPT ![c] = "backoff"]
           /\ UNCHANGED <<op, stage, attempt>>
  <2>1. sent'[c] = 0 /\ attempt[c] < ReadAttempts
    BY <1>3, <1>9 DEF Retryable, Pool
  <2>2. ApiTypeOK'
    BY <1>4, <1>9 DEF ApiTypeOK
  <2>3. st'[c] = "backoff"
    BY <1>9 DEF ApiTypeOK
  <2>4. CallInv(c)'
    BY <1>2, <1>6, <1>9, <2>1, <2>3 DEF Linked, Unspent, Paced
  <2>5. QED
    BY <1>5, <2>2, <2>4
<1>10. QED
  BY <1>1, <1>7, <1>8, <1>9 DEF Settle

\* Timeout and cancellation: a thread that runs is left running, and its clock.
LEMMA AbandonInv ==
    ASSUME ApiInv, NEW c \in Calls, NEW how \in {"timeout", "cancelled"}, Abandon(c, how),
           st[c] \in {"permit", "await", "backoff"},
           how = "timeout" => st[c] = "await" /\ clock[c] = Deadline
    PROVE  ApiInv'
<1> USE ApiConstants DEF ApiInv, CallInv
<1>1. clock' \in [Calls -> 0..(3 * Deadline)]
  <2>1. 0 \in 0..(3 * Deadline)
    OBVIOUS
  <2>2. QED
    BY <2>1 DEF ApiTypeOK, Abandon
<1>2. ASSUME NEW d \in Calls, d # c PROVE CallInv(d)'
  <2>1. Same(d)
    BY <1>2 DEF ApiTypeOK, Same, Abandon, Return
  <2>2. QED
    BY <2>1, SameInv
<1>3. CASE thread[c] = "run"
  <2>1. ApiTypeOK'
    BY <1>1, <1>3 DEF ApiTypeOK, Abandon, Over
  <2>2. Linked(c)' /\ Unspent(c)' /\ Paced(c)'
    BY <1>3 DEF ApiTypeOK, Linked, Unspent, Paced, Doing, Abandon, RpcsOf, RpcTimeout
  <2>3. QED
    BY <1>2, <2>1, <2>2
<1>4. CASE thread[c] # "run"
  <2>1. Return(c) /\ thread' = [thread EXCEPT ![c] = "none"]
    BY <1>4 DEF Abandon
  <2>2. ApiTypeOK'
    BY <1>1, <2>1, ReturnTyped DEF ApiTypeOK, Abandon
  <2>3. st'[c] = "idle" /\ thread'[c] = "none" /\ stage'[c] = 1 /\ attempt'[c] = 1
        /\ clock'[c] = 0 /\ sent'[c] = sent[c]
    BY <2>1 DEF ApiTypeOK, Abandon, Return
  <2>4. CallInv(c)'
    BY <2>3 DEF Linked, Unspent, Paced
  <2>5. QED
    BY <1>2, <2>2, <2>4
<1>5. QED
  BY <1>3, <1>4

LEMMA RetryInv == ASSUME ApiInv, NEW c \in Calls, Retry(c) PROVE ApiInv'
<1> USE ApiConstants DEF ApiInv, CallInv
<1>1. ApiTypeOK'
  <2>1. op' \in [Calls -> Operations \cup {<<>>}]
    BY DEF ApiTypeOK, Linked, Unspent, Doing, threads, ReadAttempts, Over, Retry
  <2>2. stage' \in [Calls -> 1..2] /\ attempt' \in [Calls -> 1..ReadAttempts]
    <3>1. attempt[c] \in 1..3 /\ attempt[c] < 3
      BY DEF ApiTypeOK, Linked, ReadAttempts, Retry
    <3>2. QED
      BY <3>1 DEF ApiTypeOK, Retry, ReadAttempts
  <2>3. st' \in [Calls -> {"permit", "await", "backoff"} \cup Over]
    BY DEF ApiTypeOK, Linked, Unspent, Doing, threads, ReadAttempts, Over, Retry
  <2>4. clock' \in [Calls -> 0..(3 * Deadline)]
    BY DEF ApiTypeOK, Linked, Unspent, Doing, threads, ReadAttempts, Over, Retry
  <2>5. thread' \in [Calls -> {"none", "queued", "run"}]
    BY DEF ApiTypeOK, Linked, Unspent, Doing, threads, ReadAttempts, Over, Retry
  <2>6. left' \in [Calls -> 0..2] /\ rpc' \in [Calls -> 0..Deadline]
    BY DEF ApiTypeOK, Linked, Unspent, Doing, threads, ReadAttempts, Over, Retry
  <2>7. lag' \in [Calls -> 0..Deadline]
    BY DEF ApiTypeOK, Linked, Unspent, Doing, threads, ReadAttempts, Over, Retry
  <2>8. sent' \in [Calls -> 0..ReadAttempts]
    BY DEF ApiTypeOK, Linked, Unspent, Doing, threads, ReadAttempts, Over, Retry
  <2>9. QED
    BY <2>1, <2>2, <2>3, <2>4, <2>5, <2>6, <2>7, <2>8 DEF ApiTypeOK, threads,
       ReadAttempts, Over, Retry
<1>2. ASSUME NEW d \in Calls, d # c PROVE CallInv(d)'
  <2>1. Same(d)
    BY <1>2 DEF ApiTypeOK, Same, threads, ReadAttempts, Over, Retry
  <2>2. QED
    BY <2>1, SameInv
<1>3. Linked(c)'
  BY DEF ApiTypeOK, Linked, Doing, threads, ReadAttempts, Over, Retry
<1>4. Unspent(c)'
  BY DEF ApiTypeOK, Linked, Unspent, Doing, threads, ReadAttempts, Over, Retry
<1>5. Paced(c)'
  BY DEF ApiTypeOK, Linked, Paced, Doing, threads, ReadAttempts, Over, Retry
<1>6. QED
  BY <1>1, <1>2, <1>3, <1>4, <1>5

LEMMA TickInv == ASSUME ApiInv, Tick PROVE ApiInv'
<1> USE ApiConstants DEF ApiInv, CallInv
<1>1. rpc' \in [Calls -> 0..Deadline]
  BY DEF ApiTypeOK, Tick, Running, RpcTimeout
<1>2. ASSUME NEW d \in Calls PROVE CallInv(d)' /\ clock'[d] \in 0..(3 * Deadline)
  <2> DEFINE N == RpcsOf(Doing(d))
             spent == IF left[d] < N THEN RpcTimeout ELSE 0
  <2>1. /\ op'[d] = op[d] /\ stage'[d] = stage[d] /\ attempt'[d] = attempt[d]
        /\ st'[d] = st[d] /\ thread'[d] = thread[d] /\ left'[d] = left[d]
        /\ lag'[d] = lag[d] /\ sent'[d] = sent[d]
    BY DEF Tick
  <2>2. /\ clock[d] \in Nat /\ lag[d] \in 0..Deadline /\ rpc[d] \in Nat
        /\ spent \in 0..RpcTimeout /\ RpcTimeout \in 0..Deadline
    BY DEF ApiTypeOK, RpcTimeout
  <2>3. Doing(d)' = Doing(d)
    BY <2>1 DEF Doing
  <2>4. /\ clock'[d] = IF st[d] = "await" \/ thread[d] = "run" THEN clock[d] + 1 ELSE clock[d]
        /\ rpc'[d] = IF thread[d] = "run" THEN rpc[d] + 1 ELSE rpc[d]
        /\ st[d] = "await" => clock[d] < Deadline
        /\ thread[d] = "run" => rpc[d] < RpcTimeout
    BY DEF Tick, Running
  <2>5. thread[d] = "run" => clock[d] <= lag[d] + rpc[d] + spent
    BY DEF Paced
  <2>6. Linked(d)' /\ Unspent(d)'
    BY <2>1, <2>2, <2>3, <2>4 DEF Linked, Unspent
  <2> HIDE DEF N
  <2>7. thread[d] = "run" => clock'[d] <= lag[d] + rpc'[d] + spent
    BY <2>2, <2>4, <2>5
  <2>8. Paced(d)'
    BY <2>1, <2>3, <2>7 DEF Paced, N
  <2>9. clock'[d] \in 0..(3 * Deadline)
    <3>1. CASE thread[d] = "run"
      BY <2>2, <2>4, <2>7, <3>1
    <3>2. CASE thread[d] # "run" /\ st[d] = "await"
      BY <2>2, <2>4, <3>2
    <3>3. CASE thread[d] # "run" /\ st[d] # "await"
      BY <2>4, <3>3 DEF Linked
    <3>4. QED
      BY <3>1, <3>2, <3>3
  <2>10. QED
    BY <2>6, <2>8, <2>9
<1>3. clock' \in [Calls -> 0..(3 * Deadline)]
  BY <1>2 DEF Tick
<1>4. ApiTypeOK'
  BY <1>1, <1>3 DEF ApiTypeOK, Tick
<1>5. QED
  BY <1>2, <1>4

-----------------------------------------------------------------------------
(* The gates *)

\* What a task of the table knows: the answer is None or all that control
\* grants, never more than None for a token revoked before it began, and None
\* for a good token only for want of the scope asked for.
KeyInv(k) ==
    /\ flight[k] # "done" => answer[k] = {}
    /\ answer[k] # {} => /\ "oauth" \in mode /\ k[1] \in Tokens
                         /\ answer[k] = Entitled[k[1]] /\ k[2] \subseteq answer[k]
    /\ k[1] \in revoked /\ k \notin old => answer[k] = {}
    /\ flight[k] = "done" /\ k \notin broken /\ answer[k] = {}
         /\ "oauth" \in mode /\ k[1] \in Tokens \ revoked
         => ~(k[2] \subseteq Entitled[k[1]])

Waiting == {"wait_connect", "wait_scope"}

\* Where a request stands and what it has: a body is read with claims only,
\* and whoever introspects has neither claims nor tools.
Placed(r) ==
    /\ at[r] \in {"idle", "local", "connect", "ask"} \cup Waiting => claims[r] = {}
    /\ at[r] \in {"idle", "local", "remote", "connect", "ask"} \cup Waiting => runs[r] = {}
    /\ at[r] = "scope" /\ claims[r] = {} => runs[r] = {}
    /\ at[r] \in {"connect", "body", "wait_connect"} => req[r].path = "mcp"
    /\ at[r] = "body" => claims[r] # {}
    /\ at[r] \in {"connect", "body", "scope", "ask"} \cup Waiting => req[r].path # "public"

\* A waiting request waits for the task of its own token and need.
Awaits(r) ==
    /\ asked[r] # <<>> <=> at[r] \in Waiting
    /\ at[r] \in Waiting =>
         /\ asked[r] \in Keys /\ asked[r][1] = req[r].cred
         /\ asked[r][2] = IF at[r] = "wait_connect" THEN {"connect"} ELSE NeededBy(r)

Backed(r) ==
    /\ late[r] => req[r].cred \in revoked /\ \A k \in old : k[1] # req[r].cred
    /\ claims[r] \subseteq May(r)
    /\ claims[r] # {} /\ req[r].cred \in Tokens => claims[r] = Entitled[req[r].cred]

Served(r) ==
    at[r] = "served" /\ Enforced /\ req[r].path # "public" => NeededBy(r) \subseteq May(r)

Denied(r) ==
    at[r] = "denied" /\ "local" \notin mode /\ req[r].cred \in Tokens \ revoked
        => "oauth" \notin mode \/ ~(NeededBy(r) \subseteq Entitled[req[r].cred])

ReqInv(r) == Placed(r) /\ Awaits(r) /\ Backed(r) /\ Served(r) /\ Denied(r)

AuthInv == /\ AuthTypeOK
           /\ \A k \in Keys : KeyInv(k)
           /\ \A r \in Requests : ReqInv(r)

LEMMA NobodyTyped == Nobody \in Request
  BY DEF Nobody, Request

LEMMA AuthInitInv == AuthInit => AuthInv
<1> SUFFICES ASSUME AuthInit PROVE AuthInv
  OBVIOUS
<1> USE AuthConstants
<1>2. AuthTypeOK
  BY NobodyTyped DEF AuthInit, AuthTypeOK
<1>3. ASSUME NEW k \in Keys PROVE KeyInv(k)
  BY DEF AuthInit, KeyInv
<1>4. ASSUME NEW r \in Requests PROVE ReqInv(r)
  BY DEF AuthInit, ReqInv, Placed, Awaits, Backed, Served, Denied, Waiting
<1>5. QED
  BY <1>2, <1>3, <1>4 DEF AuthInv

\* Nothing of request r changes.
ReqSame(r) ==
    /\ req'[r] = req[r] /\ at'[r] = at[r] /\ claims'[r] = claims[r]
    /\ asked'[r] = asked[r] /\ runs'[r] = runs[r] /\ late'[r] = late[r]

\* The invariant of a request depends on its own components, and on control only
\* as far as revocation goes.
LEMMA ReqSameInv ==
    ASSUME NEW r \in Requests, ReqInv(r), ReqSame(r), mode' = mode,
           revoked \subseteq revoked',
           late[r] => \A k \in old' : k[1] # req[r].cred
    PROVE  ReqInv(r)'
  BY DEF ReqSame, ReqInv, Placed, Awaits, Backed, Served, Denied, NeededBy, May, Enforced

LEMMA KeySameInv ==
    ASSUME NEW k \in Keys, KeyInv(k),
           UNCHANGED <<mode, revoked, old, broken>>, answer'[k] = answer[k],
           flight'[k] = flight[k] \/ (flight[k] = "none" /\ flight'[k] = "asking")
    PROVE  KeyInv(k)'
  BY DEF KeyInv

\* The steps of a request, one lemma each: tasks and other requests are as they
\* were, and the request still stands where its claims allow.
LEMMA ArriveInv == ASSUME AuthInv, NEW r \in Requests, Arrive(r) PROVE AuthInv'
<1> USE AuthConstants DEF AuthInv, ReqInv
<1>1. AuthTypeOK'
  BY DEF AuthTypeOK, Arrive, inflights, Goto, Holds, Answered, Waiting
<1>2. ASSUME NEW k \in Keys PROVE KeyInv(k)'
  BY KeySameInv DEF Arrive, inflights
<1>3. ASSUME NEW q \in Requests, q # r PROVE ReqInv(q)'
  <2>1. ReqSame(q)
    BY <1>3 DEF AuthTypeOK, ReqSame, Arrive, inflights, Goto, Holds, Answered, Waiting
  <2>2. QED
    BY <2>1, ReqSameInv DEF Arrive, inflights, Backed
<1>4. Placed(r)'
  BY DEF AuthTypeOK, Request, Placed, Arrive, inflights, Goto, Holds, Answered, Waiting
<1>5. Awaits(r)'
  BY DEF AuthTypeOK, Request, Awaits, NeededBy, Arrive, inflights, Goto, Holds,
     Answered, Waiting
<1>6. Backed(r)'
  <2>1. claims'[r] = {}
    BY DEF AuthTypeOK, Placed, Arrive
  <2>2. late'[r] => req'[r].cred \in revoked' /\ \A k \in old' : k[1] # req'[r].cred
    BY DEF AuthTypeOK, Arrive, inflights
  <2>3. QED
    BY <2>1, <2>2 DEF Backed
<1>7. Served(r)' /\ Denied(r)'
  BY DEF AuthTypeOK, Request, Placed, Backed, Served, Denied, May, NeededBy, Enforced,
     Arrive, inflights, Goto, Holds, Answered, Waiting
<1>8. QED
  BY <1>1, <1>2, <1>3, <1>4, <1>5, <1>6, <1>7

LEMMA LocalAuthInv == ASSUME AuthInv, NEW r \in Requests, LocalAuth(r) PROVE AuthInv'
<1> USE AuthConstants DEF AuthInv, ReqInv
<1>1. AuthTypeOK'
  BY DEF AuthTypeOK, LocalAuth, inflights, Goto, Holds, Answered, Waiting
<1>2. ASSUME NEW k \in Keys PROVE KeyInv(k)'
  BY KeySameInv DEF LocalAuth, inflights
<1>3. ASSUME NEW q \in Requests, q # r PROVE ReqInv(q)'
  <2>1. ReqSame(q)
    BY <1>3 DEF AuthTypeOK, ReqSame, LocalAuth, inflights, Goto, Holds, Answered, Waiting
  <2>2. QED
    BY <2>1, ReqSameInv DEF LocalAuth, inflights, Backed
<1>4. Placed(r)'
  BY DEF AuthTypeOK, Request, Placed, LocalAuth, inflights, Goto, Holds, Answered, Waiting
<1>5. Awaits(r)'
  BY DEF AuthTypeOK, Request, Awaits, NeededBy, LocalAuth, inflights, Goto, Holds,
     Answered, Waiting
<1>6. Backed(r)'
  BY DEF AuthTypeOK, Request, Placed, Backed, May, LocalAuth, inflights, Goto, Holds,
     Answered, Waiting
<1>7. Served(r)' /\ Denied(r)'
  BY DEF AuthTypeOK, Request, Placed, Backed, Served, Denied, May, NeededBy, Enforced,
     LocalAuth, inflights, Goto, Holds, Answered, Waiting
<1>8. QED
  BY <1>1, <1>2, <1>3, <1>4, <1>5, <1>6, <1>7

LEMMA RemoteAuthInv == ASSUME AuthInv, NEW r \in Requests, RemoteAuth(r) PROVE AuthInv'
<1> USE AuthConstants DEF AuthInv, ReqInv
<1>1. AuthTypeOK'
  <2>1. req[r].tools \in SUBSET Tools
    BY DEF AuthTypeOK, Request
  <2>2. runs' \in [Requests -> SUBSET Tools]
    BY <2>1 DEF AuthTypeOK, RemoteAuth, inflights, Goto, Holds, Answered, Waiting,
       Enforced, MatchServiceToken
  <2>3. claims' \in [Requests -> SUBSET Scopes]
    BY DEF AuthTypeOK, RemoteAuth, inflights, Goto, Holds, Answered, Waiting,
       Enforced, MatchServiceToken
  <2>4. QED
    BY <2>2, <2>3 DEF AuthTypeOK, RemoteAuth, inflights, Goto, Holds, Answered,
       Waiting, Enforced, MatchServiceToken
<1>2. ASSUME NEW k \in Keys PROVE KeyInv(k)'
  BY KeySameInv DEF RemoteAuth, inflights
<1>3. ASSUME NEW q \in Requests, q # r PROVE ReqInv(q)'
  <2>1. ReqSame(q)
    BY <1>3 DEF AuthTypeOK, ReqSame, RemoteAuth, inflights, Goto, Holds, Answered,
       Waiting, Enforced, MatchServiceToken
  <2>2. QED
    BY <2>1, ReqSameInv DEF RemoteAuth, inflights, Backed
<1>4. Placed(r)'
  BY DEF AuthTypeOK, Request, Placed, RemoteAuth, inflights, Goto, Holds, Answered,
     Waiting, Enforced, MatchServiceToken
<1>5. Awaits(r)'
  BY DEF AuthTypeOK, Request, Awaits, NeededBy, RemoteAuth, inflights, Goto, Holds,
     Answered, Waiting, Enforced, MatchServiceToken
<1>6. Backed(r)'
  BY DEF AuthTypeOK, Request, Placed, Backed, May, RemoteAuth, inflights, Goto, Holds,
     Answered, Waiting, Enforced, MatchServiceToken
<1>7. Served(r)' /\ Denied(r)'
  BY DEF AuthTypeOK, Request, Placed, Backed, Served, Denied, May, NeededBy, Enforced,
     RemoteAuth, inflights, Goto, Holds, Answered, Waiting, Enforced,
     MatchServiceToken
<1>8. QED
  BY <1>1, <1>2, <1>3, <1>4, <1>5, <1>6, <1>7

LEMMA ReadBodyInv == ASSUME AuthInv, NEW r \in Requests, ReadBody(r) PROVE AuthInv'
<1> USE AuthConstants DEF AuthInv, ReqInv
<1>1. AuthTypeOK'
  <2>1. req[r].tools \in SUBSET Tools
    BY DEF AuthTypeOK, Request
  <2>2. runs' \in [Requests -> SUBSET Tools]
    BY <2>1 DEF AuthTypeOK, ReadBody, inflights, Goto, Holds, Answered, Waiting
  <2>3. claims' \in [Requests -> SUBSET Scopes]
    BY DEF AuthTypeOK, ReadBody, inflights, Goto, Holds, Answered, Waiting
  <2>4. QED
    BY <2>2, <2>3 DEF AuthTypeOK, ReadBody, inflights, Goto, Holds, Answered, Waiting
<1>2. ASSUME NEW k \in Keys PROVE KeyInv(k)'
  BY KeySameInv DEF ReadBody, inflights
<1>3. ASSUME NEW q \in Requests, q # r PROVE ReqInv(q)'
  <2>1. ReqSame(q)
    BY <1>3 DEF AuthTypeOK, ReqSame, ReadBody, inflights, Goto, Holds, Answered, Waiting
  <2>2. QED
    BY <2>1, ReqSameInv DEF ReadBody, inflights, Backed
<1>4. Placed(r)'
  BY DEF AuthTypeOK, Request, Placed, ReadBody, inflights, Goto, Holds, Answered, Waiting
<1>5. Awaits(r)'
  BY DEF AuthTypeOK, Request, Awaits, NeededBy, ReadBody, inflights, Goto, Holds,
     Answered, Waiting
<1>6. Backed(r)'
  BY DEF AuthTypeOK, Request, Placed, Backed, May, ReadBody, inflights, Goto, Holds,
     Answered, Waiting
<1>7. Served(r)' /\ Denied(r)'
  BY DEF AuthTypeOK, Request, Placed, Backed, Served, Denied, May, NeededBy, Enforced,
     ReadBody, inflights, Goto, Holds, Answered, Waiting
<1>8. QED
  BY <1>1, <1>2, <1>3, <1>4, <1>5, <1>6, <1>7

LEMMA CheckScopeInv == ASSUME AuthInv, NEW r \in Requests, CheckScope(r) PROVE AuthInv'
<1> USE AuthConstants DEF AuthInv, ReqInv
<1>1. AuthTypeOK'
  BY DEF AuthTypeOK, CheckScope, inflights, Goto, Holds, Answered, Waiting, NeededBy
<1>2. ASSUME NEW k \in Keys PROVE KeyInv(k)'
  BY KeySameInv DEF CheckScope, inflights
<1>3. ASSUME NEW q \in Requests, q # r PROVE ReqInv(q)'
  <2>1. ReqSame(q)
    BY <1>3 DEF AuthTypeOK, ReqSame, CheckScope, inflights, Goto, Holds, Answered,
       Waiting, NeededBy
  <2>2. QED
    BY <2>1, ReqSameInv DEF CheckScope, inflights, Backed
<1>4. Placed(r)'
  BY DEF AuthTypeOK, Request, Placed, CheckScope, inflights, Goto, Holds, Answered,
     Waiting, NeededBy
<1>5. Awaits(r)'
  BY DEF AuthTypeOK, Request, Awaits, NeededBy, CheckScope, inflights, Goto, Holds,
     Answered, Waiting, NeededBy
<1>6. Backed(r)'
  BY DEF AuthTypeOK, Request, Placed, Backed, May, CheckScope, inflights, Goto, Holds,
     Answered, Waiting, NeededBy
<1>7. Served(r)' /\ Denied(r)'
  BY DEF AuthTypeOK, Request, Placed, Backed, Served, Denied, May, NeededBy, Enforced,
     CheckScope, inflights, Goto, Holds, Answered, Waiting, NeededBy
<1>8. QED
  BY <1>1, <1>2, <1>3, <1>4, <1>5, <1>6, <1>7

LEMMA CancelInv == ASSUME AuthInv, NEW r \in Requests, Cancel(r) PROVE AuthInv'
<1> USE AuthConstants DEF AuthInv, ReqInv
<1>1. AuthTypeOK'
  BY DEF AuthTypeOK, Cancel, inflights, Goto, Holds, Answered, Waiting
<1>2. ASSUME NEW k \in Keys PROVE KeyInv(k)'
  BY KeySameInv DEF Cancel, inflights
<1>3. ASSUME NEW q \in Requests, q # r PROVE ReqInv(q)'
  <2>1. ReqSame(q)
    BY <1>3 DEF AuthTypeOK, ReqSame, Cancel, inflights, Goto, Holds, Answered, Waiting
  <2>2. QED
    BY <2>1, ReqSameInv DEF Cancel, inflights, Backed
<1>4. Placed(r)'
  BY DEF AuthTypeOK, Request, Placed, Cancel, inflights, Goto, Holds, Answered, Waiting
<1>5. Awaits(r)'
  BY DEF AuthTypeOK, Request, Awaits, NeededBy, Cancel, inflights, Goto, Holds,
     Answered, Waiting
<1>6. Backed(r)'
  BY DEF AuthTypeOK, Request, Placed, Backed, May, Cancel, inflights, Goto, Holds,
     Answered, Waiting
<1>7. Served(r)' /\ Denied(r)'
  BY DEF AuthTypeOK, Request, Placed, Backed, Served, Denied, May, NeededBy, Enforced,
     Cancel, inflights, Goto, Holds, Answered, Waiting
<1>8. QED
  BY <1>1, <1>2, <1>3, <1>4, <1>5, <1>6, <1>7

LEMMA RespondInv == ASSUME AuthInv, NEW r \in Requests, Respond(r) PROVE AuthInv'
<1> USE AuthConstants DEF AuthInv, ReqInv
<1>1. AuthTypeOK'
  BY NobodyTyped DEF AuthTypeOK, Respond, inflights, Goto, Holds, Answered, Waiting
<1>2. ASSUME NEW k \in Keys PROVE KeyInv(k)'
  BY KeySameInv DEF Respond, inflights
<1>3. ASSUME NEW q \in Requests, q # r PROVE ReqInv(q)'
  <2>1. ReqSame(q)
    BY <1>3 DEF AuthTypeOK, ReqSame, Respond, inflights, Goto, Holds, Answered, Waiting
  <2>2. QED
    BY <2>1, ReqSameInv DEF Respond, inflights, Backed
<1>4. Placed(r)'
  BY DEF AuthTypeOK, Request, Placed, Respond, inflights, Goto, Holds, Answered, Waiting
<1>5. Awaits(r)'
  BY DEF AuthTypeOK, Request, Awaits, NeededBy, Respond, inflights, Goto, Holds,
     Answered, Waiting
<1>6. Backed(r)'
  BY DEF AuthTypeOK, Request, Placed, Backed, May, Respond, inflights, Goto, Holds,
     Answered, Waiting
<1>7. Served(r)' /\ Denied(r)'
  BY DEF AuthTypeOK, Request, Placed, Backed, Served, Denied, May, NeededBy, Enforced,
     Respond, inflights, Goto, Holds, Answered, Waiting
<1>8. QED
  BY <1>1, <1>2, <1>3, <1>4, <1>5, <1>6, <1>7

\* Request r gets the answer of task k, which it waits for or has just found
\* done.
LEMMA ResumeInv ==
    ASSUME AuthInv, NEW r \in Requests, NEW k \in Keys, NEW where \in Waiting,
           flight[k] = "done", k \notin broken, k[1] = req[r].cred,
           k[2] = IF where = "wait_connect" THEN {"connect"} ELSE NeededBy(r),
           where = "wait_connect" => req[r].path = "mcp",
           req[r].path # "public", runs[r] = {},
           at'[r] = Resumed(where, answer[k]), claims'[r] = answer[k], asked'[r] = <<>>,
           req'[r] = req[r], runs'[r] = runs[r], late'[r] = late[r],
           mode' = mode, revoked' = revoked, old' \subseteq old
    PROVE  ReqInv(r)'
<1> USE AuthConstants
<1>1. ReqInv(r) /\ KeyInv(k)
  BY DEF AuthInv
<1>2. NeededBy(r)' = NeededBy(r) /\ May(r)' = May(r)
  BY DEF NeededBy, May
<1>3. answer[k] # {} => /\ answer[k] = Entitled[req[r].cred] /\ req[r].cred \in Tokens
                        /\ ~late[r] /\ answer[k] = May(r) /\ k[2] \subseteq answer[k]
  BY <1>1 DEF KeyInv, ReqInv, Backed, May
<1>4. Placed(r)' /\ Awaits(r)'
  BY DEF Placed, Awaits, Resumed, Waiting
<1>5. Backed(r)'
  BY <1>1, <1>2, <1>3 DEF ReqInv, Backed
<1>6. Served(r)'
  BY <1>2, <1>3 DEF Served, Resumed, Waiting
<1>7. Denied(r)'
  <2>1. req[r].path = "mcp" => "connect" \in NeededBy(r)
    BY DEF NeededBy, RequiredScope
  <2>2. CASE answer[k] = {}
    BY <1>1, <1>2, <2>1, <2>2 DEF KeyInv, Denied, Waiting
  <2>3. CASE answer[k] # {}
    BY <2>3 DEF Denied, Resumed, Waiting
  <2>4. QED
    BY <2>2, <2>3
<1>8. QED
  BY <1>4, <1>5, <1>6, <1>7 DEF ReqInv

\* A request leaves with an answer that promises nothing.
LEMMA TurnedAwayInv ==
    ASSUME AuthInv, NEW r \in Requests, claims[r] = {},
           \/ at'[r] = "unavailable"
           \/ at'[r] = "denied" /\ req[r].cred \notin Tokens,
           claims'[r] = claims[r], asked'[r] = <<>>,
           req'[r] = req[r], runs'[r] = runs[r], late'[r] = late[r],
           mode' = mode, revoked' = revoked, old' \subseteq old
    PROVE  ReqInv(r)'
  BY DEF AuthInv, ReqInv, Placed, Awaits, Backed, Served, Denied, Waiting

LEMMA IntrospectInv == ASSUME AuthInv, NEW r \in Requests, Introspect(r) PROVE AuthInv'
<1> USE AuthConstants DEF AuthInv
<1> DEFINE need == IF at[r] = "connect" THEN {"connect"} ELSE NeededBy(r)
           wait == IF at[r] = "connect" THEN "wait_connect" ELSE "wait_scope"
           t == req[r].cred
           k == IntrospectionKey(t, need)
<1>1. /\ at[r] \in {"connect", "ask"} /\ claims[r] = {} /\ runs[r] = {} /\ asked[r] = <<>>
      /\ at[r] = "connect" => req[r].path = "mcp"
      /\ req[r].path # "public"
  BY DEF Introspect, ReqInv, Placed, Awaits, Waiting
<1>2. need \in Needs
  <2>1. req[r].path \in {"v1", "mcp", "status"}
    BY <1>1 DEF AuthTypeOK, Request
  <2>2. {"connect"} = RequiredScope("mcp", {})
    BY DEF RequiredScope
  <2>3. NeededBy(r) = RequiredScope(req[r].path, {})
    BY <1>1 DEF NeededBy
  <2>4. QED
    BY <2>1, <2>2, <2>3 DEF Needs
<1>3. t # "none" => k \in Keys /\ k[1] = t /\ k[2] = need
  BY <1>2 DEF AuthTypeOK, Request, Keys, Bearers, IntrospectionKey
<1>4. wait \in Waiting /\ (wait = "wait_connect" <=> at[r] = "connect")
  BY <1>1 DEF Waiting
<1> HIDE DEF need, wait, t, k
<1>5. \/ /\ t = "none" /\ Goto(r, "denied")
         /\ UNCHANGED <<flight, claims, asked>>
      \/ /\ t # "none" /\ flight[k] = "none" /\ UNCHANGED claims
         /\ \/ Goto(r, "unavailable") /\ UNCHANGED <<flight, asked>>
            \/ /\ flight' = [flight EXCEPT ![k] = "asking"]
               /\ Goto(r, wait) /\ asked' = [asked EXCEPT ![r] = k]
      \/ /\ t # "none" /\ flight[k] = "asking"
         /\ Goto(r, wait) /\ asked' = [asked EXCEPT ![r] = k]
         /\ UNCHANGED <<flight, claims>>
      \/ /\ t # "none" /\ flight[k] = "done"
         /\ \/ k \in broken /\ Goto(r, "unavailable") /\ UNCHANGED claims
            \/ k \notin broken /\ Goto(r, Resumed(wait, answer[k])) /\ Holds(r, answer[k])
         /\ UNCHANGED <<flight, asked>>
  BY DEF Introspect, need, wait, t, k
<1>6. UNCHANGED <<mode, revoked, answer, broken, old, req, runs, late>>
  BY DEF Introspect
<1>7. AuthTypeOK'
  <2>1. flight' \in [Keys -> {"none", "asking", "done"}]
    BY <1>3, <1>5 DEF AuthTypeOK
  <2>2. at' \in [Requests -> {"idle", "local", "remote", "connect", "body", "scope",
                              "ask", "wait_connect", "wait_scope"} \cup Answered]
    BY <1>4, <1>5 DEF AuthTypeOK, Goto, Resumed, Waiting, Answered
  <2>3. asked' \in [Requests -> Keys \cup {<<>>}]
    BY <1>3, <1>5 DEF AuthTypeOK
  <2>4. claims' \in [Requests -> SUBSET Scopes]
    BY <1>3, <1>5 DEF AuthTypeOK, Holds
  <2>5. QED
    BY <1>6, <2>1, <2>2, <2>3, <2>4 DEF AuthTypeOK
<1>8. ASSUME NEW i \in Keys PROVE KeyInv(i)'
  <2>1. flight'[i] = flight[i] \/ (flight[i] = "none" /\ flight'[i] = "asking")
    BY <1>3, <1>5 DEF AuthTypeOK
  <2>2. QED
    BY <1>6, <2>1, KeySameInv
<1>9. ASSUME NEW q \in Requests, q # r PROVE ReqInv(q)'
  <2>1. ReqSame(q)
    BY <1>5, <1>6, <1>9 DEF AuthTypeOK, ReqSame, Goto, Holds
  <2>2. QED
    BY <1>6, <2>1, ReqSameInv DEF ReqInv, Backed
<1>10. ReqInv(r)'
  <2>1. CASE at'[r] = "unavailable" /\ claims' = claims /\ asked' = asked
    BY <1>1, <1>6, <2>1, TurnedAwayInv
  <2>2. CASE t = "none" /\ Goto(r, "denied") /\ UNCHANGED <<flight, claims, asked>>
    <3>1. at'[r] = "denied" /\ req[r].cred \notin Tokens
      BY <2>2 DEF AuthTypeOK, Goto, t
    <3>2. QED
      BY <1>1, <1>6, <2>2, <3>1, TurnedAwayInv
  <2>3. CASE t # "none" /\ Goto(r, wait) /\ asked' = [asked EXCEPT ![r] = k] /\ UNCHANGED claims
    <3>1. at'[r] = wait /\ asked'[r] = k /\ claims'[r] = {} /\ runs'[r] = {} /\ req'[r] = req[r]
      BY <1>1, <1>6, <2>3 DEF AuthTypeOK, Goto
    <3>2. NeededBy(r)' = NeededBy(r) /\ k \in Keys
          /\ k[1] = req'[r].cred /\ k[2] = IF wait = "wait_connect" THEN {"connect"} ELSE NeededBy(r)
      BY <1>1, <1>3, <1>4, <1>6, <2>3 DEF NeededBy, t, need
    <3>3. Placed(r)'
      BY <1>1, <1>4, <3>1 DEF Placed, Waiting
    <3>4. Awaits(r)'
      <4>1. k # <<>>
        BY DEF k, IntrospectionKey
      <4>2. QED
        BY <1>4, <3>1, <3>2, <4>1 DEF Awaits
    <3>5. Backed(r)' /\ Served(r)' /\ Denied(r)'
      BY <1>4, <1>6, <3>1 DEF ReqInv, Backed, Served, Denied, Waiting
    <3>6. QED
      BY <3>3, <3>4, <3>5 DEF ReqInv
  <2>4. CASE /\ t # "none" /\ flight[k] = "done" /\ k \notin broken
             /\ Goto(r, Resumed(wait, answer[k])) /\ Holds(r, answer[k])
             /\ UNCHANGED <<flight, asked>>
    <3>1. at'[r] = Resumed(wait, answer[k]) /\ claims'[r] = answer[k] /\ asked'[r] = <<>>
      BY <1>1, <2>4 DEF AuthTypeOK, Goto, Holds
    <3>2. /\ k \in Keys /\ k[1] = req[r].cred
          /\ k[2] = IF wait = "wait_connect" THEN {"connect"} ELSE NeededBy(r)
          /\ wait = "wait_connect" => req[r].path = "mcp"
      BY <1>1, <1>3, <1>4, <2>4 DEF t, need
    <3>3. QED
      BY <1>1, <1>4, <1>6, <2>4, <3>1, <3>2, ResumeInv
  <2>5. QED
    BY <1>5, <2>1, <2>2, <2>3, <2>4 DEF AuthTypeOK, Goto
<1>11. QED
  BY <1>7, <1>8, <1>9, <1>10

\* The steps of a task of introspection and of control.
LEMMA PerformInv == ASSUME AuthInv, NEW k \in Keys, Perform(k) PROVE AuthInv'
<1> USE AuthConstants DEF AuthInv
<1>1. Granted(k[1]) \in SUBSET Scopes
  BY DEF Granted
<1>2. AuthTypeOK'
  BY <1>1 DEF AuthTypeOK, Perform
<1>3. ASSUME NEW i \in Keys, i # k PROVE KeyInv(i)'
  BY <1>3 DEF AuthTypeOK, KeyInv, Perform
<1>4. KeyInv(k)'
  <2>1. k[2] # {}
    BY DEF Keys, Needs, RequiredScope
  <2>2. QED
    BY <2>1 DEF AuthTypeOK, KeyInv, Perform, Granted
<1>5. ASSUME NEW r \in Requests PROVE ReqInv(r)'
  BY ReqSameInv DEF Perform, ReqSame, ReqInv, Backed
<1>6. QED
  BY <1>2, <1>3, <1>4, <1>5

LEMMA FinishInv == ASSUME AuthInv, NEW k \in Keys, Finish(k) PROVE AuthInv'
<1> USE AuthConstants DEF AuthInv
<1>1. ASSUME NEW r \in Requests, asked[r] = k
      PROVE /\ at[r] \in Waiting /\ k # <<>> /\ claims[r] = {} /\ runs[r] = {}
            /\ req[r].path # "public" /\ k[1] = req[r].cred
            /\ k[2] = IF at[r] = "wait_connect" THEN {"connect"} ELSE NeededBy(r)
            /\ at[r] = "wait_connect" => req[r].path = "mcp"
  <2>1. k # <<>>
    BY DEF Keys
  <2>2. QED
    BY <1>1, <2>1 DEF ReqInv, Placed, Awaits, Waiting
<1>2. AuthTypeOK'
  <2>1. /\ flight' \in [Keys -> {"none", "asking", "done"}]
        /\ answer' \in [Keys -> SUBSET Scopes]
        /\ broken' \in SUBSET Keys /\ old' \in SUBSET Keys
    BY DEF AuthTypeOK, Finish
  <2>2. at' \in [Requests -> {"idle", "local", "remote", "connect", "body", "scope",
                              "ask", "wait_connect", "wait_scope"} \cup Answered]
    BY DEF AuthTypeOK, Finish, Deliver, Resumed, Answered
  <2>3. asked' \in [Requests -> Keys \cup {<<>>}]
    BY DEF AuthTypeOK, Finish, Deliver
  <2>4. claims' \in [Requests -> SUBSET Scopes]
    BY DEF AuthTypeOK, Finish, Deliver
  <2>5. QED
    BY <2>1, <2>2, <2>3, <2>4 DEF AuthTypeOK, Finish
<1>3. ASSUME NEW i \in Keys PROVE KeyInv(i)'
  <2>1. CASE i = k
    BY <2>1 DEF AuthTypeOK, KeyInv, Finish
  <2>2. CASE i # k
    BY <2>2 DEF AuthTypeOK, KeyInv, Finish
  <2>3. QED
    BY <2>1, <2>2
<1>4. ASSUME NEW r \in Requests PROVE ReqInv(r)'
  <2>1. UNCHANGED <<mode, revoked, req, runs, late>> /\ old' \subseteq old
    BY DEF Finish
  <2>2. CASE asked[r] # k
    <3>1. ReqSame(r)
      BY <2>1, <2>2 DEF ReqSame, Finish, Deliver
    <3>2. QED
      BY <2>1, <3>1, ReqSameInv DEF ReqInv, Backed
  <2>3. CASE asked[r] = k /\ k \in broken
    <3>1. at'[r] = "unavailable" /\ claims'[r] = claims[r] /\ asked'[r] = <<>>
      BY <2>3 DEF Finish, Deliver
    <3>2. QED
      BY <1>1, <2>1, <2>3, <3>1, TurnedAwayInv
  <2>4. CASE asked[r] = k /\ k \notin broken
    <3>1. /\ at'[r] = Resumed(at[r], answer[k]) /\ claims'[r] = answer[k]
          /\ asked'[r] = <<>> /\ flight[k] = "done"
      BY <2>4 DEF Finish, Deliver
    <3>2. QED
      BY <1>1, <2>1, <2>4, <3>1, ResumeInv
  <2>5. QED
    BY <2>2, <2>3, <2>4
<1>5. QED
  BY <1>2, <1>3, <1>4

LEMMA RevokeInv == ASSUME AuthInv, NEW t \in Tokens, Revoke(t) PROVE AuthInv'
<1> USE AuthConstants DEF AuthInv
<1>1. AuthTypeOK'
  BY DEF AuthTypeOK, Revoke
<1>2. ASSUME NEW k \in Keys PROVE KeyInv(k)'
  BY DEF AuthTypeOK, KeyInv, Revoke
<1>3. ASSUME NEW r \in Requests PROVE ReqInv(r)'
  <2>1. late[r] => \A k \in old' : k[1] # req[r].cred
    BY DEF ReqInv, Backed, Revoke
  <2>2. QED
    BY <2>1, ReqSameInv DEF Revoke, ReqSame
<1>4. QED
  BY <1>1, <1>2, <1>3

-----------------------------------------------------------------------------
(* Both together *)

PathInv == AuthInv /\ ApiInv

LEMMA PathInitInv == Init => PathInv
  BY AuthInitInv, ApiInitInv DEF Init, PathInv

LEMMA RequestNextInv ==
    ASSUME AuthInv, NEW r \in Requests, RequestNext(r) PROVE AuthInv'
  BY ArriveInv, LocalAuthInv, RemoteAuthInv, ReadBodyInv, CheckScopeInv, IntrospectInv,
     CancelInv, RespondInv DEF RequestNext, AuthStep

LEMMA ControlNextInv == ASSUME AuthInv, ControlNext PROVE AuthInv'
  BY PerformInv, FinishInv, RevokeInv DEF ControlNext

LEMMA ApiPartInv == ASSUME ApiInv, ApiPart PROVE ApiInv'
<1>1. ASSUME NEW c \in Calls, CancelCall(c) PROVE ApiInv'
  BY <1>1, AbandonInv DEF CancelCall
<1>2. ASSUME NEW c \in Calls, Timeout(c) PROVE ApiInv'
  BY <1>2, AbandonInv DEF Timeout
<1>3. ASSUME NEW c \in Calls, ApiStep(c) PROVE ApiInv'
  BY <1>2, <1>3, AcquireInv, StartThreadInv, NextRpcInv, ThreadEndsInv, RetryInv DEF ApiStep
<1>4. QED
  BY <1>1, <1>3, TickInv DEF ApiPart

LEMMA ApiStutterInv == ASSUME ApiInv, UNCHANGED apiVars PROVE ApiInv'
<1>1. ApiTypeOK'
  BY DEF ApiInv, ApiTypeOK, apiVars, threads
<1>2. ASSUME NEW c \in Calls PROVE CallInv(c)'
  <2>1. Same(c)
    BY DEF Same, apiVars, threads
  <2>2. QED
    BY <2>1, SameInv DEF ApiInv
<1>3. QED
  BY <1>1, <1>2 DEF ApiInv

LEMMA AuthStutterInv == ASSUME AuthInv, UNCHANGED authVars PROVE AuthInv'
<1>1. AuthTypeOK'
  BY DEF AuthInv, AuthTypeOK, authVars, inflights
<1>2. ASSUME NEW k \in Keys PROVE KeyInv(k)'
  BY KeySameInv DEF AuthInv, authVars, inflights
<1>3. ASSUME NEW r \in Requests PROVE ReqInv(r)'
  <2>1. ReqSame(r)
    BY DEF ReqSame, authVars
  <2>2. late[r] => \A k \in old' : k[1] # req[r].cred
    BY DEF AuthInv, ReqInv, Backed, authVars, inflights
  <2>3. QED
    BY <2>1, <2>2, ReqSameInv DEF AuthInv, authVars
<1>4. QED
  BY <1>1, <1>2, <1>3 DEF AuthInv

LEMMA PathStepInv == ASSUME PathInv, [Next]_vars PROVE PathInv'
<1> USE DEF PathInv
<1>1. CASE \E c \in Calls : Invoke(c)
  <2>1. PICK c \in Calls : Respond(c) /\ Begin(c)
    BY <1>1 DEF Invoke
  <2>2. c \in Requests
    BY CallsAreRequests
  <2>3. QED
    BY <2>1, <2>2, RespondInv, BeginInv
<1>2. CASE (ControlNext \/ \E r \in Requests : AuthPart(r)) /\ UNCHANGED apiVars
  BY <1>2, ControlNextInv, RequestNextInv, ApiStutterInv DEF AuthPart
<1>3. CASE ApiPart /\ UNCHANGED authVars
  BY <1>3, ApiPartInv, AuthStutterInv
<1>4. CASE UNCHANGED vars
  BY <1>4, ApiStutterInv, AuthStutterInv DEF vars
<1>5. QED
  BY <1>1, <1>2, <1>3, <1>4 DEF Next

\* The inductive invariant of the request path: the gates and the API plane
\* are type correct, tasks of introspection hold what control granted, claims
\* are backed by the credential, and calls and their threads agree.
THEOREM PathInvariant == Spec => []PathInv
  BY PathInitInv, PathStepInv, PTL DEF Spec

\* RemoteOAuthMiddleware and what is in front of it let a protected request
\* through only with the scopes that its path and tools need.
THEOREM ServedWithinGrantHolds == Spec => []ServedWithinGrant
<1>1. PathInv => ServedWithinGrant
  BY DEF PathInv, AuthInv, ReqInv, Served, ServedWithinGrant
<1>2. QED
  BY <1>1, PathInvariant, PTL

\* A token that is good and sufficient is never refused, whatever happens to
\* the control service.
THEOREM DeniedForCauseHolds == Spec => []DeniedForCause
<1>1. PathInv => DeniedForCause
  BY DEF PathInv, AuthInv, ReqInv, Denied, DeniedForCause
<1>2. QED
  BY <1>1, PathInvariant, PTL

\* _blocking and _blocking_read: no charged or mutating call is carried out
\* twice by the provider.
THEOREM OnceAtProviderHolds == Spec => []OnceAtProvider
<1>1. PathInv => OnceAtProvider
  BY DEF PathInv, ApiInv, CallInv, Unspent, OnceAtProvider
<1>2. QED
  BY <1>1, PathInvariant, PTL

\* _rpc_timeout: a thread is gone within the native deadlines of its RPCs,
\* also after its await timed out or was cancelled.
THEOREM ThreadsInTimeHolds == Spec => []ThreadsInTime
<1>1. PathInv => ThreadsInTime
  <2> SUFFICES ASSUME PathInv, NEW c \in Calls, thread[c] = "run"
               PROVE  clock[c] <= lag[c] + RpcsOf(Doing(c)) * (Deadline - Margin)
    BY DEF ThreadsInTime
  <2>1. Linked(c) /\ Paced(c) /\ clock[c] \in Nat /\ lag[c] \in Nat /\ rpc[c] \in Nat
    BY ApiConstants DEF PathInv, ApiInv, CallInv, ApiTypeOK
  <2>2. RpcsOf(Doing(c)) \in {1, 2} /\ left[c] \in 1..RpcsOf(Doing(c)) /\ rpc[c] <= Deadline - Margin
    BY <2>1 DEF Linked, RpcsOf, RpcTimeout
  <2>3. CASE RpcsOf(Doing(c)) = 1
    BY <2>1, <2>2, <2>3, ApiConstants DEF Paced
  <2>4. CASE RpcsOf(Doing(c)) = 2
    BY <2>1, <2>2, <2>4, ApiConstants DEF Paced, RpcTimeout
  <2>5. QED
    BY <2>2, <2>3, <2>4
<1>2. QED
  BY <1>1, PathInvariant, PTL
=============================================================================
