----------------------------- MODULE PlaneProofs -----------------------------
(***************************************************************************)
(* Proofs about what stands between a turn and a provider: the circuit     *)
(* breaker of a plane (CircuitBreaker) for any set of calls, threshold,    *)
(* cooldown and provider deadline, and the worker pool of the Build plane  *)
(* behind it (BuildPool) for any set of runs.                              *)
(*                                                                         *)
(* The invariant of the breaker ties every call's admission to it: a       *)
(* running probe holds the half-open window of the present generation, a   *)
(* running plain call of the present generation means the breaker is       *)
(* closed, and what a cancelled probe may still do at the provider is over *)
(* before the fence it left is.                                            *)
(*                                                                         *)
(* The invariant of the pool follows a process from the run that started   *)
(* it: the process a worker has was started for that worker and is read    *)
(* while it works (Kept), and a request that waits went to such a process, *)
(* perhaps one the worker has replaced since (Heard).                      *)
(***************************************************************************)
EXTENDS CircuitBreaker, BuildPool, TLAPS

Window ==
    /\ wait > 0 => open
    /\ halfOpen => open /\ wait = 0

CallInv(c) ==
    /\ call[c].at = "running" => call[c].gen <= generation
    /\ call[c].at = "running" /\ call[c].probe => halfOpen /\ Current(c)
    /\ call[c].at = "running" /\ ~call[c].probe /\ Current(c) => ~open
    /\ call[c].left > 0 => call[c].at = "cancelled"
    /\ call[c].probe /\ call[c].left > 0 => call[c].left <= wait

BreakerInv ==
    /\ TypeOK /\ Window /\ OpenAtThreshold
    /\ ProbeHeld /\ OneProbe
    /\ \A c \in Calls : CallInv(c)

-----------------------------------------------------------------------------
LEMMA CallUpdate ==
    ASSUME NEW r \in CallRecords
    PROVE  /\ [r EXCEPT !.at = "over"] \in CallRecords
           /\ \A n \in 0..Deadline :
                 [r EXCEPT !.at = "cancelled", !.left = n] \in CallRecords
           /\ \A n \in 0..Deadline : [r EXCEPT !.left = n] \in CallRecords
BY DEF CallRecords

LEMMA BreakerInit == Init => BreakerInv
<1> SUFFICES ASSUME Init PROVE BreakerInv
  OBVIOUS
<1> USE BreakerAssumption DEF Init
<1>1. /\ NewCall \in CallRecords
      /\ NewCall.at = "new" /\ NewCall.left = 0
  BY DEF NewCall, CallRecords
<1>2. TypeOK
  <2>1. open \in BOOLEAN /\ halfOpen \in BOOLEAN
    BY Zenon
  <2>2. call \in [Calls -> CallRecords]
    BY <1>1
  <2>3. QED
    BY <2>1, <2>2 DEF TypeOK
<1>3. Window /\ OpenAtThreshold /\ ProbeHeld
  BY DEF Window, OpenAtThreshold, ProbeHeld
<1>4. OneProbe /\ \A c \in Calls : CallInv(c)
  BY <1>1 DEF OneProbe, InFlight, CallInv
<1>5. QED
  BY <1>2, <1>3, <1>4 DEF BreakerInv

\* A closed breaker admits a call, an open one its single probe.
LEMMA AdmitInv == ASSUME BreakerInv, NEW c \in Calls, Admit(c) PROVE BreakerInv'
<1> USE BreakerAssumption DEF BreakerInv
<1>1. TypeOK'
  BY DEF Admit, TypeOK, CallRecords
<1>2. Window' /\ OpenAtThreshold'
  BY DEF Admit, Admissible, Window, OpenAtThreshold, TypeOK
<1>3. /\ \A d \in Calls \ {c} : call'[d] = call[d]
      /\ call'[c].at = "running" /\ call'[c].gen = generation
      /\ call'[c].probe = open /\ call'[c].left = 0
  BY DEF Admit, TypeOK
<1>4. \A d \in Calls : call[d].probe /\ InFlight(d) => FALSE
  BY DEF Admit, Admissible, CallInv, InFlight, TypeOK, CallRecords
<1>5. ProbeHeld' /\ OneProbe'
  BY <1>3, <1>4 DEF Admit, ProbeHeld, OneProbe, InFlight, Current, TypeOK
<1>6. ASSUME NEW d \in Calls PROVE CallInv(d)'
  BY <1>3 DEF Admit, Admissible, CallInv, Current, TypeOK, CallRecords
<1>7. QED
  BY <1>1, <1>2, <1>5, <1>6

LEMMA RejectInv == ASSUME BreakerInv, NEW c \in Calls, Reject(c) PROVE BreakerInv'
<1> USE DEF BreakerInv, breaker
<1>1. TypeOK'
  BY CallUpdate DEF Reject, TypeOK
<1>2. /\ \A d \in Calls \ {c} : call'[d] = call[d]
      /\ call'[c].at = "over" /\ call'[c].left = call[c].left
      /\ call[c].at = "new" /\ ~(call[c].left > 0)
      /\ call'[c].probe = call[c].probe
  BY DEF Reject, TypeOK, CallRecords, CallInv
<1>3. ProbeHeld' /\ OneProbe' /\ Window' /\ OpenAtThreshold'
  BY <1>2 DEF Reject, ProbeHeld, OneProbe, InFlight, Current, TypeOK, Window,
              OpenAtThreshold
<1>4. ASSUME NEW d \in Calls PROVE CallInv(d)'
  BY <1>2 DEF Reject, CallInv, Current, TypeOK, CallRecords
<1>5. QED
  BY <1>1, <1>3, <1>4

\* What the end of c leaves of the calls.
LEMMA OverFacts ==
    ASSUME BreakerInv, NEW c \in Calls, Over(c)
    PROVE  /\ call' \in [Calls -> CallRecords]
           /\ \A d \in Calls \ {c} : call'[d] = call[d]
           /\ call'[c].at = "over" /\ ~(call'[c].left > 0)
           /\ call'[c].probe = call[c].probe
<1>1. /\ call[c] \in CallRecords /\ call[c].at = "running"
      /\ call' = [call EXCEPT ![c].at = "over"]
  BY DEF BreakerInv, TypeOK, Over
<1>2. call'[c] = [call[c] EXCEPT !.at = "over"]
  BY <1>1 DEF BreakerInv, TypeOK
<1>3. call' \in [Calls -> CallRecords]
  BY <1>1, CallUpdate DEF BreakerInv, TypeOK
<1>4. \A d \in Calls \ {c} : call'[d] = call[d]
  BY <1>1 DEF BreakerInv, TypeOK
<1>5. ~(call[c].left > 0)
  BY <1>1 DEF BreakerInv, CallInv
<1>6. QED
  BY <1>1, <1>2, <1>3, <1>4, <1>5 DEF CallRecords

\* An answer that counts comes from the only probe or finds the breaker closed.
LEMMA CountedAnswer ==
    ASSUME BreakerInv, NEW c \in Calls, Over(c), Counts(c)
    PROVE  /\ call[c].probe => open /\ halfOpen /\ wait = 0
           /\ ~call[c].probe => ~open /\ ~halfOpen /\ wait = 0
           /\ \A d \in Calls \ {c} : ~(call[d].probe /\ InFlight(d))
BY DEF BreakerInv, TypeOK, CallRecords, Over, Counts, Window, OneProbe, CallInv, InFlight

\* An answer that does not count leaves the breaker, and was no live probe's.
LEMMA IgnoredInv ==
    ASSUME BreakerInv, NEW c \in Calls, Over(c), ~Counts(c), UNCHANGED breaker
    PROVE  BreakerInv'
<1> USE DEF BreakerInv, breaker
<1>1. ~call[c].probe
  BY DEF Over, Counts, CallInv, Window
<1>2. ProbeHeld' /\ OneProbe' /\ TypeOK' /\ Window' /\ OpenAtThreshold'
  BY <1>1, OverFacts DEF Over, ProbeHeld, OneProbe, InFlight, Current, TypeOK, Window,
              OpenAtThreshold
<1>3. ASSUME NEW d \in Calls PROVE CallInv(d)'
  BY OverFacts DEF CallInv, Current, TypeOK, CallRecords
<1>4. QED
  BY <1>2, <1>3

LEMMA SuccessInv == ASSUME BreakerInv, NEW c \in Calls, Success(c) PROVE BreakerInv'
<1> USE BreakerAssumption DEF BreakerInv
<1>0. Over(c)
  BY DEF Success
<1>1. CASE Counts(c)
  <2>1. /\ failures' = 0 /\ ~open' /\ wait' = 0 /\ ~halfOpen'
        /\ open' \in BOOLEAN /\ halfOpen' \in BOOLEAN /\ trips' = trips
        /\ generation' \in {generation, generation + 1}
        /\ ~call[c].probe => generation' = generation
        /\ call[c].probe => generation' = generation + 1
    <3>1. CASE call[c].probe
      BY <1>1, <3>1 DEF Success
    <3>2. CASE ~call[c].probe
      <4>1. ~open /\ ~halfOpen /\ wait = 0
        BY <1>0, <1>1, <3>2, CountedAnswer
      <4>2. failures' = 0 /\ UNCHANGED <<trips, open, wait, halfOpen, generation>>
        BY <1>1, <3>2 DEF Success
      <4>3. QED
        BY <3>2, <4>1, <4>2 DEF TypeOK
    <3>3. QED
      BY <3>1, <3>2
  <2>2. TypeOK' /\ Window' /\ OpenAtThreshold' /\ ProbeHeld'
    BY <1>0, <2>1, OverFacts DEF TypeOK, Window, OpenAtThreshold, ProbeHeld
  <2>3. OneProbe'
    BY <1>0, <1>1, OverFacts, CountedAnswer DEF OneProbe, InFlight
  <2>4. ASSUME NEW d \in Calls PROVE CallInv(d)'
    BY <1>0, <1>1, <2>1, OverFacts, CountedAnswer
    DEF CallInv, Current, TypeOK, CallRecords, InFlight
  <2>5. QED
    BY <2>2, <2>3, <2>4
<1>2. CASE ~Counts(c)
  BY <1>0, <1>2, IgnoredInv DEF Success
<1>3. QED
  BY <1>1, <1>2

LEMMA FailureInv == ASSUME BreakerInv, NEW c \in Calls, Failure(c) PROVE BreakerInv'
<1> USE BreakerAssumption DEF BreakerInv
<1>0. Over(c)
  BY DEF Failure
<1>1. CASE Counts(c) /\ TripsNow(c)
  <2>1. /\ failures' = failures + 1 /\ open' = TRUE /\ wait' = Cooldown
        /\ halfOpen' = FALSE /\ trips' = trips + 1 /\ generation' = generation + 1
    BY <1>1 DEF Failure, Fence
  <2>2. failures' >= Threshold
    BY <1>0, <1>1, <2>1, CountedAnswer DEF TripsNow, OpenAtThreshold, TypeOK
  <2>3. TypeOK' /\ Window' /\ OpenAtThreshold' /\ ProbeHeld'
    <3>1. TypeOK'
      <4>1. open' \in BOOLEAN /\ halfOpen' \in BOOLEAN
        BY <2>1, Zenon
      <4>2. /\ failures' \in Nat /\ trips' \in Nat /\ generation' \in Nat
            /\ wait' \in Nat /\ (wait' <= Cooldown \/ wait' <= Deadline)
        BY <2>1 DEF TypeOK
      <4>3. QED
        BY <1>0, <4>1, <4>2, OverFacts DEF TypeOK
    <3>2. Window' /\ ProbeHeld'
      BY <2>1 DEF Window, ProbeHeld
    <3>3. OpenAtThreshold'
      BY <2>1, <2>2 DEF OpenAtThreshold
    <3>4. QED
      BY <3>1, <3>2, <3>3
  <2>4. OneProbe'
    BY <1>0, <1>1, OverFacts, CountedAnswer DEF OneProbe, InFlight
  <2>5. ASSUME NEW d \in Calls PROVE CallInv(d)'
    BY <1>0, <1>1, <2>1, OverFacts, CountedAnswer
    DEF CallInv, Current, TypeOK, CallRecords, InFlight
  <2>6. QED
    BY <2>3, <2>4, <2>5
<1>2. CASE Counts(c) /\ ~TripsNow(c)
  <2>1. /\ failures' = failures + 1 /\ failures' < Threshold
        /\ UNCHANGED <<trips, open, wait, halfOpen, generation>>
        /\ ~open /\ ~halfOpen
    BY <1>0, <1>2, CountedAnswer DEF Failure, TripsNow, TypeOK
  <2>2. TypeOK' /\ Window' /\ OpenAtThreshold' /\ ProbeHeld'
    BY <1>0, <2>1, OverFacts DEF TypeOK, Window, OpenAtThreshold, ProbeHeld
  <2>3. OneProbe'
    BY <1>0, <1>2, OverFacts, CountedAnswer DEF OneProbe, InFlight
  <2>4. ASSUME NEW d \in Calls PROVE CallInv(d)'
    BY <1>0, <1>2, <2>1, OverFacts DEF CallInv, Current, TypeOK, CallRecords
  <2>5. QED
    BY <2>2, <2>3, <2>4
<1>3. CASE ~Counts(c)
  BY <1>0, <1>3, IgnoredInv DEF Failure
<1>4. QED
  BY <1>1, <1>2, <1>3

LEMMA AbandonInv == ASSUME BreakerInv, NEW c \in Calls, Abandon(c) PROVE BreakerInv'
<1> USE BreakerAssumption DEF BreakerInv
<1>1. PICK left \in 0..Deadline :
        call' = [call EXCEPT ![c].at = "cancelled", ![c].left = left]
  BY DEF Abandon
<1>2. call' \in [Calls -> CallRecords]
  BY <1>1, CallUpdate DEF TypeOK
<1>3. /\ \A d \in Calls \ {c} : call'[d] = call[d]
      /\ call'[c].at = "cancelled" /\ call'[c].left = left
      /\ call'[c].probe = call[c].probe /\ call[c].at = "running"
  BY <1>1 DEF Abandon, TypeOK, CallRecords
<1>4. CASE call[c].probe
  <2>1. halfOpen /\ open /\ wait = 0
    BY <1>3, <1>4 DEF CallInv, Window
  <2>2. /\ open' = TRUE /\ wait' = AbandonDelay /\ halfOpen' = FALSE
        /\ generation' = generation + 1 /\ failures' = failures /\ trips' = trips
    BY <1>3, <1>4, <2>1 DEF Abandon, Fence, CallInv
  <2>3. AbandonDelay \in Nat /\ AbandonDelay >= Deadline
        /\ (AbandonDelay <= Cooldown \/ AbandonDelay <= Deadline)
    BY DEF AbandonDelay
  <2>4. \A d \in Calls \ {c} : ~(call[d].probe /\ InFlight(d))
    BY <1>3, <1>4 DEF OneProbe, InFlight
  <2>5. TypeOK' /\ Window' /\ OpenAtThreshold' /\ ProbeHeld'
    <3>1. TypeOK'
      <4>1. open' \in BOOLEAN /\ halfOpen' \in BOOLEAN
        BY <2>2, Zenon
      <4>2. /\ failures' \in Nat /\ trips' \in Nat /\ generation' \in Nat
            /\ wait' \in Nat /\ (wait' <= Cooldown \/ wait' <= Deadline)
        BY <2>2, <2>3 DEF TypeOK
      <4>3. QED
        BY <1>2, <4>1, <4>2 DEF TypeOK
    <3>2. Window' /\ ProbeHeld'
      BY <2>2 DEF Window, ProbeHeld
    <3>3. OpenAtThreshold'
      BY <2>1, <2>2 DEF OpenAtThreshold
    <3>4. QED
      BY <3>1, <3>2, <3>3
  <2>6. OneProbe'
    BY <1>3, <2>4 DEF OneProbe, InFlight
  <2>7. ASSUME NEW d \in Calls PROVE CallInv(d)'
    BY <1>3, <2>2, <2>3, <2>4 DEF CallInv, Current, TypeOK, CallRecords, InFlight
  <2>8. QED
    BY <2>5, <2>6, <2>7
<1>5. CASE ~call[c].probe
  <2>1. UNCHANGED breaker
    BY <1>5 DEF Abandon
  <2>2. TypeOK' /\ Window' /\ OpenAtThreshold' /\ ProbeHeld' /\ OneProbe'
    BY <1>2, <1>3, <1>5, <2>1
    DEF TypeOK, Window, OpenAtThreshold, ProbeHeld, OneProbe, InFlight, Current, breaker
  <2>3. ASSUME NEW d \in Calls PROVE CallInv(d)'
    BY <1>3, <1>5, <2>1 DEF CallInv, Current, TypeOK, CallRecords, breaker
  <2>4. QED
    BY <2>2, <2>3
<1>6. QED
  BY <1>4, <1>5

LEMMA TickInv == BreakerInv /\ Tick => BreakerInv'
<1> SUFFICES ASSUME BreakerInv, Tick PROVE BreakerInv'
  OBVIOUS
<1> USE BreakerAssumption DEF BreakerInv
<1>1. ASSUME NEW d \in Calls
      PROVE  /\ call'[d] \in CallRecords
             /\ call'[d].at = call[d].at /\ call'[d].gen = call[d].gen
             /\ call'[d].probe = call[d].probe
             /\ call'[d].left = Down(call[d].left)
             /\ call[d].left \in Nat
  <2>1. call[d] \in CallRecords /\ call'[d] = [call[d] EXCEPT !.left = Down(@)]
    BY DEF Tick, TypeOK
  <2>2. Down(call[d].left) \in 0..Deadline
    BY <2>1 DEF Down, CallRecords
  <2>3. call'[d] \in CallRecords
    BY <2>1, <2>2, CallUpdate
  <2>4. QED
    BY <2>1, <2>3 DEF CallRecords
<1>2. TypeOK'
  <2>1. call' \in [Calls -> CallRecords]
    BY <1>1 DEF Tick
  <2>2. wait' \in Nat /\ (wait' <= Cooldown \/ wait' <= Deadline)
    BY DEF Tick, TypeOK, Down
  <2>3. QED
    BY <2>1, <2>2 DEF Tick, TypeOK
<1>3. Window' /\ OpenAtThreshold'
  BY DEF Tick, Window, OpenAtThreshold, TypeOK, Down
<1>4. ProbeHeld' /\ OneProbe'
  <2>1. ProbeHeld'
    BY <1>1 DEF Tick, ProbeHeld, Current
  <2>2. ASSUME NEW d \in Calls, InFlight(d)' PROVE InFlight(d)
    BY <1>1, <2>2 DEF InFlight, Down
  <2>3. QED
    BY <1>1, <2>1, <2>2 DEF OneProbe
<1>5. ASSUME NEW d \in Calls PROVE CallInv(d)'
  BY <1>1 DEF Tick, CallInv, Current, Down, TypeOK
<1>6. QED
  BY <1>2, <1>3, <1>4, <1>5

\* BreakerInv holds in every reachable state.
THEOREM BreakerInvariant == Spec => []BreakerInv
<1>1. BreakerInv /\ [Next]_vars => BreakerInv'
  <2>1. BreakerInv /\ UNCHANGED vars => BreakerInv'
    BY DEF vars, breaker, BreakerInv, TypeOK, Window, OpenAtThreshold, ProbeHeld,
           OneProbe, CallInv, Current, InFlight
  <2>2. QED
    BY <2>1, AdmitInv, RejectInv, SuccessInv, FailureInv, AbandonInv, TickInv
    DEF Next, Complete
<1>2. QED
  BY BreakerInit, <1>1, PTL DEF Spec

\* The provider never works on two half-open probes of one breaker key.
THEOREM OneProbeHolds == Spec => []OneProbe
<1>1. BreakerInv => OneProbe
  BY DEF BreakerInv
<1>2. QED
  BY BreakerInvariant, <1>1, PTL

\* The half-open window always has a live call that will end it.
THEOREM ProbeHeldHolds == Spec => []ProbeHeld
<1>1. BreakerInv => ProbeHeld
  BY DEF BreakerInv
<1>2. QED
  BY BreakerInvariant, <1>1, PTL

\* The breaker is open exactly from the threshold on until a probe succeeds.
THEOREM OpenAtThresholdHolds == Spec => []OpenAtThreshold
<1>1. BreakerInv => OpenAtThreshold
  BY DEF BreakerInv
<1>2. QED
  BY BreakerInvariant, <1>1, PTL

\* The late answer of a call admitted under an earlier generation is ignored.
THEOREM StaleIgnoredHolds == Spec => StaleIgnored
<1> DEFINE A == \A c \in Calls :
                  call[c].at = "running" /\ call[c].gen < generation
                      /\ call'[c].at # "running" => UNCHANGED breaker
<1>1. BreakerInv /\ [Next]_vars => [A]_vars
  <2> SUFFICES ASSUME BreakerInv, Next, NEW c \in Calls,
                      call[c].at = "running", call[c].gen < generation,
                      call'[c].at # "running"
               PROVE  UNCHANGED breaker
    BY DEF vars
  <2>1. ~Current(c) /\ ~Counts(c)
    BY DEF Current, Counts, BreakerInv, TypeOK, CallRecords
  <2>2. ASSUME NEW d \in Calls, Admit(d) PROVE FALSE
    BY <2>2 DEF Admit, BreakerInv, TypeOK
  <2>3. CASE Tick
    BY <2>3 DEF Tick, BreakerInv, TypeOK, CallRecords
  <2>4. ASSUME NEW d \in Calls, Complete(d), ~(d = c) PROVE FALSE
    BY <2>4 DEF Complete, Success, Failure, Abandon, Over, BreakerInv, TypeOK
  <2>5. CASE Complete(c)
    BY <2>1, <2>5 DEF Complete, Success, Failure, Abandon
  <2>6. QED
    BY <2>2, <2>3, <2>4, <2>5 DEF Next, Reject
<1>2. QED
  BY BreakerInvariant, <1>1, PTL DEF Spec, StaleIgnored

-----------------------------------------------------------------------------
(* The Build worker pool *)

WorkerRec == [process : Runs \cup {NoOne}, ready : BOOLEAN, lock : Runs \cup {NoOne}]

\* A run has a worker from Get on, a reader only after it.
Begun(r) ==
    /\ pc[r] # "idle" => mine[r] \in Runs
    /\ r \in reader => pc[r] # "idle"

\* The process of a worker object was started for it; while it works it is read.
Kept(o) ==
    LET p == worker[o].process
    IN p # NoOne => /\ pc[p] # "idle" /\ mine[p] = o
                    /\ proc[p] \in Working => p \in reader

\* A request that waits went to a process of the run's own worker, and somebody
\* reads that one as long as it works.
Heard(r) ==
    reply[r] = "wait" =>
        /\ sent[r] \in Runs /\ pc[sent[r]] # "idle" /\ mine[sent[r]] = mine[r]
        /\ proc[sent[r]] \in Working => sent[r] \in reader

PoolInv ==
    /\ PoolTypes
    /\ \A r \in Runs : Begun(r) /\ Kept(r) /\ Heard(r)

\* Nothing has begun.
LEMMA PoolInitInv == PoolInit => PoolInv
<1> SUFFICES ASSUME PoolInit PROVE PoolInv
  OBVIOUS
<1> USE DEF PoolInit, NoWorker
<1>1. PoolTypes
  BY DEF PoolTypes, SendTypes
<1>2. ASSUME NEW r \in Runs PROVE Begun(r) /\ Kept(r) /\ Heard(r)
  BY DEF Begun, Kept, Heard
<1>3. QED
  BY <1>1, <1>2 DEF PoolInv

\* _request: what it writes to is read as long as it works.
LEMMA RequestFacts ==
    ASSUME PoolInv, NEW r \in Runs, pc[r] # "idle", NEW s \in {"new", "prompt"}, Request(r, s)
    PROVE  /\ pc' \in [Runs -> {"idle", "start", "spawn", "init", "closing", "new",
                                "prompt", "abort", "leave", "except", "done"}]
           /\ reply' \in [Runs -> {"none", "wait", "failed"}]
           /\ sent' \in [Runs -> Runs \cup {NoOne}]
           /\ \A q \in Runs \ {r} : pc'[q] = pc[q] /\ reply'[q] = reply[q] /\ sent'[q] = sent[q]
           /\ pc'[r] # "idle" /\ (reply'[r] # "none" <=> pc'[r] \in {"init", "new", "prompt"})
           /\ reply'[r] = "wait" => sent'[r] = worker[mine[r]].process /\ sent'[r] \in Runs
<1>1. mine[r] \in Runs
  BY DEF PoolInv, Begun
<1>2. worker[mine[r]].process \in Runs \cup {NoOne}
  BY <1>1 DEF PoolInv, PoolTypes
<1>3. CASE Alive(mine[r])
  BY <1>2, <1>3, PoolAssumption DEF PoolInv, PoolTypes, Request, Goto, Alive
<1>4. CASE ~Alive(mine[r])
  BY <1>2, <1>4 DEF PoolInv, PoolTypes, Request, Goto
<1>5. QED
  BY <1>3, <1>4

\* GrokBuildACPManager.run: the worker of the profile.
LEMMA GetInv == ASSUME PoolInv, NEW r \in Runs, Get(r), SendTypes' PROVE PoolInv'
<1> USE DEF Get, Goto
<1>1. table' \in Runs /\ mine' = [mine EXCEPT ![r] = table'] /\ pc' = [pc EXCEPT ![r] = "start"]
  BY DEF PoolInv, PoolTypes
<1>2. PoolTypes'
  BY <1>1 DEF PoolInv, PoolTypes
<1>3. ASSUME NEW q \in Runs PROVE Begun(q)' /\ Kept(q)' /\ Heard(q)'
  <2>1. Begun(q) /\ Kept(q) /\ Heard(q)
    BY DEF PoolInv
  <2>2. \A p \in Runs : pc[p] # "idle" => p # r /\ pc'[p] = pc[p] /\ mine'[p] = mine[p]
    BY <1>1 DEF PoolInv, PoolTypes
  <2>3. Begun(q)'
    BY <1>1, <2>1 DEF Begun, PoolInv, PoolTypes
  <2>4. Kept(q)'
    <3>1. worker[q].process \in Runs \cup {NoOne}
      BY DEF PoolInv, PoolTypes
    <3>2. QED
      BY <2>1, <2>2, <3>1 DEF Kept
  <2>5. Heard(q)'
    <3>1. reply[q] = "wait" => pc[q] # "idle"
      BY DEF PoolInv, PoolTypes
    <3>2. QED
      BY <2>1, <2>2, <3>1 DEF Heard
  <2>6. QED
    BY <2>3, <2>4, <2>5
<1>4. QED
  BY <1>2, <1>3 DEF PoolInv

\* A step that makes r do request s, or go on without one, leaves the others
\* alone, and may mark a process as authenticated.
LEMMA RequestInv ==
    ASSUME PoolInv, NEW r \in Runs, pc[r] # "idle", NEW s \in {"new", "prompt"}, Request(r, s),
           worker' \in [Runs -> WorkerRec],
           \A o \in Runs : worker'[o].process = worker[o].process,
           proc' \in [Runs -> {"none", "started", "authed", "dying", "exited"}],
           \A p \in Runs : proc'[p] \in Working => proc[p] \in Working,
           UNCHANGED <<table, reader, mine>>, SendTypes'
    PROVE  PoolInv'
<1>1. /\ pc' \in [Runs -> {"idle", "start", "spawn", "init", "closing", "new",
                           "prompt", "abort", "leave", "except", "done"}]
      /\ reply' \in [Runs -> {"none", "wait", "failed"}]
      /\ sent' \in [Runs -> Runs \cup {NoOne}]
      /\ \A q \in Runs \ {r} : pc'[q] = pc[q] /\ reply'[q] = reply[q] /\ sent'[q] = sent[q]
      /\ pc'[r] # "idle" /\ (reply'[r] # "none" <=> pc'[r] \in {"init", "new", "prompt"})
      /\ reply'[r] = "wait" => sent'[r] = worker[mine[r]].process /\ sent'[r] \in Runs
  BY RequestFacts
<1>2. PoolTypes'
  BY <1>1 DEF PoolInv, PoolTypes, WorkerRec
<1>3. \A p \in Runs : pc[p] # "idle" <=> pc'[p] # "idle"
  BY <1>1
<1>4. mine[r] \in Runs
  BY DEF PoolInv, Begun
<1>5. ASSUME NEW q \in Runs PROVE Begun(q)' /\ Kept(q)' /\ Heard(q)'
  <2>1. Begun(q) /\ Kept(q) /\ Heard(q)
    BY DEF PoolInv
  <2>2. Begun(q)'
    BY <1>3, <2>1 DEF Begun
  <2>3. Kept(q)'
    <3>1. worker[q].process \in Runs \cup {NoOne}
      BY DEF PoolInv, PoolTypes
    <3>2. QED
      BY <1>3, <2>1, <3>1 DEF Kept
  <2>4. Heard(q)'
    <3>1. CASE q = r
      <4> SUFFICES ASSUME reply'[r] = "wait"
                   PROVE  /\ sent'[r] \in Runs /\ pc'[sent'[r]] # "idle" /\ mine[sent'[r]] = mine[r]
                          /\ proc'[sent'[r]] \in Working => sent'[r] \in reader
        BY <3>1 DEF Heard
      <4>1. sent'[r] = worker[mine[r]].process /\ sent'[r] \in Runs
        BY <1>1
      <4>2. Kept(mine[r])
        BY <1>4 DEF PoolInv
      <4>3. pc[sent'[r]] # "idle" /\ mine[sent'[r]] = mine[r]
            /\ (proc[sent'[r]] \in Working => sent'[r] \in reader)
        BY <4>1, <4>2, PoolAssumption DEF Kept
      <4>4. QED
        BY <1>3, <4>1, <4>3
    <3>2. CASE q # r
      BY <1>1, <1>3, <2>1, <3>2 DEF Heard
    <3>3. QED
      BY <3>1, <3>2
  <2>5. QED
    BY <2>2, <2>3, <2>4
<1>6. QED
  BY <1>2, <1>5 DEF PoolInv

\* A step of r that ends its wait and leaves every process alone, or only ends
\* some of them.
LEMMA LeaveInv ==
    ASSUME PoolInv, NEW r \in Runs, pc[r] # "idle",
           NEW s \in {"start", "spawn", "closing", "abort", "leave", "except", "done"}, Goto(r, s),
           reply' \in [Runs -> {"none", "wait", "failed"}], reply'[r] = "none",
           \A q \in Runs \ {r} : /\ reply'[q] = "none" <=> reply[q] = "none"
                                 /\ reply'[q] = "wait" => reply[q] = "wait",
           sent' \in [Runs -> Runs \cup {NoOne}], \A q \in Runs \ {r} : sent'[q] = sent[q],
           table' \in Runs \cup {NoOne}, worker' \in [Runs -> WorkerRec],
           \A o \in Runs : worker'[o].process \in {worker[o].process, NoOne},
           proc' \in [Runs -> {"none", "started", "authed", "dying", "exited"}],
           \A p \in Runs : proc'[p] \in Working => proc[p] \in Working,
           reader' \subseteq reader,
           \A p \in reader \ reader' :
             /\ \A o \in Runs : worker'[o].process = p => proc'[p] \notin Working
             /\ \A q \in Runs : mine[q] = mine[p] => reply'[q] # "wait",
           UNCHANGED mine, SendTypes'
    PROVE  PoolInv'
<1>1. pc' = [pc EXCEPT ![r] = s]
  BY DEF Goto
<1>2. PoolTypes'
  BY <1>1 DEF PoolInv, PoolTypes, WorkerRec
<1>3. \A p \in Runs : pc[p] # "idle" <=> pc'[p] # "idle"
  BY <1>1 DEF PoolInv, PoolTypes
<1>4. ASSUME NEW q \in Runs PROVE Begun(q)' /\ Kept(q)' /\ Heard(q)'
  <2>1. Begun(q) /\ Kept(q) /\ Heard(q)
    BY DEF PoolInv
  <2>2. Begun(q)'
    BY <1>3, <2>1 DEF Begun
  <2>3. Kept(q)'
    <3>1. worker[q].process \in Runs \cup {NoOne}
      BY DEF PoolInv, PoolTypes
    <3>2. QED
      BY <1>3, <2>1, <3>1 DEF Kept
  <2>4. Heard(q)'
    <3> SUFFICES ASSUME reply'[q] = "wait"
                 PROVE  /\ sent'[q] \in Runs /\ pc'[sent'[q]] # "idle" /\ mine[sent'[q]] = mine[q]
                        /\ proc'[sent'[q]] \in Working => sent'[q] \in reader'
      BY DEF Heard
    <3>1. q # r /\ reply[q] = "wait" /\ sent'[q] = sent[q]
      OBVIOUS
    <3>2. /\ sent[q] \in Runs /\ pc[sent[q]] # "idle" /\ mine[sent[q]] = mine[q]
          /\ proc[sent[q]] \in Working => sent[q] \in reader
      BY <2>1, <3>1 DEF Heard
    <3>3. sent[q] \notin reader \ reader'
      BY <3>2
    <3>4. QED
      BY <1>3, <3>1, <3>2, <3>3
  <2>5. QED
    BY <2>2, <2>3, <2>4
<1>5. QED
  BY <1>2, <1>4 DEF PoolInv

\* A run that is through with its request, or turns to sending session/cancel.
LEMMA ThroughInv ==
    ASSUME PoolInv, NEW r \in Runs, pc[r] # "idle",
           NEW s \in {"abort", "leave", "except", "done"}, Through(r, s) \/ SendCancel(r, s),
           worker' \in [Runs -> WorkerRec],
           \A o \in Runs : worker'[o].process = worker[o].process,
           UNCHANGED <<table, proc, reader, mine>>, SendTypes'
    PROVE  PoolInv'
<1>1. worker \in [Runs -> WorkerRec] /\ table \in Runs \cup {NoOne} /\ mine[r] \in Runs
      /\ proc \in [Runs -> {"none", "started", "authed", "dying", "exited"}]
      /\ reply \in [Runs -> {"none", "wait", "failed"}] /\ sent \in [Runs -> Runs \cup {NoOne}]
  BY DEF PoolInv, PoolTypes, WorkerRec, Begun
<1>2. worker[mine[r]].process \in Runs \cup {NoOne}
  BY <1>1 DEF WorkerRec
<1>3. Goto(r, s) /\ reply' = [reply EXCEPT ![r] = "none"]
      /\ \E p \in Runs \cup {NoOne} : sent' = [sent EXCEPT ![r] = p]
  BY <1>2 DEF Through, SendCancel
<1>4. QED
  BY <1>1, <1>3, LeaveInv

\* _fail_pending: nobody of worker o waits any more.
LEMMA FailFacts ==
    ASSUME PoolInv, NEW o
    PROVE  /\ FailPending(o) \in [Runs -> {"none", "wait", "failed"}]
           /\ \A q \in Runs : /\ FailPending(o)[q] = "none" <=> reply[q] = "none"
                              /\ FailPending(o)[q] = "wait" => reply[q] = "wait" /\ mine[q] # o
BY DEF PoolInv, PoolTypes, FailPending

\* start(): the lock is taken, or the process shared.
LEMMA StartInv == ASSUME PoolInv, NEW r \in Runs, Start(r), SendTypes' PROVE PoolInv'
<1>1. pc[r] # "idle" /\ mine[r] \in Runs /\ reply[r] = "none"
  BY DEF Start, PoolInv, Begun, PoolTypes
<1>2. worker \in [Runs -> WorkerRec] /\ table \in Runs \cup {NoOne}
      /\ proc \in [Runs -> {"none", "started", "authed", "dying", "exited"}]
      /\ reply \in [Runs -> {"none", "wait", "failed"}] /\ sent \in [Runs -> Runs \cup {NoOne}]
  BY DEF PoolInv, PoolTypes, WorkerRec
<1>3. CASE Usable(mine[r])
  <2>1. Request(r, "new") /\ UNCHANGED <<worker, table, proc, reader, mine>>
    BY <1>3 DEF Start
  <2>2. QED
    BY <1>1, <1>2, <2>1, RequestInv
<1>4. CASE ~Usable(mine[r])
  <2>1. /\ Goto(r, "spawn") /\ worker' = [worker EXCEPT ![mine[r]].lock = r]
        /\ UNCHANGED <<reply, sent, table, proc, reader, mine>>
    BY <1>4 DEF Start
  <2>2. worker' \in [Runs -> WorkerRec] /\ \A o \in Runs : worker'[o].process = worker[o].process
    BY <1>1, <1>2, <2>1 DEF WorkerRec
  <2>3. QED
    BY <1>1, <1>2, <2>1, <2>2, LeaveInv
<1>5. QED
  BY <1>3, <1>4

\* A new process, read from the start, takes the place of the worker's old one.
LEMMA SpawnInv == ASSUME PoolInv, NEW r \in Runs, Spawn(r), SendTypes' PROVE PoolInv'
<1> USE DEF Spawn, Goto
<1>1. pc[r] = "spawn" /\ mine[r] \in Runs
  BY DEF PoolInv, Begun
<1>2. /\ worker' = [worker EXCEPT ![mine[r]].process = r] /\ worker \in [Runs -> WorkerRec]
      /\ pc' = [pc EXCEPT ![r] = "init"] /\ reader' = reader \cup {r}
      /\ proc' = [proc EXCEPT ![r] = "started"] /\ UNCHANGED <<table, mine>>
      /\ reply' = [reply EXCEPT ![r] = "wait"] /\ sent' = [sent EXCEPT ![r] = r]
  BY DEF PoolInv, PoolTypes, WorkerRec
<1>3. PoolTypes'
  BY <1>1, <1>2 DEF PoolInv, PoolTypes, WorkerRec
<1>4. \A p \in Runs : pc[p] # "idle" <=> pc'[p] # "idle"
  BY <1>1, <1>2 DEF PoolInv, PoolTypes
<1>5. \A p \in Runs : p # r => proc'[p] = proc[p] /\ reply'[p] = reply[p] /\ sent'[p] = sent[p]
  BY <1>2 DEF PoolInv, PoolTypes
<1>6. ASSUME NEW q \in Runs PROVE Begun(q)' /\ Kept(q)' /\ Heard(q)'
  <2>1. Begun(q) /\ Kept(q) /\ Heard(q)
    BY DEF PoolInv
  <2>2. Begun(q)'
    BY <1>1, <1>2, <1>4, <1>5, <2>1 DEF Begun
  <2>3. Kept(q)'
    <3>1. CASE q = mine[r]
      <4>1. worker'[q].process = r
        BY <1>2, <3>1 DEF WorkerRec
      <4>2. QED
        BY <1>1, <1>2, <1>4, <3>1, <4>1 DEF Kept
    <3>2. CASE q # mine[r]
      <4>1. worker'[q] = worker[q] /\ worker[q].process \in Runs \cup {NoOne}
        BY <1>2, <3>2 DEF WorkerRec
      <4>2. worker[q].process # r
        BY <2>1, <3>2, <4>1, PoolAssumption DEF Kept
      <4>3. QED
        BY <1>2, <1>4, <1>5, <2>1, <4>1, <4>2 DEF Kept
    <3>3. QED
      BY <3>1, <3>2
  <2>4. Heard(q)'
    <3>1. CASE q = r
      <4>1. sent'[r] = r
        BY <1>2 DEF PoolInv, PoolTypes
      <4>2. QED
        BY <1>1, <1>2, <1>4, <3>1, <4>1 DEF Heard
    <3>2. CASE q # r
      BY <1>2, <1>4, <1>5, <2>1, <3>2 DEF Heard
    <3>3. QED
      BY <3>1, <3>2
  <2>5. QED
    BY <2>2, <2>3, <2>4
<1>7. QED
  BY <1>3, <1>6 DEF PoolInv

\* The worker is ready and session/new is sent.
LEMMA InitializedInv == ASSUME PoolInv, NEW r \in Runs, Initialized(r), SendTypes' PROVE PoolInv'
<1>1. pc[r] # "idle" /\ mine[r] \in Runs
  BY DEF Initialized, PoolInv, Begun
<1>2. worker \in [Runs -> WorkerRec] /\ sent[r] \in Runs
      /\ proc \in [Runs -> {"none", "started", "authed", "dying", "exited"}]
  BY DEF Initialized, Read, PoolInv, PoolTypes, WorkerRec
<1>3. worker' \in [Runs -> WorkerRec] /\ \A o \in Runs : worker'[o].process = worker[o].process
  BY <1>1, <1>2 DEF Initialized, WorkerRec
<1>4. /\ proc' \in [Runs -> {"none", "started", "authed", "dying", "exited"}]
      /\ \A p \in Runs : proc'[p] \in Working => proc[p] \in Working
  BY <1>2 DEF Initialized, Working
<1>5. Request(r, "new") /\ UNCHANGED <<table, reader, mine>>
  BY DEF Initialized
<1>6. QED
  BY <1>1, <1>3, <1>4, <1>5, RequestInv

\* session/prompt follows, or the turn is over.
LEMMA AnsweredInv == ASSUME PoolInv, NEW r \in Runs, Answered(r), SendTypes' PROVE PoolInv'
<1>1. pc[r] # "idle"
  BY DEF Answered
<1>2. worker \in [Runs -> WorkerRec] /\ table \in Runs \cup {NoOne}
      /\ proc \in [Runs -> {"none", "started", "authed", "dying", "exited"}]
      /\ reply \in [Runs -> {"none", "wait", "failed"}] /\ sent \in [Runs -> Runs \cup {NoOne}]
  BY DEF PoolInv, PoolTypes, WorkerRec
<1>3. UNCHANGED <<table, worker, proc, reader, mine>>
  BY DEF Answered
<1>4. CASE Request(r, "prompt")
  BY <1>1, <1>2, <1>3, <1>4, RequestInv
<1>5. CASE Through(r, "done")
  BY <1>1, <1>2, <1>3, <1>5, ThroughInv
<1>6. QED
  BY <1>4, <1>5 DEF Answered

\* A turn that failed waits no longer, or only for its session/cancel.
LEMMA TurnFailsInv ==
    ASSUME PoolInv, NEW r \in Runs, TurnFails(r) \/ CancelSent(r), SendTypes' PROVE PoolInv'
<1>1. worker \in [Runs -> WorkerRec]
  BY DEF PoolInv, PoolTypes, WorkerRec
<1>2. \E s \in {"abort", "leave", "except", "done"} :
        /\ Through(r, s) \/ SendCancel(r, s)
        /\ pc[r] # "idle" /\ UNCHANGED <<table, worker, proc, reader, mine>>
  BY DEF TurnFails, CancelSent
<1>3. QED
  BY <1>1, <1>2, ThroughInv

\* close() lets go of the process and of everything that waits for it.
LEMMA StartFailsInv == ASSUME PoolInv, NEW r \in Runs, StartFails(r), SendTypes' PROVE PoolInv'
<1> DEFINE o == mine[r]
           p == worker[o].process
<1>1. pc[r] # "idle" /\ o \in Runs
  BY DEF StartFails, PoolInv, Begun
<1>2. worker \in [Runs -> WorkerRec] /\ table \in Runs \cup {NoOne}
      /\ proc \in [Runs -> {"none", "started", "authed", "dying", "exited"}]
      /\ sent \in [Runs -> Runs \cup {NoOne}] /\ reader \subseteq Runs
  BY DEF PoolInv, PoolTypes, WorkerRec
<1>3. /\ worker' = [worker EXCEPT ![o].ready = FALSE, ![o].process = NoOne]
      /\ reader' = reader \ {p} /\ sent' = [sent EXCEPT ![r] = p]
      /\ reply' = [FailPending(o) EXCEPT ![r] = "none"] /\ Goto(r, "closing")
      /\ UNCHANGED <<table, proc, mine>>
  BY DEF StartFails
<1>4. /\ worker' \in [Runs -> WorkerRec]
      /\ \A n \in Runs : worker'[n].process = IF n = o THEN NoOne ELSE worker[n].process
      /\ p \in Runs \cup {NoOne}
  BY <1>1, <1>2, <1>3 DEF WorkerRec
<1>5. /\ FailPending(o) \in [Runs -> {"none", "wait", "failed"}]
      /\ \A q \in Runs : /\ FailPending(o)[q] = "none" <=> reply[q] = "none"
                         /\ FailPending(o)[q] = "wait" => reply[q] = "wait" /\ mine[q] # o
  BY FailFacts
<1> HIDE DEF o
<1>6. /\ reply' \in [Runs -> {"none", "wait", "failed"}] /\ reply'[r] = "none"
      /\ \A q \in Runs \ {r} : reply'[q] = FailPending(o)[q]
  BY <1>3, <1>5
<1>7. \A x \in reader \ reader' :
        /\ \A n \in Runs : worker'[n].process = x => proc'[x] \notin Working
        /\ \A q \in Runs : mine[q] = mine[x] => reply'[q] # "wait"
  <2> SUFFICES ASSUME p \in reader
               PROVE  /\ \A n \in Runs : worker'[n].process # p
                      /\ \A q \in Runs : mine[q] = mine[p] => reply'[q] # "wait"
    BY <1>3
  <2>1. \A n \in Runs : Kept(n)
    BY DEF PoolInv
  <2>2. p \in Runs /\ p # NoOne
    BY <1>2, PoolAssumption
  <2>3. mine[p] = o
    BY <1>1, <2>1, <2>2 DEF Kept
  <2> HIDE DEF p
  <2>4. \A n \in Runs : worker'[n].process # p
    BY <1>4, <2>1, <2>2, <2>3 DEF Kept
  <2>5. \A q \in Runs : mine[q] = mine[p] => reply'[q] # "wait"
    BY <1>5, <1>6, <2>3
  <2>6. QED
    BY <2>4, <2>5
<1>8. sent' \in [Runs -> Runs \cup {NoOne}] /\ \A q \in Runs \ {r} : sent'[q] = sent[q]
  BY <1>2, <1>3, <1>4
<1> HIDE DEF p
<1>9. /\ \A q \in Runs \ {r} : /\ reply'[q] = "none" <=> reply[q] = "none"
                               /\ reply'[q] = "wait" => reply[q] = "wait"
      /\ \A n \in Runs : worker'[n].process \in {worker[n].process, NoOne}
      /\ \A x \in Runs : proc'[x] \in Working => proc[x] \in Working
      /\ proc' \in [Runs -> {"none", "started", "authed", "dying", "exited"}]
      /\ reader' \subseteq reader /\ table' \in Runs \cup {NoOne}
  BY <1>2, <1>3, <1>4, <1>5, <1>6
<1>10. Goto(r, "closing") /\ UNCHANGED mine
  BY <1>3
<1>11. QED
  BY <1>1, <1>4, <1>6, <1>7, <1>8, <1>9, <1>10, LeaveInv

\* The process is gone.
LEMMA ClosedInv == ASSUME PoolInv, NEW r \in Runs, Closed(r), SendTypes' PROVE PoolInv'
<1>1. pc[r] # "idle" /\ mine[r] \in Runs /\ reply[r] = "none"
  BY DEF Closed, PoolInv, Begun, PoolTypes
<1>2. worker \in [Runs -> WorkerRec] /\ table \in Runs \cup {NoOne}
      /\ proc \in [Runs -> {"none", "started", "authed", "dying", "exited"}]
      /\ sent \in [Runs -> Runs \cup {NoOne}]
  BY DEF PoolInv, PoolTypes, WorkerRec
<1>3. /\ worker' = [worker EXCEPT ![mine[r]].lock = NoOne] /\ reply' = FailPending(mine[r])
      /\ Goto(r, "except") /\ sent' = [sent EXCEPT ![r] = NoOne]
      /\ proc' = [p \in Runs |-> IF p = sent[r] THEN "exited" ELSE proc[p]]
      /\ UNCHANGED <<table, reader, mine>>
  BY DEF Closed
<1>4. worker' \in [Runs -> WorkerRec] /\ \A o \in Runs : worker'[o].process = worker[o].process
  BY <1>1, <1>2, <1>3 DEF WorkerRec
<1>5. /\ FailPending(mine[r]) \in [Runs -> {"none", "wait", "failed"}]
      /\ \A q \in Runs : /\ FailPending(mine[r])[q] = "none" <=> reply[q] = "none"
                         /\ FailPending(mine[r])[q] = "wait" => reply[q] = "wait"
  BY FailFacts
<1>6. QED
  BY <1>1, <1>2, <1>3, <1>4, <1>5, LeaveInv DEF Working

\* The manager forgets a worker that cannot be used.
LEMMA ExceptInv == ASSUME PoolInv, NEW r \in Runs, Except(r), SendTypes' PROVE PoolInv'
<1>1. worker \in [Runs -> WorkerRec] /\ table' \in Runs \cup {NoOne} /\ reply[r] = "none"
      /\ proc \in [Runs -> {"none", "started", "authed", "dying", "exited"}]
      /\ reply \in [Runs -> {"none", "wait", "failed"}] /\ sent \in [Runs -> Runs \cup {NoOne}]
  BY DEF Except, PoolInv, PoolTypes, WorkerRec
<1>2. QED
  BY <1>1, LeaveInv DEF Except

\* A cancelled run gives back the lock and its pending request, nothing else.
LEMMA CancelInv == ASSUME PoolInv, NEW r \in Runs, Cancel(r), SendTypes' PROVE PoolInv'
<1>1. worker \in [Runs -> WorkerRec]
  BY DEF PoolInv, PoolTypes, WorkerRec
<1>2. worker' \in [Runs -> WorkerRec] /\ \A o \in Runs : worker'[o].process = worker[o].process
  BY <1>1 DEF Cancel, WorkerRec
<1>3. Through(r, "done") \/ SendCancel(r, "leave")
  BY DEF Cancel
<1>4. QED
  BY <1>2, <1>3, ThroughInv DEF Cancel

\* A process or its reader ends; what the reader leaves unread nobody waits for.
LEMMA EndInv ==
    ASSUME PoolInv,
           proc' \in [Runs -> {"none", "started", "authed", "dying", "exited"}],
           \A p \in Runs : proc'[p] \in Working => proc[p] \in Working,
           reply' \in [Runs -> {"none", "wait", "failed"}],
           \A q \in Runs : /\ reply'[q] = "none" <=> reply[q] = "none"
                           /\ reply'[q] = "wait" => reply[q] = "wait",
           reader' \subseteq reader,
           \A p \in reader \ reader' :
             /\ worker[mine[p]].process = p => proc'[p] \notin Working
             /\ \A q \in Runs : mine[q] = mine[p] => reply'[q] # "wait",
           UNCHANGED <<table, worker, pc, mine, sent>>, SendTypes'
    PROVE  PoolInv'
<1>1. PoolTypes'
  BY DEF PoolInv, PoolTypes
<1>2. ASSUME NEW q \in Runs PROVE Begun(q)' /\ Kept(q)' /\ Heard(q)'
  <2>1. Begun(q) /\ Kept(q) /\ Heard(q)
    BY DEF PoolInv
  <2>2. Begun(q)'
    BY <2>1 DEF Begun
  <2>3. Kept(q)'
    <3>1. worker[q].process \in Runs \cup {NoOne}
      BY DEF PoolInv, PoolTypes
    <3>2. QED
      BY <2>1, <3>1 DEF Kept
  <2>4. Heard(q)'
    <3>1. reply'[q] = "wait" => sent[q] \notin reader \ reader'
      BY <2>1 DEF Heard
    <3>2. QED
      BY <2>1, <3>1 DEF Heard
  <2>5. QED
    BY <2>2, <2>3, <2>4
<1>3. QED
  BY <1>1, <1>2 DEF PoolInv

\* A process ends, or its returncode is set.
LEMMA ExitInv == ASSUME PoolInv, NEW p \in Runs, Exit(p) \/ Reaped(p), SendTypes' PROVE PoolInv'
<1>1. proc \in [Runs -> {"none", "started", "authed", "dying", "exited"}]
      /\ reply \in [Runs -> {"none", "wait", "failed"}]
  BY DEF PoolInv, PoolTypes
<1>2. /\ proc' \in [Runs -> {"none", "started", "authed", "dying", "exited"}]
      /\ \A q \in Runs : proc'[q] \in Working => proc[q] \in Working
      /\ UNCHANGED <<table, worker, reader, pc, mine, reply, sent>>
  BY <1>1 DEF Exit, Reaped, Working
<1>3. QED
  BY <1>1, <1>2, EndInv

\* A reader at the end of its stream fails what waits for its worker.
LEMMA ReaderEndsInv == ASSUME PoolInv, NEW p \in Runs, ReaderEnds(p), SendTypes' PROVE PoolInv'
<1>1. proc \in [Runs -> {"none", "started", "authed", "dying", "exited"}]
  BY DEF PoolInv, PoolTypes
<1>2. /\ proc[p] \notin Working /\ reader' = reader \ {p} /\ reply' = FailPending(mine[p])
      /\ UNCHANGED <<table, worker, proc, pc, mine, sent>>
  BY DEF ReaderEnds
<1>3. /\ reply' \in [Runs -> {"none", "wait", "failed"}]
      /\ \A q \in Runs : /\ reply'[q] = "none" <=> reply[q] = "none"
                         /\ reply'[q] = "wait" => reply[q] = "wait" /\ mine[q] # mine[p]
  BY <1>2, FailFacts
<1>4. QED
  BY <1>1, <1>2, <1>3, EndInv

\* A reader that breaks, of whatever age, kills the process the worker has now.
LEMMA StreamBreaksInv == ASSUME PoolInv, NEW p \in Runs, StreamBreaks(p), SendTypes' PROVE PoolInv'
<1>1. proc \in [Runs -> {"none", "started", "authed", "dying", "exited"}]
  BY DEF PoolInv, PoolTypes
<1>2. /\ reader' = reader \ {p} /\ reply' = FailPending(mine[p])
      /\ proc' = [q \in Runs |-> IF q = worker[mine[p]].process /\ proc[q] \in Working
                                 THEN "dying" ELSE proc[q]]
      /\ UNCHANGED <<table, worker, pc, mine, sent>>
  BY DEF StreamBreaks
<1>3. /\ reply' \in [Runs -> {"none", "wait", "failed"}]
      /\ \A q \in Runs : /\ reply'[q] = "none" <=> reply[q] = "none"
                         /\ reply'[q] = "wait" => reply[q] = "wait" /\ mine[q] # mine[p]
  BY <1>2, FailFacts
<1>4. /\ proc' \in [Runs -> {"none", "started", "authed", "dying", "exited"}]
      /\ \A q \in Runs : proc'[q] \in Working => proc[q] \in Working
      /\ worker[mine[p]].process = p => proc'[p] \notin Working
  BY <1>1, <1>2 DEF Working
<1>5. QED
  BY <1>2, <1>3, <1>4, EndInv

\* _write_lock and drain(): who is in _send, and the process it writes to.
LEMMA SendTypesKept == ASSUME PoolInv, NEW r \in Runs, PoolStep(r) PROVE SendTypes'
<1>1. SendTypes /\ worker \in [Runs -> WorkerRec] /\ sent \in [Runs -> Runs \cup {NoOne}]
  BY DEF PoolInv, PoolTypes, WorkerRec
<1>2. \A o, q : Enter(o, q) \subseteq {"no", "lock", "drain"}
  BY DEF Enter
<1>3. ASSUME NEW s, Request(r, s) \/ Through(r, s) \/ SendCancel(r, s), UNCHANGED answers
      PROVE  SendTypes'
  BY <1>1, <1>2, <1>3 DEF Request, Through, SendCancel, SendTypes, answers
<1>4. CASE Start(r) \/ Initialized(r) \/ Answered(r) \/ TurnFails(r) \/ CancelSent(r) \/ Cancel(r)
  <2>1. UNCHANGED answers /\ (UNCHANGED write
          \/ \E s \in {"new", "prompt", "done", "except", "abort", "leave"} :
               Request(r, s) \/ Through(r, s) \/ SendCancel(r, s))
    BY <1>4 DEF Start, Initialized, Answered, TurnFails, CancelSent, Cancel
  <2>2. CASE UNCHANGED write
    BY <1>1, <2>1, <2>2 DEF SendTypes, answers
  <2>3. QED
    BY <1>3, <2>1, <2>2
<1>5. CASE Get(r) \/ Closed(r) \/ Except(r) \/ Exit(r) \/ Reaped(r) \/ ReaderEnds(r)
  BY <1>1, <1>5 DEF Get, Closed, Except, Exit, Reaped, ReaderEnds, SendTypes, answers
<1>6. CASE Spawn(r)
  BY <1>1, <1>2, <1>6 DEF Spawn, SendTypes, answers
<1>7. CASE StartFails(r)
  BY <1>1, <1>7 DEF StartFails, SendTypes
<1>8. CASE GetWriteLock(r) \/ Drained(r)
  BY <1>1, <1>8 DEF GetWriteLock, Drained, SendTypes, answers
<1>9. CASE Answer(r)
  <2>1. mine[r] \in Runs
    BY <1>9 DEF Answer, PoolInv, Begun
  <2>2. worker[mine[r]].process \in Runs \cup {NoOne}
    BY <1>1, <2>1 DEF WorkerRec
  <2>3. QED
    BY <1>1, <1>2, <1>9, <2>2 DEF Answer, SendTypes
<1>10. CASE AnswerGetsLock(r) \/ AnswerDrained(r) \/ StreamBreaks(r)
  BY <1>1, <1>10 DEF AnswerGetsLock, AnswerDrained, StreamBreaks, AnswerSent, SendTypes
<1>11. QED
  BY <1>4, <1>5, <1>6, <1>7, <1>8, <1>9, <1>10 DEF PoolStep, Progress

\* A send that goes on changes nothing else.
LEMMA SendingInv ==
    ASSUME PoolInv, NEW r \in Runs, SendTypes',
           GetWriteLock(r) \/ Drained(r) \/ Answer(r) \/ AnswerGetsLock(r) \/ AnswerDrained(r)
    PROVE  PoolInv'
<1>1. UNCHANGED <<table, worker, proc, reader, pc, mine, reply, sent>>
  BY DEF GetWriteLock, Drained, Answer, AnswerGetsLock, AnswerDrained
<1>2. PoolTypes'
  BY <1>1 DEF PoolInv, PoolTypes
<1>3. ASSUME NEW q \in Runs PROVE Begun(q)' /\ Kept(q)' /\ Heard(q)'
  BY <1>1 DEF PoolInv, Begun, Kept, Heard
<1>4. QED
  BY <1>2, <1>3 DEF PoolInv

\* PoolInv is inductive: start, requests, failures, cancellation, the end of
\* processes and of readers in any order, for any set of runs.
THEOREM PoolInvariant == PoolSpec => []PoolInv
<1>1. ASSUME PoolInv, [PoolNext]_poolVars PROVE PoolInv'
  <2>1. ASSUME NEW r \in Runs, PoolStep(r) PROVE PoolInv'
    <3>1. SendTypes'
      BY <1>1, <2>1, SendTypesKept
    <3>2. CASE Get(r) \/ Cancel(r) \/ Exit(r) \/ Reaped(r) \/ ReaderEnds(r) \/ StreamBreaks(r)
      BY <1>1, <3>1, <3>2, GetInv, CancelInv, ExitInv, ReaderEndsInv, StreamBreaksInv
    <3>3. CASE Progress(r)
      BY <1>1, <3>1, <3>3, StartInv, SpawnInv, InitializedInv, AnsweredInv, TurnFailsInv,
         StartFailsInv, ClosedInv, ExceptInv DEF Progress
    <3>4. QED
      BY <1>1, <2>1, <3>1, <3>2, <3>3, SendingInv DEF PoolStep
  <2>2. CASE UNCHANGED poolVars
    BY <1>1, <2>2 DEF poolVars, answers, PoolInv, PoolTypes, SendTypes, Begun, Kept, Heard
  <2>3. QED
    BY <1>1, <2>1, <2>2 DEF PoolNext
<1>2. QED
  BY <1>1, PoolInitInv, PTL DEF PoolSpec

\* Types of the pool, and a request is pending exactly while its run waits for it.
THEOREM PoolTypeCorrect == PoolSpec => []PoolTypes
<1>1. PoolInv => PoolTypes
  BY DEF PoolInv
<1>2. QED
  BY <1>1, PoolInvariant, PTL

\* _read_stdout, _fail_pending and the kill of self.process together: however
\* many readers of replaced processes live on, no run waits on a working process
\* whose output nobody reads.
THEOREM NoDeafWaitHolds == PoolSpec => []NoDeafWait
<1>1. PoolInv => NoDeafWait
  BY DEF PoolInv, Heard, NoDeafWait
<1>2. QED
  BY <1>1, PoolInvariant, PTL

=============================================================================
