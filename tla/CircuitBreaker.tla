--------------------------- MODULE CircuitBreaker ---------------------------
(***************************************************************************)
(* The circuit breaker of one (plane, credential, model) key and the       *)
(* provider calls that pass through _guarded_provider_call.  A step is the *)
(* code between two awaits; the breaker is plain in-process state, so all  *)
(* interleaving is between a call's admission and its completion.          *)
(*                                                                         *)
(* A cancelled call stops in this process at once, but the operation it    *)
(* started may go on at the provider until the provider deadline.          *)
(***************************************************************************)
EXTENDS Integers, FiniteSets

CONSTANTS
    Calls,      \* the provider calls; each one is made once
    Threshold,  \* BREAKER_FAILURE_THRESHOLD
    Cooldown,   \* BREAKER_COOLDOWN_SECONDS, in ticks
    Deadline    \* the longest provider deadline of the plane, in ticks

ASSUME BreakerAssumption ==
    Threshold \in Nat \ {0} /\ Cooldown \in Nat \ {0} /\ Deadline \in Nat \ {0}

VARIABLES
    failures,   \* consecutive failures
    trips,      \* how often the breaker opened
    open,       \* open_until is set
    wait,       \* open_until - now, at least 0
    halfOpen,   \* a probe is out
    generation,
    call        \* call[c]: where c is, with its admission

breaker == <<failures, trips, open, wait, halfOpen, generation>>
vars == <<breaker, call>>

\* left: how long the provider may still work on a cancelled call.
NewCall == [at |-> "new", gen |-> 0, probe |-> FALSE, left |-> 0]
CallRecords == [at: {"new", "running", "cancelled", "over"}, gen: Nat,
                probe: BOOLEAN, left: 0..Deadline]

TypeOK ==
    /\ failures \in Nat /\ trips \in Nat
    /\ open \in BOOLEAN
    /\ wait \in Nat /\ (wait <= Cooldown \/ wait <= Deadline)
    /\ halfOpen \in BOOLEAN /\ generation \in Nat
    /\ call \in [Calls -> CallRecords]

Init ==
    /\ failures = 0 /\ trips = 0
    /\ open = FALSE /\ wait = 0
    /\ halfOpen = FALSE /\ generation = 0
    /\ call = [c \in Calls |-> NewCall]

-----------------------------------------------------------------------------
(* _breaker_before_call. *)

Admissible == ~halfOpen /\ wait = 0

\* A closed breaker admits everybody, an open one whose time has come admits
\* one half-open probe.
Admit(c) ==
    /\ call[c].at = "new" /\ Admissible
    /\ call' = [call EXCEPT ![c] = [at |-> "running", gen |-> generation,
                                    probe |-> open, left |-> 0]]
    /\ halfOpen' = open
    /\ UNCHANGED <<failures, trips, open, wait, generation>>

Reject(c) ==
    /\ call[c].at = "new" /\ ~Admissible
    /\ call' = [call EXCEPT ![c].at = "over"]
    /\ UNCHANGED breaker

-----------------------------------------------------------------------------
(* Completion of an admitted call. *)

\* Mutant: completions of an earlier generation count too.
CurrentAlways(c) == TRUE

\* The admission is of the breaker's present generation.
Current(c) == call[c].gen = generation

\* A probe's answer counts while its half-open window lasts, any other answer
\* only while the breaker is closed.
Counts(c) ==
    /\ Current(c)
    /\ IF call[c].probe THEN halfOpen /\ open ELSE ~halfOpen /\ ~open

\* A failure opens the breaker: a failed probe, or the threshold is reached.
TripsNow(c) == call[c].probe \/ failures + 1 >= Threshold

\* The breaker moves on to the next generation, open for another d ticks.
Fence(d) ==
    /\ open' = TRUE /\ wait' = d
    /\ halfOpen' = FALSE
    /\ generation' = generation + 1

Over(c) ==
    /\ call[c].at = "running"
    /\ call' = [call EXCEPT ![c].at = "over"]

Success(c) ==
    /\ Over(c)
    /\ \/ /\ Counts(c) /\ call[c].probe
          /\ failures' = 0 /\ open' = FALSE /\ wait' = 0 /\ halfOpen' = FALSE
          /\ generation' = generation + 1
          /\ UNCHANGED trips
       \/ /\ Counts(c) /\ ~call[c].probe
          /\ failures' = 0
          /\ UNCHANGED <<trips, open, wait, halfOpen, generation>>
       \/ ~Counts(c) /\ UNCHANGED breaker

Failure(c) ==
    /\ Over(c)
    /\ \/ /\ Counts(c) /\ TripsNow(c)
          /\ failures' = failures + 1 /\ trips' = trips + 1
          /\ Fence(Cooldown)
       \/ /\ Counts(c) /\ ~TripsNow(c)
          /\ failures' = failures + 1
          /\ UNCHANGED <<trips, open, wait, halfOpen, generation>>
       \/ ~Counts(c) /\ UNCHANGED breaker

\* Mutant: a replacement probe after the cooldown alone.
AbandonDelayShort == Cooldown

\* _breaker_abandon_delay_seconds.
AbandonDelay == IF Cooldown > Deadline THEN Cooldown ELSE Deadline

\* Mutant: a cancelled call leaves the breaker as it is.
AbandonNothing(c) ==
    /\ call[c].at = "running"
    /\ \E left \in 0..Deadline :
         call' = [call EXCEPT ![c].at = "cancelled", ![c].left = left]
    /\ UNCHANGED breaker

\* CancelledError: _breaker_abandon_probe fences the probe's provider
\* operation without counting a failure.
Abandon(c) ==
    /\ call[c].at = "running"
    /\ \E left \in 0..Deadline :
         call' = [call EXCEPT ![c].at = "cancelled", ![c].left = left]
    /\ \/ /\ call[c].probe /\ Current(c) /\ halfOpen
          /\ Fence(AbandonDelay)
          /\ UNCHANGED <<failures, trips>>
       \/ ~(call[c].probe /\ Current(c) /\ halfOpen) /\ UNCHANGED breaker

Down(n) == IF n > 0 THEN n - 1 ELSE 0

Tick ==
    /\ wait > 0 \/ \E c \in Calls : call[c].left > 0
    /\ wait' = Down(wait)
    /\ call' = [c \in Calls |-> [call[c] EXCEPT !.left = Down(@)]]
    /\ UNCHANGED <<failures, trips, open, halfOpen, generation>>

-----------------------------------------------------------------------------
Complete(c) == Success(c) \/ Failure(c) \/ Abandon(c)

Next ==
    \/ \E c \in Calls : Admit(c) \/ Reject(c) \/ Complete(c)
    \/ Tick

Spec == Init /\ [][Next]_vars

\* Provider deadlines end every call, and time passes; calls need not come.
FairSpec == Spec /\ WF_vars(Tick) /\ \A c \in Calls : WF_vars(Complete(c))

-----------------------------------------------------------------------------
InFlight(c) == call[c].at = "running" \/ call[c].left > 0

\* The provider never works on two half-open probes of a key at once, a probe
\* whose caller was cancelled included: the abandon delay outlasts it.
OneProbe ==
    \A c, d \in Calls :
        call[c].probe /\ call[d].probe /\ InFlight(c) /\ InFlight(d) => c = d

\* half_open always has a live call that will clear it: no completion order,
\* late answer or cancellation leaks the probe and locks the breaker.
ProbeHeld ==
    halfOpen => \E c \in Calls :
        call[c].at = "running" /\ call[c].probe /\ Current(c)

\* The breaker is open exactly when the threshold of consecutive failures was
\* reached and no probe has succeeded since, whatever late answers came in.
OpenAtThreshold == open <=> failures >= Threshold

\* An answer admitted under an earlier generation changes nothing: a late
\* success cannot close an open breaker, a late failure cannot trip a
\* recovered one.
StaleIgnored ==
    [][\A c \in Calls :
          call[c].at = "running" /\ call[c].gen < generation
              /\ call'[c].at # "running" => UNCHANGED breaker]_vars

\* An open breaker never stays shut: time and again it is ready to admit a
\* call, probes that fail or are cancelled notwithstanding.
ProbeAvailable == []<>Admissible
=============================================================================
