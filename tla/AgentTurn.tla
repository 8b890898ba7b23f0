----------------------------- MODULE AgentTurn -----------------------------
(***************************************************************************)
(* One agent turn of src/src/unigrok_public/server.py: _execute_team_turn  *)
(* and everything it awaits (route votes, the semantic router, the         *)
(* specialist, the hive, the unified call with its recovery and its single *)
(* cross-plane fallback, the local floor, the final polish).               *)
(*                                                                         *)
(* Data is reduced to what the receipts are made of.  A provider reply is  *)
(* "answer", "junk" (a non-answer, or a vote that does not parse) or       *)
(* "empty"; its usage is Cost[plane], standing for cost_usd and the token  *)
(* counters, which the code adds up at the same places.  Of the list       *)
(* incurred_attempts only its total is kept (att).  Exceptions keep the    *)
(* class _classify_fallback_reason gives them; "other" is every class      *)
(* whose trigger is neither shed nor non_answer (missing capability,       *)
(* timeout, rate limit, authentication, open breaker, transport, runtime). *)
(***************************************************************************)
EXTENDS Integers, FiniteSets, FiniteSetsExt, Governor

CONSTANTS
    Voters,        \* the lanes of the parallel votes (route votes, personas)
    ApiVoters,     \* the personas with an odd index: they ask the API plane
    Cost,          \* usage of one reply of a plane
    Slots,         \* local_concurrency_budget
    ContinueMax    \* knob continue_max

Planes == {"cli", "api", "local"}
Readiness == [Planes -> BOOLEAN]
Lanes == Voters \cup {"main"}

ASSUME TurnAssumption ==
    /\ IsFiniteSet(Voters) /\ "main" \notin Voters /\ ApiVoters \subseteq Voters
    /\ Cost \in [{"cli", "api"} -> Nat \ {0}]
    /\ Slots \in Nat /\ ContinueMax \in Nat

VARIABLES
    metered,   \* METERED_API_ENABLED, fixed when the process starts
    direct,    \* DIRECT_TALK_ACTIVE, fixed when the process starts
    permits,   \* free permits of _LOCAL_SLOTS
    lane,      \* the _run_unified activation each lane is in
    turn,      \* locals of _execute_team_turn and of _run_hive
    due,       \* history: usage of the replies of this turn, without those a
               \* call itself let go of
    billed     \* history: the API plane has replied in this turn

vars == <<metered, direct, permits, lane, turn, due, billed>>

-----------------------------------------------------------------------------
(* Results, exceptions and their usage *)

Texts == {"answer", "junk", "empty"}
Kinds == {"none", "value", "budget", "incomplete", "congested", "other"}
Triggers == {"none", "shed", "non_answer", "no_floor", "error"}

\* A result dict: cost_usd, the total of its incurred_attempts, the text, the
\* trigger, the status key ("none": absent) and continue_count.
Result(cost, att, text) ==
    [ok |-> TRUE, cost |-> cost, att |-> att, text |-> text, trigger |-> "none",
     status |-> "none", count |-> 0, kind |-> "none"]

\* An exception, with the incurred_attempts an _IncurredUsageError carries.
Raised(kind, att) ==
    [ok |-> FALSE, cost |-> 0, att |-> att, text |-> "empty", trigger |-> "none",
     status |-> "none", count |-> 0, kind |-> kind]

\* _usage_attempts_for_result: the attempts already listed and one residual
\* attempt for the rest of cost_usd, never negative.
UsageAttempts(r) == r.att + Max({0, r.cost - r.att})

\* The receipt a vote leaves, a failed one too (_failed_usage_stage): its cost,
\* its attempts and whether it parsed.
VoteReceipt(r) ==
    Result(IF r.ok THEN r.cost ELSE r.att, r.att,
           IF r.ok /\ r.text = "answer" THEN "answer" ELSE "junk")

\* _merge_incurred_usage: earlier attempts are added to the cost and listed.
MergeIncurred(r, att) == [r EXCEPT !.cost = @ + att, !.att = @ + att]

\* _classify_fallback_reason followed by _canonical_trigger; "error" stands for
\* every other trigger.
CanonicalTrigger(kind) ==
    CASE kind = "incomplete" -> "non_answer"
      [] kind = "congested"  -> "shed"
      [] OTHER               -> "error"

\* Mutant: a status already set does not stop a second increment.
ApplyContinueTwice(r) ==
    IF r.trigger \notin {"shed", "non_answer"} THEN r
    ELSE [r EXCEPT !.count = @ + 1,
                   !.status = IF r.count + 1 > ContinueMax THEN "error" ELSE "continue"]

\* _apply_continue_bound, idempotent once a status is set.
ApplyContinueBound(r) ==
    IF r.trigger \notin {"shed", "non_answer"} \/ r.status \in {"continue", "error"}
    THEN r
    ELSE [r EXCEPT !.count = @ + 1,
                   !.status = IF r.count + 1 > ContinueMax THEN "error" ELSE "continue"]

\* _receipt of a recovery: an own trigger wins over the reason of the swap.
FallbackReceipt(r, kind) ==
    [r EXCEPT !.trigger = IF @ # "none" THEN @ ELSE CanonicalTrigger(kind)]

-----------------------------------------------------------------------------
(* _run_unified, one activation per lane *)

Idle ==
    [pc |-> "idle", req |-> "auto", recover |-> FALSE, swapped |-> FALSE,
     tgt |-> "none", att |-> 0, kind |-> "none", init |-> 0, out |-> Raised("none", 0)]

\* _resolve_plane over fresh or cached catalogs ("none": it raises).
ResolvePlane(req, ready) ==
    IF req # "auto" THEN IF ready[req] THEN req ELSE "none"
    ELSE IF ready["cli"] THEN "cli"
    ELSE IF ready["api"] THEN IF metered THEN "api" ELSE "none"
    ELSE IF ready["local"] THEN "local" ELSE "none"

\* A call of _run_unified, up to its first shared step: the plane it asks for and
\* nonanswer_recovery.  A direct-talk peer never resolves a plane.
Opened(req, recover) ==
    LET On(pc, p) == [Idle EXCEPT !.pc = pc, !.tgt = p, !.req = req, !.recover = recover]
        At(p) == CASE p = "none"  -> [Idle EXCEPT !.pc = "done", !.out = Raised("other", 0)]
                   [] p = "local" -> On("slot", p)
                   [] OTHER       -> On("call", p)
    IN  IF direct THEN {On("direct", "local")}
        ELSE {At(ResolvePlane(req, ready)) : ready \in Readiness}

Finish(l, r) ==
    lane' = [lane EXCEPT ![l] = [Idle EXCEPT !.pc = "done",
                                   !.out = IF l = "main" THEN r ELSE VoteReceipt(r)]]

\* A result leaves: after a swap it absorbs what the first plane incurred.
Deliver(l, r) ==
    Finish(l, IF ~lane[l].swapped THEN r
              ELSE FallbackReceipt(MergeIncurred(r, lane[l].att), lane[l].kind))

\* The same for a local result, which may still be marked "continue".
DeliverLocal(l, r) ==
    Finish(l, IF ~lane[l].swapped THEN r
              ELSE ApplyContinueBound(
                     FallbackReceipt(MergeIncurred(r, lane[l].att), lane[l].kind)))

\* Mutant: a recovery may itself be recovered from.
RecoverableAgain(l, kind) == kind # "value" /\ (kind = "budget" => lane[l].req = "auto")

\* Which failures of the first plane look for another one.
Recoverable(l, kind) ==
    /\ ~lane[l].swapped
    /\ kind # "value"
    /\ kind = "budget" => lane[l].req = "auto"

\* _alternate_plane over refreshed catalogs: local when a slot is free (it is
\* taken and handed back without an await between), else the other plane, else
\* "none".
AlternatePlanes(current) ==
    LET other == IF current = "cli" THEN "api" ELSE "cli" IN
    {IF ready["local"] /\ permits > 0 THEN "local"
     ELSE IF ready[other] THEN other ELSE "none" : ready \in Readiness}

\* An exception carrying att: recover once on another plane, or let it out
\* together with what the first plane incurred.
Fail(l, kind, att) ==
    \E p \in IF Recoverable(l, kind) THEN AlternatePlanes(lane[l].tgt) ELSE {"none"} :
      IF p = "none" THEN Finish(l, Raised(kind, lane[l].att + att))
      ELSE lane' = [lane EXCEPT ![l] =
                      [lane[l] EXCEPT !.pc = IF p = "local" THEN "slot" ELSE "call",
                                      !.tgt = p, !.swapped = TRUE,
                                      !.att = lane[l].att + att, !.kind = kind, !.init = 0]]

\* _serve_local_direct_noncertified: a plain answer, a canned error, or an open
\* breaker; the peer never leaves the local runtime.
DirectTalk(l) ==
    /\ lane[l].pc = "direct"
    /\ \E r \in { Result(0, 0, "answer"), Result(0, 0, "junk"), Raised("other", 0),
                  [Result(0, 0, "junk") EXCEPT !.status = "error"] } : Finish(l, r)
    /\ UNCHANGED <<metered, direct, permits, turn, due, billed>>

\* A plane answers; its usage is known, or the call that got it raises and no
\* receipt will show it: Build reported a missing capability, or
\* settle_local_budget failed.
Reply(p) == due' = due + Cost[p] /\ billed' = (billed \/ p = "api")
LostReply(p) == due' = due /\ billed' = (billed \/ p = "api")

\* Mutant: the API call does not ask for the metered policy.
MayCallAlways(p) == TRUE

\* _require_metered_api_enabled in front of every API call.
MayCall(p) == p = "api" => metered

\* Mutant: the attempt rejected first is not carried by the exception.
FailRetryForgets(l, kind, att) == Fail(l, kind, att)

\* What a failing retry raises: with the attempt that was rejected first.
FailRetry(l, kind, att) == Fail(l, kind, lane[l].init + att)

\* _call and _call_with_recovery: the plane answers.  A first non-answer is
\* asked again, a second one is an error that carries both.
CallReplies(l) ==
    /\ lane[l].pc = "call" /\ MayCall(lane[l].tgt)
    /\ Reply(lane[l].tgt)
    /\ \E text \in {"answer", "junk"} :
         LET cost == Cost[lane[l].tgt] IN
         CASE text = "junk" /\ lane[l].recover /\ lane[l].init = 0 ->
                lane' = [lane EXCEPT ![l].init = cost]
           [] text = "junk" /\ lane[l].recover /\ lane[l].init > 0 ->
                FailRetry(l, "incomplete", cost)
           [] OTHER -> Deliver(l, Result(lane[l].init + cost, lane[l].init, text))
    /\ UNCHANGED <<metered, direct, permits, turn>>

\* The call raises before any reply: the metered policy, a budget refusal (API
\* only), an open breaker or the provider itself.
CallRaises(l) ==
    /\ lane[l].pc = "call"
    /\ \E kind \in {"value", "budget", "congested", "other"} :
         /\ kind = "budget" => lane[l].tgt = "api"
         /\ ~MayCall(lane[l].tgt) => kind = "other"
         /\ FailRetry(l, kind, 0)
    /\ UNCHANGED <<metered, direct, permits, turn, due, billed>>

\* The plane answered and the call still raises.
CallLosesReply(l) ==
    /\ lane[l].pc = "call" /\ MayCall(lane[l].tgt)
    /\ LostReply(lane[l].tgt)
    /\ FailRetry(l, IF lane[l].tgt = "cli" THEN "other" ELSE "budget", 0)
    /\ UNCHANGED <<metered, direct, permits, turn>>

-----------------------------------------------------------------------------
(* _serve_local_offline *)

\* _local_slot_acquire: non-blocking, no queue.
SlotFree == permits > 0

\* Without a free slot the serve is shed at once.
LocalSlot(l) ==
    /\ lane[l].pc = "slot"
    /\ IF SlotFree
       THEN /\ permits' = permits - 1
            /\ lane' = [lane EXCEPT ![l].pc = "local"]
       ELSE /\ DeliverLocal(l, ApplyContinueBound(
                                 [Result(0, 0, "empty") EXCEPT !.trigger = "shed"]))
            /\ UNCHANGED permits
    /\ UNCHANGED <<metered, direct, turn, due, billed>>

\* _local_op_role_fit finds no bound model for the skill, the task wants media, or
\* neither the router floor nor a direct chat answers: fail closed.
LocalNoFloor == [Result(0, 0, "empty") EXCEPT !.trigger = "no_floor", !.status = "error"]

\* The router floor raised and a plain chat answered instead.
LocalDirect == [Result(0, 0, "answer") EXCEPT !.trigger = "no_floor"]

\* What router floor and specialist can come to; a non-answer is bounded.
LocalOutcomes ==
    { LocalNoFloor, LocalDirect, Result(0, 0, "answer"),
      ApplyContinueBound([Result(0, 0, "junk") EXCEPT !.trigger = "non_answer"]) }

\* Mutant: the slot is given back only when the serve returns a result.
ReleaseOnResult(ok) == permits' = IF ok THEN permits + 1 ELSE permits

\* _local_slot_release in the finally block.
Release(ok) == permits' = permits + 1

LocalServes(l) ==
    /\ lane[l].pc = "local"
    /\ Release(TRUE)
    /\ \E r \in LocalOutcomes : DeliverLocal(l, r)
    /\ UNCHANGED <<metered, direct, turn, due, billed>>

\* The specialist's _local_chat raises.
LocalRaises(l) ==
    /\ lane[l].pc = "local"
    /\ Release(FALSE)
    /\ Finish(l, Raised("other", lane[l].att))
    /\ UNCHANGED <<metered, direct, turn, due, billed>>

LaneStep(l) ==
    \/ DirectTalk(l) \/ CallReplies(l) \/ CallRaises(l) \/ CallLosesReply(l)
    \/ LocalSlot(l) \/ LocalServes(l) \/ LocalRaises(l)

-----------------------------------------------------------------------------
(* _execute_team_turn *)

NewTurn ==
    [stage |-> "new", depth |-> "auto", route |-> "direct", api |-> FALSE,
     floor |-> FALSE, rvotes |-> 0, rcost |-> 0, draft |-> Raised("none", 0),
     hcost |-> 0, hatt |-> 0, hprior |-> 0, out |-> Raised("none", 0)]

Init ==
    /\ metered \in BOOLEAN /\ direct \in BOOLEAN
    /\ permits = Slots
    /\ lane = [l \in Lanes |-> Idle]
    /\ turn = NewTurn
    /\ due = 0 /\ billed = FALSE

Main == lane["main"]
OpenMain ==
    \E a \in Opened("auto", TRUE) : lane' = [l \in Lanes |-> IF l = "main" THEN a ELSE Idle]
OpenVotes(req) ==
    \E a \in [Voters -> UNION {Opened(req[v], FALSE) : v \in Voters}] :
      /\ \A v \in Voters : a[v] \in Opened(req[v], FALSE)
      /\ lane' = [l \in Lanes |-> IF l = "main" THEN Idle ELSE a[l]]
VotesIn == \A v \in Voters : lane[v].pc = "done"
Parsed == {v \in Voters : lane[v].out.text = "answer"}
SumVotes(f(_)) == SumFunctionOnSet([v \in Voters |-> f(lane[v].out)], Voters)
VoteCost(r) == r.cost
VoteListed(r) == r.att

\* _routing_usage_attempts: the votes and a residual for the semantic router.
RouterAttempts == turn.rvotes + Max({0, turn.rcost - turn.rvotes})

\* The votes may make a bare auto turn deep or a hive.
Escalated(route, hint) ==
    IF turn.depth = "auto" /\ route \in {"direct", "code"} /\ hint \in {"deep", "hive"}
    THEN hint ELSE turn.depth

\* The turn raises; of its locals only the exception is left.
TurnFails(att) == turn' = [NewTurn EXCEPT !.stage = "done", !.out = Raised("other", att)]

\* A result is there; deep turns may need one polish.
HasResult(t, r) ==
    \/ turn' = [t EXCEPT !.stage = "wrap", !.out = r] /\ lane' = [lane EXCEPT !["main"] = Idle]
    \/ t.depth = "deep" /\ turn' = [t EXCEPT !.stage = "polish", !.out = r] /\ OpenMain

\* _media_unavailable_result: a canned capability message.
MediaResult == Result(0, 0, "answer")

\* What the governor may come to for a turn.
GovernorSettings ==
    {ExecutionSettings(Recommend(s, f, "ultra", FALSE)) : s \in SUBSET Signals, f \in Failures}

\* The depths agent() may hand over: a caller's level or depth, or what the
\* governor recommends.
TurnDepths ==
    LET Asked == {"auto", "direct", "deep", "hive"}
        Governed == {{}} \cup {{g} : g \in GovernorSettings}
    IN {ResolvedDepth(literal, level, depth, settings, hard) :
          literal \in BOOLEAN, level \in Range(Levels) \cup {NoLevel}, depth \in Asked,
          settings \in Governed, hard \in BOOLEAN}

\* Catalogs, the media guard, the offline check and the choice of a router.
Begin ==
    /\ turn.stage = "new"
    /\ \E depth \in TurnDepths, cat \in Readiness :
       \E blocked \in BOOLEAN, sure \in BOOLEAN :
         LET t == [turn EXCEPT !.depth = depth, !.api = cat["api"], !.floor = cat["local"]]
             \* the turn resolves its own plane from the same catalogs
             offline == ResolvePlane("auto", cat) = "local"
         IN
         IF blocked THEN HasResult([turn EXCEPT !.depth = depth], MediaResult)
         ELSE IF offline /\ depth # "hive"
         THEN /\ turn' = [turn EXCEPT !.depth = depth, !.stage = "offline"]
              /\ lane' = [lane EXCEPT !["main"] = [Idle EXCEPT !.pc = "slot", !.tgt = "local"]]
         ELSE IF depth = "auto" /\ ~sure
         THEN turn' = [t EXCEPT !.stage = "rvotes"] /\ OpenVotes([v \in Voters |-> "cli"])
         ELSE turn' = [t EXCEPT !.stage = "special"] /\ UNCHANGED lane
    /\ UNCHANGED <<metered, direct, permits, due, billed>>

\* _hive_route counts its votes; fewer than two parsed ones go to _route_task.
CountRouteVotes ==
    /\ turn.stage = "rvotes" /\ VotesIn
    /\ LET t == [turn EXCEPT !.rvotes = SumVotes(UsageAttempts), !.rcost = SumVotes(VoteCost)]
       IN  IF Cardinality(Parsed) < 2
           THEN turn' = [t EXCEPT !.stage = "semantic"]
           ELSE \E route \in {"direct", "code", "media"}, hint \in {"fast", "deep", "hive"} :
                  turn' = [t EXCEPT !.stage = "special", !.route = route,
                                    !.depth = Escalated(route, hint)]
    /\ lane' = [l \in Lanes |-> Idle]
    /\ UNCHANGED <<metered, direct, permits, due, billed>>

\* Votes that came to nothing keep their spend beside the semantic router's.
WithRouter(t, cost) == [t EXCEPT !.rcost = @ + cost]

\* _local_floor_route: any route of a ready local floor, else "direct".
FloorRoutes ==
    \E route \in {"direct"} \cup IF turn.floor THEN {"code", "media"} ELSE {} :
      turn' = [turn EXCEPT !.stage = "special", !.route = route]

\* _route_task: an API call when metered, ready and within budget, whose reply
\* is counted even if it does not parse; otherwise, or when it raises, the
\* local floor or "direct".
RouteTask ==
    /\ turn.stage = "semantic"
    /\ \/ /\ metered /\ turn.api /\ Reply("api")
          /\ \E route \in {"direct", "code", "media"} :
               turn' = [WithRouter(turn, Cost["api"]) EXCEPT !.stage = "special",
                                                             !.route = route]
       \/ metered /\ turn.api /\ LostReply("api") /\ FloorRoutes
       \/ FloorRoutes /\ UNCHANGED <<due, billed>>
    /\ UNCHANGED <<metered, direct, permits, lane>>

\* The catalogs and the route are not read again once the work starts.
Routed == [turn EXCEPT !.api = FALSE, !.floor = FALSE, !.route = "direct"]

\* No specialist: the route has none, the API is off or not ready, or the
\* catalog lists no model for it.  A hive drafts with _run_unified instead.
Unified == /\ turn' = [Routed EXCEPT !.stage = IF turn.depth = "hive" THEN "draft" ELSE "unified"]
           /\ OpenMain

\* The persona votes of _run_hive, over the draft; api says whether the hive
\* found the metered API ready.
OpenHiveVotes(draft, api) ==
    /\ turn' = [Routed EXCEPT !.stage = "hvotes", !.draft = draft]
    /\ OpenVotes([v \in Voters |-> IF api /\ v \in ApiVoters THEN "api" ELSE "cli"])

\* _run_specialist, for the turn or for the draft of a hive (code only).  The
\* hive looks at the catalogs again.  A budget refusal of a turn falls through
\* to _run_unified when the local plane was ready.
Specialist ==
    /\ turn.stage = "special"
    /\ LET hive == turn.depth = "hive"
           may  == /\ metered /\ (hive \/ turn.api)
                   /\ turn.route \in IF hive THEN {"code"} ELSE {"code", "media"}
           Raise(kind) == IF ~hive /\ kind = "budget" /\ turn.floor THEN Unified
                          ELSE TurnFails(RouterAttempts) /\ UNCHANGED lane
       IN \/ Unified /\ UNCHANGED <<due, billed>>
          \/ /\ may /\ Reply("api")
             /\ \E text \in {"answer", "junk"} :
                  LET r == Result(Cost["api"], 0, text) IN
                  IF hive THEN OpenHiveVotes(r, TRUE) ELSE HasResult(Routed, r)
          \/ may /\ LostReply("api") /\ Raise("budget")
          \/ /\ may /\ \E kind \in {"budget", "other"} : Raise(kind)
             /\ UNCHANGED <<due, billed>>
    /\ UNCHANGED <<metered, direct, permits>>

\* The unified call, or the offline serve, is back.
UnifiedBack ==
    /\ turn.stage \in {"unified", "offline"} /\ Main.pc = "done"
    /\ IF Main.out.ok THEN HasResult(turn, Main.out)
       ELSE /\ TurnFails(RouterAttempts + Main.out.att)
            /\ lane' = [lane EXCEPT !["main"] = Idle]
    /\ UNCHANGED <<metered, direct, permits, due, billed>>

DraftBack ==
    /\ turn.stage = "draft" /\ Main.pc = "done"
    /\ IF Main.out.ok THEN \E api \in {FALSE, metered} : OpenHiveVotes(Main.out, api)
       ELSE /\ TurnFails(RouterAttempts + Main.out.att)
            /\ lane' = [lane EXCEPT !["main"] = Idle]
    /\ UNCHANGED <<metered, direct, permits, due, billed>>

\* The attempts the result of a hive inherits.
HiveListed == turn.draft.att + SumVotes(VoteListed)

\* The persona votes are counted; one that parsed is enough for a merge.
CountHiveVotes ==
    /\ turn.stage = "hvotes" /\ VotesIn
    /\ LET cost == turn.draft.cost + SumVotes(VoteCost) IN
       IF Parsed = {}
       THEN /\ turn' = [turn EXCEPT !.stage = "wrap",
                          !.out = [turn.draft EXCEPT !.cost = cost, !.att = HiveListed],
                          !.draft = NewTurn.draft]
            /\ lane' = [l \in Lanes |-> Idle]
       ELSE /\ turn' = [turn EXCEPT !.stage = "merge", !.hcost = cost, !.hatt = HiveListed,
                          !.hprior = UsageAttempts(turn.draft) + SumVotes(UsageAttempts),
                          !.draft = [turn.draft EXCEPT !.cost = 0, !.att = 0]]
            /\ OpenMain
    /\ UNCHANGED <<metered, direct, permits, due, billed>>

\* The merge replaces the draft unless its text is empty; its failure carries
\* everything the hive incurred.
MergeBack ==
    /\ turn.stage = "merge" /\ Main.pc = "done"
    /\ LET base == IF Main.out.text # "empty" THEN Main.out ELSE turn.draft IN
       IF Main.out.ok
       THEN turn' = [turn EXCEPT !.stage = "wrap", !.draft = NewTurn.draft, !.hcost = 0,
                       !.hatt = 0, !.hprior = 0,
                       !.out = [base EXCEPT !.cost = turn.hcost + Main.out.cost,
                                            !.att = turn.hatt + Main.out.att]]
       ELSE TurnFails(RouterAttempts + turn.hprior + Main.out.att)
    /\ lane' = [lane EXCEPT !["main"] = Idle]
    /\ UNCHANGED <<metered, direct, permits, due, billed>>

\* The polish is optional: a failed one leaves the answer and adds what it
\* incurred, a usable one replaces the text.
PolishBack ==
    /\ turn.stage = "polish" /\ Main.pc = "done"
    /\ LET p == Main.out IN
       turn' = [turn EXCEPT !.stage = "wrap",
                  !.out = IF ~p.ok THEN MergeIncurred(turn.out, p.att)
                          ELSE [turn.out EXCEPT !.cost = @ + p.cost, !.att = @ + p.att,
                                  !.text = IF p.text = "answer" THEN "answer" ELSE @]]
    /\ lane' = [lane EXCEPT !["main"] = Idle]
    /\ UNCHANGED <<metered, direct, permits, due, billed>>

\* The router's spend is added; touching the facts or persisting a completed
\* session turn may fail, and the exception then carries all of it.
Wrap ==
    /\ turn.stage = "wrap"
    /\ LET r == [turn.out EXCEPT !.cost = @ + turn.rcost] IN
       \/ turn' = [NewTurn EXCEPT !.stage = "done", !.out = r]
       \/ r.status = "none" /\ TurnFails(UsageAttempts(r))
    /\ UNCHANGED <<metered, direct, permits, lane, due, billed>>

\* The next turn of the process; the histories are per turn.
Again ==
    /\ turn.stage = "done"
    /\ turn' = NewTurn /\ lane' = [l \in Lanes |-> Idle]
    /\ due' = 0 /\ billed' = FALSE
    /\ UNCHANGED <<metered, direct, permits>>

TurnStep ==
    \/ Begin \/ CountRouteVotes \/ RouteTask \/ Specialist \/ UnifiedBack
    \/ DraftBack \/ CountHiveVotes \/ MergeBack \/ PolishBack \/ Wrap

Next == TurnStep \/ (\E l \in Lanes : LaneStep(l)) \/ Again

\* Every awaited call returns or raises: providers and the local runtime have
\* timeouts, the store's threads end.
Spec ==
    /\ Init /\ [][Next]_vars
    /\ WF_vars(TurnStep) /\ \A l \in Lanes : WF_vars(LaneStep(l))

-----------------------------------------------------------------------------
(* Properties *)

Outcome ==
    [ok : BOOLEAN, cost : Nat, att : Nat, text : Texts, trigger : Triggers,
     status : {"none", "continue", "error"}, count : Nat, kind : Kinds]

TypeOK ==
    /\ metered \in BOOLEAN /\ direct \in BOOLEAN /\ permits \in 0..Slots
    /\ lane \in [Lanes -> [pc : {"idle", "direct", "call", "slot", "local", "done"},
                           req : {"auto", "cli", "api"}, recover : BOOLEAN,
                           swapped : BOOLEAN, tgt : Planes \cup {"none"},
                           att : Nat, kind : Kinds, init : Nat, out : Outcome]]
    /\ turn \in [stage : {"new", "rvotes", "semantic", "special", "unified", "offline",
                          "draft", "hvotes", "merge", "polish", "wrap", "done"},
                 depth : {"auto", "direct", "deep", "hive"},
                 route : {"direct", "code", "media"}, api : BOOLEAN, floor : BOOLEAN,
                 rvotes : Nat, rcost : Nat, draft : Outcome, hcost : Nat, hatt : Nat,
                 hprior : Nat, out : Outcome]
    /\ due \in Nat /\ billed \in BOOLEAN

\* Known usage survives: whichever way a turn ends, what it reports (cost_usd of
\* its result, or the attempts its exception carries) is exactly the usage of
\* all replies of all its stages, rejected and failed ones included, and none
\* twice.  Only replies a call itself let go of (LostReply) are missing.
UsageConserved ==
    turn.stage = "done" =>
      due = IF turn.out.ok THEN turn.out.cost ELSE turn.out.att

\* UNIGROK_ENABLE_METERED_API=false: no stage of any turn gets a reply of the
\* metered plane, whatever falls back onto what.
MeteredOff == billed => metered

\* Every local slot is free or held by a serve that is running: no way out of a
\* serve keeps one, none is given back twice.
SlotsAccounted == permits + Cardinality({l \in Lanes : lane[l].pc = "local"}) = Slots

\* Within one turn continue_count is raised once at most, though the offline
\* serve and the tail of the fallback that called it both apply the bound, and
\* what says "continue" was counted.  Every turn of a job starts at 0, so this
\* does not bound the job; which results deserve to be continued is
\* AnswerNotContinued.
ContinueOnce ==
    \A r \in {turn.out} \cup {lane[l].out : l \in Lanes} :
      r.count <= 1 /\ (r.status = "continue" => r.count = 1)

\* "Success: continue_count 0; do NOT invent a status key" (_serve_local_offline):
\* an answer is not marked as one to be continued.
AnswerNotContinued ==
    \A l \in Lanes : lane[l].out.text = "answer" =>
      lane[l].out.status = "none" /\ lane[l].out.count = 0

\* Every turn ends, after one recovery and one retry per plane at most.
TurnEnds == turn.stage # "new" ~> turn.stage = "done"

=============================================================================
