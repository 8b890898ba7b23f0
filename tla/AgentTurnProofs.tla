-------------------------- MODULE AgentTurnProofs --------------------------
(***************************************************************************)
(* Proofs about AgentTurn, for any set of voters, costs of a reply, number *)
(* of local slots and knob continue_max.                                   *)
(*                                                                         *)
(* The inductive invariant is a balance sheet.  What a turn owes (due) is  *)
(* at every moment held exactly once: by an activation under way (Held: a  *)
(* rejected first attempt, the attempts of a plane given up), by a result  *)
(* or exception not yet collected (Owed), or by the locals of the turn     *)
(* (Owns: router, draft, hive, result).  Every handler moves usage from    *)
(* one holder to another.  It needs that a result never lists more         *)
(* attempts than it costs (Sound), so that the residual attempt makes up   *)
(* the rest, and that only the lanes of the present stage hold anything    *)
(* (Placed).                                                               *)
(*                                                                         *)
(* The last part is about the governor, a pure function: beliefs, score,   *)
(* rung, level and roles are each monotone in the signals found and in the *)
(* number of failed verifications, and so is what a turn makes of them.    *)
(***************************************************************************)
EXTENDS AgentTurn, SumTheorems

\* What a result or an exception accounts for.
Owed(r) == IF r.ok THEN r.cost ELSE r.att

\* A result lists no more attempts than it costs, and was bounded once at most.
Sound(r) ==
    /\ r \in Outcome
    /\ r.att <= r.cost \/ ~r.ok
    /\ r.count <= 1 /\ (r.status = "none" => r.count = 0)
    /\ r.status = "continue" => r.count = 1

LaneRec == [pc : {"idle", "direct", "call", "slot", "local", "done"},
            req : {"auto", "cli", "api"}, recover : BOOLEAN,
            swapped : BOOLEAN, tgt : Planes \cup {"none"},
            att : Nat, kind : Kinds, init : Nat, out : Outcome]

\* An activation a of lane l.
LaneOK(l, a) ==
    /\ a \in LaneRec /\ Sound(a.out)
    /\ a.pc \in {"idle", "direct"} => a.att = 0 /\ a.init = 0
    /\ a.pc \in {"slot", "local"} => a.init = 0
    /\ a.pc = "call" => a.tgt \in {"cli", "api"}
    /\ a.swapped \/ a.att = 0
    /\ a.pc = "direct" => ~a.swapped
    /\ a.pc = "done" /\ l # "main" => a.out.att <= a.out.cost

\* The usage it holds.
Held(l, a) == IF a.pc # "done" THEN a.att + a.init
              ELSE IF l = "main" THEN Owed(a.out) ELSE a.out.cost

LanesHeld == SumFunctionOnSet([l \in Lanes |-> Held(l, lane[l])], Lanes)

MainStages == {"unified", "offline", "draft", "merge", "polish"}
VoteStages == {"rvotes", "hvotes"}

\* Only the lanes of the present stage are at work.
Placed == \A l \in Lanes :
    lane[l] # Idle => turn.stage \in IF l = "main" THEN MainStages ELSE VoteStages

\* The usage the turn's own locals hold.
Owns(t) == IF t.stage = "done" THEN Owed(t.out)
           ELSE t.rcost + t.draft.cost + t.hcost + t.out.cost

TurnHeld == Owns(turn)

TurnRec == [stage : {"new", "rvotes", "semantic", "special", "unified", "offline",
                          "draft", "hvotes", "merge", "polish", "wrap", "done"},
                 depth : {"auto", "direct", "deep", "hive"},
                 route : {"direct", "code", "media"}, api : BOOLEAN, floor : BOOLEAN,
                 rvotes : Nat, rcost : Nat, draft : Outcome, hcost : Nat, hatt : Nat,
                 hprior : Nat, out : Outcome]

TurnOK(t) ==
    /\ t \in TurnRec /\ Sound(t.out) /\ Sound(t.draft)
    /\ t.rvotes <= t.rcost /\ t.hprior = t.hcost /\ t.hatt <= t.hcost
    /\ t.stage \in {"new", "rvotes"} => t.rcost = 0
    /\ t.stage \notin {"polish", "wrap", "done"} => t.out.cost = 0
    /\ t.stage # "hvotes" => t.draft.cost = 0
    /\ t.stage # "merge" => t.hcost = 0
    /\ t.stage \in {"polish", "wrap"} => t.out.ok
    /\ t.stage \in {"hvotes", "merge"} => t.draft.ok

AtLocal == {l \in Lanes : lane[l].pc = "local"}

TurnInv ==
    /\ metered \in BOOLEAN /\ direct \in BOOLEAN /\ billed \in BOOLEAN
    /\ due \in Nat /\ permits \in Nat
    /\ lane \in [Lanes -> LaneRec] /\ \A l \in Lanes : LaneOK(l, lane[l])
    /\ TurnOK(turn) /\ Placed
    /\ due = TurnHeld + LanesHeld
    /\ permits + Cardinality(AtLocal) = Slots
    /\ billed => metered

-----------------------------------------------------------------------------
(* Results, exceptions and their usage. *)

\* What the constants are used for.
LEMMA Constants ==
    /\ IsFiniteSet(Lanes) /\ "main" \in Lanes /\ Voters \subseteq Lanes
    /\ \A l \in Lanes : l # "main" <=> l \in Voters
    /\ Cost["cli"] \in Nat \ {0} /\ Cost["api"] \in Nat \ {0}
    /\ Slots \in Nat /\ ContinueMax \in Nat
<1>1. IsFiniteSet(Lanes)
  BY TurnAssumption, FS_AddElement DEF Lanes
<1>2. QED
  BY <1>1, TurnAssumption DEF Lanes

\* The fields of a result.
LEMMA OutcomeTypes ==
    ASSUME NEW r \in Outcome
    PROVE  /\ r.ok \in BOOLEAN /\ r.cost \in Nat /\ r.att \in Nat /\ r.text \in Texts
           /\ r.trigger \in Triggers /\ r.status \in {"none", "continue", "error"}
           /\ r.count \in Nat /\ r.kind \in Kinds
BY DEF Outcome

\* max(0, x) of _usage_attempts_for_result.
LEMMA MaxZero == ASSUME NEW x \in Int PROVE Max({0, x}) = IF x >= 0 THEN x ELSE 0
<1>1. CASE x >= 0
  <2>1. x \in {0, x} /\ \A y \in {0, x} : x >= y
    BY <1>1
  <2>2. \A m \in {0, x} : (\A y \in {0, x} : m >= y) => m = x
    BY <1>1
  <2>3. QED
    BY <1>1, <2>1, <2>2 DEF Max
<1>2. CASE ~(x >= 0)
  <2>1. 0 \in {0, x} /\ \A y \in {0, x} : 0 >= y
    BY <1>2
  <2>2. \A m \in {0, x} : (\A y \in {0, x} : m >= y) => m = 0
    BY <1>2
  <2>3. QED
    BY <1>2, <2>1, <2>2 DEF Max
<1>3. QED
  BY <1>1, <1>2

\* A result that lists part of what it costs is sound.
LEMMA ResultFacts ==
    ASSUME NEW cost \in Nat, NEW att \in Nat, att <= cost, NEW text \in Texts,
           NEW q, q = Result(cost, att, text)
    PROVE  /\ Sound(q) /\ q.ok /\ q.cost = cost /\ q.att = att /\ q.text = text
           /\ q.trigger = "none" /\ q.status = "none" /\ q.count = 0
<1>1. q \in Outcome
  BY DEF Result, Outcome, Triggers, Kinds
<1>2. QED
  BY <1>1 DEF Result, Sound

\* An exception accounts for the attempts it carries.
LEMMA RaisedFacts ==
    ASSUME NEW kind \in Kinds, NEW att \in Nat, NEW q, q = Raised(kind, att)
    PROVE  Sound(q) /\ ~q.ok /\ q.cost = 0 /\ q.att = att /\ Owed(q) = att
<1>1. q \in Outcome
  BY DEF Raised, Outcome, Triggers, Texts
<1>2. QED
  BY <1>1 DEF Raised, Sound, Owed

\* Changes of a result that leave its usage alone.
LEMMA SameUsage ==
    ASSUME NEW r, Sound(r), NEW q \in Outcome, q.ok = r.ok, q.cost = r.cost, q.att = r.att,
           q.count <= 1, q.status = "none" => q.count = 0,
           q.status = "continue" => q.count = 1
    PROVE  Sound(q) /\ Owed(q) = Owed(r)
BY DEF Sound, Owed

\* A sound outcome accounts for a number.
LEMMA OwedNat == ASSUME NEW r, Sound(r) PROVE Owed(r) \in Nat
BY OutcomeTypes DEF Sound, Owed

\* _merge_incurred_usage adds to what is accounted for, and lists it.
LEMMA MergeFacts ==
    ASSUME NEW r, Sound(r), NEW att \in Nat, NEW q, q = MergeIncurred(r, att)
    PROVE  /\ Sound(q) /\ q.ok = r.ok /\ q.cost = r.cost + att /\ q.att = r.att + att
           /\ q.text = r.text /\ Owed(q) = Owed(r) + att
<1>1. r \in Outcome /\ r.cost \in Nat /\ r.att \in Nat
  BY OutcomeTypes DEF Sound
<1>2. /\ q \in Outcome /\ q.ok = r.ok /\ q.cost = r.cost + att /\ q.att = r.att + att
      /\ q.text = r.text /\ q.count = r.count /\ q.status = r.status
  <2> DEFINE c == r.cost + att
             n == r.att + att
  <2>1. c \in Nat /\ n \in Nat
    BY <1>1
  <2>2. q = [r EXCEPT !.cost = c, !.att = n]
    BY DEF MergeIncurred
  <2> HIDE DEF c, n
  <2>3. /\ q \in Outcome /\ q.ok = r.ok /\ q.cost = c /\ q.att = n
        /\ q.text = r.text /\ q.count = r.count /\ q.status = r.status
    BY <1>1, <2>1, <2>2 DEF Outcome
  <2>4. QED
    BY <2>3 DEF c, n
<1>3. Owed(q) = Owed(r) + att
  BY <1>2 DEF Owed
<1>4. Sound(q)
  BY <1>1, <1>2 DEF Sound
<1>5. QED
  BY <1>2, <1>3, <1>4

\* The receipt of a recovery changes the trigger only.
LEMMA FallbackFacts ==
    ASSUME NEW r, Sound(r), NEW kind, NEW q, q = FallbackReceipt(r, kind)
    PROVE  /\ Sound(q) /\ Owed(q) = Owed(r) /\ q.ok = r.ok /\ q.cost = r.cost /\ q.att = r.att
           /\ q.text = r.text
<1>1. r \in Outcome
  BY DEF Sound
<1>2. CanonicalTrigger(kind) \in Triggers
  BY DEF CanonicalTrigger, Triggers
<1>3. /\ q \in Outcome /\ q.ok = r.ok /\ q.cost = r.cost /\ q.att = r.att
      /\ q.text = r.text /\ q.count = r.count /\ q.status = r.status
  BY <1>1, <1>2 DEF FallbackReceipt, Outcome
<1>4. QED
  BY <1>3, SameUsage DEF Sound

\* What the bound writes into a result.
Mark(r, n, s) == [r EXCEPT !.count = n, !.status = s]

\* The bound writes a result.
LEMMA MarkFacts ==
    ASSUME NEW r \in Outcome, NEW n \in Nat, NEW s \in {"none", "continue", "error"}
    PROVE  Mark(r, n, s) \in Outcome
BY DEF Outcome, Mark

\* The bound raises continue_count from 0 to 1 or not at all.
LEMMA BoundFacts ==
    ASSUME NEW r, Sound(r), NEW q, q = ApplyContinueBound(r)
    PROVE  /\ Sound(q) /\ Owed(q) = Owed(r) /\ q.ok = r.ok /\ q.cost = r.cost /\ q.att = r.att
<1>1. r \in Outcome /\ ContinueMax \in Nat /\ r.count \in Nat
      /\ r.status \in {"none", "continue", "error"}
  BY OutcomeTypes, Constants DEF Sound
<1>2. CASE r.trigger \notin {"shed", "non_answer"} \/ r.status \in {"continue", "error"}
  BY <1>2 DEF ApplyContinueBound
<1>3. CASE ~(r.trigger \notin {"shed", "non_answer"} \/ r.status \in {"continue", "error"})
  <2>1. r.count = 0
    BY <1>1, <1>3 DEF Sound
  <2>2. /\ q \in Outcome /\ q.ok = r.ok /\ q.cost = r.cost /\ q.att = r.att
        /\ q.count = 1
        /\ q.status = IF 1 > ContinueMax THEN "error" ELSE "continue"
    <3>0. r \in Outcome
      BY <1>1
    <3> DEFINE st == IF 1 > ContinueMax THEN "error" ELSE "continue"
    <3>1. st \in {"none", "continue", "error"}
      OBVIOUS
    <3>2. q.ok = r.ok /\ q.cost = r.cost /\ q.att = r.att /\ q.count = 1 /\ q.status = st
      BY <1>3, <2>1, <3>0 DEF ApplyContinueBound, Outcome
    <3>3. q = Mark(r, 1, st)
      BY <1>3, <2>1, <3>0 DEF ApplyContinueBound, Outcome, Mark
    <3> HIDE DEF st
    <3>4. q \in Outcome
      BY <3>0, <3>1, <3>3, MarkFacts
    <3>5. QED
      BY <3>2, <3>4 DEF st
  <2>3. QED
    BY <1>1, <2>2, SameUsage
<1>4. QED
  BY <1>2, <1>3

\* A vote's receipt costs what the vote accounted for, failed or not.
LEMMA VoteFacts ==
    ASSUME NEW r, Sound(r), NEW q, q = VoteReceipt(r)
    PROVE  Sound(q) /\ q.att <= q.cost /\ q.cost = Owed(r)
<1>1. r.ok \in BOOLEAN /\ r.cost \in Nat /\ r.att \in Nat
  BY OutcomeTypes DEF Sound
<1> DEFINE c == IF r.ok THEN r.cost ELSE r.att
           t == IF r.ok /\ r.text = "answer" THEN "answer" ELSE "junk"
<1>2. c \in Nat /\ r.att <= c /\ t \in Texts /\ c = Owed(r)
  BY <1>1 DEF Sound, Owed, Texts
<1>3. q = Result(c, r.att, t)
  BY DEF VoteReceipt
<1> HIDE DEF c, t
<1>4. Sound(q) /\ q.cost = c /\ q.att = r.att
  BY <1>1, <1>2, <1>3, ResultFacts
<1>5. QED
  BY <1>2, <1>4

\* The residual attempt makes up for what is not listed.
LEMMA UsageFacts ==
    ASSUME NEW r, r \in Outcome, r.att <= r.cost
    PROVE  UsageAttempts(r) = r.cost
<1>1. r.cost \in Nat /\ r.att \in Nat
  BY OutcomeTypes
<1>2. Max({0, r.cost - r.att}) = r.cost - r.att
  BY <1>1, MaxZero
<1>3. QED
  BY <1>1, <1>2 DEF UsageAttempts

-----------------------------------------------------------------------------
(* Activations of _run_unified. *)

\* The fields of an activation.
LEMMA LaneTypes ==
    ASSUME NEW a \in LaneRec
    PROVE  /\ a.pc \in {"idle", "direct", "call", "slot", "local", "done"}
           /\ a.recover \in BOOLEAN /\ a.swapped \in BOOLEAN /\ a.tgt \in Planes \cup {"none"}
           /\ a.att \in Nat /\ a.kind \in Kinds /\ a.init \in Nat /\ a.out \in Outcome
BY DEF LaneRec

\* No activation holds nothing.
LEMMA IdleFacts ==
    /\ Idle \in LaneRec /\ Idle.pc = "idle" /\ Idle.att = 0 /\ Idle.init = 0
    /\ Sound(Idle.out) /\ ~Idle.swapped
<1>1. Raised("none", 0) \in Outcome /\ Sound(Raised("none", 0))
  BY RaisedFacts DEF Sound, Kinds
<1>2. /\ Idle.pc = "idle" /\ Idle.att = 0 /\ Idle.init = 0 /\ ~Idle.swapped
      /\ Idle.out = Raised("none", 0)
  BY DEF Idle
<1>3. Idle \in LaneRec
  BY <1>1 DEF Idle, LaneRec, Planes, Kinds
<1>4. QED
  BY <1>1, <1>2, <1>3

\* An activation that is over.
Over(r) == [Idle EXCEPT !.pc = "done", !.out = r]

\* A finished activation is its outcome.
LEMMA OverFacts ==
    ASSUME NEW r \in Outcome
    PROVE  /\ Over(r) \in LaneRec /\ Over(r).pc = "done" /\ Over(r).out = r
           /\ Over(r).att = 0
<1>1. Idle \in LaneRec /\ Idle.att = 0
  BY IdleFacts
<1>2. QED
  BY <1>1 DEF Over, LaneRec

\* An activation that begins.
Begun(pc, p, req, recover) ==
    [Idle EXCEPT !.pc = pc, !.tgt = p, !.req = req, !.recover = recover]

\* A new activation holds nothing.
LEMMA BegunFacts ==
    ASSUME NEW pc \in {"direct", "call", "slot"}, NEW p \in Planes,
           NEW req \in {"auto", "cli", "api"}, NEW recover \in BOOLEAN,
           NEW a, a = Begun(pc, p, req, recover)
    PROVE  /\ a \in LaneRec /\ a.pc = pc /\ a.tgt = p /\ a.out = Idle.out
           /\ a.att = 0 /\ a.init = 0 /\ ~a.swapped
<1>1. Idle \in LaneRec /\ Idle.att = 0 /\ Idle.init = 0 /\ ~Idle.swapped
  BY IdleFacts
<1>2. QED
  BY <1>1 DEF Begun, LaneRec

\* An activation that has changed planes.
Changed(a, p, n, kind) ==
    [a EXCEPT !.pc = IF p = "local" THEN "slot" ELSE "call", !.tgt = p, !.swapped = TRUE,
              !.att = n, !.kind = kind, !.init = 0]

\* After a swap the activation holds what the first plane incurred.
LEMMA ChangedFacts ==
    ASSUME NEW a \in LaneRec, NEW p \in Planes, NEW n \in Nat, NEW kind \in Kinds,
           NEW b, b = Changed(a, p, n, kind)
    PROVE  /\ b \in LaneRec /\ b.pc = (IF p = "local" THEN "slot" ELSE "call") /\ b.tgt = p
           /\ b.swapped /\ b.att = n /\ b.init = 0 /\ b.out = a.out
BY DEF Changed, LaneRec

\* The serve of a turn that found no other plane.
Offline == [Idle EXCEPT !.pc = "slot", !.tgt = "local"]

\* The offline serve starts with nothing.
LEMMA OfflineFacts ==
    /\ Offline \in LaneRec /\ Offline.pc = "slot" /\ Offline.out = Idle.out
    /\ Offline.att = 0 /\ Offline.init = 0 /\ ~Offline.swapped
<1>1. Idle \in LaneRec /\ Idle.att = 0 /\ Idle.init = 0 /\ ~Idle.swapped
  BY IdleFacts
<1>2. QED
  BY <1>1 DEF Offline, LaneRec, Planes

\* Lane l now is an activation that holds x.
Moved(l, x) ==
    /\ lane' \in [Lanes -> LaneRec]
    /\ \A m \in Lanes \ {l} : lane'[m] = lane[m]
    /\ LaneOK(l, lane'[l]) /\ Held(l, lane'[l]) = x

\* An activation that ends holds its outcome, as a vote's receipt if it is a vote.
LEMMA FinishMoves ==
    ASSUME lane \in [Lanes -> LaneRec], NEW l \in Lanes, NEW r, Sound(r), Finish(l, r)
    PROVE  Moved(l, Owed(r)) /\ lane'[l].pc = "done"
<1> DEFINE q == IF l = "main" THEN r ELSE VoteReceipt(r)
<1>1. /\ Sound(q) /\ q \in Outcome /\ (l = "main" => q = r)
      /\ l # "main" => q.att <= q.cost /\ q.cost = Owed(r)
  BY VoteFacts DEF Sound
<1>2. lane' = [lane EXCEPT ![l] = Over(q)]
  BY DEF Finish, Over
<1> HIDE DEF q
<1>3. Over(q) \in LaneRec /\ Over(q).pc = "done" /\ Over(q).out = q /\ Over(q).att = 0
  BY <1>1, OverFacts
<1>4. lane'[l] = Over(q) /\ lane' \in [Lanes -> LaneRec]
      /\ \A m \in Lanes \ {l} : lane'[m] = lane[m]
  BY <1>2, <1>3
<1>5. LaneOK(l, Over(q)) /\ Held(l, Over(q)) = Owed(r)
  BY <1>1, <1>3 DEF LaneOK, Held
<1>6. QED
  BY <1>3, <1>4, <1>5 DEF Moved

\* What a swap adds to a result.
LEMMA DeliverMoves ==
    ASSUME lane \in [Lanes -> LaneRec], NEW l \in Lanes, LaneOK(l, lane[l]), NEW r, Sound(r),
           Deliver(l, r) \/ DeliverLocal(l, r)
    PROVE  Moved(l, lane[l].att + Owed(r)) /\ lane'[l].pc = "done"
<1>1. /\ lane[l].att \in Nat /\ lane[l].swapped \in BOOLEAN /\ Owed(r) \in Nat
      /\ ~lane[l].swapped => lane[l].att = 0
  BY LaneTypes, OwedNat DEF LaneOK
<1> DEFINE m == MergeIncurred(r, lane[l].att)
           f == FallbackReceipt(m, lane[l].kind)
           b == ApplyContinueBound(f)
<1>2. Sound(m) /\ Owed(m) = Owed(r) + lane[l].att
  BY <1>1, MergeFacts
<1>3. Sound(f) /\ Owed(f) = Owed(m)
  <2> HIDE DEF m
  <2>1. QED
    BY <1>2, FallbackFacts
<1>4. Sound(b) /\ Owed(b) = Owed(f)
  <2> HIDE DEF f
  <2>1. QED
    BY <1>3, BoundFacts
<1>5. PICK q : /\ Finish(l, q)
               /\ \/ ~lane[l].swapped /\ q = r
                  \/ q \in {f, b}
  BY <1>1 DEF Deliver, DeliverLocal
<1> HIDE DEF m, f, b
<1>6. Sound(q) /\ Owed(q) = lane[l].att + Owed(r)
  BY <1>1, <1>2, <1>3, <1>4, <1>5
<1>7. QED
  BY <1>5, <1>6, FinishMoves

\* A recovery goes to a plane.
LEMMA Alternatives ==
    ASSUME NEW current, NEW p \in AlternatePlanes(current), p # "none"
    PROVE  p \in Planes
BY DEF AlternatePlanes, Planes

\* An exception with n attempts leaves, or is recovered from on another plane.
LEMMA FailMoves ==
    ASSUME lane \in [Lanes -> LaneRec], NEW l \in Lanes, LaneOK(l, lane[l]),
           NEW kind \in Kinds, NEW n \in Nat, Fail(l, kind, n)
    PROVE  Moved(l, lane[l].att + n) /\ lane'[l].pc # "local"
<1>1. lane[l] \in LaneRec /\ lane[l].att \in Nat /\ lane[l].att + n \in Nat
  BY LaneTypes DEF LaneOK
<1>2. PICK p \in IF Recoverable(l, kind) THEN AlternatePlanes(lane[l].tgt) ELSE {"none"} :
        IF p = "none" THEN Finish(l, Raised(kind, lane[l].att + n))
        ELSE lane' = [lane EXCEPT ![l] = Changed(lane[l], p, lane[l].att + n, kind)]
  BY DEF Fail, Changed
<1>3. CASE p = "none"
  <2> DEFINE r == Raised(kind, lane[l].att + n)
  <2>1. Sound(r) /\ Owed(r) = lane[l].att + n /\ Finish(l, r)
    BY <1>1, <1>2, <1>3, RaisedFacts
  <2> HIDE DEF r
  <2>2. QED
    BY <2>1, FinishMoves
<1>4. CASE p # "none"
  <2> DEFINE b == Changed(lane[l], p, lane[l].att + n, kind)
  <2>1. p \in Planes
    BY <1>2, <1>4, Alternatives
  <2>2. /\ b \in LaneRec /\ b.pc = (IF p = "local" THEN "slot" ELSE "call") /\ b.tgt = p
        /\ b.swapped /\ b.att = lane[l].att + n /\ b.init = 0 /\ b.out = lane[l].out
    BY <1>1, <2>1, ChangedFacts
  <2>3. lane' = [lane EXCEPT ![l] = b]
    BY <1>2, <1>4
  <2> HIDE DEF b
  <2>4. LaneOK(l, b) /\ Held(l, b) = lane[l].att + n /\ b.pc # "local"
    BY <1>1, <2>1, <2>2 DEF LaneOK, Held, Planes
  <2>5. lane'[l] = b /\ lane' \in [Lanes -> LaneRec]
        /\ \A m \in Lanes \ {l} : lane'[m] = lane[m]
    BY <2>2, <2>3
  <2>6. QED
    BY <2>4, <2>5 DEF Moved
<1>5. QED
  BY <1>3, <1>4

\* A lane that opens holds nothing and no slot.
\* Whatever plane is resolved, a call of _run_unified starts with nothing.
LEMMA OpenedFacts ==
    ASSUME NEW l \in Lanes, NEW req \in {"auto", "cli", "api"}, NEW recover \in BOOLEAN,
           NEW a \in Opened(req, recover)
    PROVE  a \in LaneRec /\ LaneOK(l, a) /\ Held(l, a) = 0 /\ a.pc # "local"
<1> DEFINE lost == Raised("other", 0)
<1>0. Sound(lost) /\ lost.cost = 0 /\ lost.att = 0 /\ Owed(lost) = 0 /\ lost \in Outcome
  BY RaisedFacts DEF Kinds, Sound
<1>1. \/ a = Begun("direct", "local", req, recover)
      \/ a = Over(lost)
      \/ a = Begun("slot", "local", req, recover)
      \/ \E p \in {"cli", "api"} : a = Begun("call", p, req, recover)
  <2>1. CASE direct
    BY <2>1 DEF Opened, Begun
  <2>2. CASE ~direct
    <3>1. PICK ready \in Readiness :
            a = CASE ResolvePlane(req, ready) = "none" -> Over(lost)
                  [] ResolvePlane(req, ready) = "local" ->
                       Begun("slot", ResolvePlane(req, ready), req, recover)
                  [] OTHER -> Begun("call", ResolvePlane(req, ready), req, recover)
      BY <2>2 DEF Opened, Begun, Over
    <3>2. ResolvePlane(req, ready) \in {"none", "cli", "api", "local"}
      BY DEF ResolvePlane
    <3>3. QED
      BY <3>1, <3>2
  <2>3. QED
    BY <2>1, <2>2
<1> HIDE DEF lost
<1>2. CASE a = Over(lost)
  <2>1. a \in LaneRec /\ a.pc = "done" /\ a.out = lost /\ a.att = 0
    BY <1>0, <1>2, OverFacts
  <2>2. QED
    BY <1>0, <2>1 DEF LaneOK, Held
<1>3. ASSUME NEW pc \in {"direct", "call", "slot"}, NEW p \in Planes,
             pc = "call" => p \in {"cli", "api"}, a = Begun(pc, p, req, recover)
      PROVE  a \in LaneRec /\ LaneOK(l, a) /\ Held(l, a) = 0 /\ a.pc # "local"
  <2>1. /\ a \in LaneRec /\ a.pc = pc /\ a.tgt = p /\ a.out = Idle.out
        /\ a.att = 0 /\ a.init = 0 /\ ~a.swapped
    BY <1>3, BegunFacts
  <2>2. QED
    BY <1>3, <2>1, IdleFacts DEF LaneOK, Held
<1>4. QED
  BY <1>1, <1>2, <1>3 DEF Planes

-----------------------------------------------------------------------------
(* The steps of a lane. *)

\* What an activation holds is a number.
LEMMA HeldNat == ASSUME NEW l, NEW a, LaneOK(l, a) PROVE Held(l, a) \in Nat
<1>1. a.att \in Nat /\ a.init \in Nat /\ a.out.cost \in Nat /\ Owed(a.out) \in Nat
  BY LaneTypes, OutcomeTypes, OwedNat DEF LaneOK
<1>2. QED
  BY <1>1 DEF Held

\* A lane that gains what the turn has become due leaves the accounts balanced.
LEMMA LaneMoves ==
    ASSUME TurnInv, NEW l \in Lanes, lane[l].pc # "idle", NEW k \in Nat,
           Moved(l, Held(l, lane[l]) + k), due' = due + k,
           UNCHANGED <<metered, direct, turn>>, billed' \in BOOLEAN, billed' => metered,
           permits' \in Nat, permits' + Cardinality(AtLocal') = Slots
    PROVE  TurnInv'
<1> DEFINE f == [m \in Lanes |-> Held(m, lane[m])]
           g == [m \in Lanes |-> Held(m, lane'[m])]
<1>1. \A m \in Lanes : LaneOK(m, lane'[m])
  BY DEF Moved, TurnInv
<1>2. \A m \in Lanes : f[m] \in Nat /\ g[m] \in Nat
  BY <1>1, HeldNat DEF TurnInv
<1>3. g[l] = f[l] + k /\ \A m \in Lanes : m # l => g[m] = f[m]
  BY DEF Moved
<1>4. IsFiniteSet(Lanes)
  BY Constants
<1>5. LanesHeld = SumFunctionOnSet(f, Lanes) /\ LanesHeld' = SumFunctionOnSet(g, Lanes)
  BY DEF LanesHeld
<1> HIDE DEF f, g
<1>6. SumFunctionOnSet(g, Lanes) = SumFunctionOnSet(f, Lanes) - f[l] + g[l]
  BY <1>2, <1>3, <1>4, SumChange
<1>7. SumFunctionOnSet(f, Lanes) \in Nat /\ TurnHeld \in Int /\ TurnHeld' = TurnHeld
  <2>1. SumFunctionOnSet(f, Lanes) \in Nat
    BY <1>2, <1>4, SumNat
  <2>2. due \in Nat /\ due = TurnHeld + LanesHeld /\ turn' = turn
    BY DEF TurnInv
  <2>3. TurnHeld' = TurnHeld
    BY <2>2 DEF TurnHeld
  <2>4. Owed(turn.out) \in Nat /\ turn.rcost \in Nat /\ turn.draft.cost \in Nat
        /\ turn.hcost \in Nat /\ turn.out.cost \in Nat
    BY OwedNat, OutcomeTypes DEF TurnInv, TurnOK, TurnRec
  <2>5. TurnHeld \in Int
    BY <2>4 DEF TurnHeld, Owns
  <2>6. QED
    BY <2>1, <2>3, <2>5
<1>8. due' = TurnHeld' + LanesHeld' /\ due' \in Nat
  <2>1. due = TurnHeld + SumFunctionOnSet(f, Lanes) /\ due \in Nat /\ f[l] \in Nat
    BY <1>2, <1>5 DEF TurnInv
  <2>2. LanesHeld' = SumFunctionOnSet(f, Lanes) + k
    BY <1>3, <1>5, <1>6, <1>7, <2>1
  <2>3. QED
    BY <1>7, <2>1, <2>2
<1>9. Placed'
  <2>1. lane[l] # Idle
    BY IdleFacts
  <2>2. QED
    BY <2>1 DEF Placed, Moved, TurnInv
<1>10. /\ metered' \in BOOLEAN /\ direct' \in BOOLEAN /\ billed' \in BOOLEAN
       /\ billed' => metered'
  BY DEF TurnInv
<1>11. TurnOK(turn') /\ lane' \in [Lanes -> LaneRec]
  BY DEF TurnInv, Moved
<1>12. QED
  BY <1>1, <1>8, <1>9, <1>10, <1>11 DEF TurnInv

\* The same where no slot is involved.
LEMMA LaneMovesOn ==
    ASSUME TurnInv, NEW l \in Lanes, lane[l].pc \notin {"idle", "local"}, NEW k \in Nat,
           Moved(l, Held(l, lane[l]) + k), lane'[l].pc # "local", due' = due + k,
           UNCHANGED <<metered, direct, turn, permits>>, billed' \in BOOLEAN,
           billed' => metered
    PROVE  TurnInv'
<1>1. AtLocal' = AtLocal
  BY DEF AtLocal, Moved
<1>2. QED
  BY <1>1, LaneMoves DEF TurnInv

\* What the local plane and a peer answer costs nothing.
Triggered(r, t) == [r EXCEPT !.trigger = t]
Refused(r, t) == [r EXCEPT !.trigger = t, !.status = "error"]
Denied(r) == [r EXCEPT !.status = "error"]

\* A trigger or an error status leaves the usage of a canned result alone.
LEMMA TaggedFacts ==
    ASSUME NEW r, Sound(r), r.status = "none", NEW t \in Triggers,
           NEW q \in {Triggered(r, t), Refused(r, t), Denied(r)}
    PROVE  Sound(q) /\ Owed(q) = Owed(r)
<1>1. r \in Outcome /\ r.count = 0
  BY DEF Sound
<1>2. CASE q = Triggered(r, t)
  <2>1. /\ q \in Outcome /\ q.ok = r.ok /\ q.cost = r.cost /\ q.att = r.att
        /\ q.count = r.count /\ q.status = r.status
    BY <1>1, <1>2 DEF Triggered, Outcome
  <2>2. QED
    BY <1>1, <2>1, SameUsage
<1>3. CASE q = Refused(r, t)
  <2>1. /\ q \in Outcome /\ q.ok = r.ok /\ q.cost = r.cost /\ q.att = r.att
        /\ q.count = r.count /\ q.status = "error"
    BY <1>1, <1>3 DEF Refused, Outcome
  <2>2. QED
    BY <1>1, <2>1, SameUsage
<1>4. CASE q = Denied(r)
  <2>1. /\ q \in Outcome /\ q.ok = r.ok /\ q.cost = r.cost /\ q.att = r.att
        /\ q.count = r.count /\ q.status = "error"
    BY <1>1, <1>4 DEF Denied, Outcome
  <2>2. QED
    BY <1>1, <2>1, SameUsage
<1>5. QED
  BY <1>2, <1>3, <1>4

\* Every outcome of the local plane and of a peer is sound and free.
LEMMA CannedFacts ==
    ASSUME NEW r \in LocalOutcomes \cup
             {Raised("other", 0), Result(0, 0, "junk"),
              [Result(0, 0, "junk") EXCEPT !.status = "error"],
              ApplyContinueBound([Result(0, 0, "empty") EXCEPT !.trigger = "shed"])}
    PROVE  Sound(r) /\ Owed(r) = 0
<1>1. \A text \in Texts : /\ Sound(Result(0, 0, text)) /\ Owed(Result(0, 0, text)) = 0
                          /\ Result(0, 0, text).status = "none"
  BY ResultFacts DEF Owed
<1>2. Sound(Raised("other", 0)) /\ Owed(Raised("other", 0)) = 0
  BY RaisedFacts DEF Kinds
<1> DEFINE junk == Result(0, 0, "junk")
           empty == Result(0, 0, "empty")
           answer == Result(0, 0, "answer")
           q1 == Denied(junk)
           q2 == Triggered(empty, "shed")
           q3 == Triggered(junk, "non_answer")
           q4 == Refused(empty, "no_floor")
           q5 == Triggered(answer, "no_floor")
<1>3. /\ Sound(junk) /\ Owed(junk) = 0 /\ junk.status = "none"
      /\ Sound(empty) /\ Owed(empty) = 0 /\ empty.status = "none"
      /\ Sound(answer) /\ Owed(answer) = 0 /\ answer.status = "none"
  BY <1>1 DEF Texts
<1>4. r \in {q4, q5, answer, ApplyContinueBound(q3),
             Raised("other", 0), junk, q1, ApplyContinueBound(q2)}
  BY DEF LocalOutcomes, LocalNoFloor, LocalDirect, Triggered, Refused, Denied
<1>5. {"shed", "non_answer", "no_floor"} \subseteq Triggers
  BY DEF Triggers
<1> HIDE DEF junk, empty, answer
<1>6. /\ Sound(q1) /\ Owed(q1) = 0 /\ Sound(q2) /\ Owed(q2) = 0 /\ Sound(q3) /\ Owed(q3) = 0
      /\ Sound(q4) /\ Owed(q4) = 0 /\ Sound(q5) /\ Owed(q5) = 0
  BY <1>3, <1>5, TaggedFacts
<1> HIDE DEF q1, q2, q3, q4, q5
<1>7. /\ Sound(ApplyContinueBound(q2)) /\ Owed(ApplyContinueBound(q2)) = 0
      /\ Sound(ApplyContinueBound(q3)) /\ Owed(ApplyContinueBound(q3)) = 0
  BY <1>6, BoundFacts
<1>8. QED
  BY <1>2, <1>3, <1>4, <1>6, <1>7

\* A direct-talk peer costs nothing and holds no slot.
LEMMA DirectTalkInv == ASSUME TurnInv, NEW l \in Lanes, DirectTalk(l) PROVE TurnInv'
<1>1. PICK r : /\ Finish(l, r)
               /\ r \in { Result(0, 0, "answer"), Result(0, 0, "junk"), Raised("other", 0),
                          [Result(0, 0, "junk") EXCEPT !.status = "error"] }
  BY DEF DirectTalk
<1>2. Sound(r) /\ Owed(r) = 0
  BY <1>1, CannedFacts DEF LocalOutcomes
<1>3. lane \in [Lanes -> LaneRec] /\ lane[l].pc = "direct" /\ Held(l, lane[l]) = 0
  BY DEF DirectTalk, TurnInv, LaneOK, Held
<1>4. Moved(l, Held(l, lane[l]) + 0) /\ lane'[l].pc = "done"
  BY <1>1, <1>2, <1>3, FinishMoves
<1>5. due' = due + 0 /\ UNCHANGED <<metered, direct, turn, permits, billed>>
  BY DEF DirectTalk, TurnInv
<1>6. QED
  BY <1>3, <1>4, <1>5, LaneMovesOn DEF TurnInv

\* The second attempt of a call.
AskedAgain(a, n) == [a EXCEPT !.init = n]
\* A serve that has its slot.
Serving(a) == [a EXCEPT !.pc = "local"]

\* What asking again and taking a slot write.
LEMMA StepFacts ==
    ASSUME NEW a \in LaneRec, NEW n \in Nat
    PROVE  /\ AskedAgain(a, n) \in LaneRec /\ AskedAgain(a, n).pc = a.pc
           /\ AskedAgain(a, n).tgt = a.tgt /\ AskedAgain(a, n).swapped = a.swapped
           /\ AskedAgain(a, n).att = a.att /\ AskedAgain(a, n).init = n
           /\ AskedAgain(a, n).out = a.out
           /\ Serving(a) \in LaneRec /\ Serving(a).pc = "local"
           /\ Serving(a).swapped = a.swapped /\ Serving(a).att = a.att
           /\ Serving(a).init = a.init /\ Serving(a).out = a.out
BY DEF AskedAgain, Serving, LaneRec

\* An activation in a call.
LEMMA CallFacts ==
    ASSUME TurnInv, NEW l \in Lanes, lane[l].pc = "call"
    PROVE  /\ lane \in [Lanes -> LaneRec] /\ LaneOK(l, lane[l]) /\ lane[l] \in LaneRec
           /\ lane[l].tgt \in {"cli", "api"} /\ Cost[lane[l].tgt] \in Nat
           /\ lane[l].att \in Nat /\ lane[l].init \in Nat
           /\ Held(l, lane[l]) = lane[l].att + lane[l].init
<1>1. lane \in [Lanes -> LaneRec] /\ LaneOK(l, lane[l])
  BY DEF TurnInv
<1>2. lane[l] \in LaneRec /\ lane[l].tgt \in {"cli", "api"}
  BY <1>1 DEF LaneOK
<1>3. lane[l].att \in Nat /\ lane[l].init \in Nat
  BY <1>2, LaneTypes
<1>4. Cost[lane[l].tgt] \in Nat
  BY <1>2, Constants
<1>5. QED
  BY <1>1, <1>2, <1>3, <1>4 DEF Held

\* A reply is held as a rejected attempt, in the error of a retry, or in the result.
LEMMA CallRepliesInv == ASSUME TurnInv, NEW l \in Lanes, CallReplies(l) PROVE TurnInv'
<1> DEFINE cost == Cost[lane[l].tgt]
           n == lane[l].init + cost
<1>1. /\ lane[l].pc = "call" /\ MayCall(lane[l].tgt) /\ Reply(lane[l].tgt)
      /\ UNCHANGED <<metered, direct, permits, turn>>
  BY DEF CallReplies
<1>2. /\ lane \in [Lanes -> LaneRec] /\ LaneOK(l, lane[l]) /\ lane[l] \in LaneRec
      /\ cost \in Nat /\ lane[l].att \in Nat /\ lane[l].init \in Nat
      /\ Held(l, lane[l]) = lane[l].att + lane[l].init
  BY <1>1, CallFacts
<1>3. /\ due' = due + cost /\ billed' \in BOOLEAN /\ (billed' => metered)
  BY <1>1 DEF Reply, MayCall, TurnInv
<1>4. PICK text \in {"answer", "junk"} :
        CASE text = "junk" /\ lane[l].recover /\ lane[l].init = 0 ->
               lane' = [lane EXCEPT ![l] = AskedAgain(lane[l], cost)]
          [] text = "junk" /\ lane[l].recover /\ lane[l].init > 0 ->
               Fail(l, "incomplete", n)
          [] OTHER -> Deliver(l, Result(n, lane[l].init, text))
  BY <1>2 DEF CallReplies, FailRetry, AskedAgain
<1>5. Moved(l, Held(l, lane[l]) + cost) /\ lane'[l].pc # "local"
  <2>1. CASE lane[l].init = 0 /\ lane' = [lane EXCEPT ![l] = AskedAgain(lane[l], cost)]
    <3> DEFINE b == AskedAgain(lane[l], cost)
    <3>1. /\ b \in LaneRec /\ b.pc = "call" /\ b.tgt = lane[l].tgt
          /\ b.swapped = lane[l].swapped /\ b.att = lane[l].att /\ b.init = cost
          /\ b.out = lane[l].out
      BY <1>1, <1>2, StepFacts
    <3>2. lane' = [lane EXCEPT ![l] = b]
      BY <2>1
    <3> HIDE DEF b, cost
    <3>3. lane'[l] = b /\ lane' \in [Lanes -> LaneRec]
          /\ \A m \in Lanes \ {l} : lane'[m] = lane[m]
      BY <1>2, <3>1, <3>2
    <3>4. LaneOK(l, b)
      BY <1>1, <1>2, <3>1 DEF LaneOK
    <3>5. Held(l, b) = Held(l, lane[l]) + cost
      BY <1>2, <2>1, <3>1 DEF Held
    <3>6. QED
      BY <3>1, <3>3, <3>4, <3>5 DEF Moved
  <2>2. CASE Fail(l, "incomplete", n)
    <3>1. n \in Nat /\ "incomplete" \in Kinds
      BY <1>2 DEF Kinds
    <3>2. lane[l].att + n = Held(l, lane[l]) + cost
      BY <1>2
    <3> HIDE DEF n
    <3>3. Moved(l, lane[l].att + n) /\ lane'[l].pc # "local"
      BY <1>2, <2>2, <3>1, FailMoves
    <3>4. QED
      BY <3>2, <3>3
  <2>3. CASE Deliver(l, Result(n, lane[l].init, text))
    <3> DEFINE r == Result(n, lane[l].init, text)
    <3>1. n \in Nat /\ lane[l].init <= n /\ text \in Texts
      BY <1>2 DEF Texts
    <3>2. lane[l].att + n = Held(l, lane[l]) + cost
      BY <1>2
    <3> HIDE DEF n
    <3>3. Sound(r) /\ Owed(r) = n
      BY <1>2, <3>1, ResultFacts DEF Owed
    <3>4. Deliver(l, r)
      BY <2>3
    <3> HIDE DEF r
    <3>5. Moved(l, lane[l].att + Owed(r)) /\ lane'[l].pc = "done"
      BY <1>2, <3>3, <3>4, DeliverMoves
    <3>6. QED
      BY <3>2, <3>3, <3>5
  <2>4. QED
    <3> HIDE DEF cost, n
    <3>1. QED
      BY <1>4, <2>1, <2>2, <2>3
<1> HIDE DEF cost, n
<1>6. QED
  BY <1>1, <1>2, <1>3, <1>5, LaneMovesOn

\* A call that raises leaves the account as it is.
LEMMA CallFailsInv ==
    ASSUME TurnInv, NEW l \in Lanes, lane[l].pc = "call", NEW kind \in Kinds,
           FailRetry(l, kind, 0), due' = due, UNCHANGED <<metered, direct, permits, turn>>,
           billed' \in BOOLEAN, billed' => metered
    PROVE  TurnInv'
<1>1. /\ lane \in [Lanes -> LaneRec] /\ LaneOK(l, lane[l]) /\ due \in Nat
      /\ lane[l].att \in Nat /\ lane[l].init \in Nat
      /\ Held(l, lane[l]) = lane[l].att + lane[l].init
  BY CallFacts DEF TurnInv
<1>2. Fail(l, kind, lane[l].init)
  BY <1>1 DEF FailRetry
<1>3. Moved(l, lane[l].att + lane[l].init) /\ lane'[l].pc # "local"
  BY <1>1, <1>2, FailMoves
<1>4. Moved(l, Held(l, lane[l]) + 0) /\ due' = due + 0
  BY <1>1, <1>3
<1>5. QED
  BY <1>3, <1>4, LaneMovesOn

\* A call that raises before any reply.
LEMMA CallRaisesInv == ASSUME TurnInv, NEW l \in Lanes, CallRaises(l) PROVE TurnInv'
<1>1. PICK kind \in {"value", "budget", "congested", "other"} : FailRetry(l, kind, 0)
  BY DEF CallRaises
<1>2. kind \in Kinds
  BY DEF Kinds
<1>3. /\ lane[l].pc = "call" /\ due' = due /\ UNCHANGED <<metered, direct, permits, turn>>
      /\ billed' \in BOOLEAN /\ (billed' => metered)
  BY DEF CallRaises, TurnInv
<1>4. QED
  BY <1>1, <1>2, <1>3, CallFailsInv

\* A call that lets go of its reply owes nothing for it, but the policy was asked.
LEMMA CallLosesReplyInv == ASSUME TurnInv, NEW l \in Lanes, CallLosesReply(l) PROVE TurnInv'
<1>1. PICK kind \in Kinds : FailRetry(l, kind, 0)
  BY DEF CallLosesReply, Kinds
<1>2. /\ lane[l].pc = "call" /\ due' = due /\ UNCHANGED <<metered, direct, permits, turn>>
      /\ billed' \in BOOLEAN /\ (billed' => metered)
  BY DEF CallLosesReply, LostReply, MayCall, TurnInv
<1>3. QED
  BY <1>1, <1>2, CallFailsInv

\* A slot is taken, or the serve is shed without one.
LEMMA LocalSlotInv == ASSUME TurnInv, NEW l \in Lanes, LocalSlot(l) PROVE TurnInv'
<1>1. /\ lane \in [Lanes -> LaneRec] /\ LaneOK(l, lane[l]) /\ lane[l].pc = "slot"
      /\ due \in Nat /\ permits \in Nat /\ permits + Cardinality(AtLocal) = Slots
  BY DEF LocalSlot, TurnInv
<1>2. lane[l] \in LaneRec /\ lane[l].att \in Nat /\ lane[l].init = 0
  BY <1>1, LaneTypes DEF LaneOK
<1>3. Held(l, lane[l]) = lane[l].att
  BY <1>1, <1>2 DEF Held
<1>4. /\ due' = due + 0 /\ UNCHANGED <<metered, direct, turn>>
      /\ billed' \in BOOLEAN /\ (billed' => metered)
  BY <1>1 DEF LocalSlot, TurnInv
<1>5. CASE SlotFree
  <2> DEFINE b == Serving(lane[l])
  <2>1. permits' = permits - 1 /\ permits' \in Nat /\ lane' = [lane EXCEPT ![l] = b]
    BY <1>1, <1>5 DEF LocalSlot, SlotFree, Serving
  <2>2. /\ b \in LaneRec /\ b.pc = "local" /\ b.swapped = lane[l].swapped
        /\ b.att = lane[l].att /\ b.init = 0 /\ b.out = lane[l].out
    BY <1>2, StepFacts
  <2> HIDE DEF b
  <2>3. lane'[l] = b /\ lane' \in [Lanes -> LaneRec]
        /\ \A m \in Lanes \ {l} : lane'[m] = lane[m]
    BY <1>1, <2>1, <2>2
  <2>4. LaneOK(l, b) /\ Held(l, b) = Held(l, lane[l]) + 0
    BY <1>1, <1>2, <1>3, <2>2 DEF LaneOK, Held
  <2>5. Moved(l, Held(l, lane[l]) + 0)
    BY <2>3, <2>4 DEF Moved
  <2>6. permits' + Cardinality(AtLocal') = Slots
    <3>1. AtLocal' = AtLocal \cup {l} /\ l \notin AtLocal
      BY <1>1, <2>2, <2>3 DEF AtLocal
    <3>2. IsFiniteSet(AtLocal) /\ Cardinality(AtLocal) \in Nat
      BY Constants, FS_Subset, FS_CardinalityType DEF AtLocal
    <3>3. Cardinality(AtLocal') = Cardinality(AtLocal) + 1
      BY <3>1, <3>2, FS_AddElement
    <3>4. QED
      BY <1>1, <2>1, <3>2, <3>3
  <2>7. QED
    BY <1>1, <1>4, <2>1, <2>5, <2>6, LaneMoves
<1>6. CASE ~SlotFree
  <2> DEFINE r == ApplyContinueBound([Result(0, 0, "empty") EXCEPT !.trigger = "shed"])
  <2>1. DeliverLocal(l, r) /\ permits' = permits
    BY <1>6 DEF LocalSlot
  <2>2. Sound(r) /\ Owed(r) = 0
    BY CannedFacts
  <2> HIDE DEF r
  <2>3. Moved(l, lane[l].att + 0) /\ lane'[l].pc = "done"
    BY <1>1, <2>1, <2>2, DeliverMoves
  <2>4. QED
    BY <1>1, <1>3, <1>4, <2>1, <2>3, LaneMovesOn
<1>7. QED
  BY <1>5, <1>6

\* A serve that ends gives back the slot it held.
LEMMA ServeEndsInv ==
    ASSUME TurnInv, NEW l \in Lanes, lane[l].pc = "local", permits' = permits + 1,
           Moved(l, lane[l].att), lane'[l].pc = "done",
           UNCHANGED <<metered, direct, turn, due, billed>>
    PROVE  TurnInv'
<1>1. /\ LaneOK(l, lane[l]) /\ due \in Nat /\ permits \in Nat
      /\ permits + Cardinality(AtLocal) = Slots /\ (billed' \in BOOLEAN) /\ (billed' => metered)
  BY DEF TurnInv
<1>2. lane[l].att \in Nat /\ lane[l].init = 0
  BY <1>1, LaneTypes DEF LaneOK
<1>3. lane[l].att = Held(l, lane[l]) + 0 /\ due' = due + 0
  BY <1>1, <1>2 DEF Held
<1>4. permits' \in Nat /\ permits' + Cardinality(AtLocal') = Slots
  <2>1. AtLocal' = AtLocal \ {l} /\ l \in AtLocal
    BY DEF AtLocal, Moved
  <2>2. IsFiniteSet(AtLocal) /\ Cardinality(AtLocal) \in Nat
    BY Constants, FS_Subset, FS_CardinalityType DEF AtLocal
  <2>3. Cardinality(AtLocal') = Cardinality(AtLocal) - 1
    BY <2>1, <2>2, FS_RemoveElement
  <2>4. QED
    BY <1>1, <2>2, <2>3
<1>5. QED
  BY <1>1, <1>3, <1>4, LaneMoves

\* A serve with a result gives its slot back.
LEMMA LocalServesInv == ASSUME TurnInv, NEW l \in Lanes, LocalServes(l) PROVE TurnInv'
<1>1. PICK r \in LocalOutcomes : DeliverLocal(l, r)
  BY DEF LocalServes
<1>2. Sound(r) /\ Owed(r) = 0
  BY CannedFacts
<1>3. /\ lane \in [Lanes -> LaneRec] /\ LaneOK(l, lane[l]) /\ lane[l].pc = "local"
      /\ permits' = permits + 1 /\ UNCHANGED <<metered, direct, turn, due, billed>>
  BY DEF LocalServes, Release, TurnInv
<1>4. Moved(l, lane[l].att + 0) /\ lane'[l].pc = "done" /\ lane[l].att \in Nat
  BY <1>1, <1>2, <1>3, DeliverMoves, LaneTypes DEF LaneOK
<1>5. lane[l].att + 0 = lane[l].att
  BY <1>4
<1>6. QED
  BY <1>3, <1>4, <1>5, ServeEndsInv

\* So does one that raises, and what the first plane incurred goes along.
LEMMA LocalRaisesInv == ASSUME TurnInv, NEW l \in Lanes, LocalRaises(l) PROVE TurnInv'
<1> DEFINE r == Raised("other", lane[l].att)
<1>1. /\ lane \in [Lanes -> LaneRec] /\ LaneOK(l, lane[l]) /\ lane[l].pc = "local"
      /\ permits' = permits + 1 /\ UNCHANGED <<metered, direct, turn, due, billed>>
      /\ Finish(l, r)
  BY DEF LocalRaises, Release, TurnInv
<1>2. lane[l].att \in Nat
  BY <1>1, LaneTypes DEF LaneOK
<1>3. Sound(r) /\ Owed(r) = lane[l].att
  BY <1>2, RaisedFacts DEF Kinds
<1> HIDE DEF r
<1>4. Moved(l, lane[l].att) /\ lane'[l].pc = "done"
  BY <1>1, <1>3, FinishMoves
<1>5. QED
  BY <1>1, <1>4, ServeEndsInv

\* One step per handler of an activation.
LEMMA LaneStepInv == ASSUME TurnInv, NEW l \in Lanes, LaneStep(l) PROVE TurnInv'
BY DirectTalkInv, CallRepliesInv, CallRaisesInv, CallLosesReplyInv, LocalSlotInv,
   LocalServesInv, LocalRaisesInv DEF LaneStep

-----------------------------------------------------------------------------
(* What the turn finds in the lanes, and what it leaves there. *)

\* No lane of the stage holds anything yet.
Fresh(stage) ==
    /\ lane' \in [Lanes -> LaneRec]
    /\ \A l \in Lanes : /\ LaneOK(l, lane'[l]) /\ Held(l, lane'[l]) = 0
                        /\ lane'[l].pc # "local"
                        /\ lane'[l] # Idle =>
                             stage \in IF l = "main" THEN MainStages ELSE VoteStages

\* An idle lane is in order.
LEMMA IdleOK == ASSUME NEW l PROVE LaneOK(l, Idle) /\ Held(l, Idle) = 0
BY IdleFacts DEF LaneOK, Held

\* Idle lanes suit every stage.
LEMMA AllIdleFresh ==
    ASSUME lane' \in [Lanes -> {Idle}], NEW stage
    PROVE  Fresh(stage)
<1>1. \A l \in Lanes : lane'[l] = Idle
  OBVIOUS
<1>2. lane' \in [Lanes -> LaneRec]
  BY IdleFacts
<1>3. QED
  BY <1>1, <1>2, IdleOK, IdleFacts DEF Fresh

\* One activation of the main lane begins.
LEMMA MainFresh ==
    ASSUME NEW a \in LaneRec, LaneOK("main", a), Held("main", a) = 0, a.pc # "local",
           lane' \in [Lanes -> LaneRec], lane'["main"] = a,
           \A l \in Lanes \ {"main"} : lane'[l] = Idle, NEW stage \in MainStages
    PROVE  Fresh(stage)
BY IdleOK, IdleFacts DEF Fresh

\* The main lane opened.
LEMMA OpenMainFresh == ASSUME OpenMain, NEW stage \in MainStages PROVE Fresh(stage)
<1>1. PICK a \in Opened("auto", TRUE) :
        lane' = [l \in Lanes |-> IF l = "main" THEN a ELSE Idle]
  BY DEF OpenMain
<1>2. a \in LaneRec /\ LaneOK("main", a) /\ Held("main", a) = 0 /\ a.pc # "local"
  BY Constants, OpenedFacts
<1>3. /\ lane' \in [Lanes -> LaneRec] /\ lane'["main"] = a
      /\ \A l \in Lanes \ {"main"} : lane'[l] = Idle
  BY <1>1, <1>2, Constants, IdleFacts
<1>4. QED
  BY <1>2, <1>3, MainFresh

\* The voters' lanes opened.
LEMMA OpenVotesFresh ==
    ASSUME NEW req, \A v \in Voters : req[v] \in {"cli", "api"}, OpenVotes(req),
           NEW stage \in VoteStages
    PROVE  Fresh(stage)
<1>1. PICK a : /\ \A v \in Voters : a[v] \in Opened(req[v], FALSE)
               /\ lane' = [l \in Lanes |-> IF l = "main" THEN Idle ELSE a[l]]
  BY DEF OpenVotes
<1>2. ASSUME NEW v \in Voters
      PROVE  a[v] \in LaneRec /\ LaneOK(v, a[v]) /\ Held(v, a[v]) = 0 /\ a[v].pc # "local"
  <2>1. /\ v \in Lanes /\ a[v] \in Opened(req[v], FALSE)
        /\ req[v] \in {"auto", "cli", "api"} /\ FALSE \in BOOLEAN
    BY <1>1, Constants
  <2>2. QED
    BY <2>1, OpenedFacts
<1>3. \A l \in Lanes : lane'[l] = IF l = "main" THEN Idle ELSE a[l]
  BY <1>1
<1>4. ASSUME NEW l \in Lanes
      PROVE  /\ lane'[l] \in LaneRec /\ LaneOK(l, lane'[l]) /\ Held(l, lane'[l]) = 0
             /\ lane'[l].pc # "local" /\ (l = "main" => lane'[l] = Idle)
  <2>1. CASE l = "main"
    BY <1>3, <2>1, IdleOK, IdleFacts
  <2>2. CASE l # "main"
    BY <1>2, <1>3, <2>2, Constants
  <2>3. QED
    BY <2>1, <2>2
<1>5. lane' \in [Lanes -> LaneRec]
  BY <1>1, <1>3, <1>4
<1>6. QED
  BY <1>4, <1>5 DEF Fresh

\* All slots are free while no lane serves.
LEMMA NoServe ==
    ASSUME TurnInv, \A l \in Lanes : lane[l].pc # "local"
    PROVE  permits = Slots
<1>1. AtLocal = {}
  BY DEF AtLocal
<1>2. Cardinality(AtLocal) = 0
  BY <1>1, FS_EmptySet
<1>3. QED
  BY <1>2 DEF TurnInv

\* Between the stages the turn's own locals hold everything.
LEMMA Between ==
    ASSUME TurnInv, turn.stage \notin MainStages \cup VoteStages
    PROVE  /\ lane \in [Lanes -> {Idle}] /\ permits = Slots
           /\ due = Owns(turn)
<1>1. lane \in [Lanes -> LaneRec] /\ \A l \in Lanes : lane[l] = Idle
  BY DEF TurnInv, Placed
<1>2. permits = Slots
  BY <1>1, IdleFacts, NoServe
<1>3. LanesHeld = 0
  <2> DEFINE f == [l \in Lanes |-> Held(l, lane[l])]
  <2>1. \A l \in Lanes : f[l] = 0
    BY <1>1, IdleOK
  <2>2. LanesHeld = SumFunctionOnSet(f, Lanes)
    BY DEF LanesHeld
  <2> HIDE DEF f
  <2>3. QED
    BY <2>1, <2>2, Constants, SumZero
<1>4. due = Owns(turn) + LanesHeld /\ due \in Nat
  BY DEF TurnInv, TurnHeld
<1>5. Owns(turn) \in Int
  <2>1. Owed(turn.out) \in Nat /\ turn.rcost \in Nat /\ turn.draft.cost \in Nat
        /\ turn.hcost \in Nat /\ turn.out.cost \in Nat
    BY OwedNat, OutcomeTypes DEF TurnInv, TurnOK, TurnRec
  <2>2. QED
    BY <2>1 DEF Owns
<1>6. QED
  BY <1>1, <1>2, <1>3, <1>4, <1>5

\* The main lane has come back with its result.
LEMMA MainDone ==
    ASSUME TurnInv, turn.stage \in MainStages, Main.pc = "done"
    PROVE  /\ lane \in [Lanes -> LaneRec] /\ \A l \in Lanes \ {"main"} : lane[l] = Idle
           /\ permits = Slots /\ Sound(Main.out)
           /\ due = Owns(turn) + Owed(Main.out)
<1>0. Main = lane["main"] /\ "main" \in Lanes
  BY Constants DEF Main
<1>1. lane \in [Lanes -> LaneRec] /\ \A l \in Lanes \ {"main"} : lane[l] = Idle
  BY DEF TurnInv, Placed, MainStages, VoteStages
<1>2. permits = Slots
  BY <1>0, <1>1, IdleFacts, NoServe
<1>3. LaneOK("main", Main) /\ Sound(Main.out) /\ Owed(Main.out) \in Nat
  BY <1>0, OwedNat DEF TurnInv, LaneOK
<1>4. LanesHeld = Owed(Main.out)
  <2> DEFINE f == [l \in Lanes |-> Held(l, lane[l])]
             z == [l \in Lanes |-> 0]
  <2>1. \A l \in Lanes : l # "main" => f[l] = 0
    BY <1>1, IdleOK
  <2>2. f["main"] = Owed(Main.out)
    BY <1>0 DEF Held
  <2>3. LanesHeld = SumFunctionOnSet(f, Lanes)
    BY DEF LanesHeld
  <2>4. /\ \A l \in Lanes : f[l] \in Int /\ z[l] \in Int
        /\ \A l \in Lanes : l # "main" => f[l] = z[l]
    <3>1. \A l \in Lanes : l = "main" \/ f[l] = 0
      BY <2>1
    <3>2. \A l \in Lanes : f[l] \in Int
      <4> HIDE DEF f
      <4>1. QED
        BY <1>3, <2>2, <3>1
    <3>3. QED
      BY <2>1, <3>2
  <2>5. SumFunctionOnSet(z, Lanes) = 0 /\ z["main"] = 0
    <3>1. \A l \in Lanes : z[l] = 0
      OBVIOUS
    <3> HIDE DEF z
    <3>2. QED
      BY <1>0, <3>1, Constants, SumZero
  <2> HIDE DEF f, z
  <2>6. SumFunctionOnSet(f, Lanes) = SumFunctionOnSet(z, Lanes) - z["main"] + f["main"]
    BY <1>0, <2>4, Constants, SumChange
  <2>7. QED
    BY <1>3, <2>2, <2>3, <2>5, <2>6
<1>5. due = Owns(turn) + LanesHeld
  BY DEF TurnInv, TurnHeld
<1>6. QED
  BY <1>1, <1>2, <1>3, <1>4, <1>5

\* All votes are in: the turn adds up what the lanes hold, and the attempts it
\* adds up are the same usage.
LEMMA VotesDone ==
    ASSUME TurnInv, turn.stage \in VoteStages, VotesIn
    PROVE  /\ permits = Slots
           /\ SumVotes(VoteCost) \in Nat /\ SumVotes(VoteListed) \in Nat
           /\ SumVotes(VoteListed) <= SumVotes(VoteCost)
           /\ SumVotes(UsageAttempts) = SumVotes(VoteCost)
           /\ due = Owns(turn) + SumVotes(VoteCost)
<1>1. \A v \in Voters : /\ v \in Lanes /\ v # "main" /\ lane[v].pc = "done"
                        /\ LaneOK(v, lane[v])
  BY Constants DEF TurnInv, VotesIn
<1>2. lane["main"] = Idle
  BY Constants DEF TurnInv, Placed, MainStages, VoteStages
<1>3. permits = Slots
  BY <1>1, <1>2, Constants, IdleFacts, NoServe
<1>4. ASSUME NEW v \in Voters
      PROVE  /\ lane[v].out \in Outcome /\ lane[v].out.cost \in Nat /\ lane[v].out.att \in Nat
             /\ lane[v].out.att <= lane[v].out.cost
             /\ UsageAttempts(lane[v].out) = lane[v].out.cost
             /\ Held(v, lane[v]) = lane[v].out.cost
  <2>1. lane[v].out \in Outcome /\ lane[v].out.att <= lane[v].out.cost
    BY <1>1 DEF LaneOK, Sound
  <2>2. QED
    BY <1>1, <2>1, OutcomeTypes, UsageFacts DEF Held
<1> DEFINE c == [v \in Voters |-> VoteCost(lane[v].out)]
           n == [v \in Voters |-> VoteListed(lane[v].out)]
           u == [v \in Voters |-> UsageAttempts(lane[v].out)]
           f == [l \in Lanes |-> Held(l, lane[l])]
<1>5. /\ SumVotes(VoteCost) = SumFunctionOnSet(c, Voters)
      /\ SumVotes(VoteListed) = SumFunctionOnSet(n, Voters)
      /\ SumVotes(UsageAttempts) = SumFunctionOnSet(u, Voters)
      /\ LanesHeld = SumFunctionOnSet(f, Lanes)
  BY DEF SumVotes, LanesHeld
<1>6. \A v \in Voters : c[v] \in Nat /\ n[v] \in Nat /\ n[v] <= c[v] /\ u[v] = c[v]
  BY <1>4 DEF VoteCost, VoteListed
<1>7. \A l \in Lanes : f[l] = IF l \in Voters THEN c[l] ELSE 0
  <2>1. ASSUME NEW l \in Lanes, l \in Voters PROVE f[l] = c[l]
    BY <1>4, <2>1 DEF VoteCost
  <2>2. ASSUME NEW l \in Lanes, l \notin Voters PROVE f[l] = 0
    BY <1>2, <2>2, Constants, IdleOK
  <2>3. QED
    BY <2>1, <2>2
<1> HIDE DEF c, n, u, f
<1>8. IsFiniteSet(Voters) /\ IsFiniteSet(Lanes) /\ Voters \in SUBSET Lanes
  BY TurnAssumption, Constants
<1>9. /\ SumFunctionOnSet(c, Voters) \in Nat /\ SumFunctionOnSet(n, Voters) \in Nat
      /\ SumFunctionOnSet(n, Voters) <= SumFunctionOnSet(c, Voters)
  <2>1. SumFunctionOnSet(c, Voters) \in Nat
    BY <1>6, <1>8, SumNat
  <2>2. SumFunctionOnSet(n, Voters) \in Nat
    BY <1>6, <1>8, SumNat
  <2>3. \A v \in Voters : n[v] \in Int /\ c[v] \in Int /\ n[v] <= c[v]
    BY <1>6
  <2>4. SumFunctionOnSet(n, Voters) <= SumFunctionOnSet(c, Voters)
    BY <1>8, <2>3, SumLe
  <2>5. QED
    BY <2>1, <2>2, <2>4
<1>10. SumFunctionOnSet(u, Voters) = SumFunctionOnSet(c, Voters)
  <2>1. \A v \in Voters : c[v] \in Int /\ u[v] = c[v]
    BY <1>6
  <2>2. QED
    BY <1>8, <2>1, SumSame
<1>11. SumFunctionOnSet(c, Voters) = SumFunctionOnSet(f, Lanes)
  <2>1. \A v \in Voters : c[v] \in Int
    BY <1>6
  <2>2. QED
    BY <1>7, <1>8, <2>1, SumPart
<1>12. due = Owns(turn) + LanesHeld
  BY DEF TurnInv, TurnHeld
<1>13. QED
  BY <1>3, <1>5, <1>9, <1>10, <1>11, <1>12

\* The turn takes a step between two stages.
LEMMA TurnMoves ==
    ASSUME TurnInv, permits = Slots, Fresh(turn'.stage), TurnOK(turn'),
           due' \in Nat, due' = Owns(turn'), UNCHANGED <<metered, direct, permits>>,
           billed' \in BOOLEAN, billed' => metered
    PROVE  TurnInv'
<1>1. LanesHeld' = 0
  <2> DEFINE f == [l \in Lanes |-> Held(l, lane'[l])]
  <2>1. \A l \in Lanes : f[l] = 0
    BY DEF Fresh
  <2>2. LanesHeld' = SumFunctionOnSet(f, Lanes)
    BY DEF LanesHeld
  <2> HIDE DEF f
  <2>3. QED
    BY <2>1, <2>2, Constants, SumZero
<1>2. TurnHeld' = Owns(turn')
  BY DEF TurnHeld
<1>3. due' = TurnHeld' + LanesHeld'
  BY <1>1, <1>2
<1>4. permits' + Cardinality(AtLocal') = Slots /\ permits' \in Nat
  <2>1. AtLocal' = {}
    BY DEF AtLocal, Fresh
  <2>2. Cardinality(AtLocal') = 0
    BY <2>1, FS_EmptySet
  <2>3. QED
    BY <2>2, Constants
<1>5. /\ metered' \in BOOLEAN /\ direct' \in BOOLEAN
      /\ (billed' => metered')
  BY DEF TurnInv
<1>6. Placed' /\ lane' \in [Lanes -> LaneRec] /\ \A l \in Lanes : LaneOK(l, lane'[l])
  BY DEF Fresh, Placed
<1>7. QED
  BY <1>3, <1>4, <1>5, <1>6 DEF TurnInv

-----------------------------------------------------------------------------
(* The turn's locals. *)

Depths == {"auto", "direct", "deep", "hive"}
Routes == {"direct", "code", "media"}

\* What the router and the hive hold is the same in t and u.
Kept(t, u) ==
    /\ u.rvotes = t.rvotes /\ u.rcost = t.rcost /\ u.draft = t.draft
    /\ u.hcost = t.hcost /\ u.hatt = t.hatt /\ u.hprior = t.hprior

\* A turn whose hive, if it has one, holds nothing.
Plain(t) ==
    /\ t \in TurnRec /\ Sound(t.draft) /\ t.draft.cost = 0
    /\ t.rvotes <= t.rcost /\ t.hprior = 0 /\ t.hcost = 0 /\ t.hatt = 0

\* The ways a step writes the locals.
Got(t, s, r) == [t EXCEPT !.stage = s, !.out = r]
Entered(t, s) == [t EXCEPT !.stage = s]
Known(t, d, a, f) == [t EXCEPT !.depth = d, !.api = a, !.floor = f]
Deepened(t, d) == [t EXCEPT !.depth = d]
Sent(t, route, d) == [t EXCEPT !.stage = "special", !.route = route, !.depth = d]
SentOn(t, route) == [t EXCEPT !.stage = "special", !.route = route]
Counted(t, n) == [t EXCEPT !.rvotes = n, !.rcost = n]
Paid(t, n) == [t EXCEPT !.rcost = n]
Drafted(t, d) == [t EXCEPT !.stage = "hvotes", !.draft = d]

\* The fields of a turn.
LEMMA TurnTypes ==
    ASSUME NEW t \in TurnRec
    PROVE  /\ t.depth \in Depths /\ t.route \in Routes /\ t.api \in BOOLEAN
           /\ t.floor \in BOOLEAN /\ t.rvotes \in Nat /\ t.rcost \in Nat
           /\ t.draft \in Outcome /\ t.hcost \in Nat /\ t.hatt \in Nat
           /\ t.hprior \in Nat /\ t.out \in Outcome
BY DEF TurnRec, Depths, Routes

Stages == {"new", "rvotes", "semantic", "special", "unified", "offline",
           "draft", "hvotes", "merge", "polish", "wrap", "done"}

\* A step that writes stage and result.
LEMMA GotFacts ==
    ASSUME NEW t \in TurnRec, NEW s \in Stages, NEW r \in Outcome, NEW u, u = Got(t, s, r)
    PROVE  u \in TurnRec /\ u.stage = s /\ u.out = r /\ Kept(t, u) /\ u.depth = t.depth
BY DEF Got, TurnRec, Kept, Stages

\* A step that writes the stage.
LEMMA EnteredFacts ==
    ASSUME NEW t \in TurnRec, NEW s \in Stages, NEW u, u = Entered(t, s)
    PROVE  u \in TurnRec /\ u.stage = s /\ u.out = t.out /\ Kept(t, u)
BY DEF Entered, TurnRec, Kept, Stages

\* A step that writes depth and catalogs.
LEMMA KnownFacts ==
    ASSUME NEW t \in TurnRec, NEW d \in Depths, NEW a \in BOOLEAN, NEW f \in BOOLEAN,
           NEW u, u = Known(t, d, a, f)
    PROVE  u \in TurnRec /\ u.stage = t.stage /\ u.out = t.out /\ Kept(t, u)
BY DEF Known, TurnRec, Kept, Depths

\* A step that writes the depth.
LEMMA DeepenedFacts ==
    ASSUME NEW t \in TurnRec, NEW d \in Depths, NEW u, u = Deepened(t, d)
    PROVE  u \in TurnRec /\ u.stage = t.stage /\ u.out = t.out /\ Kept(t, u)
BY DEF Deepened, TurnRec, Kept, Depths

\* A step that routes the turn.
LEMMA SentFacts ==
    ASSUME NEW t \in TurnRec, NEW route \in Routes, NEW d \in Depths,
           NEW u, u = Sent(t, route, d) \/ u = SentOn(t, route)
    PROVE  u \in TurnRec /\ u.stage = "special" /\ u.out = t.out /\ Kept(t, u)
<1>1. CASE u = Sent(t, route, d)
  BY <1>1 DEF Sent, TurnRec, Kept, Depths, Routes
<1>2. CASE u = SentOn(t, route)
  BY <1>2 DEF SentOn, TurnRec, Kept, Routes
<1>3. QED
  BY <1>1, <1>2

\* The router's spend is written.
LEMMA CountedFacts ==
    ASSUME NEW t, Plain(t), NEW n \in Nat,
           NEW u, u = Counted(t, n) \/ (t.rcost <= n /\ u = Paid(t, n))
    PROVE  Plain(u) /\ u.stage = t.stage /\ u.out = t.out /\ u.rcost = n /\ u.depth = t.depth
<1>1. t \in TurnRec
  BY DEF Plain
<1>2. CASE u = Counted(t, n)
  <2>1. /\ u \in TurnRec /\ u.stage = t.stage /\ u.out = t.out /\ u.rcost = n /\ u.rvotes = n
        /\ u.draft = t.draft /\ u.hcost = t.hcost /\ u.hatt = t.hatt /\ u.hprior = t.hprior
        /\ u.depth = t.depth
    BY <1>1, <1>2 DEF Counted, TurnRec
  <2>2. QED
    BY <2>1 DEF Plain
<1>3. CASE t.rcost <= n /\ u = Paid(t, n)
  <2>1. /\ u \in TurnRec /\ u.stage = t.stage /\ u.out = t.out /\ u.rcost = n
        /\ u.rvotes = t.rvotes
        /\ u.draft = t.draft /\ u.hcost = t.hcost /\ u.hatt = t.hatt /\ u.hprior = t.hprior
        /\ u.depth = t.depth
    BY <1>1, <1>3 DEF Paid, TurnRec
  <2>2. t.rvotes \in Nat /\ t.rcost \in Nat
    BY <1>1, TurnTypes
  <2>3. u.rvotes <= u.rcost
    BY <1>3, <2>1, <2>2 DEF Plain
  <2>4. QED
    BY <2>1, <2>3 DEF Plain
<1>4. QED
  BY <1>2, <1>3

\* The draft of the hive is written.
LEMMA DraftedFacts ==
    ASSUME NEW t \in TurnRec, NEW d \in Outcome, NEW u, u = Drafted(t, d)
    PROVE  /\ u \in TurnRec /\ u.stage = "hvotes" /\ u.out = t.out /\ u.draft = d
           /\ u.rvotes = t.rvotes /\ u.rcost = t.rcost /\ u.hcost = t.hcost
           /\ u.hatt = t.hatt /\ u.hprior = t.hprior
BY DEF Drafted, TurnRec

\* Forgetting catalogs and route touches no usage.
LEMMA RoutedFacts ==
    ASSUME turn \in TurnRec
    PROVE  Routed \in TurnRec /\ Routed.stage = turn.stage /\ Routed.out = turn.out
           /\ Kept(turn, Routed)
BY DEF Routed, TurnRec, Kept

\* Such steps leave a turn plain.
LEMMA KeptPlain == ASSUME NEW t, NEW u \in TurnRec, Plain(t), Kept(t, u)
                   PROVE  Plain(u) /\ u.rcost = t.rcost
BY DEF Plain, Kept

\* A result in hand.
LEMMA ResultStep ==
    ASSUME NEW t, Plain(t), NEW s \in {"polish", "wrap"}, NEW r, Sound(r), r.ok,
           NEW u, u = Got(t, s, r)
    PROVE  TurnOK(u) /\ u.stage = s /\ Owns(u) = t.rcost + r.cost
<1>1. t \in TurnRec /\ r \in Outcome /\ s \in Stages
  BY DEF Plain, Sound, Stages
<1>2. u \in TurnRec /\ u.stage = s /\ u.out = r /\ Kept(t, u)
  BY <1>1, GotFacts
<1>3. Plain(u) /\ u.rcost = t.rcost
  BY <1>2, KeptPlain
<1>4. r.cost \in Nat /\ u.rcost \in Nat
  BY <1>1, <1>2, TurnTypes, OutcomeTypes
<1>5. Owns(u) = t.rcost + r.cost
  BY <1>2, <1>3, <1>4 DEF Owns, Plain
<1>6. TurnOK(u)
  BY <1>2, <1>3 DEF TurnOK, Plain
<1>7. QED
  BY <1>2, <1>5, <1>6

\* No result yet.
LEMMA WorkStep ==
    ASSUME NEW u, Plain(u), Sound(u.out), u.out.cost = 0,
           u.stage \notin {"hvotes", "merge", "polish", "wrap", "done"},
           u.stage \in {"new", "rvotes"} => u.rcost = 0
    PROVE  TurnOK(u) /\ Owns(u) = u.rcost
<1>1. u.rcost \in Nat
  BY TurnTypes DEF Plain
<1>2. QED
  BY <1>1 DEF TurnOK, Owns, Plain

\* A new turn holds nothing.
LEMMA NewFacts == /\ Plain(NewTurn) /\ Sound(NewTurn.out) /\ NewTurn.out.cost = 0
                  /\ NewTurn.rcost = 0 /\ NewTurn.stage = "new"
<1> DEFINE none == Raised("none", 0)
<1>1. Sound(none) /\ none \in Outcome /\ none.cost = 0
  BY RaisedFacts DEF Kinds, Sound
<1>2. /\ NewTurn.out = none /\ NewTurn.draft = none /\ NewTurn.rcost = 0 /\ NewTurn.rvotes = 0
      /\ NewTurn.hprior = 0 /\ NewTurn.hcost = 0 /\ NewTurn.hatt = 0 /\ NewTurn.stage = "new"
  BY DEF NewTurn
<1>3. NewTurn \in TurnRec
  <2> HIDE DEF none
  <2>1. NewTurn =
          [stage |-> "new", depth |-> "auto", route |-> "direct", api |-> FALSE,
           floor |-> FALSE, rvotes |-> 0, rcost |-> 0, draft |-> none,
           hcost |-> 0, hatt |-> 0, hprior |-> 0, out |-> none]
    BY DEF NewTurn, none
  <2>2. QED
    BY <1>1, <2>1 DEF TurnRec
<1> HIDE DEF none
<1>4. QED
  BY <1>1, <1>2, <1>3 DEF Plain

\* A turn that is over reports its outcome.
LEMMA DoneStep ==
    ASSUME NEW r, Sound(r), NEW u, u = Got(NewTurn, "done", r)
    PROVE  TurnOK(u) /\ u.stage = "done" /\ Owns(u) = Owed(r)
<1>1. r \in Outcome /\ "done" \in Stages /\ NewTurn \in TurnRec
  BY NewFacts DEF Sound, Stages, Plain
<1>2. u \in TurnRec /\ u.stage = "done" /\ u.out = r /\ Kept(NewTurn, u)
  BY <1>1, GotFacts
<1>3. Plain(u)
  BY <1>2, NewFacts, KeptPlain
<1>4. QED
  BY <1>2, <1>3 DEF TurnOK, Owns, Plain

\* A turn that fails reports the attempts its exception carries.
LEMMA FailsStep ==
    ASSUME NEW n \in Nat, TurnFails(n)
    PROVE  TurnOK(turn') /\ turn'.stage = "done" /\ Owns(turn') = n
<1> DEFINE r == Raised("other", n)
<1>1. Sound(r) /\ Owed(r) = n
  BY RaisedFacts DEF Kinds
<1>2. turn' = Got(NewTurn, "done", r)
  BY DEF TurnFails, Got
<1> HIDE DEF r
<1>3. QED
  BY <1>1, <1>2, DoneStep

\* Where the turn stands between its stages.
LEMMA StageFacts ==
    ASSUME TurnInv
    PROVE  /\ turn \in TurnRec /\ turn.stage \in Stages /\ Sound(turn.out)
           /\ turn.stage \notin {"hvotes", "merge"} => Plain(turn)
           /\ turn.stage \notin {"hvotes", "merge", "done"} =>
                Owns(turn) = turn.rcost + turn.out.cost
           /\ turn.stage \notin {"polish", "wrap", "done"} => turn.out.cost = 0
           /\ turn.rcost \in Nat /\ turn.out.cost \in Nat
           /\ RouterAttempts = turn.rcost
           /\ due \in Nat
<1>1. TurnOK(turn) /\ turn \in TurnRec /\ turn.stage \in Stages /\ Sound(turn.out) /\ due \in Nat
  BY DEF TurnInv, TurnOK, TurnRec, Stages
<1>2. /\ turn.rcost \in Nat /\ turn.rvotes \in Nat /\ turn.out.cost \in Nat /\ turn.hcost \in Nat
      /\ turn.hatt \in Nat /\ turn.draft.cost \in Nat
  BY <1>1, TurnTypes, OutcomeTypes
<1>3. RouterAttempts = turn.rcost
  <2>1. turn.rvotes <= turn.rcost
    BY <1>1 DEF TurnOK
  <2>2. Max({0, turn.rcost - turn.rvotes}) = turn.rcost - turn.rvotes
    BY <1>2, <2>1, MaxZero
  <2>3. QED
    BY <1>2, <2>2 DEF RouterAttempts
<1>4. turn.stage \notin {"hvotes", "merge"} => Plain(turn)
  BY <1>1, <1>2 DEF TurnOK, Plain
<1>5. turn.stage \notin {"polish", "wrap", "done"} => turn.out.cost = 0
  BY <1>1 DEF TurnOK
<1>6. turn.stage \notin {"hvotes", "merge", "done"} => Owns(turn) = turn.rcost + turn.out.cost
  BY <1>2, <1>4 DEF Owns, Plain
<1>7. QED
  BY <1>1, <1>2, <1>3, <1>4, <1>5, <1>6

-----------------------------------------------------------------------------
(* The steps of the turn. *)

\* What HasResult does with a result that is worth what is due.
LEMMA HasResultInv ==
    ASSUME TurnInv, permits = Slots, lane \in [Lanes -> LaneRec],
           \A l \in Lanes \ {"main"} : lane[l] = Idle,
           NEW t, Plain(t), NEW r, Sound(r), r.ok, HasResult(t, r),
           due' \in Nat, due' = t.rcost + r.cost, UNCHANGED <<metered, direct, permits>>,
           billed' \in BOOLEAN, billed' => metered
    PROVE  TurnInv'
<1>1. CASE turn' = Got(t, "wrap", r) /\ lane' = [lane EXCEPT !["main"] = Idle]
  <2>1. TurnOK(turn') /\ turn'.stage = "wrap" /\ Owns(turn') = t.rcost + r.cost
    BY <1>1, ResultStep
  <2>2. lane' \in [Lanes -> {Idle}]
    BY <1>1, Constants
  <2>3. QED
    BY <2>1, <2>2, AllIdleFresh, TurnMoves
<1>2. CASE turn' = Got(t, "polish", r) /\ OpenMain
  <2>1. TurnOK(turn') /\ turn'.stage = "polish" /\ Owns(turn') = t.rcost + r.cost
    BY <1>2, ResultStep
  <2>2. Fresh(turn'.stage)
    BY <1>2, <2>1, OpenMainFresh DEF MainStages
  <2>3. QED
    BY <2>1, <2>2, TurnMoves
<1>3. QED
  BY <1>1, <1>2 DEF HasResult, Got

\* What ResolvedDepth hands over is one of the four depths, governed or not.
LEMMA TurnDepthsIn == TurnDepths \subseteq Depths
<1>1. \A g \in GovernorSettings : g.shape \in Depths
  <2>1. ASSUME NEW c PROVE ExecutionSettings(c).shape \in Depths
    BY DEF ExecutionSettings, LevelShape, Depths
  <2> DEFINE Config(s, f) == Recommend(s, f, "ultra", FALSE)
  <2>2. GovernorSettings =
          {ExecutionSettings(Config(s, f)) : s \in SUBSET Signals, f \in Failures}
    BY DEF GovernorSettings
  <2> HIDE DEF Config
  <2>3. QED
    BY <2>1, <2>2
<1> DEFINE Governed == {{}} \cup {{g} : g \in GovernorSettings}
           Asked == {"auto", "direct", "deep", "hive"}
           Level == Range(Levels) \cup {NoLevel}
<1>2. TurnDepths = {ResolvedDepth(literal, level, depth, settings, hard) :
        literal \in BOOLEAN, level \in Level, depth \in Asked, settings \in Governed,
        hard \in BOOLEAN}
  BY DEF TurnDepths
<1>3. ASSUME NEW literal \in BOOLEAN, NEW level \in Level, NEW depth \in Asked,
             NEW settings \in Governed, NEW hard \in BOOLEAN
      PROVE  ResolvedDepth(literal, level, depth, settings, hard) \in Depths
  <2>1. settings = {} \/ \E g \in GovernorSettings : settings = {g}
    OBVIOUS
  <2>2. depth \in Depths
    BY DEF Depths
  <2>3. LevelShape(level) \in Depths
    BY DEF LevelShape, Depths
  <2>4. CASE settings = {}
    BY <2>2, <2>3, <2>4 DEF ResolvedDepth, Depths
  <2>5. CASE \E g \in GovernorSettings : settings = {g}
    <3>1. PICK g \in GovernorSettings : settings = {g}
      BY <2>5
    <3>2. (CHOOSE s \in settings : TRUE) = g
      BY <3>1
    <3>3. g.shape \in Depths
      BY <1>1
    <3>4. QED
      BY <2>2, <2>3, <3>1, <3>2, <3>3 DEF ResolvedDepth, Depths
  <2>6. QED
    BY <2>1, <2>4, <2>5
<1> HIDE DEF Governed, Asked, Level
<1>4. QED
  BY <1>2, <1>3

\* The media guard, the offline serve, the votes or the specialist: nothing is due yet.
LEMMA BeginInv == ASSUME TurnInv, Begin PROVE TurnInv'
<1>1. turn.stage = "new" /\ UNCHANGED <<metered, direct, permits, due, billed>>
  BY DEF Begin
<1>2. /\ lane \in [Lanes -> {Idle}] /\ permits = Slots /\ due = Owns(turn)
  BY <1>1, Between DEF MainStages, VoteStages
<1>3. /\ Plain(turn) /\ turn \in TurnRec /\ Sound(turn.out) /\ turn.out.cost = 0 /\ turn.rcost = 0
      /\ due = 0
  <2>1. turn.rcost = 0
    BY <1>1 DEF TurnInv, TurnOK
  <2>2. QED
    BY <1>1, <1>2, <2>1, StageFacts
<1>4. billed' \in BOOLEAN /\ (billed' => metered)
  BY <1>1 DEF TurnInv
<1>5. PICK depth \in TurnDepths, cat \in Readiness :
        \/ HasResult(Deepened(turn, depth), MediaResult)
        \/ /\ turn' = Entered(Deepened(turn, depth), "offline")
           /\ lane' = [lane EXCEPT !["main"] = Offline]
        \/ /\ turn' = Entered(Known(turn, depth, cat["api"], cat["local"]), "rvotes")
           /\ OpenVotes([v \in Voters |-> "cli"])
        \/ /\ turn' = Entered(Known(turn, depth, cat["api"], cat["local"]), "special")
           /\ UNCHANGED lane
  <2>1. PICK depth \in TurnDepths, cat \in Readiness :
        \/ HasResult(Deepened(turn, depth), MediaResult)
        \/ /\ turn' = [turn EXCEPT !.depth = depth, !.stage = "offline"]
           /\ lane' = [lane EXCEPT !["main"] = Offline]
        \/ /\ turn' = Entered(Known(turn, depth, cat["api"], cat["local"]), "rvotes")
           /\ OpenVotes([v \in Voters |-> "cli"])
        \/ /\ turn' = Entered(Known(turn, depth, cat["api"], cat["local"]), "special")
           /\ UNCHANGED lane
    BY DEF Begin, Entered, Known, Deepened, Offline
  <2>2. [turn EXCEPT !.depth = depth, !.stage = "offline"]
          = Entered(Deepened(turn, depth), "offline")
    BY <1>3 DEF Entered, Deepened, TurnRec
  <2>3. QED
    BY <2>1, <2>2
<1> DEFINE d == Deepened(turn, depth)
           k == Known(turn, depth, cat["api"], cat["local"])
<1>6. depth \in Depths /\ cat["api"] \in BOOLEAN /\ cat["local"] \in BOOLEAN
  BY TurnDepthsIn DEF Readiness, Planes
<1>7. d \in TurnRec /\ d.stage = "new" /\ d.out = turn.out /\ Kept(turn, d)
  BY <1>1, <1>3, <1>6, DeepenedFacts
<1>8. k \in TurnRec /\ k.stage = "new" /\ k.out = turn.out /\ Kept(turn, k)
  BY <1>1, <1>3, <1>6, KnownFacts
<1> HIDE DEF d, k
<1>9. Plain(d) /\ Plain(k) /\ d.rcost = 0 /\ k.rcost = 0
  BY <1>3, <1>7, <1>8, KeptPlain
<1>10. ASSUME NEW t \in {d, k}, NEW s \in {"offline", "rvotes", "special"},
              turn' = Entered(t, s)
       PROVE  TurnOK(turn') /\ turn'.stage = s /\ Owns(turn') = 0
  <2>1. t \in TurnRec /\ Plain(t) /\ t.rcost = 0 /\ t.out = turn.out /\ s \in Stages
    BY <1>7, <1>8, <1>9 DEF Stages
  <2>2. turn' \in TurnRec /\ turn'.stage = s /\ turn'.out = t.out /\ Kept(t, turn')
    BY <1>10, <2>1, EnteredFacts
  <2>3. Plain(turn') /\ turn'.rcost = 0
    BY <2>1, <2>2, KeptPlain
  <2>4. QED
    BY <1>3, <2>1, <2>2, <2>3, WorkStep
<1>11. CASE HasResult(d, MediaResult)
  <2>1. Sound(MediaResult) /\ MediaResult.ok /\ MediaResult.cost = 0
    BY ResultFacts DEF MediaResult, Texts
  <2>2. due' \in Nat /\ due' = d.rcost + MediaResult.cost
    BY <1>1, <1>3, <1>9, <2>1
  <2>3. lane \in [Lanes -> LaneRec] /\ \A l \in Lanes \ {"main"} : lane[l] = Idle
    BY <1>2, IdleFacts
  <2>4. QED
    BY <1>1, <1>2, <1>4, <1>9, <1>11, <2>1, <2>2, <2>3, HasResultInv
<1>12. CASE /\ turn' = Entered(d, "offline")
            /\ lane' = [lane EXCEPT !["main"] = Offline]
  <2> DEFINE a == Offline
  <2>1. /\ a \in LaneRec /\ a.pc = "slot" /\ a.out = Idle.out /\ a.att = 0 /\ a.init = 0
        /\ ~a.swapped
    BY OfflineFacts
  <2>2. lane' = [lane EXCEPT !["main"] = a]
    BY <1>12
  <2> HIDE DEF a
  <2>3. LaneOK("main", a) /\ Held("main", a) = 0
    BY <2>1, IdleFacts DEF LaneOK, Held
  <2>4. /\ lane' \in [Lanes -> LaneRec] /\ lane'["main"] = a
        /\ \A l \in Lanes \ {"main"} : lane'[l] = Idle
    BY <1>2, <2>1, <2>2, Constants, IdleFacts
  <2>5. TurnOK(turn') /\ turn'.stage = "offline" /\ Owns(turn') = 0
    BY <1>10, <1>12
  <2>6. Fresh(turn'.stage)
    BY <2>1, <2>3, <2>4, <2>5, MainFresh DEF MainStages
  <2>7. QED
    BY <1>1, <1>2, <1>3, <1>4, <2>5, <2>6, TurnMoves
<1>13. CASE turn' = Entered(k, "rvotes") /\ OpenVotes([v \in Voters |-> "cli"])
  <2>1. TurnOK(turn') /\ turn'.stage = "rvotes" /\ Owns(turn') = 0
    BY <1>10, <1>13
  <2>2. \A v \in Voters : [w \in Voters |-> "cli"][v] \in {"cli", "api"}
    OBVIOUS
  <2>3. Fresh(turn'.stage)
    <3> DEFINE req == [v \in Voters |-> "cli"]
    <3>1. OpenVotes(req) /\ \A v \in Voters : req[v] \in {"cli", "api"}
      BY <1>13
    <3> HIDE DEF req
    <3>2. QED
      BY <2>1, <3>1, OpenVotesFresh DEF VoteStages
  <2>4. QED
    BY <1>1, <1>2, <1>3, <1>4, <2>1, <2>3, TurnMoves
<1>14. CASE turn' = Entered(k, "special") /\ UNCHANGED lane
  <2>1. TurnOK(turn') /\ turn'.stage = "special" /\ Owns(turn') = 0
    BY <1>10, <1>14
  <2>2. Fresh(turn'.stage)
    BY <1>2, <1>14, AllIdleFresh
  <2>3. QED
    BY <1>1, <1>2, <1>3, <1>4, <2>1, <2>2, TurnMoves
<1>15. QED
  BY <1>5, <1>11, <1>12, <1>13, <1>14 DEF d, k

\* The votes' usage moves from the lanes to the router's local.
LEMMA CountRouteVotesInv == ASSUME TurnInv, CountRouteVotes PROVE TurnInv'
<1> DEFINE n == SumVotes(VoteCost)
           t == Counted(turn, n)
<1>1. /\ turn.stage = "rvotes" /\ VotesIn /\ lane' = [l \in Lanes |-> Idle]
      /\ UNCHANGED <<metered, direct, permits, due, billed>>
  BY DEF CountRouteVotes
<1>2. /\ permits = Slots /\ n \in Nat /\ SumVotes(UsageAttempts) = n /\ due = Owns(turn) + n
  BY <1>1, VotesDone DEF VoteStages
<1>3. /\ Plain(turn) /\ turn \in TurnRec /\ Sound(turn.out) /\ turn.out.cost = 0 /\ turn.rcost = 0
      /\ due = n
  <2>1. turn.rcost = 0
    BY <1>1 DEF TurnInv, TurnOK
  <2>2. QED
    BY <1>1, <1>2, <2>1, StageFacts
<1>4. billed' \in BOOLEAN /\ (billed' => metered) /\ due' = n
  BY <1>1, <1>3 DEF TurnInv
<1>5. \/ turn' = Entered(t, "semantic")
      \/ \E route \in Routes, hint \in {"fast", "deep", "hive"} :
           turn' = Sent(t, route, Escalated(route, hint))
  BY <1>2 DEF CountRouteVotes, Entered, Sent, Counted, Routes
<1> HIDE DEF n
<1>6. Plain(t) /\ t.stage = "rvotes" /\ t.out = turn.out /\ t.rcost = n /\ t \in TurnRec
  BY <1>1, <1>2, <1>3, CountedFacts DEF Plain
<1> HIDE DEF t
<1>7. turn' \in TurnRec /\ turn'.stage \in {"semantic", "special"} /\ turn'.out = t.out
      /\ Kept(t, turn')
  <2>1. CASE turn' = Entered(t, "semantic")
    BY <1>6, <2>1, EnteredFacts DEF Stages
  <2>2. ASSUME NEW route \in Routes, NEW hint \in {"fast", "deep", "hive"},
               turn' = Sent(t, route, Escalated(route, hint))
        PROVE  turn' \in TurnRec /\ turn'.stage = "special" /\ turn'.out = t.out
               /\ Kept(t, turn')
    <3>1. Escalated(route, hint) \in Depths
      BY <1>3, TurnTypes DEF Escalated, Depths
    <3>2. QED
      BY <1>6, <2>2, <3>1, SentFacts
  <2>3. QED
    BY <1>5, <2>1, <2>2
<1>8. Plain(turn') /\ turn'.rcost = n
  BY <1>6, <1>7, KeptPlain
<1>9. TurnOK(turn') /\ Owns(turn') = n
  BY <1>3, <1>6, <1>7, <1>8, WorkStep
<1>10. Fresh(turn'.stage)
  BY <1>1, AllIdleFresh
<1>11. QED
  BY <1>1, <1>2, <1>4, <1>9, <1>10, TurnMoves

\* The semantic router's reply is added beside the votes that came to nothing.
LEMMA RouteTaskInv == ASSUME TurnInv, RouteTask PROVE TurnInv'
<1>1. turn.stage = "semantic" /\ UNCHANGED <<metered, direct, permits, lane>>
  BY DEF RouteTask
<1>2. lane \in [Lanes -> {Idle}] /\ permits = Slots /\ due = Owns(turn)
  BY <1>1, Between DEF MainStages, VoteStages
<1>3. /\ Plain(turn) /\ turn \in TurnRec /\ Sound(turn.out) /\ turn.out.cost = 0
      /\ turn.rcost \in Nat /\ due = turn.rcost
  BY <1>1, <1>2, StageFacts
<1>4. Cost["api"] \in Nat /\ metered \in BOOLEAN /\ billed \in BOOLEAN /\ (billed => metered)
  BY Constants DEF TurnInv
<1> DEFINE n == turn.rcost + Cost["api"]
<1>5. PICK t \in {turn, Paid(turn, n)}, route \in Routes :
        /\ turn' = SentOn(t, route)
        /\ due' = IF t = turn THEN due' ELSE due + Cost["api"]
        /\ t = turn => due' = due
        /\ billed' \in BOOLEAN /\ (billed' => metered)
  <2>1. CASE metered /\ Reply("api")
             /\ \E route \in {"direct", "code", "media"} :
                  turn' = [WithRouter(turn, Cost["api"]) EXCEPT !.stage = "special",
                                                                !.route = route]
    <3>1. due' = due + Cost["api"] /\ billed' = TRUE
      BY <1>4, <2>1 DEF Reply
    <3>2. WithRouter(turn, Cost["api"]) = Paid(turn, n)
      BY DEF WithRouter, Paid
    <3>3. \E route \in Routes : turn' = SentOn(Paid(turn, n), route)
      BY <2>1, <3>2 DEF SentOn, Routes
    <3>4. Paid(turn, n) # turn
      <4>1. Paid(turn, n).rcost = n
        BY <1>3 DEF Paid, TurnRec
      <4>2. n # turn.rcost
        BY <1>3, Constants
      <4>3. QED
        BY <4>1, <4>2
    <3>5. QED
      BY <2>1, <3>1, <3>3, <3>4
  <2>2. CASE metered /\ LostReply("api") /\ FloorRoutes
    <3>1. due' = due /\ billed' = TRUE
      BY <1>4, <2>2 DEF LostReply
    <3>2. \E route \in Routes : turn' = SentOn(turn, route)
      BY <2>2 DEF FloorRoutes, SentOn, Routes
    <3>3. QED
      BY <2>2, <3>1, <3>2
  <2>3. CASE FloorRoutes /\ UNCHANGED <<due, billed>>
    <3>1. \E route \in Routes : turn' = SentOn(turn, route)
      BY <2>3 DEF FloorRoutes, SentOn, Routes
    <3>2. QED
      BY <1>4, <2>3, <3>1
  <2>4. QED
    BY <2>1, <2>2, <2>3 DEF RouteTask
<1>6. /\ Plain(t) /\ t.out = turn.out /\ due' = t.rcost /\ due' \in Nat /\ t \in TurnRec
  <2>1. n \in Nat /\ turn.rcost <= n
    BY <1>3, <1>4
  <2>2. CASE t = turn
    BY <1>3, <1>5, <2>2
  <2>3. CASE t # turn
    <3>1. t = Paid(turn, n) /\ due' = n
      BY <1>3, <1>5, <2>3
    <3> HIDE DEF n
    <3>2. QED
      BY <1>3, <2>1, <3>1, CountedFacts DEF Plain
  <2>4. QED
    BY <2>2, <2>3
<1> HIDE DEF n
<1>7. turn' \in TurnRec /\ turn'.stage = "special" /\ turn'.out = t.out /\ Kept(t, turn')
  BY <1>5, <1>6, SentFacts DEF Depths
<1>8. Plain(turn') /\ turn'.rcost = t.rcost
  BY <1>6, <1>7, KeptPlain
<1>9. TurnOK(turn') /\ Owns(turn') = due'
  BY <1>3, <1>6, <1>7, <1>8, WorkStep
<1>10. Fresh(turn'.stage)
  BY <1>1, <1>2, AllIdleFresh
<1>11. QED
  BY <1>1, <1>2, <1>5, <1>6, <1>9, <1>10, TurnMoves

\* The turn fails with everything that is due.
LEMMA TurnFailsInv ==
    ASSUME TurnInv, permits = Slots, lane' \in [Lanes -> {Idle}], NEW n \in Nat, TurnFails(n),
           due' = n, UNCHANGED <<metered, direct, permits>>,
           billed' \in BOOLEAN, billed' => metered
    PROVE  TurnInv'
<1>1. TurnOK(turn') /\ turn'.stage = "done" /\ Owns(turn') = n
  BY FailsStep
<1>2. Fresh(turn'.stage)
  BY AllIdleFresh
<1>3. QED
  BY <1>1, <1>2, TurnMoves

\* The unified call or the draft of a hive starts; the router's spend stays.
LEMMA UnifiedInv ==
    ASSUME TurnInv, permits = Slots, Plain(turn), turn.out.cost = 0, Sound(turn.out), Unified,
           due' = turn.rcost, UNCHANGED <<metered, direct, permits>>,
           billed' \in BOOLEAN, billed' => metered
    PROVE  TurnInv'
<1>1. PICK s \in {"draft", "unified"} : turn' = Entered(Routed, s)
  BY DEF Unified, Entered
<1>2. turn \in TurnRec /\ s \in Stages
  BY DEF Plain, Stages
<1>3. Routed \in TurnRec /\ Routed.out = turn.out /\ Kept(turn, Routed)
  BY <1>2, RoutedFacts
<1>4. Plain(Routed) /\ Routed.rcost = turn.rcost
  BY <1>3, KeptPlain
<1>5. turn' \in TurnRec /\ turn'.stage = s /\ turn'.out = turn.out /\ Kept(Routed, turn')
  BY <1>1, <1>2, <1>3, EnteredFacts
<1>6. Plain(turn') /\ turn'.rcost = turn.rcost
  BY <1>4, <1>5, KeptPlain
<1>7. TurnOK(turn') /\ Owns(turn') = turn.rcost /\ turn.rcost \in Nat
  BY <1>2, <1>5, <1>6, WorkStep, TurnTypes
<1>8. Fresh(turn'.stage)
  BY <1>5, OpenMainFresh DEF Unified, MainStages
<1>9. QED
  BY <1>7, <1>8, TurnMoves

\* A draft in hand: the personas are asked.
LEMMA HiveVotesInv ==
    ASSUME TurnInv, permits = Slots, Plain(turn), turn.out.cost = 0, Sound(turn.out),
           NEW d, Sound(d), d.ok, turn' = Drafted(Routed, d),
           NEW req, \A v \in Voters : req[v] \in {"cli", "api"}, OpenVotes(req),
           due' = turn.rcost + d.cost, UNCHANGED <<metered, direct, permits>>,
           billed' \in BOOLEAN, billed' => metered
    PROVE  TurnInv'
<1>1. turn \in TurnRec /\ d \in Outcome /\ d.cost \in Nat /\ turn.rcost \in Nat
  BY TurnTypes, OutcomeTypes DEF Plain, Sound
<1>2. Routed \in TurnRec /\ Routed.out = turn.out /\ Kept(turn, Routed)
  BY <1>1, RoutedFacts
<1>3. Plain(Routed) /\ Routed.rcost = turn.rcost
  BY <1>2, KeptPlain
<1>4. /\ turn' \in TurnRec /\ turn'.stage = "hvotes" /\ turn'.out = turn.out /\ turn'.draft = d
      /\ turn'.rvotes = Routed.rvotes /\ turn'.rcost = turn.rcost /\ turn'.hcost = 0
      /\ turn'.hatt = 0 /\ turn'.hprior = 0
  <2>1. Routed.hcost = 0 /\ Routed.hatt = 0 /\ Routed.hprior = 0
    BY <1>3 DEF Plain
  <2>2. QED
    BY <1>1, <1>2, <1>3, <2>1, DraftedFacts
<1>5. turn'.rvotes <= turn'.rcost
  BY <1>3, <1>4 DEF Plain
<1>6. TurnOK(turn')
  BY <1>4, <1>5 DEF TurnOK
<1>7. Owns(turn') = turn.rcost + d.cost
  BY <1>1, <1>4 DEF Owns
<1>8. Fresh(turn'.stage)
  BY <1>4, OpenVotesFresh DEF VoteStages
<1>9. QED
  BY <1>1, <1>6, <1>7, <1>8, TurnMoves

\* Whatever planes the personas ask.
LEMMA OpenHiveVotesOpens ==
    ASSUME NEW d, NEW api, OpenHiveVotes(d, api)
    PROVE  /\ turn' = Drafted(Routed, d)
           /\ \E req : OpenVotes(req) /\ \A v \in Voters : req[v] \in {"cli", "api"}
<1> DEFINE req == [v \in Voters |-> IF api /\ v \in ApiVoters THEN "api" ELSE "cli"]
<1>1. OpenVotes(req) /\ turn' = Drafted(Routed, d)
  BY DEF OpenHiveVotes, Drafted
<1>2. \A v \in Voters : req[v] \in {"cli", "api"}
  OBVIOUS
<1> HIDE DEF req
<1>3. QED
  BY <1>1, <1>2

\* The specialist's reply becomes a result or a draft; its exception carries the router's spend.
LEMMA SpecialistInv == ASSUME TurnInv, Specialist PROVE TurnInv'
<1>1. turn.stage = "special" /\ UNCHANGED <<metered, direct, permits>>
  BY DEF Specialist
<1>2. lane \in [Lanes -> {Idle}] /\ permits = Slots /\ due = Owns(turn)
  BY <1>1, Between DEF MainStages, VoteStages
<1>3. /\ Plain(turn) /\ turn \in TurnRec /\ Sound(turn.out) /\ turn.out.cost = 0
      /\ turn.rcost \in Nat /\ due = turn.rcost /\ RouterAttempts = turn.rcost
  BY <1>1, <1>2, StageFacts
<1>4. Cost["api"] \in Nat /\ metered \in BOOLEAN /\ billed \in BOOLEAN /\ (billed => metered)
  BY Constants DEF TurnInv
<1> DEFINE c == Cost["api"]
<1>5. \/ /\ Unified \/ (TurnFails(RouterAttempts) /\ UNCHANGED lane)
         /\ UNCHANGED <<due, billed>> \/ (metered /\ LostReply("api"))
      \/ /\ metered /\ Reply("api")
         /\ \E text \in {"answer", "junk"} :
              \/ OpenHiveVotes(Result(c, 0, text), TRUE)
              \/ HasResult(Routed, Result(c, 0, text))
  BY DEF Specialist
<1>6. CASE /\ Unified \/ (TurnFails(RouterAttempts) /\ UNCHANGED lane)
           /\ UNCHANGED <<due, billed>> \/ (metered /\ LostReply("api"))
  <2>1. due' = turn.rcost /\ billed' \in BOOLEAN /\ (billed' => metered)
    BY <1>3, <1>4, <1>6 DEF LostReply
  <2>2. CASE Unified
    BY <1>1, <1>2, <1>3, <2>1, <2>2, UnifiedInv
  <2>3. CASE TurnFails(RouterAttempts) /\ UNCHANGED lane
    <3>1. TurnFails(turn.rcost) /\ lane' \in [Lanes -> {Idle}]
      BY <1>2, <1>3, <2>3
    <3>2. QED
      BY <1>1, <1>2, <1>3, <2>1, <3>1, TurnFailsInv
  <2>4. QED
    BY <1>6, <2>2, <2>3
<1>7. ASSUME metered, Reply("api"), NEW text \in {"answer", "junk"},
             \/ OpenHiveVotes(Result(c, 0, text), TRUE)
             \/ HasResult(Routed, Result(c, 0, text))
      PROVE  TurnInv'
  <2> DEFINE r == Result(c, 0, text)
  <2>1. due' = turn.rcost + c /\ due' \in Nat /\ billed' \in BOOLEAN /\ (billed' => metered)
    BY <1>3, <1>4, <1>7 DEF Reply
  <2>2. Sound(r) /\ r.ok /\ r.cost = c
    BY <1>4, ResultFacts DEF Texts
  <2>3. OpenHiveVotes(r, TRUE) \/ HasResult(Routed, r)
    BY <1>7
  <2> HIDE DEF r
  <2>4. CASE OpenHiveVotes(r, TRUE)
    <3>1. /\ turn' = Drafted(Routed, r)
          /\ \E req : OpenVotes(req) /\ \A v \in Voters : req[v] \in {"cli", "api"}
      BY <2>4, OpenHiveVotesOpens
    <3>2. PICK req : OpenVotes(req) /\ \A v \in Voters : req[v] \in {"cli", "api"}
      BY <3>1
    <3>3. QED
      BY <1>1, <1>2, <1>3, <2>1, <2>2, <3>1, <3>2, HiveVotesInv
  <2>5. CASE HasResult(Routed, r)
    <3>1. Routed \in TurnRec /\ Kept(turn, Routed)
      BY <1>3, RoutedFacts
    <3>2. Plain(Routed) /\ Routed.rcost = turn.rcost
      BY <1>3, <3>1, KeptPlain
    <3>3. lane \in [Lanes -> LaneRec] /\ \A l \in Lanes \ {"main"} : lane[l] = Idle
      BY <1>2, IdleFacts
    <3>4. QED
      BY <1>1, <1>2, <2>1, <2>2, <2>5, <3>2, <3>3, HasResultInv
  <2>6. QED
    BY <2>3, <2>4, <2>5
<1>8. QED
  BY <1>5, <1>6, <1>7

\* The turn fails once the main lane is back, with what both hold.
LEMMA BackFailsInv ==
    ASSUME TurnInv, turn.stage \in MainStages, Main.pc = "done", ~Main.out.ok,
           NEW n \in Nat, Owns(turn) = n, TurnFails(n + Main.out.att),
           lane' = [lane EXCEPT !["main"] = Idle],
           UNCHANGED <<metered, direct, permits, due, billed>>
    PROVE  TurnInv'
<1>1. /\ lane \in [Lanes -> LaneRec] /\ \A l \in Lanes \ {"main"} : lane[l] = Idle
      /\ permits = Slots /\ Sound(Main.out) /\ due = n + Owed(Main.out)
  BY MainDone
<1>2. Main.out.att \in Nat /\ Owed(Main.out) = Main.out.att
  BY <1>1, OutcomeTypes DEF Sound, Owed
<1>3. lane' \in [Lanes -> {Idle}]
  BY <1>1, Constants
<1>4. n + Main.out.att \in Nat /\ due' = n + Main.out.att
  BY <1>1, <1>2
<1>5. billed' \in BOOLEAN /\ (billed' => metered)
  BY DEF TurnInv
<1>6. QED
  BY <1>1, <1>3, <1>4, <1>5, TurnFailsInv

\* The unified result, or its exception with the router's spend.
LEMMA UnifiedBackInv == ASSUME TurnInv, UnifiedBack PROVE TurnInv'
<1>1. /\ turn.stage \in {"unified", "offline"} /\ turn.stage \in MainStages /\ Main.pc = "done"
      /\ UNCHANGED <<metered, direct, permits, due, billed>>
  BY DEF UnifiedBack, MainStages
<1>2. /\ lane \in [Lanes -> LaneRec] /\ \A l \in Lanes \ {"main"} : lane[l] = Idle
      /\ permits = Slots /\ Sound(Main.out) /\ due = Owns(turn) + Owed(Main.out)
  BY <1>1, MainDone
<1>3. /\ Plain(turn) /\ turn.out.cost = 0 /\ turn.rcost \in Nat /\ due \in Nat
      /\ Owns(turn) = turn.rcost /\ RouterAttempts = turn.rcost
  BY <1>1, StageFacts
<1>4. CASE Main.out.ok
  <2>1. HasResult(turn, Main.out) /\ due' = turn.rcost + Main.out.cost /\ due' \in Nat
    BY <1>1, <1>2, <1>3, <1>4 DEF UnifiedBack, Owed
  <2>2. billed' \in BOOLEAN /\ (billed' => metered)
    BY <1>1 DEF TurnInv
  <2>3. QED
    BY <1>1, <1>2, <1>3, <1>4, <2>1, <2>2, HasResultInv
<1>5. CASE ~Main.out.ok
  <2>1. /\ TurnFails(turn.rcost + Main.out.att) /\ lane' = [lane EXCEPT !["main"] = Idle]
    BY <1>3, <1>5 DEF UnifiedBack
  <2>2. QED
    BY <1>1, <1>3, <1>5, <2>1, BackFailsInv
<1>6. QED
  BY <1>4, <1>5

\* The same for the draft of a hive.
LEMMA DraftBackInv == ASSUME TurnInv, DraftBack PROVE TurnInv'
<1>1. /\ turn.stage = "draft" /\ turn.stage \in MainStages /\ Main.pc = "done"
      /\ UNCHANGED <<metered, direct, permits, due, billed>>
  BY DEF DraftBack, MainStages
<1>2. /\ permits = Slots /\ Sound(Main.out) /\ due = Owns(turn) + Owed(Main.out)
  BY <1>1, MainDone
<1>3. /\ Plain(turn) /\ turn.out.cost = 0 /\ turn.rcost \in Nat /\ Sound(turn.out)
      /\ Owns(turn) = turn.rcost /\ RouterAttempts = turn.rcost
  BY <1>1, StageFacts
<1>4. CASE Main.out.ok
  <2>1. PICK api \in {FALSE, metered} : OpenHiveVotes(Main.out, api)
    BY <1>4 DEF DraftBack
  <2>2. /\ turn' = Drafted(Routed, Main.out)
        /\ \E req : OpenVotes(req) /\ \A v \in Voters : req[v] \in {"cli", "api"}
    BY <2>1, OpenHiveVotesOpens
  <2>3. PICK req : OpenVotes(req) /\ \A v \in Voters : req[v] \in {"cli", "api"}
    BY <2>2
  <2>4. due' = turn.rcost + Main.out.cost
    BY <1>1, <1>2, <1>3, <1>4 DEF Owed
  <2>5. billed' \in BOOLEAN /\ (billed' => metered)
    BY <1>1 DEF TurnInv
  <2>6. QED
    BY <1>1, <1>2, <1>3, <1>4, <2>2, <2>3, <2>4, <2>5, HiveVotesInv
<1>5. CASE ~Main.out.ok
  <2>1. /\ TurnFails(turn.rcost + Main.out.att) /\ lane' = [lane EXCEPT !["main"] = Idle]
    BY <1>3, <1>5 DEF DraftBack
  <2>2. QED
    BY <1>1, <1>3, <1>5, <2>1, BackFailsInv
<1>6. QED
  BY <1>4, <1>5

\* The usage of a result is written anew.
Repriced(r, c, a) == [r EXCEPT !.cost = c, !.att = a]
Polished(r, c, a, x) == [r EXCEPT !.cost = c, !.att = a, !.text = x]
Billed(r, c) == [r EXCEPT !.cost = c]

\* New usage, the rest of the result as it was.
LEMMA RepricedFacts ==
    ASSUME NEW r, Sound(r), NEW c \in Nat, NEW a \in Nat, a <= c, NEW x \in Texts,
           NEW q, q \in {Repriced(r, c, a), Polished(r, c, a, x)}
    PROVE  Sound(q) /\ q.ok = r.ok /\ q.cost = c /\ q.att = a
<1>1. r \in Outcome
  BY DEF Sound
<1>2. /\ q \in Outcome /\ q.ok = r.ok /\ q.cost = c /\ q.att = a
      /\ q.count = r.count /\ q.status = r.status
  <2>1. CASE q = Repriced(r, c, a)
    BY <1>1, <2>1 DEF Repriced, Outcome
  <2>2. CASE q = Polished(r, c, a, x)
    BY <1>1, <2>2 DEF Polished, Outcome
  <2>3. QED
    BY <2>1, <2>2
<1>3. QED
  BY <1>2 DEF Sound

\* New cost, at least what is listed.
LEMMA BilledFacts ==
    ASSUME NEW r, Sound(r), NEW c \in Nat, r.att <= c, NEW q, q = Billed(r, c)
    PROVE  Sound(q) /\ q.ok = r.ok /\ q.cost = c /\ q.att = r.att
<1>1. r \in Outcome
  BY DEF Sound
<1>2. /\ q \in Outcome /\ q.ok = r.ok /\ q.cost = c /\ q.att = r.att
      /\ q.count = r.count /\ q.status = r.status
  BY <1>1 DEF Billed, Outcome
<1>3. QED
  BY <1>2 DEF Sound

\* The hive is over, or merges.
HiveOver(t, r) ==
    [t EXCEPT !.stage = "wrap", !.draft = NewTurn.draft, !.hcost = 0, !.hatt = 0,
              !.hprior = 0, !.out = r]
Merging(t, c, a, d) ==
    [t EXCEPT !.stage = "merge", !.hcost = c, !.hatt = a, !.hprior = c, !.draft = d]

\* Without its hive the turn holds router and result.
LEMMA HiveOverFacts ==
    ASSUME NEW t, TurnOK(t), NEW r, Sound(r), r.ok, NEW u, u = HiveOver(t, r)
    PROVE  TurnOK(u) /\ u.stage = "wrap" /\ Owns(u) = t.rcost + r.cost
<1>1. t \in TurnRec /\ r \in Outcome /\ r.cost \in Nat /\ t.rcost \in Nat
  BY TurnTypes, OutcomeTypes DEF TurnOK, Sound
<1>2. /\ NewTurn.draft \in Outcome /\ Sound(NewTurn.draft) /\ NewTurn.draft.cost = 0
  BY NewFacts DEF Plain, Sound
<1>3. /\ u \in TurnRec /\ u.stage = "wrap" /\ u.draft = NewTurn.draft /\ u.hcost = 0
      /\ u.hatt = 0 /\ u.hprior = 0 /\ u.out = r /\ u.rvotes = t.rvotes /\ u.rcost = t.rcost
  BY <1>1, <1>2 DEF HiveOver, TurnRec
<1>4. TurnOK(u)
  BY <1>2, <1>3 DEF TurnOK
<1>5. Owns(u) = t.rcost + r.cost
  BY <1>1, <1>2, <1>3 DEF Owns
<1>6. QED
  BY <1>3, <1>4, <1>5

\* During the merge the hive's spend is in hcost and hprior, not in the draft.
LEMMA MergingFacts ==
    ASSUME NEW t, TurnOK(t), t.out.cost = 0, NEW c \in Nat, NEW a \in Nat, a <= c,
           NEW d, Sound(d), d.ok, d.cost = 0, NEW u, u = Merging(t, c, a, d)
    PROVE  TurnOK(u) /\ u.stage = "merge" /\ Owns(u) = t.rcost + c
<1>1. t \in TurnRec /\ d \in Outcome /\ t.rcost \in Nat
  BY TurnTypes DEF TurnOK, Sound
<1>2. /\ u \in TurnRec /\ u.stage = "merge" /\ u.draft = d /\ u.hcost = c
      /\ u.hatt = a /\ u.hprior = c /\ u.out = t.out /\ u.rvotes = t.rvotes
      /\ u.rcost = t.rcost
  BY <1>1 DEF Merging, TurnRec
<1>3. TurnOK(u)
  BY <1>2 DEF TurnOK
<1>4. Owns(u) = t.rcost + c
  BY <1>1, <1>2 DEF Owns
<1>5. QED
  BY <1>2, <1>3, <1>4

\* Draft and votes become the result, or the account of the merge.
LEMMA CountHiveVotesInv == ASSUME TurnInv, CountHiveVotes PROVE TurnInv'
<1> DEFINE n == SumVotes(VoteCost)
           m == SumVotes(VoteListed)
           c == turn.draft.cost + n
           a == turn.draft.att + m
<1>1. /\ turn.stage = "hvotes" /\ VotesIn /\ UNCHANGED <<metered, direct, permits, due, billed>>
  BY DEF CountHiveVotes
<1>2. /\ permits = Slots /\ n \in Nat /\ m \in Nat /\ m <= n
      /\ SumVotes(UsageAttempts) = n /\ due = Owns(turn) + n
  BY <1>1, VotesDone DEF VoteStages
<1>3. /\ TurnOK(turn) /\ turn \in TurnRec /\ Sound(turn.draft) /\ turn.draft.ok
      /\ turn.out.cost = 0 /\ turn.hcost = 0
  BY <1>1 DEF TurnInv, TurnOK
<1>4. /\ turn.draft \in Outcome /\ turn.draft.cost \in Nat /\ turn.draft.att \in Nat
      /\ turn.draft.att <= turn.draft.cost /\ turn.rcost \in Nat
  BY <1>3, TurnTypes, OutcomeTypes DEF Sound
<1>5. /\ c \in Nat /\ a \in Nat /\ a <= c /\ due = turn.rcost + c
  <2>1. Owns(turn) = turn.rcost + turn.draft.cost
    BY <1>1, <1>3, <1>4 DEF Owns
  <2> HIDE DEF n, m
  <2>2. QED
    BY <1>2, <1>4, <2>1
<1>6. UsageAttempts(turn.draft) + SumVotes(UsageAttempts) = c
  BY <1>2, <1>4, UsageFacts
<1>7. \/ /\ turn' = HiveOver(turn, Repriced(turn.draft, c, a))
         /\ lane' = [l \in Lanes |-> Idle]
      \/ /\ turn' = Merging(turn, c, a, Repriced(turn.draft, 0, 0))
         /\ OpenMain
  <2>1. \/ /\ turn' = [turn EXCEPT !.stage = "wrap", !.out = Repriced(turn.draft, c, a),
                                   !.draft = NewTurn.draft]
           /\ lane' = [l \in Lanes |-> Idle]
        \/ /\ turn' = [turn EXCEPT !.stage = "merge", !.hcost = c, !.hatt = a,
                         !.hprior = UsageAttempts(turn.draft) + SumVotes(UsageAttempts),
                         !.draft = Repriced(turn.draft, 0, 0)]
           /\ OpenMain
    BY DEF CountHiveVotes, HiveListed, Repriced
  <2>2. turn.hcost = 0 /\ turn.hatt = 0 /\ turn.hprior = 0
    BY <1>3, TurnTypes DEF TurnOK
  <2> DEFINE q == Repriced(turn.draft, c, a)
  <2> HIDE DEF q, c, a
  <2>3. [turn EXCEPT !.stage = "wrap", !.out = q, !.draft = NewTurn.draft] = HiveOver(turn, q)
    BY <1>3, <2>2 DEF HiveOver, TurnRec
  <2>4. QED
    BY <1>6, <2>1, <2>3 DEF Merging, q
<1>8. billed' \in BOOLEAN /\ (billed' => metered) /\ due' = turn.rcost + c /\ due' \in Nat
  <2> HIDE DEF c
  <2>1. QED
    BY <1>1, <1>4, <1>5 DEF TurnInv
<1> HIDE DEF n, m, c, a
<1>9. CASE /\ turn' = HiveOver(turn, Repriced(turn.draft, c, a))
           /\ lane' = [l \in Lanes |-> Idle]
  <2> DEFINE q == Repriced(turn.draft, c, a)
  <2>1. Sound(q) /\ q.ok /\ q.cost = c
    BY <1>3, <1>5, RepricedFacts DEF Texts
  <2>2. turn' = HiveOver(turn, q)
    BY <1>9
  <2> HIDE DEF q
  <2>3. TurnOK(turn') /\ turn'.stage = "wrap" /\ Owns(turn') = turn.rcost + c
    BY <1>3, <2>1, <2>2, HiveOverFacts
  <2>4. Fresh(turn'.stage)
    BY <1>9, AllIdleFresh
  <2>5. QED
    BY <1>1, <1>2, <1>8, <2>3, <2>4, TurnMoves
<1>10. CASE turn' = Merging(turn, c, a, Repriced(turn.draft, 0, 0)) /\ OpenMain
  <2> DEFINE q == Repriced(turn.draft, 0, 0)
  <2>1. Sound(q) /\ q.ok /\ q.cost = 0
    BY <1>3, RepricedFacts DEF Texts
  <2>2. turn' = Merging(turn, c, a, q)
    BY <1>10
  <2> HIDE DEF q
  <2>3. TurnOK(turn') /\ turn'.stage = "merge" /\ Owns(turn') = turn.rcost + c
    BY <1>3, <1>5, <2>1, <2>2, MergingFacts
  <2>4. Fresh(turn'.stage)
    BY <1>10, <2>3, OpenMainFresh DEF MainStages
  <2>5. QED
    BY <1>1, <1>2, <1>8, <2>3, <2>4, TurnMoves
<1>11. QED
  BY <1>7, <1>9, <1>10

\* The merge adds its own usage to the hive's, and so does its exception.
LEMMA MergeBackInv == ASSUME TurnInv, MergeBack PROVE TurnInv'
<1>1. /\ turn.stage = "merge" /\ turn.stage \in MainStages /\ Main.pc = "done"
      /\ lane' = [lane EXCEPT !["main"] = Idle]
      /\ UNCHANGED <<metered, direct, permits, due, billed>>
  BY DEF MergeBack, MainStages
<1>2. /\ lane \in [Lanes -> LaneRec] /\ \A l \in Lanes \ {"main"} : lane[l] = Idle
      /\ permits = Slots /\ Sound(Main.out) /\ due = Owns(turn) + Owed(Main.out)
  BY <1>1, MainDone
<1>3. /\ TurnOK(turn) /\ turn \in TurnRec /\ Sound(turn.draft) /\ turn.draft.ok
      /\ turn.out.cost = 0 /\ turn.draft.cost = 0 /\ turn.hprior = turn.hcost
      /\ turn.hatt <= turn.hcost
  BY <1>1 DEF TurnInv, TurnOK
<1>4. /\ turn.rcost \in Nat /\ turn.hcost \in Nat /\ turn.hatt \in Nat
      /\ RouterAttempts = turn.rcost /\ due \in Nat
  BY <1>3, TurnTypes, StageFacts
<1>5. Owns(turn) = turn.rcost + turn.hcost
  BY <1>1, <1>3, <1>4 DEF Owns
<1>6. Main.out.cost \in Nat /\ Main.out.att \in Nat /\ (Main.out.ok => Main.out.att <= Main.out.cost)
  BY <1>2, OutcomeTypes DEF Sound
<1>7. CASE Main.out.ok
  <2> DEFINE base == IF Main.out.text # "empty" THEN Main.out ELSE turn.draft
             c == turn.hcost + Main.out.cost
             a == turn.hatt + Main.out.att
             q == Repriced(base, c, a)
  <2>1. Sound(base) /\ base.ok /\ c \in Nat /\ a \in Nat /\ a <= c
    BY <1>2, <1>3, <1>4, <1>6, <1>7
  <2>2. turn' = HiveOver(turn, q)
    BY <1>7 DEF MergeBack, HiveOver, Repriced
  <2> HIDE DEF base, c, a
  <2>3. Sound(q) /\ q.ok /\ q.cost = c
    BY <2>1, RepricedFacts DEF Texts
  <2> HIDE DEF q
  <2>4. TurnOK(turn') /\ turn'.stage = "wrap" /\ Owns(turn') = turn.rcost + c
    BY <1>3, <2>2, <2>3, HiveOverFacts
  <2>5. due' = turn.rcost + c /\ due' \in Nat
    BY <1>1, <1>2, <1>4, <1>5, <1>6, <1>7 DEF Owed, c
  <2>6. lane' \in [Lanes -> {Idle}]
    BY <1>1, <1>2, Constants
  <2>7. billed' \in BOOLEAN /\ (billed' => metered)
    BY <1>1 DEF TurnInv
  <2>8. QED
    BY <1>1, <1>2, <2>4, <2>5, <2>6, <2>7, AllIdleFresh, TurnMoves
<1>8. CASE ~Main.out.ok
  <2> DEFINE n == turn.rcost + turn.hcost
  <2>1. n \in Nat /\ Owns(turn) = n
    BY <1>4, <1>5
  <2>2. TurnFails(n + Main.out.att)
    BY <1>3, <1>4, <1>8 DEF MergeBack
  <2> HIDE DEF n
  <2>3. QED
    BY <1>1, <1>8, <2>1, <2>2, BackFailsInv
<1>9. QED
  BY <1>7, <1>8

\* The polish is added, failed or not.
LEMMA PolishBackInv == ASSUME TurnInv, PolishBack PROVE TurnInv'
<1> DEFINE p == Main.out
           r == turn.out
           c == r.cost + p.cost
           a == r.att + p.att
           x == IF p.text = "answer" THEN "answer" ELSE r.text
           q == IF ~p.ok THEN MergeIncurred(r, p.att) ELSE Polished(r, c, a, x)
<1>1. /\ turn.stage = "polish" /\ turn.stage \in MainStages /\ Main.pc = "done"
      /\ lane' = [lane EXCEPT !["main"] = Idle]
      /\ UNCHANGED <<metered, direct, permits, due, billed>>
      /\ turn' = Got(turn, "wrap", q)
  BY DEF PolishBack, MainStages, Got, Polished
<1>2. /\ lane \in [Lanes -> LaneRec] /\ \A l \in Lanes \ {"main"} : lane[l] = Idle
      /\ permits = Slots /\ Sound(p) /\ due = Owns(turn) + Owed(p)
  BY <1>1, MainDone
<1>3. /\ Plain(turn) /\ Sound(r) /\ r.ok /\ turn.rcost \in Nat /\ due \in Nat
      /\ Owns(turn) = turn.rcost + r.cost
  BY <1>1, StageFacts DEF TurnInv, TurnOK
<1>4. /\ p.ok \in BOOLEAN /\ p.cost \in Nat /\ p.att \in Nat /\ r.cost \in Nat /\ r.att \in Nat
      /\ r.text \in Texts /\ r.att <= r.cost /\ (p.ok => p.att <= p.cost)
  BY <1>2, <1>3, OutcomeTypes DEF Sound
<1> HIDE DEF p, r
<1>5. Sound(q) /\ q.ok /\ q.cost = r.cost + Owed(p)
  <2>1. CASE p.ok
    <3>1. c \in Nat /\ a \in Nat /\ a <= c /\ x \in Texts /\ q = Polished(r, c, a, x)
      BY <1>4, <2>1 DEF Texts
    <3>2. c = r.cost + Owed(p)
      BY <2>1 DEF Owed
    <3> HIDE DEF c, a, x, q
    <3>3. QED
      BY <1>3, <3>1, <3>2, RepricedFacts
  <2>2. CASE ~p.ok
    <3>1. q = MergeIncurred(r, p.att) /\ Owed(p) = p.att
      BY <2>2 DEF Owed
    <3> HIDE DEF q
    <3>2. Sound(q) /\ q.ok = r.ok /\ q.cost = r.cost + p.att
      <4>1. p.att \in Nat /\ Sound(r)
        BY <1>3, <1>4
      <4>2. QED
        BY <3>1, <4>1, MergeFacts
    <3>3. QED
      BY <1>3, <3>1, <3>2
  <2>3. QED
    BY <2>1, <2>2
<1> HIDE DEF q
<1>6. TurnOK(turn') /\ turn'.stage = "wrap" /\ Owns(turn') = turn.rcost + q.cost
  BY <1>1, <1>3, <1>5, ResultStep
<1>7. due' \in Nat /\ due' = Owns(turn')
  <2>1. Owed(p) \in Nat
    BY <1>2, OwedNat
  <2>2. QED
    BY <1>1, <1>2, <1>3, <1>4, <1>5, <1>6, <2>1
<1>8. lane' \in [Lanes -> {Idle}]
  BY <1>1, <1>2, Constants
<1>9. billed' \in BOOLEAN /\ (billed' => metered)
  BY <1>1 DEF TurnInv
<1>10. QED
  BY <1>1, <1>2, <1>6, <1>7, <1>8, <1>9, AllIdleFresh, TurnMoves

\* The router's spend joins the result, or the exception of a failed write carries it all.
LEMMA WrapInv == ASSUME TurnInv, Wrap PROVE TurnInv'
<1> DEFINE c == turn.out.cost + turn.rcost
           r == Billed(turn.out, c)
<1>1. /\ turn.stage = "wrap" /\ UNCHANGED <<metered, direct, permits, lane, due, billed>>
      /\ turn' = Got(NewTurn, "done", r) \/ TurnFails(UsageAttempts(r))
  BY DEF Wrap, Got, Billed
<1>2. lane \in [Lanes -> {Idle}] /\ permits = Slots /\ due = Owns(turn)
  BY <1>1, Between DEF MainStages, VoteStages
<1>3. /\ Sound(turn.out) /\ turn.out.ok /\ turn.rcost \in Nat /\ due \in Nat
      /\ due = turn.rcost + turn.out.cost
  BY <1>1, <1>2, StageFacts DEF TurnInv, TurnOK
<1>4. /\ turn.out.cost \in Nat /\ turn.out.att \in Nat /\ turn.out.att <= turn.out.cost
  BY <1>3, OutcomeTypes DEF Sound
<1>5. c \in Nat /\ turn.out.att <= c /\ due = c
  BY <1>3, <1>4
<1> HIDE DEF c
<1>6. Sound(r) /\ r.ok /\ r.cost = c /\ r.att = turn.out.att
  BY <1>3, <1>5, BilledFacts
<1> HIDE DEF r
<1>7. UsageAttempts(r) = c /\ Owed(r) = c
  BY <1>5, <1>6, UsageFacts DEF Sound, Owed
<1>8. billed' \in BOOLEAN /\ (billed' => metered) /\ due' = c
  BY <1>1, <1>5 DEF TurnInv
<1>9. CASE turn' = Got(NewTurn, "done", r)
  <2>1. TurnOK(turn') /\ turn'.stage = "done" /\ Owns(turn') = c
    BY <1>6, <1>7, <1>9, DoneStep
  <2>2. Fresh(turn'.stage)
    BY <1>1, <1>2, AllIdleFresh
  <2>3. QED
    BY <1>1, <1>2, <1>5, <1>8, <2>1, <2>2, TurnMoves
<1>10. CASE TurnFails(UsageAttempts(r))
  <2>1. TurnFails(c) /\ lane' \in [Lanes -> {Idle}]
    BY <1>1, <1>2, <1>7, <1>10
  <2>2. QED
    BY <1>1, <1>2, <1>5, <1>8, <2>1, TurnFailsInv
<1>11. QED
  BY <1>1, <1>9, <1>10

\* The next turn owes nothing.
LEMMA AgainInv == ASSUME TurnInv, Again PROVE TurnInv'
<1>1. /\ turn.stage = "done" /\ turn' = NewTurn /\ lane' = [l \in Lanes |-> Idle]
      /\ due' = 0 /\ billed' = FALSE /\ UNCHANGED <<metered, direct, permits>>
  BY DEF Again
<1>2. permits = Slots
  BY <1>1, Between DEF MainStages, VoteStages
<1>3. TurnOK(turn') /\ Owns(turn') = 0
  BY <1>1, NewFacts, WorkStep
<1>4. Fresh(turn'.stage)
  BY <1>1, AllIdleFresh
<1>5. QED
  BY <1>1, <1>2, <1>3, <1>4, TurnMoves

-----------------------------------------------------------------------------
(* The theorems. *)

\* The process starts with free slots and nothing due.
LEMMA TurnInit == Init => TurnInv
<1> SUFFICES ASSUME Init PROVE TurnInv
  OBVIOUS
<1>1. /\ metered \in BOOLEAN /\ direct \in BOOLEAN /\ permits = Slots /\ turn = NewTurn
      /\ due = 0 /\ billed = FALSE /\ lane = [l \in Lanes |-> Idle]
  BY DEF Init
<1>2. TurnOK(turn) /\ Owns(turn) = 0
  BY <1>1, NewFacts, WorkStep
<1>3. \A l \in Lanes : lane[l] = Idle
  BY <1>1
<1>4. lane \in [Lanes -> LaneRec] /\ \A l \in Lanes : LaneOK(l, lane[l])
  BY <1>1, <1>3, IdleFacts, IdleOK
<1>5. Placed
  BY <1>3 DEF Placed
<1>6. LanesHeld = 0
  <2> DEFINE f == [l \in Lanes |-> Held(l, lane[l])]
  <2>1. \A l \in Lanes : f[l] = 0
    BY <1>3, IdleOK
  <2>2. LanesHeld = SumFunctionOnSet(f, Lanes)
    BY DEF LanesHeld
  <2> HIDE DEF f
  <2>3. QED
    BY <2>1, <2>2, Constants, SumZero
<1>7. due = TurnHeld + LanesHeld
  BY <1>1, <1>2, <1>6 DEF TurnHeld
<1>8. permits + Cardinality(AtLocal) = Slots
  <2>1. AtLocal = {}
    BY <1>3, IdleFacts DEF AtLocal
  <2>2. Cardinality(AtLocal) = 0
    BY <2>1, FS_EmptySet
  <2>3. QED
    BY <1>1, <2>2, Constants
<1>9. billed \in BOOLEAN /\ (billed => metered) /\ due \in Nat /\ permits \in Nat
  BY <1>1, Constants
<1>10. metered \in BOOLEAN /\ direct \in BOOLEAN
  BY <1>1
<1>11. QED
  BY <1>2, <1>4, <1>5, <1>7, <1>8, <1>9, <1>10 DEF TurnInv

\* One step per handler.
LEMMA TurnNext == TurnInv /\ [Next]_vars => TurnInv'
<1> SUFFICES ASSUME TurnInv, [Next]_vars PROVE TurnInv'
  OBVIOUS
<1>1. CASE TurnStep
  BY <1>1, BeginInv, CountRouteVotesInv, RouteTaskInv, SpecialistInv, UnifiedBackInv,
     DraftBackInv, CountHiveVotesInv, MergeBackInv, PolishBackInv, WrapInv DEF TurnStep
<1>2. ASSUME NEW l \in Lanes, LaneStep(l) PROVE TurnInv'
  BY <1>2, LaneStepInv
<1>3. CASE Again
  BY <1>3, AgainInv
<1>4. CASE UNCHANGED vars
  <2>1. /\ metered' = metered /\ direct' = direct /\ permits' = permits /\ lane' = lane
        /\ turn' = turn /\ due' = due /\ billed' = billed
    BY <1>4 DEF vars
  <2>2. TurnHeld' = TurnHeld /\ LanesHeld' = LanesHeld /\ AtLocal' = AtLocal /\ (Placed' <=> Placed)
    BY <2>1 DEF TurnHeld, LanesHeld, AtLocal, Placed
  <2>3. QED
    BY <2>1, <2>2 DEF TurnInv
<1>5. QED
  BY <1>1, <1>2, <1>3, <1>4 DEF Next

\* The accounts balance: at every moment of a turn, what its locals and its lanes
\* hold is the usage of the replies it has had, and every slot is free or in use.
THEOREM TurnInvariant == Spec => []TurnInv
BY TurnInit, TurnNext, PTL DEF Spec

\* The locals of _execute_team_turn and of every _run_unified keep their types,
\* and no permit is made up.
THEOREM TurnTypeCorrect == Spec => []TypeOK
<1>1. TurnInv => TypeOK
  <2> SUFFICES ASSUME TurnInv PROVE TypeOK
    OBVIOUS
  <2>1. permits \in 0..Slots
    <3>1. IsFiniteSet(AtLocal)
      BY Constants, FS_Subset DEF AtLocal
    <3>2. Cardinality(AtLocal) \in Nat
      BY <3>1, FS_CardinalityType
    <3>3. QED
      BY <3>2, Constants DEF TurnInv
  <2>2. turn \in TurnRec
    BY DEF TurnInv, TurnOK
  <2>3. QED
    BY <2>1, <2>2 DEF TurnInv, TypeOK, TurnRec, LaneRec
<1>2. QED
  BY <1>1, TurnInvariant, PTL

\* _merge_incurred_usage, _IncurredUsageError and _usage_attempts_for_result
\* together: a turn reports the usage of every reply of every stage, whichever
\* way it ends, and none twice.
THEOREM UsageConservedHolds == Spec => []UsageConserved
<1>1. TurnInv => UsageConserved
  <2> SUFFICES ASSUME TurnInv, turn.stage = "done" PROVE due = Owed(turn.out)
    BY DEF UsageConserved, Owed
  <2>1. due = Owns(turn)
    BY Between DEF MainStages, VoteStages
  <2>2. QED
    BY <2>1 DEF Owns
<1>2. QED
  BY <1>1, TurnInvariant, PTL

\* _require_metered_api_enabled in front of every API call of every stage: with
\* the metered plane off no turn gets a reply of it.
THEOREM MeteredOffHolds == Spec => []MeteredOff
<1>1. TurnInv => MeteredOff
  BY DEF TurnInv, MeteredOff
<1>2. QED
  BY <1>1, TurnInvariant, PTL

\* _local_slot_acquire and the release in the finally block, for any number of
\* lanes and slots.
THEOREM SlotsAccountedHolds == Spec => []SlotsAccounted
<1>1. TurnInv => SlotsAccounted
  BY DEF TurnInv, SlotsAccounted, AtLocal
<1>2. QED
  BY <1>1, TurnInvariant, PTL

\* _apply_continue_bound, called by the offline serve and again by the tail of the
\* fallback, raises continue_count once.
THEOREM ContinueOnceHolds == Spec => []ContinueOnce
<1>1. TurnInv => ContinueOnce
  <2> SUFFICES ASSUME TurnInv, NEW r \in {turn.out} \cup {lane[l].out : l \in Lanes}
               PROVE  r.count <= 1 /\ (r.status = "continue" => r.count = 1)
    BY DEF ContinueOnce
  <2>1. Sound(turn.out) /\ \A l \in Lanes : Sound(lane[l].out)
    BY DEF TurnInv, TurnOK, LaneOK
  <2>2. Sound(r)
    BY <2>1
  <2>3. QED
    BY <2>2 DEF Sound
<1>2. QED
  BY <1>1, TurnInvariant, PTL

-----------------------------------------------------------------------------
(* The governor: a recommendation for more is never for less. *)

\* The names of the eight levels.
LevelNames == {"none", "minimal", "low", "medium", "high", "xhigh", "max", "ultra"}

\* The ranks of the levels.
LEMMA Ranks ==
    /\ Rank("none") = 1 /\ Rank("minimal") = 2 /\ Rank("low") = 3 /\ Rank("medium") = 4
    /\ Rank("high") = 5 /\ Rank("xhigh") = 6 /\ Rank("max") = 7 /\ Rank("ultra") = 8
<1>1. Len(Levels) = 8
  BY DEF Levels
<1>2. /\ Levels[1] = "none" /\ Levels[2] = "minimal" /\ Levels[3] = "low"
      /\ Levels[4] = "medium" /\ Levels[5] = "high" /\ Levels[6] = "xhigh"
      /\ Levels[7] = "max" /\ Levels[8] = "ultra"
  BY DEF Levels
<1>3. \A i \in 1..8 : i \in {1, 2, 3, 4, 5, 6, 7, 8}
  OBVIOUS
<1>4. \A i, j \in 1..8 : Levels[i] = Levels[j] => i = j
  BY <1>2, <1>3
<1>5. \A i \in 1..8 : Rank(Levels[i]) = i
  BY <1>1, <1>4 DEF Rank
<1>6. QED
  BY <1>2, <1>5

\* What a level is called, and where it ranks.
LEMMA LevelFacts ==
    /\ Range(Levels) = LevelNames
    /\ \A l \in LevelNames : Rank(l) \in 1..8
    /\ \A k, l \in LevelNames : Rank(k) = Rank(l) => k = l
<1>1. DOMAIN Levels = {1, 2, 3, 4, 5, 6, 7, 8}
  BY DEF Levels
<1>2. /\ Levels[1] = "none" /\ Levels[2] = "minimal" /\ Levels[3] = "low"
      /\ Levels[4] = "medium" /\ Levels[5] = "high" /\ Levels[6] = "xhigh"
      /\ Levels[7] = "max" /\ Levels[8] = "ultra"
  BY DEF Levels
<1>3. Range(Levels) = LevelNames
  BY <1>1, <1>2 DEF Range, LevelNames
<1>4. QED
  BY <1>3, Ranks DEF LevelNames

\* The higher and the lower of two levels, in ranks.
LEMMA HigherLower ==
    ASSUME NEW a \in LevelNames, NEW b \in LevelNames
    PROVE  /\ Higher(a, b) \in LevelNames /\ Lower(a, b) \in LevelNames
           /\ Rank(Higher(a, b)) = IF Rank(a) >= Rank(b) THEN Rank(a) ELSE Rank(b)
           /\ Rank(Lower(a, b)) = IF Rank(a) <= Rank(b) THEN Rank(a) ELSE Rank(b)
BY DEF Higher, Lower

\* Capping and flooring keep the order of levels.
LEMMA CapOrder ==
    ASSUME NEW a \in LevelNames, NEW b \in LevelNames, NEW c \in LevelNames, Rank(a) <= Rank(b)
    PROVE  /\ Rank(Lower(a, c)) <= Rank(Lower(b, c))
           /\ Rank(Higher(a, c)) <= Rank(Higher(b, c))
           /\ Rank(a) <= Rank(Higher(b, c))
<1>1. Rank(a) \in Int /\ Rank(b) \in Int /\ Rank(c) \in Int
  BY LevelFacts
<1>2. QED
  BY <1>1, HigherLower

-----------------------------------------------------------------------------
(* Beliefs and the score. *)

\* A set of numbers up to n has a greatest one.
LEMMA BoundedMax ==
    ASSUME NEW n \in Nat, NEW S \in SUBSET (0..n), S # {}
    PROVE  Max(S) \in S /\ \A x \in S : x <= Max(S)
<1> DEFINE T == {n - x : x \in S}
<1>1. T \in SUBSET Nat /\ T # {}
  OBVIOUS
<1>2. PICK m \in T : \A k \in T : m <= k
  <2>1. PICK m \in T : \A k \in T : ~(<<k, m>> \in OpToRel(<, Nat))
    <3> HIDE DEF T
    <3>1. QED
      BY <1>1, NatLessThanWellFounded, WFMin
  <2> HIDE DEF T
  <2>2. \A k \in T : k \in Nat
    BY <1>1
  <2>3. m \in Nat
    BY <2>1, <2>2
  <2>4. \A k \in T : m <= k
    <3> TAKE k \in T
    <3>1. k \in Nat
      BY <2>2
    <3>2. ~(k < m)
      BY <2>1, <2>3, <3>1 DEF OpToRel
    <3>3. QED
      BY <2>3, <3>1, <3>2
  <2>5. QED
    BY <2>1, <2>4
<1>3. PICK x \in S : m = n - x
  BY <1>2
<1>4. \A y \in S : x >= y
  <2> TAKE y \in S
  <2>1. n - y \in T /\ x \in 0..n /\ y \in 0..n
    BY <1>3
  <2>2. m <= n - y
    BY <1>2, <2>1
  <2>3. QED
    BY <1>3, <2>1, <2>2
<1>5. Max(S) \in S /\ \A y \in S : Max(S) >= y
  BY <1>3, <1>4 DEF Max
<1>6. S \subseteq Int
  OBVIOUS
<1>7. QED
  <2> HIDE DEF T
  <2>1. QED
    BY <1>5, <1>6

\* The greatest of more numbers.
LEMMA MaxOrder ==
    ASSUME NEW n \in Nat, NEW S \in SUBSET (0..n), NEW T \in SUBSET (0..n), S # {}, S \subseteq T
    PROVE  Max(S) <= Max(T) /\ Max(S) \in 0..n
<1>1. T # {}
  OBVIOUS
<1>2. Max(S) \in S
  BY BoundedMax
<1>3. \A x \in T : x <= Max(T)
  BY <1>1, BoundedMax
<1>4. QED
  BY <1>2, <1>3

\* What may raise a belief.
Causes == Signals \cup {"concurrency_security"}

\* Floors are hundredths.
LEMMA FloorTypes ==
    \A s \in Causes : \A d \in DOMAIN BeliefFloors[s] : BeliefFloors[s][d] \in 0..100
<1> USE DEF BeliefFloors
<1>1. \A d \in DOMAIN BeliefFloors["concurrency"] : BeliefFloors["concurrency"][d] \in 0..100
  OBVIOUS
<1>2. \A d \in DOMAIN BeliefFloors["security"] : BeliefFloors["security"][d] \in 0..100
  OBVIOUS
<1>3. \A d \in DOMAIN BeliefFloors["irreversible"] : BeliefFloors["irreversible"][d] \in 0..100
  OBVIOUS
<1>4. \A d \in DOMAIN BeliefFloors["adversarial_review"] : BeliefFloors["adversarial_review"][d] \in 0..100
  OBVIOUS
<1>5. \A d \in DOMAIN BeliefFloors["self_verification"] : BeliefFloors["self_verification"][d] \in 0..100
  OBVIOUS
<1>6. \A d \in DOMAIN BeliefFloors["corruption"] : BeliefFloors["corruption"][d] \in 0..100
  OBVIOUS
<1>7. \A d \in DOMAIN BeliefFloors["concurrency_security"] : BeliefFloors["concurrency_security"][d] \in 0..100
  OBVIOUS
<1> HIDE DEF BeliefFloors
<1>8. QED
  BY <1>1, <1>2, <1>3, <1>4, <1>5, <1>6, <1>7 DEF Causes, Signals

\* What beliefs_from_signals takes floors from.
Caused(signals) ==
    signals \cup IF "concurrency" \in signals /\ signals \cap {"security", "adversarial_review"} # {}
                 THEN {"concurrency_security"} ELSE {}
FloorsOf(causes, d) ==
    {DefaultBelief[d]} \cup {BeliefFloors[s][d] : s \in {r \in causes : d \in DOMAIN BeliefFloors[r]}}
BeliefFloor(signals, d) == Max(FloorsOf(Caused(signals), d))

\* More signals call for more floors.
LEMMA FloorOrder ==
    ASSUME NEW s \in SUBSET Signals, NEW t \in SUBSET Signals, s \subseteq t, NEW d \in Dimensions
    PROVE  BeliefFloor(s, d) \in 0..100 /\ BeliefFloor(s, d) <= BeliefFloor(t, d)
<1>1. Caused(s) \subseteq Caused(t) /\ Caused(t) \subseteq Causes
  BY DEF Caused, Causes
<1>2. DefaultBelief[d] \in 0..100
  BY DEF DefaultBelief, Dimensions
<1>3. \A c \in SUBSET Causes : FloorsOf(c, d) \in SUBSET (0..100) /\ FloorsOf(c, d) # {}
  <2> TAKE c \in SUBSET Causes
  <2>1. \A r \in c : d \in DOMAIN BeliefFloors[r] => BeliefFloors[r][d] \in 0..100
    BY FloorTypes
  <2>2. QED
    BY <1>2, <2>1 DEF FloorsOf
<1>4. FloorsOf(Caused(s), d) \subseteq FloorsOf(Caused(t), d)
  BY <1>1 DEF FloorsOf
<1>5. Caused(s) \in SUBSET Causes /\ Caused(t) \in SUBSET Causes
  BY <1>1
<1>6. FloorsOf(Caused(s), d) \in SUBSET (0..100) /\ FloorsOf(Caused(t), d) \in SUBSET (0..100)
      /\ FloorsOf(Caused(s), d) # {}
  BY <1>3, <1>5
<1>7. Max(FloorsOf(Caused(s), d)) <= Max(FloorsOf(Caused(t), d))
      /\ Max(FloorsOf(Caused(s), d)) \in 0..100
  BY <1>4, <1>6, 100 \in Nat, MaxOrder
<1>8. QED
  BY <1>7 DEF BeliefFloor

\* The belief in terms of its floors.
LEMMA BeliefValue ==
    ASSUME NEW s, NEW f, NEW d \in Dimensions
    PROVE  Belief(s, f)[d] = IF d = "uncertainty"
                             THEN AtMost(100, BeliefFloor(s, d) + 8 * AtMost(4, f))
                             ELSE BeliefFloor(s, d)
BY DEF Belief, BeliefFloor, FloorsOf, Caused

\* A cap keeps the order.
LEMMA AtMostOrder ==
    ASSUME NEW n \in Nat, NEW f \in Nat, NEW g \in Nat, f <= g
    PROVE  AtMost(n, f) \in Nat /\ AtMost(n, f) <= AtMost(n, g)
BY DEF AtMost

\* More signals or more failures never lower a belief.
LEMMA BeliefOrder ==
    ASSUME NEW s \in SUBSET Signals, NEW t \in SUBSET Signals, s \subseteq t,
           NEW f \in Nat, NEW g \in Nat, f <= g, NEW d \in Dimensions
    PROVE  Belief(s, f)[d] \in Nat /\ Belief(t, g)[d] \in Nat /\ Belief(s, f)[d] <= Belief(t, g)[d]
<1> DEFINE a == BeliefFloor(s, d)
           b == BeliefFloor(t, d)
<1>1. a \in Nat /\ b \in Nat /\ a <= b
  <2>1. a \in 0..100 /\ a <= b
    BY FloorOrder
  <2>2. b \in 0..100
    BY FloorOrder
  <2>3. QED
    BY <2>1, <2>2
<1>2. AtMost(4, f) \in Nat /\ AtMost(4, g) \in Nat /\ AtMost(4, f) <= AtMost(4, g)
  BY AtMostOrder
<1> HIDE DEF a, b
<1>3. a + 8 * AtMost(4, f) \in Nat /\ b + 8 * AtMost(4, g) \in Nat
      /\ a + 8 * AtMost(4, f) <= b + 8 * AtMost(4, g)
  BY <1>1, <1>2
<1>4. AtMost(100, a + 8 * AtMost(4, f)) \in Nat /\ AtMost(100, b + 8 * AtMost(4, g)) \in Nat
      /\ AtMost(100, a + 8 * AtMost(4, f)) <= AtMost(100, b + 8 * AtMost(4, g))
  <2> DEFINE x == a + 8 * AtMost(4, f)
             y == b + 8 * AtMost(4, g)
  <2>1. x \in Nat /\ y \in Nat /\ x <= y
    BY <1>3
  <2> HIDE DEF x, y
  <2>2. AtMost(100, x) \in Nat /\ AtMost(100, y) \in Nat /\ AtMost(100, x) <= AtMost(100, y)
    BY <2>1 DEF AtMost
  <2>3. QED
    BY <2>2 DEF x, y
<1>5. /\ Belief(s, f)[d] = IF d = "uncertainty" THEN AtMost(100, a + 8 * AtMost(4, f)) ELSE a
      /\ Belief(t, g)[d] = IF d = "uncertainty" THEN AtMost(100, b + 8 * AtMost(4, g)) ELSE b
  BY BeliefValue DEF a, b
<1>6. QED
  BY <1>1, <1>4, <1>5

\* The weights are positive.
LEMMA Weights == \A d \in Dimensions : Weight[d] \in Nat
BY DEF Weight, Dimensions

\* There are five dimensions.
LEMMA DimensionsFinite == IsFiniteSet(Dimensions)
<1>1. Dimensions = {} \cup {"uncertainty"} \cup {"impact"} \cup {"risk"} \cup {"irreversibility"}
                     \cup {"novelty"}
  BY DEF Dimensions
<1>2. QED
  BY <1>1, FS_EmptySet, FS_AddElement

\* Nor does the score fall.
LEMMA ScoreOrder ==
    ASSUME NEW s \in SUBSET Signals, NEW t \in SUBSET Signals, s \subseteq t,
           NEW f \in Nat, NEW g \in Nat, f <= g
    PROVE  Score(s, f) \in Nat /\ Score(s, f) <= Score(t, g)
<1> DEFINE u == [d \in Dimensions |-> Weight[d] * Belief(s, f)[d]]
           v == [d \in Dimensions |-> Weight[d] * Belief(t, g)[d]]
           p == IF "self_verification" \in s THEN 35 ELSE 15
           q == IF "self_verification" \in t THEN 35 ELSE 15
<1>1. \A d \in Dimensions : u[d] \in Nat /\ v[d] \in Nat /\ u[d] <= v[d]
  <2> TAKE d \in Dimensions
  <2> DEFINE w == Weight[d]
             x == Belief(s, f)[d]
             y == Belief(t, g)[d]
  <2>1. w \in Nat /\ x \in Nat /\ y \in Nat /\ x <= y
    BY Weights, BeliefOrder
  <2>2. u[d] = w * x /\ v[d] = w * y
    OBVIOUS
  <2> HIDE DEF u, v, w, x, y
  <2>3. w * x \in Nat /\ w * y \in Nat /\ w * x <= w * y
    BY <2>1
  <2>4. QED
    BY <2>2, <2>3
<1>2. DOMAIN u = Dimensions /\ DOMAIN v = Dimensions
  OBVIOUS
<1>3. Score(s, f) = SumFunctionOnSet(u, Dimensions) + 20 * p + 500 * AtMost(5, f)
  BY <1>2 DEF Score, SumFunction, SumFunctionOnSet, FoldFunction
<1>4. Score(t, g) = SumFunctionOnSet(v, Dimensions) + 20 * q + 500 * AtMost(5, g)
  BY <1>2 DEF Score, SumFunction, SumFunctionOnSet, FoldFunction
<1>5. p \in Nat /\ q \in Nat /\ p <= q
  OBVIOUS
<1> HIDE DEF u, v, p, q
<1>6. SumFunctionOnSet(u, Dimensions) \in Nat /\ SumFunctionOnSet(v, Dimensions) \in Nat
  BY <1>1, DimensionsFinite, SumNat
<1>7. SumFunctionOnSet(u, Dimensions) <= SumFunctionOnSet(v, Dimensions)
  BY <1>1, DimensionsFinite, SumLe
<1>8. AtMost(5, f) \in Nat /\ AtMost(5, g) \in Nat /\ AtMost(5, f) <= AtMost(5, g)
  BY AtMostOrder
<1>9. QED
  BY <1>3, <1>4, <1>5, <1>6, <1>7, <1>8

-----------------------------------------------------------------------------
(* The recommendation. *)

\* A higher score stands on no lower a rung.
LEMMA RungOrder ==
    ASSUME NEW m \in Nat, NEW n \in Nat, m <= n
    PROVE  Rung(m) \in 1..5 /\ Rung(n) \in 1..5 /\ Rung(m) <= Rung(n)
<1> DEFINE All == {3500, 5500, 7500, 9000}
           Under(x) == {t \in All : x >= t}
<1>1. IsFiniteSet(All) /\ Cardinality(All) = 4
  <2>1. IsFiniteSet({3500}) /\ Cardinality({3500}) = 1
    <3>1. {3500} = {} \cup {3500} /\ 3500 \notin {} /\ IsFiniteSet({}) /\ Cardinality({}) = 0
      BY FS_EmptySet
    <3>2. IsFiniteSet({} \cup {3500}) /\ Cardinality({} \cup {3500}) = Cardinality({}) + 1
      BY <3>1, FS_AddElement
    <3>3. QED
      BY <3>1, <3>2
  <2>2. IsFiniteSet({3500, 5500}) /\ Cardinality({3500, 5500}) = 2
    <3>1. {3500, 5500} = {3500} \cup {5500} /\ 5500 \notin {3500}
      OBVIOUS
    <3>2. QED
      BY <2>1, <3>1, FS_AddElement
  <2>3. IsFiniteSet({3500, 5500, 7500}) /\ Cardinality({3500, 5500, 7500}) = 3
    <3>1. {3500, 5500, 7500} = {3500, 5500} \cup {7500} /\ 7500 \notin {3500, 5500}
      OBVIOUS
    <3>2. QED
      BY <2>2, <3>1, FS_AddElement
  <2>4. All = {3500, 5500, 7500} \cup {9000} /\ 9000 \notin {3500, 5500, 7500}
    OBVIOUS
  <2> HIDE DEF All
  <2>5. IsFiniteSet({3500, 5500, 7500} \cup {9000})
        /\ Cardinality({3500, 5500, 7500} \cup {9000}) = 4
    <3>1. IsFiniteSet({3500, 5500, 7500} \cup {9000})
          /\ Cardinality({3500, 5500, 7500} \cup {9000}) = Cardinality({3500, 5500, 7500}) + 1
      BY <2>3, <2>4, FS_AddElement
    <3>2. QED
      BY <2>3, <3>1
  <2>6. QED
    BY <2>4, <2>5
<1>2. Under(m) \subseteq Under(n) /\ Under(n) \subseteq All /\ Under(m) \subseteq All
  OBVIOUS
<1>3. Rung(m) = 1 + Cardinality(Under(m)) /\ Rung(n) = 1 + Cardinality(Under(n))
  BY DEF Rung
<1> HIDE DEF All, Under
<1>4. IsFiniteSet(Under(n)) /\ Cardinality(Under(n)) <= 4
  BY <1>1, <1>2, FS_Subset
<1>5. IsFiniteSet(Under(m)) /\ Cardinality(Under(m)) <= Cardinality(Under(n))
  BY <1>2, <1>4, FS_Subset
<1>6. Cardinality(Under(m)) \in Nat /\ Cardinality(Under(n)) \in Nat
  BY <1>4, <1>5, FS_CardinalityType
<1>7. QED
  BY <1>3, <1>4, <1>5, <1>6

\* The level of a rung.
RungLevel(k) == <<"low", "medium", "high", "xhigh", "ultra">>[k]

\* Higher rungs have higher levels.
LEMMA RungLevels ==
    /\ RungLevel(1) = "low" /\ RungLevel(2) = "medium" /\ RungLevel(3) = "high"
    /\ RungLevel(4) = "xhigh" /\ RungLevel(5) = "ultra"
    /\ \A k \in 1..5 : RungLevel(k) \in LevelNames
    /\ \A k, l \in 1..5 : k <= l => Rank(RungLevel(k)) <= Rank(RungLevel(l))
<1>1. /\ RungLevel(1) = "low" /\ RungLevel(2) = "medium" /\ RungLevel(3) = "high"
      /\ RungLevel(4) = "xhigh" /\ RungLevel(5) = "ultra"
  BY DEF RungLevel
<1>2. \A k \in 1..5 : k \in {1, 2, 3, 4, 5}
  OBVIOUS
<1>3. \A k \in 1..5 : RungLevel(k) \in LevelNames
  BY <1>1, <1>2 DEF LevelNames
<1>4. \A k, l \in 1..5 : k <= l => Rank(RungLevel(k)) <= Rank(RungLevel(l))
  BY <1>1, <1>2, Ranks
<1>5. QED
  BY <1>1, <1>3, <1>4

\* The level after what is at stake.
LEMMA StakesOrder ==
    ASSUME NEW s \in SUBSET Signals, NEW t \in SUBSET Signals, s \subseteq t,
           NEW k \in 1..5, NEW l \in 1..5, k <= l
    PROVE  /\ StakesLevel(s, k) \in LevelNames /\ StakesLevel(t, l) \in LevelNames
           /\ Rank(StakesLevel(s, k)) <= Rank(StakesLevel(t, l))
<1> DEFINE Hot(u) == u \cap {"concurrency", "security"} # {}
           L1(u, n) == IF Hot(u) THEN Higher(RungLevel(n), "high") ELSE RungLevel(n)
           L2(u, n) == IF "irreversible" \in u THEN Higher(L1(u, n), "xhigh") ELSE L1(u, n)
<1>1. StakesLevel(s, k) = L2(s, k) /\ StakesLevel(t, l) = L2(t, l)
  BY DEF StakesLevel, FloorLevel, RungLevel
<1>2. (Hot(s) => Hot(t)) /\ ("irreversible" \in s => "irreversible" \in t)
  OBVIOUS
<1>3. "high" \in LevelNames /\ "xhigh" \in LevelNames
  BY DEF LevelNames
<1>4. RungLevel(k) \in LevelNames /\ RungLevel(l) \in LevelNames
      /\ Rank(RungLevel(k)) <= Rank(RungLevel(l))
  BY RungLevels
<1> HIDE DEF Hot
<1>5. L1(s, k) \in LevelNames /\ L1(t, l) \in LevelNames
  BY <1>3, <1>4, HigherLower
<1>6. Rank(L1(s, k)) <= Rank(L1(t, l))
  BY <1>2, <1>3, <1>4, CapOrder
<1> HIDE DEF L1
<1>7. L2(s, k) \in LevelNames /\ L2(t, l) \in LevelNames
  BY <1>3, <1>5, HigherLower
<1>8. Rank(L2(s, k)) <= Rank(L2(t, l))
  BY <1>2, <1>3, <1>5, <1>6, CapOrder
<1>9. QED
  BY <1>1, <1>7, <1>8

\* The roles of a rung.
RungRoles(k) ==
    <<{"engineer"}, {"engineer", "qa"}, {"engineer", "architect", "qa"},
      {"architect", "engineer", "qa", "security"},
      {"architect", "pm", "engineer", "qa", "security"}>>[k]
AllRoles == {"architect", "pm", "engineer", "qa", "security"}

\* More roles for a higher rung and for more signals.
LEMMA RolesOrder ==
    ASSUME NEW s \in SUBSET Signals, NEW t \in SUBSET Signals, s \subseteq t,
           NEW k \in 1..5, NEW l \in 1..5, k <= l
    PROVE  Roles(s, k) # {} /\ Roles(s, k) \subseteq Roles(t, l) /\ Roles(t, l) \subseteq AllRoles
<1> DEFINE Extra(u) ==
             (IF "concurrency" \in u THEN {"engineer", "architect", "qa"} ELSE {})
               \cup (IF {"concurrency", "adversarial_review"} \subseteq u THEN {"security"} ELSE {})
               \cup (IF "security" \in u THEN {"security", "qa", "engineer"} ELSE {})
               \cup (IF "irreversible" \in u THEN {"architect", "security", "qa"} ELSE {})
<1>1. Roles(s, k) = RungRoles(k) \cup Extra(s) /\ Roles(t, l) = RungRoles(l) \cup Extra(t)
  BY DEF Roles, RungRoles
<1>2. Extra(s) \subseteq Extra(t) /\ Extra(t) \subseteq AllRoles
  BY DEF AllRoles
<1>3. /\ RungRoles(1) = {"engineer"} /\ RungRoles(2) = {"engineer", "qa"}
      /\ RungRoles(3) = {"engineer", "architect", "qa"}
      /\ RungRoles(4) = {"architect", "engineer", "qa", "security"}
      /\ RungRoles(5) = {"architect", "pm", "engineer", "qa", "security"}
  BY DEF RungRoles
<1>4. k \in {1, 2, 3, 4, 5} /\ l \in {1, 2, 3, 4, 5}
  OBVIOUS
<1> HIDE DEF Extra
<1>5. "engineer" \in RungRoles(k) /\ RungRoles(l) \subseteq AllRoles
  BY <1>3, <1>4 DEF AllRoles
<1>6. RungRoles(k) \subseteq RungRoles(l)
  BY <1>3, <1>4
<1>7. QED
  BY <1>1, <1>2, <1>5, <1>6

\* Order of recommendations: no field asks for less.
Demands(m, n) ==
    /\ m.level \in LevelNames /\ n.level \in LevelNames /\ Rank(m.level) <= Rank(n.level)
    /\ m.roles # {} /\ m.roles \subseteq n.roles /\ n.roles \subseteq AllRoles
    /\ m.candidates \in 1..2 /\ n.candidates \in 1..2 /\ m.candidates <= n.candidates
    /\ m.critique \in 1..2 /\ n.critique \in 1..2 /\ m.critique <= n.critique
    /\ m.tools \in 0..6 /\ n.tools \in 0..6 /\ m.tools <= n.tools
    /\ m.strict => n.strict

\* More signals and more failures are answered by a stronger recommendation.
LEMMA RecommendOrder ==
    ASSUME NEW s \in SUBSET Signals, NEW t \in SUBSET Signals, s \subseteq t,
           NEW f \in Nat, NEW g \in Nat, f <= g, NEW c \in LevelNames
    PROVE  Demands(Recommend(s, f, c, FALSE), Recommend(t, g, c, FALSE))
<1> DEFINE x == Score(s, f)
           y == Score(t, g)
           m == Recommend(s, f, c, FALSE)
           n == Recommend(t, g, c, FALSE)
<1>1. x \in Nat /\ y \in Nat /\ x <= y
  <2>1. x \in Nat /\ x <= y
    BY ScoreOrder
  <2>2. y \in Nat
    BY ScoreOrder
  <2>3. QED
    BY <2>1, <2>2
<1>2. /\ m.level = Lower(StakesLevel(s, Rung(x)), c) /\ m.roles = Roles(s, Rung(x))
      /\ m.candidates = (IF Rung(x) >= 3 \/ "concurrency" \in s THEN 2 ELSE 1)
      /\ m.critique = (IF x >= 5500 \/ "concurrency" \in s THEN 2 ELSE 1)
      /\ m.tools = (IF x >= 5500 THEN 6 ELSE 2)
  BY DEF Recommend
<1>3. /\ n.level = Lower(StakesLevel(t, Rung(y)), c) /\ n.roles = Roles(t, Rung(y))
      /\ n.candidates = (IF Rung(y) >= 3 \/ "concurrency" \in t THEN 2 ELSE 1)
      /\ n.critique = (IF y >= 5500 \/ "concurrency" \in t THEN 2 ELSE 1)
      /\ n.tools = (IF y >= 5500 THEN 6 ELSE 2)
  BY DEF Recommend
<1> DEFINE H == {"concurrency", "security", "irreversible"}
<1>4. /\ m.strict <=> (x >= 5500 \/ s \cap H # {})
      /\ n.strict <=> (y >= 5500 \/ t \cap H # {})
  <2> DEFINE P == x >= 5500 \/ s \cap H # {}
             Q == y >= 5500 \/ t \cap H # {}
  <2>1. m.strict = P /\ n.strict = Q
    BY DEF Recommend
  <2> HIDE DEF P, Q, m, n
  <2>2. m.strict <=> P
    BY <2>1
  <2>3. n.strict <=> Q
    BY <2>1
  <2>4. QED
    BY <2>2, <2>3 DEF P, Q
<1>5. s \cap H # {} => t \cap H # {}
  OBVIOUS
<1> HIDE DEF x, y, m, n, H
<1>6. Rung(x) \in 1..5 /\ Rung(y) \in 1..5 /\ Rung(x) <= Rung(y)
  BY <1>1, RungOrder
<1>7. m.level \in LevelNames /\ n.level \in LevelNames /\ Rank(m.level) <= Rank(n.level)
  <2> DEFINE a == StakesLevel(s, Rung(x))
             b == StakesLevel(t, Rung(y))
  <2>1. a \in LevelNames /\ b \in LevelNames /\ Rank(a) <= Rank(b)
    BY <1>6, StakesOrder
  <2> HIDE DEF a, b
  <2>2. Lower(a, c) \in LevelNames /\ Lower(b, c) \in LevelNames
    BY <2>1, HigherLower
  <2>3. Rank(Lower(a, c)) <= Rank(Lower(b, c))
    BY <2>1, CapOrder
  <2>4. QED
    BY <1>2, <1>3, <2>2, <2>3 DEF a, b
<1>8. m.roles # {} /\ m.roles \subseteq n.roles /\ n.roles \subseteq AllRoles
  BY <1>2, <1>3, <1>6, RolesOrder
<1>9. m.candidates \in 1..2 /\ n.candidates \in 1..2 /\ m.candidates <= n.candidates
  BY <1>2, <1>3, <1>6
<1>10. m.critique \in 1..2 /\ n.critique \in 1..2 /\ m.critique <= n.critique
  BY <1>1, <1>2, <1>3
<1>11. m.tools \in 0..6 /\ n.tools \in 0..6 /\ m.tools <= n.tools
  BY <1>1, <1>2, <1>3
<1>12. m.strict => n.strict
  <2>1. x >= 5500 => y >= 5500
    BY <1>1
  <2>2. QED
    BY <1>4, <1>5, <2>1
<1>13. QED
  BY <1>7, <1>8, <1>9, <1>10, <1>11, <1>12 DEF Demands, m, n

-----------------------------------------------------------------------------
(* What a turn makes of it. *)

\* The shapes of the levels.
LEMMA Shapes ==
    /\ \A l \in LevelNames : LevelShape(l) \in {"direct", "deep", "hive"}
    /\ \A l \in LevelNames : /\ Rank(l) <= 6 => LevelShape(l) = "direct"
                             /\ Rank(l) = 7 => LevelShape(l) = "deep"
                             /\ Rank(l) = 8 => LevelShape(l) = "hive"
    /\ ShapeRank("direct") = 1 /\ ShapeRank("deep") = 2 /\ ShapeRank("hive") = 3
<1>1. \A l \in LevelNames : LevelShape(l) = IF l = "max" THEN "deep"
                                            ELSE IF l = "ultra" THEN "hive" ELSE "direct"
  BY DEF LevelShape, LevelNames
<1>2. ShapeRank("direct") = 1 /\ ShapeRank("deep") = 2 /\ ShapeRank("hive") = 3
  BY DEF ShapeRank
<1>3. QED
  BY <1>1, <1>2, Ranks DEF LevelNames

\* There are five roles.
LEMMA AllRolesFinite == IsFiniteSet(AllRoles)
<1>1. AllRoles = {} \cup {"architect"} \cup {"pm"} \cup {"engineer"} \cup {"qa"} \cup {"security"}
  BY DEF AllRoles
<1>2. QED
  BY <1>1, FS_EmptySet, FS_AddElement

\* One voter at least.
LEMMA OneAtLeast == ASSUME NEW n \in Nat PROVE Max({1, n}) = IF n >= 1 THEN n ELSE 1
<1>1. \E x \in {1, n} : \A y \in {1, n} : x >= y
  OBVIOUS
<1>2. Max({1, n}) \in {1, n} /\ \A y \in {1, n} : Max({1, n}) >= y
  BY <1>1 DEF Max
<1>3. QED
  BY <1>2

\* A stronger recommendation is carried out no more weakly.
LEMMA SettingsOrder ==
    ASSUME NEW m, NEW n, Demands(m, n)
    PROVE  NoWeaker(ExecutionSettings(m), ExecutionSettings(n))
<1> USE DEF Demands
<1> DEFINE a == ExecutionSettings(m)
           b == ExecutionSettings(n)
           Argued(k) == k.candidates > 1 \/ k.critique > 1
           Shape(k) == IF LevelShape(k.level) = "direct" /\ Argued(k) THEN "deep"
                       ELSE LevelShape(k.level)
<1>1. /\ a.effort = Lower(m.level, "xhigh") /\ b.effort = Lower(n.level, "xhigh")
      /\ a.shape = Shape(m) /\ b.shape = Shape(n)
      /\ a.voters = Max({1, AtMost(6, Cardinality(m.roles))})
      /\ b.voters = Max({1, AtMost(6, Cardinality(n.roles))})
  BY DEF ExecutionSettings, LevelEffort, HivePersonas
<1> HIDE DEF a, b
<1>2. Rank(b.effort) >= Rank(a.effort)
  <2>1. "xhigh" \in LevelNames
    BY DEF LevelNames
  <2>2. Rank(Lower(m.level, "xhigh")) <= Rank(Lower(n.level, "xhigh"))
    BY <2>1, CapOrder
  <2>3. Lower(m.level, "xhigh") \in LevelNames /\ Lower(n.level, "xhigh") \in LevelNames
    BY <2>1, HigherLower
  <2>4. QED
    BY <1>1, <2>2, <2>3, LevelFacts
<1>3. ShapeRank(b.shape) >= ShapeRank(a.shape)
  <2>1. Argued(m) => Argued(n)
    OBVIOUS
  <2>2. Rank(m.level) \in 1..8 /\ Rank(n.level) \in 1..8 /\ Rank(m.level) <= Rank(n.level)
    BY LevelFacts
  <2>3. m.level \in LevelNames /\ n.level \in LevelNames
    OBVIOUS
  <2> HIDE DEF Demands, Argued
  <2>4. QED
    BY <1>1, <2>1, <2>2, <2>3, Shapes
<1>4. b.voters >= a.voters
  <2> DEFINE p == Cardinality(m.roles)
             q == Cardinality(n.roles)
  <2>1. IsFiniteSet(n.roles)
    BY AllRolesFinite, FS_Subset
  <2>2. IsFiniteSet(m.roles) /\ p <= q
    BY <2>1, FS_Subset
  <2>3. p \in Nat /\ q \in Nat
    BY <2>1, <2>2, FS_CardinalityType
  <2>4. a.voters = Max({1, AtMost(6, p)}) /\ b.voters = Max({1, AtMost(6, q)})
    BY <1>1
  <2> HIDE DEF p, q
  <2>5. AtMost(6, p) \in Nat /\ AtMost(6, q) \in Nat /\ AtMost(6, p) <= AtMost(6, q)
    BY <2>2, <2>3, AtMostOrder
  <2>6. QED
    BY <2>4, <2>5, OneAtLeast
<1>5. QED
  BY <1>2, <1>3, <1>4 DEF NoWeaker, a, b

\* Whatever the governor is told, on any ceiling: more signals and more failed
\* verifications, in any number, are answered by a recommendation no field of
\* which asks for less (shadow_recommend), that can be frozen and loaded
\* (GovernorConfig.from_dict), and that the turn carries out with no less
\* effort, no simpler shape and no fewer voters (_governor_execution_settings).
THEOREM GovernorMonotone ==
    \A s, t \in SUBSET Signals, f, g \in Nat, ceiling \in Range(Levels) :
      s \subseteq t /\ f <= g =>
        LET m == Recommend(s, f, ceiling, FALSE)
            n == Recommend(t, g, ceiling, FALSE)
        IN Demands(m, n) /\ Loads(m) /\ NoWeaker(ExecutionSettings(m), ExecutionSettings(n))
<1> SUFFICES ASSUME NEW s \in SUBSET Signals, NEW t \in SUBSET Signals, NEW f \in Nat,
                    NEW g \in Nat, NEW c \in Range(Levels), s \subseteq t, f <= g
             PROVE  LET m == Recommend(s, f, c, FALSE)
                        n == Recommend(t, g, c, FALSE)
                    IN Demands(m, n) /\ Loads(m)
                         /\ NoWeaker(ExecutionSettings(m), ExecutionSettings(n))
  OBVIOUS
<1> DEFINE m == Recommend(s, f, c, FALSE)
           n == Recommend(t, g, c, FALSE)
<1>1. Demands(m, n)
  BY LevelFacts, RecommendOrder
<1> HIDE DEF m, n
<1>2. Loads(m)
  BY <1>1, LevelFacts DEF Loads, Demands
<1>3. NoWeaker(ExecutionSettings(m), ExecutionSettings(n))
  BY <1>1, SettingsOrder
<1>4. QED
  BY <1>1, <1>2, <1>3 DEF m, n

=============================================================================
