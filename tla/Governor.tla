------------------------------ MODULE Governor ------------------------------
(***************************************************************************)
(* How hard a turn thinks: the mission governor's recommendation from the  *)
(* signals found in a task and the failed verifications known when it is   *)
(* made, its frozen form, and what agent() makes of it beside the caller's *)
(* level, depth and voters.  A mission's recommendation is made once, when *)
(* it is created; its later turns load the frozen one, whatever has failed *)
(* since (only rows from before the freeze get a fresh one).  Pure         *)
(* functions; fractions are in hundredths, scores in ten-thousandths.      *)
(* Finding signals in text is not modelled.                                *)
(***************************************************************************)
EXTENDS Integers, Sequences, FiniteSets, FiniteSetsExt, Functions

Levels == <<"none", "minimal", "low", "medium", "high", "xhigh", "max", "ultra">>
Rank(level) == CHOOSE i \in 1..Len(Levels) : Levels[i] = level
Higher(a, b) == IF Rank(a) >= Rank(b) THEN a ELSE b
Lower(a, b) == IF Rank(a) <= Rank(b) THEN a ELSE b

Signals == {"concurrency", "security", "irreversible", "adversarial_review",
            "self_verification", "corruption"}
Dimensions == {"uncertainty", "impact", "risk", "irreversibility", "novelty"}

\* WEIGHT_BUNDLE.
Weight == [uncertainty |-> 25, impact |-> 20, risk |-> 25, irreversibility |-> 15,
           novelty |-> 10]
DefaultBelief == [uncertainty |-> 35, impact |-> 35, risk |-> 25,
                  irreversibility |-> 15, novelty |-> 25]
BeliefFloors ==
    [concurrency          |-> [uncertainty |-> 75, risk |-> 85, impact |-> 80, novelty |-> 55],
     security             |-> [risk |-> 90, impact |-> 75, irreversibility |-> 55],
     irreversible         |-> [irreversibility |-> 85, impact |-> 80, risk |-> 70],
     adversarial_review   |-> [uncertainty |-> 70, novelty |-> 65, risk |-> 65],
     self_verification    |-> [risk |-> 60, uncertainty |-> 55],
     corruption           |-> [risk |-> 70, impact |-> 65],
     concurrency_security |-> [uncertainty |-> 80, risk |-> 90, impact |-> 85]]

AtMost(bound, n) == IF n > bound THEN bound ELSE n

\* beliefs_from_signals: the highest floor of what was found, and failed
\* verifications make it less certain.
Belief(signals, failures) ==
    LET raised == signals \cup
            IF "concurrency" \in signals /\ signals \cap {"security", "adversarial_review"} # {}
            THEN {"concurrency_security"} ELSE {}
        floor(d) == Max({DefaultBelief[d]} \cup
                        {BeliefFloors[s][d] : s \in {r \in raised : d \in DOMAIN BeliefFloors[r]}})
    IN [d \in Dimensions |->
          IF d = "uncertainty" THEN AtMost(100, floor(d) + 8 * AtMost(4, failures)) ELSE floor(d)]

\* The weighted score of shadow_recommend.  Its callers leave disagreement at
\* 0 and the budget whole.
Score(signals, failures) ==
    LET b == Belief(signals, failures)
        deficit == IF "self_verification" \in signals THEN 35 ELSE 15
    IN SumFunction([d \in Dimensions |-> Weight[d] * b[d]])
         + 20 * deficit + 500 * AtMost(5, failures)

\* _floor_level.
FloorLevel(level, floor) == Higher(level, floor)

\* The rung of the score on the ladder of score_thresholds.
Rung(score) == 1 + Cardinality({t \in {3500, 5500, 7500, 9000} : score >= t})

\* What is at stake raises the level of the rung.
StakesLevel(signals, rung) ==
    LET l0 == <<"low", "medium", "high", "xhigh", "ultra">>[rung]
        l1 == IF signals \cap {"concurrency", "security"} # {} THEN FloorLevel(l0, "high") ELSE l0
    IN IF "irreversible" \in signals THEN FloorLevel(l1, "xhigh") ELSE l1

\* _merge_roles: the roles of the rung, and those the signals call for.
Roles(signals, rung) ==
    <<{"engineer"}, {"engineer", "qa"}, {"engineer", "architect", "qa"},
      {"architect", "engineer", "qa", "security"},
      {"architect", "pm", "engineer", "qa", "security"}>>[rung]
      \cup (IF "concurrency" \in signals THEN {"engineer", "architect", "qa"} ELSE {})
      \cup (IF {"concurrency", "adversarial_review"} \subseteq signals THEN {"security"} ELSE {})
      \cup (IF "security" \in signals THEN {"security", "qa", "engineer"} ELSE {})
      \cup (IF "irreversible" \in signals THEN {"architect", "security", "qa"} ELSE {})

\* shadow_recommend: a destructive task has its own answer.
Recommend(signals, failures, ceiling, destructive) ==
    LET score == Score(signals, failures)
        rung == Rung(score)
        conc == "concurrency" \in signals
        rich == score >= 5500
    IN IF destructive
       THEN [level |-> Lower("max", ceiling), roles |-> {"architect", "security", "qa"},
             candidates |-> 1, critique |-> 1, tools |-> 0, strict |-> TRUE]
       ELSE [level |-> Lower(StakesLevel(signals, rung), ceiling),
             roles |-> Roles(signals, rung),
             candidates |-> IF rung >= 3 \/ conc THEN 2 ELSE 1,
             critique |-> IF rich \/ conc THEN 2 ELSE 1,
             tools |-> IF rich THEN 6 ELSE 2,
             strict |-> rich \/ signals \cap {"concurrency", "security", "irreversible"} # {}]

\* GovernorConfig.from_dict accepts what to_dict wrote.
Loads(config) ==
    /\ config.level \in Range(Levels) /\ config.roles # {}
    /\ config.candidates >= 1 /\ config.critique >= 0 /\ config.tools >= 0

\* harness.LEVELS.
LevelShape(level) == CASE level = "max" -> "deep" [] level = "ultra" -> "hive" [] OTHER -> "direct"
LevelEffort(level) == Lower(level, "xhigh")

HivePersonas == 6

\* _governor_execution_settings of a config that loads.
ExecutionSettings(config) ==
    [effort |-> LevelEffort(config.level),
     shape  |-> IF LevelShape(config.level) = "direct"
                     /\ (config.candidates > 1 \/ config.critique > 1)
                THEN "deep" ELSE LevelShape(config.level),
     voters |-> Max({1, AtMost(HivePersonas, Cardinality(config.roles))})]

NoLevel == "unset"
\* The depth of a turn in agent(): a literal probe is direct, a level of the
\* caller decides, then the governor deepens an "auto" turn, then the wording
\* of the task does.  settings is {} without a governor.
ResolvedDepth(literal, level, depth, settings, hard) ==
    CASE literal -> "direct"
      [] ~literal /\ level # NoLevel -> LevelShape(level)
      [] ~literal /\ level = NoLevel /\ settings # {} ->
           LET shape == (CHOOSE s \in settings : TRUE).shape
           IN IF depth = "auto" /\ shape # "direct" THEN shape ELSE depth
      [] OTHER -> IF depth = "auto" /\ hard THEN "deep" ELSE depth

-----------------------------------------------------------------------------
ShapeRank(shape) == CASE shape = "direct" -> 1 [] shape = "deep" -> 2 [] shape = "hive" -> 3
NoWeaker(s, t) ==
    /\ Rank(t.effort) >= Rank(s.effort) /\ ShapeRank(t.shape) >= ShapeRank(s.shape)
    /\ t.voters >= s.voters

\* Six failures are one more than the score tells apart.
Failures == 0..6
=============================================================================
