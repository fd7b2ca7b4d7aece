-------------------------- MODULE EvaluationBadges --------------------------
(***************************************************************************)
(* What is evaluated, and the badges, of pipeline/eval_logic.py; the step  *)
(* agreement of api/routers/evaluation.py and the priorities of modules/   *)
(* review_priority.py.  Scores and thresholds are percentages.             *)
(***************************************************************************)
EXTENDS Integers, FiniteSets

Metric == {"faithfulness", "answer_relevance", "context_relevance", "completeness"}

\* INLINE_METRIC_KEYS
InlineKeys == {"faithfulness", "answer_relevance"}

\* A metric that was not scored.
None == -1

Score == {None} \cup 0 .. 100

Scores == [Metric -> Score]

NoScores == [k \in Metric |-> None]

Thresholds ==
  [red : [Metric -> 0 .. 100], green : [Metric -> 0 .. 100],
   unfaithful : 0 .. 100]   \* max_unfaithful_step_pct

\* step_verdicts: is the step faithful?  No verdicts (None, []) is << >>.
Verdicts(steps) == UNION {[S -> BOOLEAN] : S \in SUBSET steps}

NoVerdicts == << >>

Badge == {"green", "yellow", "red", "gray"}

\* _BADGE_ORDER
Rank == [gray |-> 0, red |-> 1, yellow |-> 2, green |-> 3]

----------------------------------------------------------------------------
(***************************************************************************)
(* The response.                                                           *)
(***************************************************************************)

\* final_response by the keys that hold something, and what it was made from.
Response ==
  [gives : SUBSET {"repair_steps", "root_cause", "answer"},
   failed : BOOLEAN,    \* the text is the error fallback of its node
   question : BOOLEAN,  \* there is one
   context : BOOLEAN]   \* something was retrieved

\* classify_artifact
Artifact(response) ==
  IF "repair_steps" \in response.gives THEN "repair_plan"
  ELSE IF "root_cause" \in response.gives THEN "informational"
  ELSE IF response.gives # {} /\ response.context THEN "follow_up"
  ELSE "non_retrieval"

\* extract_evaluable_text finds something.
HasText(response) ==
  LET key == [repair_plan |-> "repair_steps", informational |-> "root_cause",
              follow_up |-> "answer", non_retrieval |-> "none"]
  IN  key[Artifact(response)] \in response.gives

\* is_plan_failure of the evaluable text
IsPlanFailure(response) == ~HasText(response) \/ response.failed

\* evaluate_unified: what the model answers or, if the call fails, and fails again
\* after a quota error, neither score nor verdict.
Unified(answers) == answers \cup {[relevance |-> None, verdicts |-> NoVerdicts]}

----------------------------------------------------------------------------
(***************************************************************************)
(* Its badge.                                                              *)
(***************************************************************************)

Unfaithful(verdicts) == {s \in DOMAIN verdicts : ~verdicts[s]}

TooUnfaithful(verdicts, thresholds) ==
  /\ Unfaithful(verdicts) # {}
  /\ 100 * Cardinality(Unfaithful(verdicts))
       >= thresholds.unfaithful * Cardinality(DOMAIN verdicts)

Below(scores, bounds, keys) == \E k \in keys : scores[k] < bounds[k]

\* compute_quality_badge
QualityBadge(scores, thresholds, keys, verdicts) ==
  IF \E k \in keys : scores[k] = None THEN "gray"
  ELSE IF \/ Below(scores, thresholds.red, keys)
          \/ TooUnfaithful(verdicts, thresholds) THEN "red"
  ELSE IF \/ Below(scores, thresholds.green, keys)
          \/ Unfaithful(verdicts) # {} THEN "yellow"
  ELSE "green"

\* The metrics of `keys' that were scored, or all of them if none was: what both
\* evaluators pass as keys.
Scored(scores, keys) ==
  LET available == {k \in keys : scores[k] # None}
  IN  IF available = {} THEN keys ELSE available

\* inline_evaluator derives faithfulness from the verdicts on the steps.
Faithfulness(verdicts) ==
  IF verdicts = NoVerdicts THEN None
  ELSE (100 * Cardinality(DOMAIN verdicts \ Unfaithful(verdicts)))
         \div Cardinality(DOMAIN verdicts)

\* _compute_step_agreement, and the check for a rate below 0.8: of the steps
\* both have judged.
LowAgreement(inline, shadow) ==
  LET both == DOMAIN inline \cap DOMAIN shadow
      same == {s \in both : inline[s] = shadow[s]}
  IN  10 * Cardinality(same) < 8 * Cardinality(both)

Priority == {"P0", "P1", "P2", "P3"}

\* compute_priority of a task of source AUTO_EVAL.
AutoEvalPriority(scores, badge) ==
  LET failing == Cardinality({k \in Metric : scores[k] # None /\ scores[k] < 60})
  IN  IF \/ scores["faithfulness"] # None /\ scores["faithfulness"] < 30
         \/ badge = "red" THEN "P0"
      ELSE IF failing >= 2 THEN "P1"
      ELSE IF failing = 1 THEN "P2"
      ELSE "P3"
=============================================================================
