--------------------------- MODULE WorkflowRouting -------------------------
(***************************************************************************)
(* The edges of the graph of pipeline/workflow.py.  Each conditional edge  *)
(* routes on the state s that the node before it has left.                 *)
(***************************************************************************)
EXTENDS Naturals

Intents == {"troubleshoot", "replace_part", "followup", "unsafe_method", "mismatch"}

\* The intents a corrected_intent may name.
Corrected == {"troubleshoot", "replace_part", "followup", "validate_repair"}

DispatchTarget(route) ==
  IF route = "followup" THEN "FollowUpResponder" ELSE "DeterministicRuleChecker"

\* Mutant of RouteFromIntent: unsafe methods are dispatched like the others.
RouteUnsafeDirectly(s) == DispatchTarget(s.route)

RouteFromIntent(s) ==
  IF s.route = "unsafe_method" THEN "UnsafeMethodGate" ELSE DispatchTarget(s.route)

\* Mutant of RouteFromUnsafe: the rules are not consulted again.
RouteUnsafeToAnalyzer(s) ==
  IF s.route = "followup" THEN "FollowUpResponder" ELSE "SymptomAnalyzer"

RouteFromUnsafe(s) == DispatchTarget(s.route)

RouteFromDeterministicCheck(s) ==
  IF s.override THEN "__END__"
  ELSE IF s.route = "replace_part" THEN "DirectReplacementAnalyzer"
  ELSE "SymptomAnalyzer"

RouteFromKnowledge(s) ==
  IF s.route = "replace_part" THEN "SafetyExtractor" ELSE "RootCauseAnalyzer"

\* "no_docs" stands for a root cause that matches _NO_DOCS_PATTERNS.
RouteFromRootCause(s) ==
  IF s.route = "mismatch" \/ s.cause.kind = "no_docs"
  THEN "__END__" ELSE "SafetyExtractor"

RouteFromSafetyJudge(s) ==
  IF s.feedback /\ s.retry < 1 THEN "RepairPlanner" ELSE "InlineEvaluator"

NextNode(n, s) ==
  CASE n = "IntentRouter"              -> RouteFromIntent(s)
    [] n = "UnsafeMethodGate"          -> RouteFromUnsafe(s)
    [] n = "DeterministicRuleChecker"  -> RouteFromDeterministicCheck(s)
    [] n = "SymptomAnalyzer"           -> "KnowledgeRetriever"
    [] n = "DirectReplacementAnalyzer" -> "KnowledgeRetriever"
    [] n = "KnowledgeRetriever"        -> RouteFromKnowledge(s)
    [] n = "RootCauseAnalyzer"         -> RouteFromRootCause(s)
    [] n = "SafetyExtractor"           -> "RepairPlanner"
    [] n = "RepairPlanner"             -> "SafetyJudgeGate"
    [] n = "SafetyJudgeGate"           -> RouteFromSafetyJudge(s)
    [] n = "FollowUpResponder"         -> "InlineEvaluator"
    [] n = "InlineEvaluator"           -> "__END__"
============================================================================
