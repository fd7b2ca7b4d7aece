---------------------------- MODULE ProcessGraph ---------------------------
(***************************************************************************)
(* The reference model of audit/process_mining.py: the transitions between *)
(* the nodes of a trace that the auditor allows.                           *)
(***************************************************************************)
\* _ALLOWED_TRANSITIONS
Allowed ==
  [__START__                 |-> {"IntentRouter"},
   IntentRouter              |-> {"UnsafeMethodGate", "DeterministicRuleChecker",
                                  "FollowUpResponder"},
   UnsafeMethodGate          |-> {"DeterministicRuleChecker", "FollowUpResponder"},
   DeterministicRuleChecker  |-> {"SymptomAnalyzer", "DirectReplacementAnalyzer",
                                  "__END__"},
   SymptomAnalyzer           |-> {"KnowledgeRetriever"},
   DirectReplacementAnalyzer |-> {"KnowledgeRetriever"},
   KnowledgeRetriever        |-> {"RootCauseAnalyzer", "SafetyExtractor"},
   RootCauseAnalyzer         |-> {"SafetyExtractor", "__END__"},
   SafetyExtractor           |-> {"RepairPlanner"},
   RepairPlanner             |-> {"SafetyJudgeGate"},
   SafetyJudgeGate           |-> {"InlineEvaluator", "RepairPlanner", "__END__"},
   FollowUpResponder         |-> {"InlineEvaluator"},
   InlineEvaluator           |-> {"__END__"}]

Nodes == DOMAIN Allowed \ {"__START__"}

Ended == {"__END__", "failed"}
============================================================================
