------------------------ MODULE MCShadowEvaluation ------------------------
(***************************************************************************)
(* A plan of two steps, two versions of the thresholds (the second one     *)
(* wants more).  A response is a plan, a failed plan or an answer.  The    *)
(* judges are good, middling or bad, or fail.                              *)
(***************************************************************************)
EXTENDS ShadowEvaluation, TLC

Bounds(red, green) ==
  [red |-> [k \in Metric |-> red], green |-> [k \in Metric |-> green],
   unfaithful |-> 60]

MCThresholdsOf == "v1" :> Bounds(30, 50) @@ "v2" :> Bounds(60, 80)

Both(first, second) == "s1" :> first @@ "s2" :> second

Sound(gives) == [gives |-> {gives}, failed |-> FALSE, question |-> TRUE, context |-> TRUE]

MCResponses ==
  {Sound("repair_steps"), Sound("answer"),
   [Sound("repair_steps") EXCEPT !.failed = TRUE]}

MCInlineResults == {[relevance |-> 90, verdicts |-> Both(TRUE, TRUE)]}

All(score) == [k \in Metric |-> score]

MCShadowResults ==
  {[scores |-> All(70), verdicts |-> Both(TRUE, FALSE)],
   [scores |-> All(20), verdicts |-> NoVerdicts]}
============================================================================
