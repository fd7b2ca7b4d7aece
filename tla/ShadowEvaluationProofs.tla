----------------------- MODULE ShadowEvaluationProofs -----------------------
(***************************************************************************)
(* Theorems about the evaluation of a response, for any steps, thresholds, *)
(* judges and processes, and however many things go wrong.                 *)
(***************************************************************************)
EXTENDS ShadowEvaluation, FiniteSetTheorems, TLAPS

(***************************************************************************)
(* Scores and badges.                                                      *)
(***************************************************************************)

LEMMA NoScoresType == NoScores \in Scores
BY DEF NoScores, Scores, Score, None

LEMMA NoVerdictsType == NoVerdicts \in Verdicts(Step)
<1>1. NoVerdicts \in [{} -> BOOLEAN]
  BY DEF NoVerdicts
<1>2. {} \in SUBSET Step
  OBVIOUS
<1> QED
  BY <1>1, <1>2 DEF Verdicts

\* Verdicts are on finitely many steps.
LEMMA VerdictsAreFinite ==
  ASSUME NEW v \in Verdicts(Step)
  PROVE  /\ DOMAIN v \subseteq Step
         /\ IsFiniteSet(DOMAIN v)
<1>1. PICK S \in SUBSET Step : v \in [S -> BOOLEAN]
  BY DEF Verdicts
<1>2. DOMAIN v = S
  BY <1>1
<1> QED
  BY <1>2, FS_Subset, EvaluationAssumption

\* A share of the steps is a percentage.
LEMMA Percentage ==
  ASSUME NEW m \in Nat, NEW n \in Nat, m <= n, n > 0
  PROVE  (100 * m) \div n \in 0 .. 100
<1> DEFINE q == (100 * m) \div n
<1>1. q \in Int
  OBVIOUS
<1>2. q * n <= 100 * m /\ 100 * m < (q + 1) * n
  OBVIOUS
<1> HIDE DEF q
<1>3. q >= 0
  BY <1>1, <1>2
<1>4. 100 * m <= 100 * n
  OBVIOUS
<1>5. q <= 100
  BY <1>1, <1>2, <1>4
<1> QED
  BY <1>1, <1>3, <1>5 DEF q

\* The faithfulness derived from verdicts is a score.
LEMMA FaithfulnessType ==
  ASSUME NEW v \in Verdicts(Step)
  PROVE  Faithfulness(v) \in Score
<1>1. CASE v = NoVerdicts
  BY <1>1 DEF Faithfulness, Score, None
<1>2. CASE v # NoVerdicts
  <2> DEFINE D == DOMAIN v
             F == D \ Unfaithful(v)
  <2>1. IsFiniteSet(D) /\ IsFiniteSet(F) /\ F \subseteq D
    BY VerdictsAreFinite, FS_Subset
  <2>2. D # {}
    <3>1. PICK S \in SUBSET Step : v \in [S -> BOOLEAN]
      BY DEF Verdicts
    <3> QED
      BY <3>1, <1>2 DEF NoVerdicts
  <2>3. Cardinality(D) \in Nat /\ Cardinality(F) \in Nat
    BY <2>1, FS_CardinalityType
  <2>4. Cardinality(F) <= Cardinality(D)
    BY <2>1, FS_Subset
  <2>5. Cardinality(D) # 0
    BY <2>1, <2>2, FS_EmptySet
  <2>6. (100 * Cardinality(F)) \div Cardinality(D) \in 0 .. 100
    <3> HIDE DEF D, F
    <3> QED
      BY <2>3, <2>4, <2>5, Percentage
  <2> QED
    BY <2>6, <1>2 DEF Faithfulness, Score
<1> QED
  BY <1>1, <1>2

LEMMA BadgeType ==
  ASSUME NEW scores, NEW thresholds, NEW keys, NEW verdicts
  PROVE  QualityBadge(scores, thresholds, keys, verdicts) \in Badge
BY DEF QualityBadge, Badge

LEMMA PriorityType ==
  ASSUME NEW scores, NEW badge
  PROVE  AutoEvalPriority(scores, badge) \in Priority
BY DEF AutoEvalPriority, Priority

\* The rank of a badge is a number, least for gray.
LEMMA Ranks ==
  /\ \A b \in Badge : Rank[b] \in Nat
  /\ Rank["gray"] = 0
BY DEF Rank, Badge

(***************************************************************************)
(* The types.                                                              *)
(***************************************************************************)

\* What the judges may answer is typed.
LEMMA ResultTypes ==
  /\ \A r \in Unified(InlineResults) : r.relevance \in Score /\ r.verdicts \in Verdicts(Step)
  /\ \A r \in ShadowResults : r.scores \in Scores /\ r.verdicts \in Verdicts(Step)
BY EvaluationAssumption, NoVerdictsType DEF Unified, Score, None

LEMMA Constructed ==
  /\ NewJudge \in Judge
  /\ Idle \in Execution
  /\ TimeoutEval \in Eval
  /\ NoEval \notin Eval
BY NoScoresType, NoVerdictsType
   DEF NewJudge, Judge, Idle, Execution, TimeoutEval, Eval, NoEval, Badge

LEMMA InsertedType ==
  ASSUME TypeOK, NEW by \in {"node", "endpoint"}, NEW badge \in Badge, NEW v \in Version
  PROVE  Inserted(by, badge, v) \in Seq(MetricRow)
BY NoScoresType, NoVerdictsType DEF TypeOK, Inserted, MetricRow

LEMMA LatestType ==
  ASSUME TypeOK, rows # << >>
  PROVE  /\ Len(rows) \in DOMAIN rows
         /\ Latest \in MetricRow
BY DEF TypeOK, Latest

\* A patch replaces the last row.
LEMMA PatchedType ==
  ASSUME TypeOK, NEW row, rows # << >> => row \in MetricRow
  PROVE  Patched(row) \in Seq(MetricRow)
<1>1. CASE rows = << >>
  BY <1>1 DEF TypeOK, Patched
<1>2. CASE rows # << >>
  BY <1>2 DEF TypeOK, Patched
<1> QED
  BY <1>1, <1>2

LEMMA WithScoresType ==
  ASSUME TypeOK, NEW row \in MetricRow, NEW r \in Run
  PROVE  WithScores(row, r) \in MetricRow
<1>1. run[r] \in Execution
  BY DEF TypeOK
<1>2. run[r].scores \in Scores /\ run[r].verdicts \in Verdicts(Step)
  BY <1>1 DEF Execution
<1>3. ShadowBadge(run[r].scores, run[r].verdicts) \in Badge
  BY BadgeType DEF ShadowBadge
<1> QED
  BY <1>2, <1>3 DEF WithScores, MetricRow

\* An execution that starts or ends.
LEMMA RunTypes ==
  ASSUME TypeOK
  PROVE  /\ \A via \in {"thread", "webhook"} : StartRun(via) => run' \in [Run -> Execution]
         /\ \A r \in Run,
               from \in {"scoring", "filing", "comparing", "patching", "replying"},
               to \in {"filing", "comparing", "patching", "replying", "done", "dead"} :
              RunStep(r, from, to) \/ RunEnds(r, from, to)
                => run' \in [Run -> Execution]
<1>1. run \in [Run -> Execution]
  BY DEF TypeOK
<1>2. ASSUME NEW via \in {"thread", "webhook"}, StartRun(via)
      PROVE  run' \in [Run -> Execution]
  <2>1. PICK r \in Run : run' = [run EXCEPT ![r].pc = "scoring", ![r].via = via]
    BY <1>2 DEF StartRun
  <2>2. run' = [run EXCEPT ![r] = [run[r] EXCEPT !.pc = "scoring", !.via = via]]
    BY <1>1, <2>1
  <2>3. [run[r] EXCEPT !.pc = "scoring", !.via = via] \in Execution
    BY <1>1 DEF Execution
  <2> QED
    BY <1>1, <2>2, <2>3
<1>3. ASSUME NEW r \in Run, NEW from,
             NEW to \in {"filing", "comparing", "patching", "replying", "done", "dead"},
             RunStep(r, from, to)
      PROVE  run' \in [Run -> Execution]
  BY <1>1, <1>3 DEF RunStep, Execution
<1>4. ASSUME NEW r \in Run, NEW from,
             NEW to \in {"filing", "comparing", "patching", "replying", "done", "dead"},
             RunEnds(r, from, to)
      PROVE  run' \in [Run -> Execution]
  <2>1. run[r].via \in {"thread", "webhook"}
    BY <1>1 DEF Execution
  <2>2. [Idle EXCEPT !.pc = to, !.via = run[r].via] \in Execution
    BY <2>1, Constructed DEF Execution, Idle
  <2> QED
    BY <1>1, <1>4, <2>2 DEF RunEnds
<1> QED
  BY <1>2, <1>3, <1>4

\* Of the mishaps, only Mishap.
LEMMA MishapTypes ==
  ASSUME TypeOK, NEW kind \in Mishap, NEW done, NEW failed
  PROVE  /\ Mishappens(kind) => mishaps' \subseteq Mishap
         /\ (\/ done /\ UNCHANGED mishaps
             \/ failed /\ Mishappens(kind)) => mishaps' \subseteq Mishap
BY DEF TypeOK, Mishappens

LEMMA TaskTypes ==
  ASSUME TypeOK, NEW reason \in Reason, NEW priority \in Priority,
         CreateTask(reason, priority)
  PROVE  /\ tasks' \subseteq Reason \X Priority
         /\ mishaps' \subseteq Mishap
<1>1. <<reason, priority>> \in Reason \X Priority
  OBVIOUS
<1>2. tasks' = tasks \/ tasks' = tasks \cup {<<reason, priority>>}
  BY DEF CreateTask, Attempt
<1>3. mishaps' = mishaps \/ mishaps' = mishaps \cup {"task failed"}
  BY DEF CreateTask, Attempt, Mishappens
<1>4. tasks \subseteq Reason \X Priority /\ mishaps \subseteq Mishap
  BY DEF TypeOK
<1>5. tasks' \subseteq Reason \X Priority
  BY <1>1, <1>2, <1>4
<1> QED
  BY <1>3, <1>4, <1>5 DEF Mishap

LEMMA FlagTypes ==
  ASSUME TypeOK, flagged' = (flagged \/ tasks' # tasks)
  PROVE  flagged' \in BOOLEAN
OBVIOUS

\* The judge has read thresholds before it inserts a row.
ThresholdsRead ==
  judge.pc \notin {"judging", "over"} => judge.version \in Version

\* What a step of InlineEvaluator does keeps the types.
LEMMA EvaluatorTypes ==
  ASSUME TypeOK, ThresholdsRead, Evaluator
  PROVE  TypeOK'
<1>0. judge \in Judge /\ mishaps \subseteq Mishap
  BY DEF TypeOK
<1>1. CASE JudgeResponse
  <2>1. PICK result \in Unified(InlineResults), v \in Version :
          LET scores == [NoScores EXCEPT
                           !["faithfulness"] = Faithfulness(result.verdicts),
                           !["answer_relevance"] = result.relevance]
          IN  /\ GetThresholds(Home, v)
              /\ judge' = [judge EXCEPT
                             !.pc = "inserting", !.version = v, !.scores = scores,
                             !.verdicts = result.verdicts,
                             !.badge = QualityBadge(scores, ThresholdsOf[v],
                                                    Scored(scores, InlineKeys),
                                                    result.verdicts)]
    BY <1>1 DEF JudgeResponse
  <2> DEFINE scores == [NoScores EXCEPT
                          !["faithfulness"] = Faithfulness(result.verdicts),
                          !["answer_relevance"] = result.relevance]
             badge == QualityBadge(scores, ThresholdsOf[v], Scored(scores, InlineKeys),
                                   result.verdicts)
  <2>2. result.relevance \in Score /\ result.verdicts \in Verdicts(Step)
    BY ResultTypes
  <2>3. scores \in Scores
    BY <2>2, FaithfulnessType, NoScoresType DEF Scores
  <2>4. badge \in Badge
    BY BadgeType
  <2>5. judge' = [judge EXCEPT !.pc = "inserting", !.version = v, !.scores = scores,
                               !.verdicts = result.verdicts, !.badge = badge]
    BY <2>1
  <2>6. judge' \in Judge
    <3> HIDE DEF scores, badge
    <3> QED
      BY <1>0, <2>2, <2>3, <2>4, <2>5 DEF Judge
  <2>7. cache' \in [Process -> Version \cup {NoVersion}]
    BY <2>1 DEF GetThresholds, TypeOK
  <2> QED
    BY <1>1, <2>6, <2>7 DEF JudgeResponse, TypeOK
<1>2. CASE SkipResponse
  <2>1. judge' \in Judge
    BY <1>0, <1>2 DEF SkipResponse, Judge
  <2>2. cache' \in [Process -> Version \cup {NoVersion}]
    BY <1>2 DEF SkipResponse, GetThresholds, TypeOK
  <2> QED
    BY <1>2, <2>1, <2>2 DEF SkipResponse, TypeOK
<1>3. CASE InsertRow
  <2>1. judge' \in Judge
    BY <1>0, <1>3 DEF InsertRow, JudgeStep, Judge
  <2>2. rows' = rows \/ rows' = Inserted("node", judge.badge, judge.version)
    BY <1>3 DEF InsertRow, Attempt
  <2>3. judge.pc = "inserting"
    BY <1>3 DEF InsertRow, JudgeStep
  <2>4. judge.badge \in Badge /\ judge.version \in Version
    BY <1>0, <2>3 DEF Judge, ThresholdsRead
  <2>5. rows' \in Seq(MetricRow)
    BY <2>2, <2>4, InsertedType DEF TypeOK
  <2>6. mishaps' \subseteq Mishap
    BY <1>0, <1>3 DEF InsertRow, Attempt, Mishappens, Mishap
  <2> QED
    BY <1>3, <2>1, <2>5, <2>6 DEF InsertRow, TypeOK
<1>4. CASE SetThreadFlag
  <2>1. judge' \in Judge
    BY <1>0, <1>4 DEF SetThreadFlag, JudgeStep, Judge
  <2>2. mishaps' \subseteq Mishap /\ flagged' \in BOOLEAN
    BY <1>0, <1>4 DEF SetThreadFlag, Attempt, Mishappens, Mishap, TypeOK
  <2> QED
    BY <1>4, <2>1, <2>2 DEF SetThreadFlag, TypeOK
<1>5. CASE FileInline
  <2>1. judge' \in Judge
    BY <1>0, <1>5 DEF FileInline, JudgeStep, Judge
  <2>2. tasks' \subseteq Reason \X Priority /\ mishaps' \subseteq Mishap
    <3>1. CreateTask("inline", AutoEvalPriority(judge.scores, judge.badge))
      BY <1>5 DEF FileInline
    <3> QED
      BY <3>1, TaskTypes, PriorityType DEF Reason
  <2>3. flagged' \in BOOLEAN
    BY <1>5, FlagTypes DEF FileInline
  <2> QED
    BY <1>5, <2>1, <2>2, <2>3 DEF FileInline, TypeOK
<1>6. CASE Return
  <2>1. judge' \in Judge
    BY <1>6, Constructed DEF Return, Judge
  <2>2. inline' \in Eval \cup {NoEval}
    BY <1>0, <1>6 DEF Return, Eval, Judge, TypeOK
  <2> QED
    BY <1>6, <2>1, <2>2 DEF Return, TypeOK
<1> QED
  BY <1>1, <1>2, <1>3, <1>4, <1>5, <1>6 DEF Evaluator

\* So do the dispatch and the queue,
LEMMA DispatchTypes ==
  ASSUME TypeOK, TimeOut \/ Dispatch \/ Deliver
  PROVE  TypeOK'
<1>1. CASE TimeOut
  <2>1. inline' \in Eval \cup {NoEval} /\ mishaps' \subseteq Mishap
    BY <1>1, Constructed DEF TimeOut, Mishappens, Mishap, TypeOK
  <2> QED
    BY <1>1, <2>1 DEF TimeOut, TypeOK
<1>2. CASE Dispatch
  <2>1. PICK v \in Version :
          /\ IF inline.version = NoVersion THEN GetThresholds(Home, v)
             ELSE v = inline.version /\ UNCHANGED cache
          /\ payload' = [inline EXCEPT !.version = v]
    BY <1>2 DEF Dispatch
  <2>2. inline \in Eval
    BY <1>2 DEF Dispatch, TypeOK
  <2>3. payload' \in [badge : Badge, verdicts : Verdicts(Step), version : Version]
    BY <2>1, <2>2 DEF Eval
  <2>4. cache' \in [Process -> Version \cup {NoVersion}]
    BY <2>1 DEF GetThresholds, TypeOK
  <2>5. Send
    BY <1>2 DEF Dispatch
  <2>6. run' \in [Run -> Execution]
    BY <2>5, RunTypes DEF Send, TypeOK
  <2>7. queued' \in BOOLEAN /\ mishaps' \subseteq Mishap
    BY <2>5 DEF Send, Mishappens, Mishap, TypeOK
  <2> QED
    BY <1>2, <2>3, <2>4, <2>6, <2>7 DEF Dispatch, TypeOK
<1>3. CASE Deliver
  <2>1. run' \in [Run -> Execution]
    BY <1>3, RunTypes DEF Deliver
  <2> QED
    BY <1>3, <2>1 DEF Deliver, TypeOK
<1> QED
  BY <1>1, <1>2, <1>3

\* an execution,
LEMMA ShadowTypes ==
  ASSUME TypeOK, NEW r \in Run, Shadow(r) \/ Die(r)
  PROVE  TypeOK'
<1>0. run \in [Run -> Execution] /\ mishaps \subseteq Mishap
  BY DEF TypeOK
<1>1. CASE ScoreRun(r)
  <2>1. PICK result \in ShadowResults \cup {[scores |-> NoScores, verdicts |-> NoVerdicts]} :
          run' = [run EXCEPT ![r].pc = "filing", ![r].scores = result.scores,
                             ![r].verdicts = result.verdicts]
    BY <1>1 DEF ScoreRun
  <2>2. result.scores \in Scores /\ result.verdicts \in Verdicts(Step)
    BY ResultTypes, NoScoresType, NoVerdictsType
  <2>3. [run[r] EXCEPT !.pc = "filing", !.scores = result.scores,
                       !.verdicts = result.verdicts] \in Execution
    BY <1>0, <2>2 DEF Execution
  <2>4. run' \in [Run -> Execution]
    BY <1>0, <2>1, <2>3
  <2> QED
    BY <1>1, <2>4 DEF ScoreRun, TypeOK
<1>2. CASE FileEscalation(r)
  <2>1. run' \in [Run -> Execution]
    BY <1>2, RunTypes DEF FileEscalation
  <2>2. tasks' \subseteq Reason \X Priority /\ mishaps' \subseteq Mishap
    BY <1>2, TaskTypes DEF FileEscalation, Reason, Priority, TypeOK
  <2>3. flagged' \in BOOLEAN
    BY <1>2, FlagTypes DEF FileEscalation
  <2> QED
    BY <1>2, <2>1, <2>2, <2>3 DEF FileEscalation, TypeOK
<1>3. CASE CompareSteps(r)
  <2>1. run' \in [Run -> Execution]
    BY <1>3, RunTypes DEF CompareSteps
  <2>2. tasks' \subseteq Reason \X Priority /\ mishaps' \subseteq Mishap
    BY <1>3, TaskTypes DEF CompareSteps, Reason, Priority, TypeOK
  <2>3. flagged' \in BOOLEAN
    BY <1>3, FlagTypes DEF CompareSteps
  <2> QED
    BY <1>3, <2>1, <2>2, <2>3 DEF CompareSteps, TypeOK
<1>4. CASE PatchRow(r)
  <2>1. run' \in [Run -> Execution]
    BY <1>4, RunTypes DEF PatchRow
  <2>2. rows' = rows \/ rows' = Patched(WithScores(Latest, r))
    BY <1>4 DEF PatchRow, Attempt
  <2>3. rows' \in Seq(MetricRow)
    BY <2>2, LatestType, WithScoresType, PatchedType DEF TypeOK
  <2>4. mishaps' \subseteq Mishap
    BY <1>0, <1>4 DEF PatchRow, Attempt, Mishappens, Mishap
  <2> QED
    BY <1>4, <2>1, <2>3, <2>4 DEF PatchRow, TypeOK
<1>5. CASE Reply(r)
  <2>1. run' \in [Run -> Execution]
    BY <1>5, RunTypes DEF Reply
  <2>2. mishaps' \subseteq Mishap /\ queued' \in BOOLEAN
    BY <1>0, <1>5 DEF Reply, Attempt, Mishappens, Mishap, TypeOK
  <2> QED
    BY <1>5, <2>1, <2>2 DEF Reply, TypeOK
<1>6. CASE Die(r)
  <2>1. run' \in [Run -> Execution]
    <3>1. PICK pc \in {"scoring", "filing", "comparing", "patching"} :
                 RunEnds(r, pc, "dead")
      BY <1>6 DEF Die
    <3> QED
      BY <3>1, RunTypes
  <2>2. mishaps' \subseteq Mishap
    BY <1>0, <1>6 DEF Die, Mishappens, Mishap
  <2> QED
    BY <1>6, <2>1, <2>2 DEF Die, TypeOK
<1> QED
  BY <1>1, <1>2, <1>3, <1>4, <1>5, <1>6 DEF Shadow

\* The endpoints and the thresholds.
Others ==
  \/ EvaluateThread \/ InsertEvaluation \/ PatchEvaluation \/ Escalate
  \/ UpdateEvaluationConfig
  \/ \E p \in Process : Expire(p)

\* and the endpoints.
LEMMA OtherTypes ==
  ASSUME TypeOK, Others
  PROVE  TypeOK'
<1>0. mishaps \subseteq Mishap /\ rows \in Seq(MetricRow)
  BY DEF TypeOK
<1>1. CASE EvaluateThread
  <2>1. mishaps' \subseteq Mishap
    BY <1>0, <1>1 DEF EvaluateThread, Attempt, Mishappens, Mishap
  <2> QED
    BY <1>1, <2>1 DEF EvaluateThread, TypeOK
<1>2. CASE InsertEvaluation
  <2>1. PICK result \in ShadowResults, p \in Process, v \in Version :
          /\ GetThresholds(p, v)
          /\ LET badge == QualityBadge(result.scores, ThresholdsOf[v], InlineKeys,
                                       result.verdicts)
             IN  Attempt(rows' = Inserted("endpoint", badge, v), UNCHANGED rows,
                         "insert failed")
    BY <1>2 DEF InsertEvaluation
  <2> DEFINE badge == QualityBadge(result.scores, ThresholdsOf[v], InlineKeys,
                                   result.verdicts)
  <2>2. Attempt(rows' = Inserted("endpoint", badge, v), UNCHANGED rows, "insert failed")
    BY <2>1
  <2>3. rows' = rows \/ rows' = Inserted("endpoint", badge, v)
    BY <2>2 DEF Attempt
  <2>4. rows' \in Seq(MetricRow)
    BY <1>0, <2>3, BadgeType, InsertedType
  <2>5. mishaps' \subseteq Mishap
    BY <1>0, <2>2 DEF Attempt, Mishappens, Mishap
  <2>6. cache' \in [Process -> Version \cup {NoVersion}]
    BY <2>1 DEF GetThresholds, TypeOK
  <2> QED
    BY <1>2, <2>4, <2>5, <2>6 DEF InsertEvaluation, TypeOK
<1>3. CASE PatchEvaluation
  <2>1. PICK result \in ShadowResults :
          Attempt(rows' = Patched(
                    [Latest EXCEPT
                       !.scores["context_relevance"] = result.scores["context_relevance"],
                       !.scores["completeness"] = result.scores["completeness"],
                       !.completed = TRUE]),
                  UNCHANGED rows, "patch failed")
    BY <1>3 DEF PatchEvaluation
  <2> DEFINE row == [Latest EXCEPT
                       !.scores["context_relevance"] = result.scores["context_relevance"],
                       !.scores["completeness"] = result.scores["completeness"],
                       !.completed = TRUE]
  <2>2. ASSUME rows # << >> PROVE row \in MetricRow
    <3>1. Latest \in MetricRow
      BY <2>2, LatestType
    <3>2. result.scores \in Scores
      BY ResultTypes
    <3> QED
      BY <3>1, <3>2 DEF MetricRow, Scores, Metric
  <2>3. rows' = rows \/ rows' = Patched(row)
    BY <2>1 DEF Attempt
  <2>4. rows' \in Seq(MetricRow)
    <3> HIDE DEF row
    <3> QED
      BY <1>0, <2>2, <2>3, PatchedType
  <2>5. mishaps' \subseteq Mishap
    BY <1>0, <2>1 DEF Attempt, Mishappens, Mishap
  <2> QED
    BY <1>3, <2>4, <2>5 DEF PatchEvaluation, TypeOK
<1>4. CASE Escalate
  <2>1. rows # << >> /\ rows' = Patched([Latest EXCEPT !.override = TRUE])
    BY <1>4 DEF Escalate
  <2>2. [Latest EXCEPT !.override = TRUE] \in MetricRow
    BY <2>1, LatestType DEF MetricRow
  <2>3. rows' \in Seq(MetricRow)
    BY <2>1, <2>2, PatchedType
  <2> QED
    BY <1>4, <2>3 DEF Escalate, TypeOK
<1>5. CASE UpdateEvaluationConfig
  BY <1>5 DEF UpdateEvaluationConfig, TypeOK
<1>6. ASSUME NEW p \in Process, Expire(p)
      PROVE  TypeOK'
  BY <1>6 DEF Expire, TypeOK
<1> QED
  BY <1>1, <1>2, <1>3, <1>4, <1>5, <1>6 DEF Others

TypeInv == TypeOK /\ ThresholdsRead

LEMMA TypeInit == Init => TypeInv
<1>1. << >> \in Seq(MetricRow)
  OBVIOUS
<1>2. NewJudge.pc = "judging"
  BY DEF NewJudge
<1> QED
  BY <1>1, <1>2, Constructed, EvaluationAssumption DEF Init, TypeInv, TypeOK, ThresholdsRead

LEMMA TypeStep == TypeInv /\ [Next]_vars => TypeInv'
<1> SUFFICES ASSUME TypeInv, [Next]_vars
             PROVE  TypeInv'
  OBVIOUS
<1>0. TypeOK /\ ThresholdsRead /\ judge \in Judge
  BY DEF TypeInv, TypeOK
<1>1. TypeOK'
  <2>1. CASE Evaluator
    BY <1>0, <2>1, EvaluatorTypes
  <2>2. CASE TimeOut \/ Dispatch \/ Deliver
    BY <1>0, <2>2, DispatchTypes
  <2>3. ASSUME NEW r \in Run, Shadow(r) \/ Die(r)
        PROVE  TypeOK'
    BY <1>0, <2>3, ShadowTypes
  <2>4. CASE Others
    BY <1>0, <2>4, OtherTypes
  <2>5. CASE UNCHANGED vars
    BY <1>0, <2>5 DEF vars, TypeOK
  <2> QED
    BY <2>1, <2>2, <2>3, <2>4, <2>5 DEF Next, Others
<1>2. ThresholdsRead'
  <2>1. CASE JudgeResponse
    BY <1>0, <2>1 DEF JudgeResponse, ThresholdsRead, Judge
  <2>2. CASE SkipResponse
    BY <1>0, <2>2 DEF SkipResponse, ThresholdsRead, Judge
  <2>3. CASE Return
    BY <2>3 DEF Return, ThresholdsRead, NewJudge
  <2>4. CASE InsertRow \/ SetThreadFlag \/ FileInline
    BY <1>0, <2>4 DEF InsertRow, SetThreadFlag, FileInline, JudgeStep, ThresholdsRead, Judge
  <2>5. CASE UNCHANGED judge
    BY <1>0, <2>5 DEF ThresholdsRead
  <2> QED
    BY <2>1, <2>2, <2>3, <2>4, <2>5
       DEF Next, Evaluator, TimeOut, Dispatch, Deliver, Shadow, ScoreRun, FileEscalation,
           CompareSteps, PatchRow, Reply, Die, EvaluateThread, InsertEvaluation,
           PatchEvaluation, Escalate, UpdateEvaluationConfig, Expire, vars
<1> QED
  BY <1>1, <1>2 DEF TypeInv

\* Judges, rows, tasks, executions and mishaps keep their types.
THEOREM TypeCorrect == Spec => []TypeOK
<1>1. TypeInv => TypeOK
  BY DEF TypeInv
<1> QED
  BY <1>1, TypeInit, TypeStep, PTL DEF Spec

(***************************************************************************)
(* How rows change.                                                        *)
(***************************************************************************)

\* An insert keeps what was there.
LEMMA Appended ==
  ASSUME TypeOK, NEW by, NEW badge, NEW v, rows' = Inserted(by, badge, v)
  PROVE  /\ Len(rows') = Len(rows) + 1
         /\ DOMAIN rows' = DOMAIN rows \cup {Len(rows')}
         /\ \A i \in DOMAIN rows : rows'[i] = rows[i]
         /\ Latest'.by = by /\ Latest'.badge = badge /\ Latest'.quality = badge
         /\ Latest'.version = v /\ Latest'.source = "inline"
         /\ Latest'.verdicts = NoVerdicts /\ ~Latest'.completed /\ ~Latest'.override
<1> DEFINE row == [by |-> by, badge |-> badge, quality |-> badge, source |-> "inline",
                   version |-> v, scores |-> NoScores, verdicts |-> NoVerdicts,
                   completed |-> FALSE, override |-> FALSE]
<1>1. rows \in Seq(MetricRow)
  BY DEF TypeOK
<1>2. rows' = Append(rows, row)
  BY DEF Inserted
<1>3. /\ Len(rows') = Len(rows) + 1
      /\ DOMAIN rows' = DOMAIN rows \cup {Len(rows')}
      /\ \A i \in DOMAIN rows : rows'[i] = rows[i]
      /\ rows'[Len(rows')] = row
  <2> HIDE DEF row
  <2> QED
    BY <1>1, <1>2
<1> QED
  BY <1>3 DEF Latest

\* A patch changes the last row only, and none if there is none.
LEMMA Replaced ==
  ASSUME TypeOK, NEW row, rows' = Patched(row)
  PROVE  /\ DOMAIN rows' = DOMAIN rows
         /\ Len(rows') = Len(rows)
         /\ \A i \in DOMAIN rows : i # Len(rows) => rows'[i] = rows[i]
         /\ rows # << >> => /\ Len(rows) \in DOMAIN rows
                            /\ rows'[Len(rows)] = row /\ Latest' = row
BY DEF TypeOK, Patched, Latest

\* What the shadow evaluation writes to a row.
LEMMA PatchedScores ==
  ASSUME TypeOK, rows # << >>, NEW r \in Run
  PROVE  LET row == WithScores(Latest, r)
         IN  /\ row.by = Latest.by /\ row.quality = Latest.quality
             /\ row.version = Latest.version /\ row.override = Latest.override
             /\ row.completed
             /\ row.scores = run[r].scores
             /\ row.verdicts = IF run[r].verdicts = NoVerdicts THEN Latest.verdicts
                               ELSE run[r].verdicts
             /\ Escalates(r) => /\ row.badge = ShadowBadge(run[r].scores, run[r].verdicts)
                                /\ row.source = "shadow"
             /\ ~Escalates(r) => row.badge = Latest.badge /\ row.source = Latest.source
<1>1. Latest \in MetricRow
  BY LatestType
<1> DEFINE b == ShadowBadge(run[r].scores, run[r].verdicts)
           e == Escalates(r)
<1>2. WithScores(Latest, r) =
        [Latest EXCEPT !.scores = run[r].scores,
                       !.completed = TRUE,
                       !.verdicts = IF run[r].verdicts = NoVerdicts THEN @
                                    ELSE run[r].verdicts,
                       !.badge = IF e THEN b ELSE @,
                       !.source = IF e THEN "shadow" ELSE @]
  BY DEF WithScores
<1> HIDE DEF b, e
<1>3. LET row == WithScores(Latest, r)
      IN  /\ row.by = Latest.by /\ row.quality = Latest.quality
          /\ row.version = Latest.version /\ row.override = Latest.override
          /\ row.completed
          /\ row.scores = run[r].scores
          /\ row.verdicts = IF run[r].verdicts = NoVerdicts THEN Latest.verdicts
                            ELSE run[r].verdicts
          /\ e => row.badge = b /\ row.source = "shadow"
          /\ ~e => row.badge = Latest.badge /\ row.source = Latest.source
  BY <1>1, <1>2 DEF MetricRow
<1> QED
  BY <1>3 DEF b, e

(***************************************************************************)
(* From the judge to the checkpoint, the payload and the rows.             *)
(***************************************************************************)

\* What the checkpoint holds is the fallback until the judge is over.
InlineKnown ==
  /\ judge.pc # "over" => inline \in {NoEval, TimeoutEval}
  /\ judge.pc = "over" => inline # NoEval

\* A row of the node is what the judge has found, and what the checkpoint says if
\* that is not the fallback.
NodeRowsKnown ==
  \A i \in DOMAIN rows :
    rows[i].by = "node" =>
      /\ judge.pc # "judging"
      /\ judge.pc # "over" => /\ rows[i].quality = judge.badge
                              /\ rows[i].version = judge.version
      /\ judge.pc = "over" => \/ inline = TimeoutEval
                              \/ /\ rows[i].quality = inline.badge
                                 /\ inline.version \in {NoVersion, rows[i].version}

\* The payload is what the checkpoint said when it was dispatched, as it still does.
PayloadKnown ==
  payload # NoEval =>
    /\ inline # NoEval
    /\ payload.badge = inline.badge
    /\ inline.version \in {NoVersion, payload.version}

\* Nothing runs before the dispatch.
RunsKnown ==
  payload = NoEval => ~queued /\ \A r \in Run : run[r].pc = "idle"

InlineInv ==
  InlineKnown /\ NodeRowsKnown /\ PayloadKnown /\ RunsKnown /\ BadgeOnlyWorsens

\* A patch by a shadow evaluation keeps the rows of the node known, and lowers
\* their badges only.
LEMMA PatchKeepsRows ==
  ASSUME TypeInv, InlineInv, NEW r \in Run, PatchRow(r)
  PROVE  NodeRowsKnown' /\ BadgeOnlyWorsens'
<1>0. TypeOK
  BY DEF TypeInv
<1>1. CASE UNCHANGED rows
  BY <1>1 DEF PatchRow, InlineInv, NodeRowsKnown, BadgeOnlyWorsens
<1>2. CASE rows' = Patched(WithScores(Latest, r)) /\ rows = << >>
  BY <1>2 DEF PatchRow, Patched, InlineInv, NodeRowsKnown, BadgeOnlyWorsens
<1>3. CASE rows' = Patched(WithScores(Latest, r)) /\ rows # << >>
  <2> DEFINE row == WithScores(Latest, r)
             n == Len(rows)
  <2>1. /\ DOMAIN rows' = DOMAIN rows
        /\ \A i \in DOMAIN rows : i # n => rows'[i] = rows[i]
        /\ n \in DOMAIN rows /\ rows'[n] = row /\ Latest = rows[n]
    BY <1>0, <1>3, Replaced DEF Latest
  <2>2. /\ row.by = Latest.by /\ row.quality = Latest.quality
        /\ row.version = Latest.version
        /\ Escalates(r) => row.badge = ShadowBadge(run[r].scores, run[r].verdicts)
        /\ ~Escalates(r) => row.badge = Latest.badge
    BY <1>0, <1>3, PatchedScores
  <2> HIDE DEF row
  <2>3. UNCHANGED <<judge, inline>>
    BY DEF PatchRow
  <2>4. NodeRowsKnown'
    BY <2>1, <2>2, <2>3 DEF InlineInv, NodeRowsKnown
  <2>5. ASSUME row.by = "node", row.badge # row.quality
        PROVE  Rank[row.badge] < Rank[row.quality]
    <3>1. CASE ~Escalates(r)
      BY <2>1, <2>2, <2>5, <3>1 DEF InlineInv, BadgeOnlyWorsens
    <3>2. CASE Escalates(r)
      <4>1. run[r].pc # "idle"
        BY DEF PatchRow, RunEnds
      <4>2. payload # NoEval
        BY <4>1 DEF InlineInv, RunsKnown
      <4>3. inline # NoEval /\ payload.badge = inline.badge
        BY <4>2 DEF InlineInv, PayloadKnown
      <4>4. Rank[row.badge] < Rank[inline.badge]
        BY <2>2, <3>2, <4>3 DEF Escalates
      <4>5. row.badge \in Badge
        BY <2>2, <3>2, BadgeType DEF ShadowBadge
      <4>6. inline # TimeoutEval
        BY <4>4, <4>5, Ranks DEF TimeoutEval
      <4>7. judge.pc = "over"
        BY <4>3, <4>6 DEF InlineInv, InlineKnown
      <4>8. row.quality = inline.badge
        BY <2>1, <2>2, <2>5, <4>6, <4>7 DEF InlineInv, NodeRowsKnown
      <4> QED
        BY <4>4, <4>8
    <3> QED
      BY <3>1, <3>2
  <2>6. BadgeOnlyWorsens'
    BY <2>1, <2>2, <2>5 DEF InlineInv, BadgeOnlyWorsens
  <2> QED
    BY <2>4, <2>6
<1> QED
  BY <1>1, <1>2, <1>3 DEF PatchRow, Attempt

\* So does a patch of something else.
LEMMA OtherPatchKeepsRows ==
  ASSUME TypeInv, InlineInv, NEW row, rows' = Patched(row), UNCHANGED <<judge, inline>>,
         rows # << >> => /\ row.by = Latest.by /\ row.quality = Latest.quality
                         /\ row.version = Latest.version /\ row.badge = Latest.badge
  PROVE  NodeRowsKnown' /\ BadgeOnlyWorsens'
<1>0. TypeOK
  BY DEF TypeInv
<1>1. CASE rows = << >>
  BY <1>1 DEF Patched, InlineInv, NodeRowsKnown, BadgeOnlyWorsens
<1>2. CASE rows # << >>
  <2>1. /\ DOMAIN rows' = DOMAIN rows
        /\ \A i \in DOMAIN rows : i # Len(rows) => rows'[i] = rows[i]
        /\ Len(rows) \in DOMAIN rows /\ rows'[Len(rows)] = row
        /\ Latest = rows[Len(rows)]
    BY <1>0, <1>2, Replaced DEF Latest
  <2> QED
    BY <1>2, <2>1 DEF InlineInv, NodeRowsKnown, BadgeOnlyWorsens
<1> QED
  BY <1>1, <1>2

LEMMA InlineInit == Init => InlineInv
BY Constructed
   DEF Init, InlineInv, InlineKnown, NodeRowsKnown, PayloadKnown, RunsKnown,
       BadgeOnlyWorsens, NewJudge, Idle

\* The steps of the judge.
LEMMA InlineEvaluator ==
  ASSUME TypeInv, InlineInv, Evaluator
  PROVE  InlineInv'
<1>0. TypeOK /\ judge \in Judge
  BY DEF TypeInv, TypeOK
<1>1. CASE JudgeResponse \/ SkipResponse
  <2>1. judge.pc = "judging" /\ judge'.pc = "inserting"
    BY <1>0, <1>1 DEF JudgeResponse, SkipResponse, Judge
  <2>2. UNCHANGED <<inline, rows, payload, queued, run>>
    BY <1>1 DEF JudgeResponse, SkipResponse
  <2> QED
    BY <2>1, <2>2 DEF InlineInv, InlineKnown, NodeRowsKnown, PayloadKnown, RunsKnown,
                      BadgeOnlyWorsens
<1>2. CASE InsertRow
  <2>1. /\ judge.pc = "inserting" /\ judge'.pc \in {"inserting", "flagging", "returning"}
        /\ judge'.badge = judge.badge /\ judge'.version = judge.version
    BY <1>0, <1>2 DEF InsertRow, JudgeStep, Judge
  <2>2. UNCHANGED <<inline, payload, queued, run>>
    BY <1>2 DEF InsertRow
  <2>3. rows' = rows \/ rows' = Inserted("node", judge.badge, judge.version)
    BY <1>2 DEF InsertRow, Attempt
  <2>4. CASE rows' = rows
    BY <2>1, <2>2, <2>4 DEF InlineInv, InlineKnown, NodeRowsKnown, PayloadKnown,
                            RunsKnown, BadgeOnlyWorsens
  <2>5. CASE rows' = Inserted("node", judge.badge, judge.version)
    <3>1. /\ DOMAIN rows' = DOMAIN rows \cup {Len(rows')}
          /\ \A i \in DOMAIN rows : rows'[i] = rows[i]
          /\ rows'[Len(rows')].badge = judge.badge
          /\ rows'[Len(rows')].quality = judge.badge
          /\ rows'[Len(rows')].version = judge.version
      BY <1>0, <2>5, Appended DEF Latest
    <3>2. NodeRowsKnown' /\ BadgeOnlyWorsens'
      BY <2>1, <2>2, <3>1 DEF InlineInv, NodeRowsKnown, BadgeOnlyWorsens
    <3> QED
      BY <2>1, <2>2, <3>2 DEF InlineInv, InlineKnown, PayloadKnown, RunsKnown
  <2> QED
    BY <2>3, <2>4, <2>5
<1>3. CASE SetThreadFlag \/ FileInline
  <2>1. /\ judge.pc \in {"flagging", "filing"} /\ judge'.pc \in {"filing", "returning"}
        /\ judge'.badge = judge.badge /\ judge'.version = judge.version
    BY <1>0, <1>3 DEF SetThreadFlag, FileInline, JudgeStep, Judge
  <2>2. UNCHANGED <<inline, rows, payload, queued, run>>
    BY <1>3 DEF SetThreadFlag, FileInline
  <2> QED
    BY <2>1, <2>2 DEF InlineInv, InlineKnown, NodeRowsKnown, PayloadKnown, RunsKnown,
                      BadgeOnlyWorsens
<1>4. CASE Return
  <2> DEFINE eval == [badge |-> judge.badge, verdicts |-> judge.verdicts,
                      version |-> IF judge.skipped THEN NoVersion ELSE judge.version]
  <2>1. judge.pc = "returning" /\ judge'.pc = "over"
    BY <1>4 DEF Return, NewJudge
  <2>2. UNCHANGED <<rows, payload, queued, run>>
    BY <1>4 DEF Return
  <2>3. inline' = IF inline # NoEval THEN inline ELSE eval
    BY <1>4 DEF Return
  <2>4. eval.badge = judge.badge /\ eval.version \in {NoVersion, judge.version}
    OBVIOUS
  <2>5. eval # NoEval
    BY <1>0, <2>4 DEF NoEval, Judge, Badge
  <2> HIDE DEF eval
  <2>6. inline' # NoEval
    BY <2>3, <2>5
  <2>7. InlineKnown'
    BY <2>1, <2>6 DEF InlineKnown
  <2>8. NodeRowsKnown'
    <3>1. CASE inline # NoEval
      <4>1. inline' = TimeoutEval
        BY <2>1, <2>3, <3>1 DEF InlineInv, InlineKnown
      <4> QED
        BY <2>1, <4>1 DEF NodeRowsKnown
    <3>2. CASE inline = NoEval
      BY <2>1, <2>2, <2>3, <2>4, <3>2 DEF InlineInv, NodeRowsKnown
    <3> QED
      BY <3>1, <3>2
  <2>9. PayloadKnown'
    BY <2>2, <2>3 DEF InlineInv, PayloadKnown
  <2> QED
    BY <2>2, <2>7, <2>8, <2>9 DEF InlineInv, RunsKnown, BadgeOnlyWorsens
<1> QED
  BY <1>1, <1>2, <1>3, <1>4 DEF Evaluator

LEMMA InlineStep == InlineInv /\ TypeInv /\ [Next]_vars => InlineInv'
<1> SUFFICES ASSUME InlineInv, TypeInv, [Next]_vars
             PROVE  InlineInv'
  OBVIOUS
<1>0. TypeOK
  BY DEF TypeInv
<1>1. CASE Evaluator
  BY <1>1, InlineEvaluator
<1>2. CASE TimeOut
  <2>1. inline = NoEval /\ inline' = TimeoutEval /\ TimeoutEval # NoEval
    BY <1>2, Constructed DEF TimeOut
  <2>2. UNCHANGED <<judge, rows, payload, queued, run>>
    BY <1>2 DEF TimeOut
  <2> QED
    BY <2>1, <2>2 DEF InlineInv, InlineKnown, NodeRowsKnown, PayloadKnown, RunsKnown,
                      BadgeOnlyWorsens
<1>3. CASE Dispatch
  <2>1. PICK v \in Version :
          /\ IF inline.version = NoVersion THEN TRUE ELSE v = inline.version
          /\ payload' = [inline EXCEPT !.version = v]
    BY <1>3 DEF Dispatch
  <2>2. inline \in Eval
    BY <1>0, <1>3 DEF Dispatch, TypeOK
  <2>3. payload'.badge = inline.badge /\ payload'.version = v /\ payload' # NoEval
    BY <2>1, <2>2 DEF Eval, NoEval, Badge
  <2>4. UNCHANGED <<judge, inline, rows>>
    BY <1>3 DEF Dispatch
  <2>5. inline # NoEval
    BY <1>3 DEF Dispatch
  <2>6. PayloadKnown'
    BY <2>1, <2>3, <2>4, <2>5 DEF PayloadKnown
  <2> QED
    BY <2>3, <2>4, <2>6 DEF InlineInv, InlineKnown, NodeRowsKnown, RunsKnown,
                            BadgeOnlyWorsens
<1>4. CASE Deliver
  <2>1. queued /\ UNCHANGED <<judge, inline, rows, payload, queued>>
    BY <1>4 DEF Deliver
  <2> QED
    BY <2>1 DEF InlineInv, InlineKnown, NodeRowsKnown, PayloadKnown, RunsKnown,
                BadgeOnlyWorsens
<1>5. ASSUME NEW r \in Run, Shadow(r) \/ Die(r)
      PROVE  InlineInv'
  <2>1. run[r].pc # "idle"
    BY <1>5 DEF Shadow, ScoreRun, FileEscalation, CompareSteps, PatchRow, Reply, Die,
                RunStep, RunEnds
  <2>2. payload # NoEval
    BY <2>1 DEF InlineInv, RunsKnown
  <2>3. UNCHANGED <<judge, inline, payload>>
    BY <1>5 DEF Shadow, ScoreRun, FileEscalation, CompareSteps, PatchRow, Reply, Die
  <2>4. NodeRowsKnown' /\ BadgeOnlyWorsens'
    <3>1. CASE PatchRow(r)
      BY <3>1, PatchKeepsRows
    <3>2. CASE UNCHANGED rows
      BY <2>3, <3>2 DEF InlineInv, NodeRowsKnown, BadgeOnlyWorsens
    <3> QED
      BY <1>5, <3>1, <3>2 DEF Shadow, ScoreRun, FileEscalation, CompareSteps, Reply, Die
  <2> QED
    BY <2>2, <2>3, <2>4 DEF InlineInv, InlineKnown, PayloadKnown, RunsKnown
<1>6. CASE Others
  <2>1. UNCHANGED <<judge, inline, payload, queued, run>>
    BY <1>6 DEF Others, EvaluateThread, InsertEvaluation, PatchEvaluation, Escalate,
                UpdateEvaluationConfig, Expire
  <2>2. NodeRowsKnown' /\ BadgeOnlyWorsens'
    <3>1. CASE UNCHANGED rows
      BY <2>1, <3>1 DEF InlineInv, NodeRowsKnown, BadgeOnlyWorsens
    <3>2. ASSUME NEW badge, NEW v, rows' = Inserted("endpoint", badge, v)
          PROVE  NodeRowsKnown' /\ BadgeOnlyWorsens'
      <4>1. /\ DOMAIN rows' = DOMAIN rows \cup {Len(rows')}
            /\ \A i \in DOMAIN rows : rows'[i] = rows[i]
            /\ rows'[Len(rows')].by = "endpoint"
        BY <1>0, <3>2, Appended DEF Latest
      <4> QED
        BY <2>1, <4>1 DEF InlineInv, NodeRowsKnown, BadgeOnlyWorsens
    <3>3. ASSUME NEW result \in ShadowResults,
                 rows' = Patched(
                   [Latest EXCEPT
                      !.scores["context_relevance"] = result.scores["context_relevance"],
                      !.scores["completeness"] = result.scores["completeness"],
                      !.completed = TRUE])
          PROVE  NodeRowsKnown' /\ BadgeOnlyWorsens'
      <4> DEFINE row == [Latest EXCEPT
                      !.scores["context_relevance"] = result.scores["context_relevance"],
                      !.scores["completeness"] = result.scores["completeness"],
                      !.completed = TRUE]
      <4>1. rows # << >> => /\ row.by = Latest.by /\ row.quality = Latest.quality
                            /\ row.version = Latest.version /\ row.badge = Latest.badge
        BY <1>0, LatestType DEF MetricRow
      <4>2. rows' = Patched(row)
        BY <3>3
      <4> QED
        BY <2>1, <4>1, <4>2, OtherPatchKeepsRows
    <3>4. CASE Escalate
      <4> DEFINE row == [Latest EXCEPT !.override = TRUE]
      <4>1. rows # << >> => /\ row.by = Latest.by /\ row.quality = Latest.quality
                            /\ row.version = Latest.version /\ row.badge = Latest.badge
        BY <1>0, LatestType DEF MetricRow
      <4>2. rows' = Patched(row)
        BY <3>4 DEF Escalate
      <4> QED
        BY <2>1, <4>1, <4>2, OtherPatchKeepsRows
    <3> QED
      BY <1>6, <3>1, <3>2, <3>3, <3>4
         DEF Others, EvaluateThread, InsertEvaluation, PatchEvaluation, Attempt,
             UpdateEvaluationConfig, Expire
  <2> QED
    BY <2>1, <2>2 DEF InlineInv, InlineKnown, PayloadKnown, RunsKnown
<1>7. CASE UNCHANGED vars
  BY <1>7 DEF vars, InlineInv, InlineKnown, NodeRowsKnown, PayloadKnown, RunsKnown,
              BadgeOnlyWorsens
<1> QED
  BY <1>1, <1>2, <1>3, <1>4, <1>5, <1>6, <1>7 DEF Next, Others

\* Whatever is repeated, late or lost, the shadow evaluation never improves the
\* badge InlineEvaluator gave.
THEOREM ShadowOnlyWorsens == Spec => []BadgeOnlyWorsens
<1>1. TypeInv /\ InlineInv /\ [Next]_vars => (TypeInv /\ InlineInv)'
  BY TypeStep, InlineStep
<1>2. InlineInv => BadgeOnlyWorsens
  BY DEF InlineInv
<1> QED
  BY <1>1, <1>2, TypeInit, InlineInit, PTL DEF Spec

\* The row of the node and the payload name the same thresholds.
THEOREM JudgedAlike == Spec => []SameThresholds
<1>1. TypeInv /\ InlineInv /\ [Next]_vars => (TypeInv /\ InlineInv)'
  BY TypeStep, InlineStep
<1>2. TypeInv /\ InlineInv => SameThresholds
  <2> SUFFICES ASSUME TypeInv, InlineInv, payload # NoEval, NEW i \in DOMAIN rows,
                      inline.version # NoVersion, rows[i].by # "endpoint"
               PROVE  rows[i].version = payload.version
    BY DEF SameThresholds
  <2>1. rows[i].by = "node"
    <3>1. rows[i] \in MetricRow
      BY DEF TypeInv, TypeOK
    <3> QED
      BY <3>1 DEF MetricRow
  <2>2. inline # NoEval /\ inline # TimeoutEval /\ inline.version = payload.version
    BY DEF InlineInv, PayloadKnown, TimeoutEval
  <2>3. judge.pc = "over"
    BY <2>2 DEF InlineInv, InlineKnown
  <2> QED
    BY <2>1, <2>2, <2>3 DEF InlineInv, NodeRowsKnown
<1> QED
  BY <1>1, <1>2, TypeInit, InlineInit, PTL DEF Spec

(***************************************************************************)
(* The tasks of escalations.                                               *)
(***************************************************************************)

Filed == <<"shadow_escalation", "P2">> \in tasks \/ "task failed" \in mishaps

\* An execution that is to lower the badge has filed its task.
TaskInv ==
  /\ \A r \in Run : run[r].pc \in {"comparing", "patching"} /\ Escalates(r) => Filed
  /\ EscalationHasTask

\* No step takes a task or a mishap back.
LEMMA FiledStays ==
  ASSUME [Next]_vars, Filed
  PROVE  Filed'
<1>1. tasks \subseteq tasks'
  BY DEF Next, Evaluator, Shadow, JudgeResponse, SkipResponse, InsertRow, SetThreadFlag,
         FileInline, Return, TimeOut, Dispatch, Deliver, ScoreRun, FileEscalation,
         CompareSteps, PatchRow, Reply, Die, EvaluateThread, InsertEvaluation,
         PatchEvaluation, Escalate, UpdateEvaluationConfig, Expire, CreateTask, Attempt,
         vars
<1>2. mishaps \subseteq mishaps'
  BY DEF Next, Evaluator, Shadow, JudgeResponse, SkipResponse, InsertRow, SetThreadFlag,
         FileInline, Return, TimeOut, Dispatch, Send, Deliver, ScoreRun, FileEscalation,
         CompareSteps, PatchRow, Reply, Die, EvaluateThread, InsertEvaluation,
         PatchEvaluation, Escalate, UpdateEvaluationConfig, Expire, CreateTask, Attempt,
         Mishappens, vars
<1> QED
  BY <1>1, <1>2 DEF Filed

\* Which executions a step may bring to the point where the task is filed.
LEMMA FiledRuns ==
  ASSUME TypeInv, InlineInv, TaskInv, [Next]_vars, NEW r \in Run,
         run'[r].pc \in {"comparing", "patching"}, Escalates(r)'
  PROVE  Filed'
<1>0. TypeOK /\ run \in [Run -> Execution]
  BY DEF TypeInv, TypeOK
<1>1. CASE run'[r] = run[r] /\ payload' = payload
  <2>1. Escalates(r)
    BY <1>1 DEF Escalates, ShadowBadge
  <2> QED
    BY <1>1, <2>1, FiledStays DEF TaskInv
<1>2. ASSUME NEW q \in Run, Shadow(q) \/ Die(q), ~(run'[r] = run[r] /\ payload' = payload)
      PROVE  Filed'
  <2>1. payload' = payload
    BY <1>2 DEF Shadow, ScoreRun, FileEscalation, CompareSteps, PatchRow, Reply, Die
  <2>2. q = r
    <3>1. q # r => run'[r] = run[r]
      BY <1>0, <1>2 DEF Shadow, ScoreRun, FileEscalation, CompareSteps, PatchRow, Reply,
                        Die, RunStep, RunEnds
    <3> QED
      BY <1>2, <2>1, <3>1
  <2>3. CASE FileEscalation(r)
    <3>1. run'[r].scores = run[r].scores /\ run'[r].verdicts = run[r].verdicts
      BY <1>0, <2>3 DEF FileEscalation, RunStep, Execution
    <3>2. Escalates(r)
      BY <2>1, <3>1 DEF Escalates, ShadowBadge
    <3> QED
      BY <2>3, <3>2 DEF FileEscalation, CreateTask, Attempt, Mishappens, Filed
  <2>4. CASE CompareSteps(r)
    <3>1. /\ run'[r].scores = run[r].scores /\ run'[r].verdicts = run[r].verdicts
          /\ run[r].pc = "comparing"
      BY <1>0, <2>4 DEF CompareSteps, RunStep, Execution
    <3>2. Escalates(r)
      BY <2>1, <3>1 DEF Escalates, ShadowBadge
    <3> QED
      BY <3>1, <3>2, FiledStays DEF TaskInv
  <2>5. CASE ScoreRun(r)
    <3>1. run'[r].pc = "filing"
      BY <1>0, <2>5 DEF ScoreRun, Execution
    <3> QED
      BY <3>1
  <2>6. CASE PatchRow(r) \/ Reply(r) \/ Die(r)
    <3>1. run'[r].pc \in {"replying", "done", "dead"}
      BY <1>0, <2>6 DEF PatchRow, Reply, Die, RunStep, RunEnds, Execution, Idle
    <3> QED
      BY <3>1
  <2> QED
    BY <1>2, <2>2, <2>3, <2>4, <2>5, <2>6 DEF Shadow
<1>3. ASSUME Dispatch \/ Deliver
      PROVE  Filed'
  <2>1. PICK via \in {"thread", "webhook"} :
          StartRun(via) \/ UNCHANGED run
    BY <1>3 DEF Dispatch, Send, Deliver
  <2>2. run'[r] = run[r] \/ run'[r].pc = "scoring"
    BY <1>0, <2>1 DEF StartRun, Execution
  <2>3. run[r].pc \in {"comparing", "patching"}
    BY <2>2
  <2>4. ~Dispatch
    BY <2>3 DEF Dispatch, InlineInv, RunsKnown
  <2>5. payload' = payload /\ run'[r] = run[r]
    BY <1>3, <2>2, <2>4 DEF Deliver
  <2> QED
    BY <1>1, <2>5
<1>4. CASE UNCHANGED <<run, payload>>
  BY <1>1, <1>4
<1> QED
  BY <1>1, <1>2, <1>3, <1>4
     DEF Next, Evaluator, JudgeResponse, SkipResponse, InsertRow, SetThreadFlag,
         FileInline, Return, TimeOut, EvaluateThread, InsertEvaluation, PatchEvaluation,
         Escalate, UpdateEvaluationConfig, Expire, vars

\* A patch of the endpoints: of its scores, or of its override.
EndpointPatch(row) ==
  /\ rows # << >>
  /\ row.source = Latest.source /\ row.badge = Latest.badge
  /\ row.verdicts = Latest.verdicts
  /\ Latest.completed => row.completed
  /\ Latest.override => row.override
  /\ \/ visit' = "over"
     \/ row.scores = Latest.scores /\ row.completed = Latest.completed /\ row.override

\* How a step changes the rows.
LEMMA RowSteps ==
  ASSUME TypeInv, [Next]_vars
  PROVE  \/ UNCHANGED rows
         \/ InsertRow /\ rows' = Inserted("node", judge.badge, judge.version)
         \/ visit' = "patching" /\ \E badge, v : rows' = Inserted("endpoint", badge, v)
         \/ \E r \in Run : /\ PatchRow(r) /\ rows # << >>
                           /\ rows' = Patched(WithScores(Latest, r))
         \/ \E row : /\ PatchEvaluation \/ Escalate
                     /\ rows' = Patched(row) /\ EndpointPatch(row)
<1>0. TypeOK
  BY DEF TypeInv
<1>1. CASE InsertRow
  BY <1>1 DEF InsertRow, Attempt
<1>2. CASE InsertEvaluation
  BY <1>2 DEF InsertEvaluation, Attempt
<1>3. ASSUME NEW r \in Run, PatchRow(r)
      PROVE  \/ UNCHANGED rows
             \/ rows # << >> /\ rows' = Patched(WithScores(Latest, r))
  BY <1>3 DEF PatchRow, Attempt, Patched
<1>4. CASE PatchEvaluation
  <2>1. PICK result \in ShadowResults :
          Attempt(rows' = Patched(
                    [Latest EXCEPT
                       !.scores["context_relevance"] = result.scores["context_relevance"],
                       !.scores["completeness"] = result.scores["completeness"],
                       !.completed = TRUE]),
                  UNCHANGED rows, "patch failed")
    BY <1>4 DEF PatchEvaluation
  <2> DEFINE row == [Latest EXCEPT
                       !.scores["context_relevance"] = result.scores["context_relevance"],
                       !.scores["completeness"] = result.scores["completeness"],
                       !.completed = TRUE]
  <2>2. rows' = rows \/ rows' = Patched(row)
    BY <2>1 DEF Attempt
  <2>3. CASE rows # << >>
    <3>1. /\ row.source = Latest.source /\ row.badge = Latest.badge
          /\ row.verdicts = Latest.verdicts /\ row.completed
          /\ row.override = Latest.override
      BY <1>0, <2>3, LatestType DEF MetricRow
    <3> QED
      BY <1>4, <2>2, <2>3, <3>1 DEF EndpointPatch, PatchEvaluation
  <2>4. CASE rows = << >>
    BY <2>2, <2>4 DEF Patched
  <2> QED
    BY <2>3, <2>4
<1>5. CASE Escalate
  <2> DEFINE row == [Latest EXCEPT !.override = TRUE]
  <2>1. rows # << >> /\ rows' = Patched(row)
    BY <1>5 DEF Escalate
  <2>2. /\ row.source = Latest.source /\ row.badge = Latest.badge
        /\ row.verdicts = Latest.verdicts /\ row.scores = Latest.scores
        /\ row.completed = Latest.completed /\ row.override
    BY <1>0, <2>1, LatestType DEF MetricRow
  <2> QED
    BY <1>5, <2>1, <2>2 DEF EndpointPatch
<1> QED
  BY <1>1, <1>2, <1>3, <1>4, <1>5
     DEF Next, Evaluator, Shadow, JudgeResponse, SkipResponse, SetThreadFlag, FileInline,
         Return, TimeOut, Dispatch, Deliver, ScoreRun, FileEscalation, CompareSteps, Reply,
         Die, EvaluateThread, UpdateEvaluationConfig, Expire, vars

\* A row comes to hold a badge of the shadow evaluation by an execution that
\* lowers it only.
LEMMA SourceStep ==
  ASSUME TypeInv, [Next]_vars, NEW i \in DOMAIN rows', rows'[i].source = "shadow"
  PROVE  \/ i \in DOMAIN rows /\ rows[i].source = "shadow"
         \/ \E r \in Run : PatchRow(r) /\ Escalates(r)
<1>0. TypeOK
  BY DEF TypeInv
<1>1. ASSUME NEW by, NEW badge, NEW v, rows' = Inserted(by, badge, v)
      PROVE  i \in DOMAIN rows /\ rows[i].source = "shadow"
  <2>1. /\ DOMAIN rows' = DOMAIN rows \cup {Len(rows')}
        /\ \A j \in DOMAIN rows : rows'[j] = rows[j]
        /\ rows'[Len(rows')].source = "inline"
    BY <1>0, <1>1, Appended DEF Latest
  <2> QED
    BY <2>1
<1>2. ASSUME NEW row, rows' = Patched(row), rows # << >>
      PROVE  /\ i \in DOMAIN rows
             /\ \/ rows[i].source = "shadow"
                \/ row.source = "shadow" /\ i = Len(rows)
  BY <1>0, <1>2, Replaced
<1>3. ASSUME NEW r \in Run, PatchRow(r), rows # << >>,
             rows' = Patched(WithScores(Latest, r)), ~Escalates(r)
      PROVE  i \in DOMAIN rows /\ rows[i].source = "shadow"
  <2>1. WithScores(Latest, r).source = rows[Len(rows)].source
    BY <1>0, <1>3, PatchedScores DEF Latest
  <2> QED
    BY <1>2, <1>3, <2>1
<1>4. ASSUME NEW row, rows' = Patched(row), EndpointPatch(row)
      PROVE  i \in DOMAIN rows /\ rows[i].source = "shadow"
  BY <1>2, <1>4 DEF EndpointPatch, Latest
<1> QED
  BY <1>1, <1>3, <1>4, RowSteps

LEMMA TaskInit == Init => TaskInv
BY DEF Init, TaskInv, Idle, EscalationHasTask

LEMMA TaskStep == TypeInv /\ InlineInv /\ TaskInv /\ [Next]_vars => TaskInv'
<1> SUFFICES ASSUME TypeInv, InlineInv, TaskInv, [Next]_vars
             PROVE  TaskInv'
  OBVIOUS
<1>1. ASSUME NEW r \in Run, run'[r].pc \in {"comparing", "patching"}, Escalates(r)'
      PROVE  Filed'
  BY <1>1, FiledRuns
<1>2. ASSUME NEW i \in DOMAIN rows', rows'[i].source = "shadow"
      PROVE  Filed'
  <2>1. CASE i \in DOMAIN rows /\ rows[i].source = "shadow"
    BY <2>1, FiledStays DEF TaskInv, EscalationHasTask, Filed
  <2>2. ASSUME NEW r \in Run, PatchRow(r), Escalates(r)
        PROVE  Filed'
    BY <2>2, FiledStays DEF TaskInv, PatchRow, RunEnds
  <2> QED
    BY <1>2, <2>1, <2>2, SourceStep
<1> QED
  BY <1>1, <1>2 DEF TaskInv, EscalationHasTask, Filed

\* A badge is lowered only after its review task was created, or failed to be.
THEOREM EscalationAsksFirst == Spec => []EscalationHasTask
<1>1. TypeInv /\ InlineInv /\ TaskInv /\ [Next]_vars => (TypeInv /\ InlineInv /\ TaskInv)'
  BY TypeStep, InlineStep, TaskStep
<1>2. TaskInv => EscalationHasTask
  BY DEF TaskInv
<1> QED
  BY <1>1, <1>2, TypeInit, InlineInit, TaskInit, PTL DEF Spec

(***************************************************************************)
(* Whether a row is coherent, and whether the latest has the results.      *)
(***************************************************************************)

\* No step takes back that an execution has tried to patch, or what disturbs the
\* row: the endpoint and what went wrong.
LEMMA Lasting ==
  ASSUME TypeInv, [Next]_vars
  PROVE  /\ Patches \subseteq Patches'
         /\ visit \in {"patching", "over"} => visit' \in {"patching", "over"}
         /\ visit = "over" => visit' = "over"
         /\ mishaps \subseteq mishaps'
         /\ \A r \in Run : PatchRow(r) => r \notin Patches /\ r \in Patches'
<1>0. TypeOK /\ run \in [Run -> Execution]
  BY DEF TypeInv, TypeOK
<1>1. mishaps \subseteq mishaps'
  BY DEF Next, Evaluator, Shadow, JudgeResponse, SkipResponse, InsertRow, SetThreadFlag,
         FileInline, Return, TimeOut, Dispatch, Send, Deliver, ScoreRun, FileEscalation,
         CompareSteps, PatchRow, Reply, Die, EvaluateThread, InsertEvaluation,
         PatchEvaluation, Escalate, UpdateEvaluationConfig, Expire, CreateTask, Attempt,
         Mishappens, vars
<1>2. /\ visit \in {"patching", "over"} => visit' \in {"patching", "over"}
      /\ visit = "over" => visit' = "over"
  BY DEF Next, Evaluator, Shadow, JudgeResponse, SkipResponse, InsertRow, SetThreadFlag,
         FileInline, Return, TimeOut, Dispatch, Deliver, ScoreRun, FileEscalation,
         CompareSteps, PatchRow, Reply, Die, EvaluateThread, InsertEvaluation,
         PatchEvaluation, Escalate, UpdateEvaluationConfig, Expire, vars
<1>3. ASSUME NEW q \in Run, run[q].pc \in {"replying", "done"}
      PROVE  run'[q].pc \in {"replying", "done"}
  <2>1. CASE run' = run
    BY <1>3, <2>1
  <2>2. ASSUME NEW via, StartRun(via)
        PROVE  run'[q] = run[q]
    BY <1>0, <1>3, <2>2 DEF StartRun, Execution
  <2>3. ASSUME NEW r \in Run, Shadow(r) \/ Die(r), r # q
        PROVE  run'[q] = run[q]
    BY <1>0, <2>3 DEF Shadow, ScoreRun, FileEscalation, CompareSteps, PatchRow, Reply, Die,
                      RunStep, RunEnds
  <2>4. CASE Shadow(q) \/ Die(q)
    <3>1. Reply(q)
      BY <1>3, <2>4 DEF Shadow, ScoreRun, FileEscalation, CompareSteps, PatchRow, Reply,
                        Die, RunStep, RunEnds
    <3> QED
      BY <1>0, <3>1 DEF Reply, RunStep, Execution
  <2> QED
    BY <1>3, <2>1, <2>2, <2>3, <2>4
       DEF Next, Evaluator, JudgeResponse, SkipResponse, InsertRow, SetThreadFlag,
           FileInline, Return, TimeOut, Dispatch, Send, Deliver, EvaluateThread,
           InsertEvaluation, PatchEvaluation, Escalate, UpdateEvaluationConfig, Expire, vars
<1>4. ASSUME NEW r \in Run, PatchRow(r)
      PROVE  run[r].pc = "patching" /\ run'[r].pc \in {"replying", "done"}
  BY <1>0, <1>4 DEF PatchRow, RunEnds, Idle
<1>5. Patches \subseteq Patches'
  BY <1>3 DEF Patches
<1>6. \A r \in Run : PatchRow(r) => r \notin Patches /\ r \in Patches'
  BY <1>4 DEF Patches
<1> QED
  BY <1>1, <1>2, <1>5, <1>6

\* Two that have tried are more than one.
LEMMA PatchedTwice ==
  ASSUME Patches \subseteq Patches'
  PROVE  /\ Cardinality(Patches) > 1 => Cardinality(Patches') > 1
         /\ \A r \in Patches' : r \notin Patches /\ Patches # {} => Cardinality(Patches') > 1
<1> DEFINE P == Patches
           Q == {r \in Run : run'[r].pc \in {"replying", "done"}}
<1>0. Patches' = Q
  BY DEF Patches
<1>1. IsFiniteSet(Run)
  BY FS_Interval, EvaluationAssumption DEF Run
<1>2. P \subseteq Run /\ Q \subseteq Run
  BY DEF Patches
<1>3. IsFiniteSet(P) /\ IsFiniteSet(Q)
  BY <1>1, <1>2, FS_Subset
<1>4. P \subseteq Q
  BY <1>0
<1> HIDE DEF P, Q
<1>5. Cardinality(P) \in Nat /\ Cardinality(Q) \in Nat
  BY <1>3, FS_CardinalityType
<1>6. Cardinality(P) <= Cardinality(Q)
  BY <1>3, <1>4, FS_Subset
<1>7. ASSUME NEW r \in Q, r \notin P, P # {}
      PROVE  Cardinality(Q) > 1
  <2>1. Cardinality(P) # 0
    BY <1>3, <1>7, FS_EmptySet
  <2>2. IsFiniteSet(P \cup {r}) /\ Cardinality(P \cup {r}) = Cardinality(P) + 1
    BY <1>3, <1>7, FS_AddElement
  <2>3. P \cup {r} \subseteq Q
    BY <1>4
  <2>4. Cardinality(P \cup {r}) <= Cardinality(Q)
    BY <1>3, <2>3, FS_Subset
  <2> QED
    BY <1>5, <2>1, <2>2, <2>4
<1>8. Cardinality(P) > 1 => Cardinality(Q) > 1
  BY <1>5, <1>6
<1> QED
  BY <1>0, <1>7, <1>8 DEF P

Undone == Patches = {} /\ visit # "over"

\* A row nobody has patched is as it was inserted.
CoherentInv ==
  /\ Undone => \A i \in DOMAIN rows :
                 rows[i].verdicts = NoVerdicts /\ rows[i].source = "inline"
  /\ CoherentRow

LEMMA CoherentInit == Init => CoherentInv
BY DEF Init, CoherentInv, CoherentRow

\* The badge a row deserves depends on the payload, which is there when a row can
\* have one of the shadow evaluation.
LEMMA PayloadStays ==
  ASSUME InlineInv, [Next]_vars
  PROVE  \/ payload' = payload
         \/ Patches = {} /\ UNCHANGED <<rows, visit>>
<1>1. CASE Dispatch
  BY <1>1 DEF Dispatch, InlineInv, RunsKnown, Patches
<1> QED
  BY <1>1 DEF Next, Evaluator, Shadow, JudgeResponse, SkipResponse, InsertRow, SetThreadFlag,
              FileInline, Return, TimeOut, Deliver, ScoreRun, FileEscalation, CompareSteps,
              PatchRow, Reply, Die, EvaluateThread, InsertEvaluation, PatchEvaluation,
              Escalate, UpdateEvaluationConfig, Expire, vars

Deserved(i) == rows[i].badge = ShadowBadge(rows[i].scores, rows[i].verdicts)

Excused == Cardinality(Patches) > 1 \/ visit = "over"

LEMMA CoherentStep == TypeInv /\ InlineInv /\ CoherentInv /\ [Next]_vars => CoherentInv'
<1> SUFFICES ASSUME TypeInv, InlineInv, CoherentInv, [Next]_vars
             PROVE  CoherentInv'
  OBVIOUS
<1>0. TypeOK
  BY DEF TypeInv
<1>1. /\ Undone' => Undone
      /\ Excused => Excused'
  BY Lasting, PatchedTwice DEF Undone, Excused
<1>2. \/ Undone /\ UNCHANGED <<rows, visit>>
      \/ payload' = payload
      \/ visit = "over"
  BY PayloadStays DEF Undone
<1>3. ASSUME NEW i \in DOMAIN rows, rows'[i].source = "shadow", rows[i].source = "shadow",
             rows'[i].badge = rows[i].badge, rows'[i].scores = rows[i].scores,
             rows'[i].verdicts = rows[i].verdicts, payload' = payload
      PROVE  Deserved(i)' \/ Excused'
  <2>1. Deserved(i) \/ Excused
    BY <1>3 DEF CoherentInv, CoherentRow, Deserved, Excused
  <2> QED
    BY <1>1, <1>3, <2>1 DEF ShadowBadge, Deserved
<1>4. CASE UNCHANGED rows
  <2>1. CASE payload' = payload
    BY <1>1, <1>3, <1>4, <2>1 DEF CoherentInv, CoherentRow, Deserved, Excused
  <2>2. CASE Undone /\ UNCHANGED <<rows, visit>>
    BY <1>1, <1>4, <2>2 DEF CoherentInv, CoherentRow
  <2>3. CASE visit = "over"
    BY <2>3, Lasting DEF CoherentInv, CoherentRow, Undone
  <2> QED
    BY <1>2, <2>1, <2>2, <2>3
<1>5. ASSUME NEW by, NEW badge, NEW v, rows' = Inserted(by, badge, v),
             payload' = payload
      PROVE  CoherentInv'
  <2>1. /\ DOMAIN rows' = DOMAIN rows \cup {Len(rows')}
        /\ \A j \in DOMAIN rows : rows'[j] = rows[j]
        /\ rows'[Len(rows')].source = "inline"
        /\ rows'[Len(rows')].verdicts = NoVerdicts
    BY <1>0, <1>5, Appended DEF Latest
  <2>2. ASSUME NEW i \in DOMAIN rows, rows[i].source = "shadow"
        PROVE  Deserved(i)' \/ Excused'
    BY <1>3, <1>5, <2>1, <2>2
  <2> QED
    BY <1>1, <2>1, <2>2 DEF CoherentInv, CoherentRow, Deserved, Excused
<1>6. ASSUME NEW r \in Run, PatchRow(r), rows # << >>,
             rows' = Patched(WithScores(Latest, r))
      PROVE  CoherentInv'
  <2> DEFINE row == WithScores(Latest, r)
             n == Len(rows)
  <2>1. /\ DOMAIN rows' = DOMAIN rows
        /\ \A i \in DOMAIN rows : i # n => rows'[i] = rows[i]
        /\ n \in DOMAIN rows /\ rows'[n] = row /\ Latest = rows[n]
    BY <1>0, <1>6, Replaced DEF Latest
  <2>2. r \notin Patches /\ r \in Patches' /\ payload' = payload /\ visit' = visit
    BY <1>6, Lasting DEF PatchRow
  <2>3. ~Undone'
    BY <2>2 DEF Undone
  <2>4. CASE Patches # {} \/ visit = "over"
    BY <2>2, <2>3, <2>4, Lasting, PatchedTwice DEF CoherentInv, CoherentRow
  <2>5. CASE Undone
    <3>1. \A i \in DOMAIN rows :
            rows[i].verdicts = NoVerdicts /\ rows[i].source = "inline"
      BY <2>5 DEF CoherentInv
    <3>2. /\ row.scores = run[r].scores
          /\ row.verdicts = run[r].verdicts
          /\ Escalates(r) => row.badge = ShadowBadge(run[r].scores, run[r].verdicts)
          /\ ~Escalates(r) => row.source = "inline"
      BY <1>0, <1>6, <2>1, <3>1, PatchedScores
    <3>3. row.source = "shadow" => row.badge = ShadowBadge(row.scores, row.verdicts)
      BY <3>2
    <3> HIDE DEF row
    <3>4. ASSUME NEW i \in DOMAIN rows', rows'[i].source = "shadow"
          PROVE  Deserved(i)'
      <4>1. i = n
        <5> HIDE DEF n
        <5> QED
          BY <2>1, <3>1, <3>4
      <4>2. rows'[i] = row
        BY <2>1, <4>1
      <4> QED
        BY <2>2, <3>3, <3>4, <4>2 DEF ShadowBadge, Deserved
    <3> QED
      BY <2>3, <3>4 DEF CoherentInv, CoherentRow, Deserved
  <2> QED
    BY <2>4, <2>5 DEF Undone
<1>7. ASSUME NEW row, rows' = Patched(row), EndpointPatch(row), payload' = payload
      PROVE  CoherentInv'
  <2> DEFINE n == Len(rows)
  <2>1. /\ DOMAIN rows' = DOMAIN rows
        /\ \A i \in DOMAIN rows : i # n => rows'[i] = rows[i]
        /\ n \in DOMAIN rows /\ rows'[n] = row /\ Latest = rows[n]
    BY <1>0, <1>7, Replaced DEF Latest, EndpointPatch
  <2>2. CASE visit' = "over"
    BY <2>2 DEF CoherentInv, CoherentRow, Undone
  <2>3. CASE visit' # "over"
    <3>1. /\ row.source = rows[n].source /\ row.badge = rows[n].badge
          /\ row.verdicts = rows[n].verdicts /\ row.scores = rows[n].scores
      BY <1>7, <2>1, <2>3 DEF EndpointPatch
    <3>2. ASSUME NEW i \in DOMAIN rows, rows'[i].source = "shadow"
          PROVE  Deserved(i)' \/ Excused'
      <4>1. /\ rows'[i].source = rows[i].source /\ rows'[i].badge = rows[i].badge
            /\ rows'[i].verdicts = rows[i].verdicts /\ rows'[i].scores = rows[i].scores
        BY <2>1, <3>1
      <4> QED
        BY <1>3, <1>7, <3>2, <4>1
    <3> HIDE DEF n
    <3> QED
      BY <1>1, <2>1, <3>1, <3>2 DEF CoherentInv, CoherentRow, Deserved, Excused
  <2> QED
    BY <2>2, <2>3
<1>8. \/ UNCHANGED rows
      \/ payload' = payload /\ \E by, badge, v : rows' = Inserted(by, badge, v)
      \/ \E r \in Run : /\ PatchRow(r) /\ rows # << >>
                        /\ rows' = Patched(WithScores(Latest, r))
      \/ payload' = payload /\ \E row : rows' = Patched(row) /\ EndpointPatch(row)
  BY RowSteps, PayloadStays
<1> QED
  BY <1>4, <1>5, <1>6, <1>7, <1>8

\* A badge of the shadow evaluation is the one its row's scores deserve, unless
\* another execution or the evaluate endpoint patched the row, too.
THEOREM BadgesCoherent == Spec => []CoherentRow
<1>1. TypeInv /\ InlineInv /\ CoherentInv /\ [Next]_vars
        => (TypeInv /\ InlineInv /\ CoherentInv)'
  BY TypeStep, InlineStep, CoherentStep
<1>2. CoherentInv => CoherentRow
  BY DEF CoherentInv
<1> QED
  BY <1>1, <1>2, TypeInit, InlineInit, CoherentInit, PTL DEF Spec

Disturbed == TimedOut \/ visit \in {"patching", "over"}

Repeated == "insert repeated" \in mishaps

\* Until the judge is over there is nothing to dispatch, so no row is completed;
\* unless its insert is repeated, the first row is the only one.
ResultsInv ==
  Disturbed \/ /\ inline # NoEval => judge.pc = "over"
               /\ judge.pc # "over" => \A i \in DOMAIN rows : ~rows[i].completed
               /\ judge.pc = "judging" \/ (judge.pc = "inserting" /\ ~Repeated)
                    => rows = << >>
               /\ \A i \in DOMAIN rows :
                    /\ rows[i].completed => Latest.completed
                    /\ rows[i].override => Latest.override \/ Repeated

LEMMA ResultsInit == Init => ResultsInv
BY DEF Init, ResultsInv

\* Where a step takes the judge, and the checkpoint.
LEMMA JudgeSteps ==
  ASSUME TypeInv, InlineInv, [Next]_vars, ~Disturbed'
  PROVE  /\ judge'.pc = "judging" => judge.pc = "judging"
         /\ judge'.pc = "inserting" => judge.pc \in {"judging", "inserting"}
         /\ judge.pc = "over" => judge'.pc = "over"
         /\ \/ UNCHANGED inline
            \/ judge'.pc = "over" /\ judge.pc # "over" /\ UNCHANGED rows
         /\ InsertRow => judge.pc = "inserting" /\ (judge'.pc = "inserting" => Repeated')
<1>0. judge \in Judge
  BY DEF TypeInv, TypeOK
<1>1. CASE JudgeResponse \/ SkipResponse
  <2>1. judge.pc = "judging" /\ judge'.pc = "inserting"
    BY <1>0, <1>1 DEF JudgeResponse, SkipResponse, Judge
  <2> QED
    BY <1>1, <2>1 DEF JudgeResponse, SkipResponse, InsertRow, JudgeStep
<1>2. CASE InsertRow
  <2>1. /\ judge.pc = "inserting"
        /\ \/ judge'.pc \in {"flagging", "returning"}
           \/ judge'.pc = "inserting" /\ Mishappens("insert repeated")
    BY <1>0, <1>2 DEF InsertRow, JudgeStep, Judge
  <2> QED
    BY <1>2, <2>1 DEF InsertRow, Mishappens, Repeated
<1>3. CASE SetThreadFlag \/ FileInline
  <2>1. judge.pc \in {"flagging", "filing"} /\ judge'.pc \in {"filing", "returning"}
    BY <1>0, <1>3 DEF SetThreadFlag, FileInline, JudgeStep, Judge
  <2> QED
    BY <1>3, <2>1 DEF SetThreadFlag, FileInline, InsertRow, JudgeStep
<1>4. CASE Return
  <2>1. judge.pc = "returning" /\ judge'.pc = "over" /\ UNCHANGED rows
    BY <1>4 DEF Return, NewJudge
  <2> QED
    BY <2>1 DEF InsertRow, JudgeStep
<1>5. ~TimeOut
  BY DEF TimeOut, Mishappens, Disturbed, TimedOut
<1>6. CASE UNCHANGED <<judge, inline>>
  BY <1>2, <1>6
<1> QED
  BY <1>1, <1>2, <1>3, <1>4, <1>5, <1>6
     DEF Next, Evaluator, Shadow, Dispatch, Deliver, ScoreRun, FileEscalation,
         CompareSteps, PatchRow, Reply, Die, EvaluateThread, InsertEvaluation,
         PatchEvaluation, Escalate, UpdateEvaluationConfig, Expire, vars

LEMMA ResultsStep == TypeInv /\ InlineInv /\ ResultsInv /\ [Next]_vars => ResultsInv'
<1> SUFFICES ASSUME TypeInv, InlineInv, ResultsInv, [Next]_vars, ~Disturbed'
             PROVE  ResultsInv'
  BY DEF ResultsInv
<1>0. TypeOK
  BY DEF TypeInv
<1>1. ~Disturbed /\ (Repeated => Repeated')
  BY Lasting DEF Disturbed, TimedOut, Repeated
<1>2. /\ inline # NoEval => judge.pc = "over"
      /\ judge.pc # "over" => \A i \in DOMAIN rows : ~rows[i].completed
      /\ judge.pc = "judging" \/ (judge.pc = "inserting" /\ ~Repeated) => rows = << >>
      /\ \A i \in DOMAIN rows :
           /\ rows[i].completed => Latest.completed
           /\ rows[i].override => Latest.override \/ Repeated
  BY <1>1 DEF ResultsInv
<1>3. inline' # NoEval => judge'.pc = "over"
  BY <1>2, JudgeSteps
<1>4. CASE UNCHANGED rows
  BY <1>1, <1>2, <1>3, <1>4, JudgeSteps DEF ResultsInv, Latest
<1>5. CASE InsertRow /\ rows' = Inserted("node", judge.badge, judge.version)
  <2>1. /\ DOMAIN rows' = DOMAIN rows \cup {Len(rows')}
        /\ \A j \in DOMAIN rows : rows'[j] = rows[j]
        /\ ~rows'[Len(rows')].completed
    BY <1>0, <1>5, Appended DEF Latest
  <2>2. judge.pc = "inserting" /\ (judge'.pc = "inserting" => Repeated')
    BY <1>5, JudgeSteps
  <2>3. \A i \in DOMAIN rows' : ~rows'[i].completed
    BY <1>2, <2>1, <2>2
  <2>4. judge'.pc # "judging"
    BY <2>2, JudgeSteps
  <2>5. \A i \in DOMAIN rows' : rows'[i].override => Latest'.override \/ Repeated'
    <3>1. CASE Repeated
      BY <1>1, <3>1
    <3>2. CASE rows = << >>
      BY <2>1, <3>2 DEF Latest
    <3> QED
      BY <1>2, <2>2, <3>1, <3>2
  <2> QED
    BY <1>3, <2>2, <2>3, <2>4, <2>5 DEF ResultsInv
<1>6. ASSUME NEW row, rows' = Patched(row), rows # << >>,
             Latest.override => row.override,
             Latest.completed => row.completed,
             row.completed => Latest.completed \/ judge'.pc = "over"
      PROVE  ResultsInv'
  <2>1. /\ DOMAIN rows' = DOMAIN rows
        /\ \A i \in DOMAIN rows : i # Len(rows) => rows'[i] = rows[i]
        /\ Len(rows) \in DOMAIN rows /\ rows'[Len(rows)] = row /\ Latest' = row
        /\ Latest = rows[Len(rows)]
    BY <1>0, <1>6, Replaced DEF Latest
  <2>2. judge.pc = "over" => judge'.pc = "over"
    BY JudgeSteps
  <2>3. \A i \in DOMAIN rows' :
          /\ rows'[i].completed => Latest'.completed
          /\ rows'[i].override => Latest'.override \/ Repeated'
    BY <1>1, <1>2, <1>6, <2>1
  <2>4. judge'.pc # "over" => \A i \in DOMAIN rows' : ~rows'[i].completed
    BY <1>2, <1>6, <2>1, <2>2
  <2>5. ~(judge'.pc = "judging" \/ (judge'.pc = "inserting" /\ ~Repeated'))
    BY <1>1, <1>2, <1>6, JudgeSteps
  <2> QED
    BY <1>3, <2>3, <2>4, <2>5 DEF ResultsInv
<1>7. ASSUME NEW r \in Run, PatchRow(r), rows # << >>,
             rows' = Patched(WithScores(Latest, r))
      PROVE  ResultsInv'
  <2>1. run[r].pc # "idle"
    BY <1>7 DEF PatchRow, RunEnds
  <2>2. inline # NoEval
    BY <2>1 DEF InlineInv, RunsKnown, PayloadKnown
  <2>3. judge'.pc = "over"
    BY <1>2, <2>2, JudgeSteps
  <2>4. WithScores(Latest, r).override = Latest.override /\ WithScores(Latest, r).completed
    BY <1>0, <1>7, PatchedScores
  <2> QED
    BY <1>6, <1>7, <2>3, <2>4
<1>8. ASSUME NEW row, rows' = Patched(row), EndpointPatch(row)
      PROVE  ResultsInv'
  <2>1. visit' # "over"
    BY DEF Disturbed
  <2> QED
    BY <1>6, <1>8, <2>1 DEF EndpointPatch
<1>9. visit' # "patching"
  BY DEF Disturbed
<1> QED
  BY <1>4, <1>5, <1>7, <1>8, <1>9, RowSteps

\* The latest row has what a shadow evaluation and an override have stored.
THEOREM LatestShown == Spec => []LatestHasResults
<1>1. TypeInv /\ InlineInv /\ ResultsInv /\ [Next]_vars
        => (TypeInv /\ InlineInv /\ ResultsInv)'
  BY TypeStep, InlineStep, ResultsStep
<1>2. ResultsInv => LatestHasResults
  BY DEF ResultsInv, LatestHasResults, Disturbed, Repeated
<1> QED
  BY <1>1, <1>2, TypeInit, InlineInit, ResultsInit, PTL DEF Spec
=============================================================================
