-------------------------- MODULE ShadowEvaluation --------------------------
(***************************************************************************)
(* The evaluation of one response: InlineEvaluator of pipeline/nodes.py,   *)
(* whose thread goes on after its timeout; the shadow evaluation that      *)
(* api/routers/evaluation.py dispatches once the graph has ended, by a     *)
(* task queue that delivers at least once or in a thread; and the evaluate *)
(* and escalate endpoints of api/routers/diagnostics.py.  They meet in the *)
(* rows of evaluation_metrics: inserts append a row, patches go to the     *)
(* latest.  Thresholds are cached per process (core/eval_config.py).       *)
(***************************************************************************)
EXTENDS EvaluationBadges, Sequences

CONSTANTS
  Step,           \* the steps of the plan
  Version,        \* versions of the thresholds
  FirstVersion,   \* in evaluation_config at first; an admin changes it once
  NoVersion,      \* no thresholds_snapshot; nothing cached
  ThresholdsOf,   \* what a version says
  Process,        \* server processes
  Home,           \* the one that runs the graph
  Responses,      \* of the graph; what is not judged (NON_RETRIEVAL) left out
  InlineResults,  \* what the inline judge may answer
  ShadowResults,  \* what the shadow judges, or those of the endpoint, may find
  MaxMishaps      \* bound on what goes wrong in a behaviour

ASSUME EvaluationAssumption ==
  /\ IsFiniteSet(Step)
  /\ FirstVersion \in Version /\ NoVersion \notin Version
  /\ ThresholdsOf \in [Version -> Thresholds]
  /\ Home \in Process
  /\ Responses \subseteq {r \in Response : Artifact(r) # "non_retrieval"}
  /\ InlineResults \subseteq [relevance : Score, verdicts : Verdicts(Step)]
  /\ ShadowResults \subseteq [scores : Scores, verdicts : Verdicts(Step)]
  /\ MaxMishaps \in Nat

VARIABLES
  response,   \* final_response
  config,     \* the row of evaluation_config
  cache,      \* _state["value"] of each process
  judge,      \* the thread of InlineEvaluator
  inline,     \* inline_eval of the checkpoint
  rows,       \* evaluation_metrics of the response, by id
  flagged,    \* flagged_for_review of the thread
  tasks,      \* <<reason, priority>> of the review tasks created
  payload,    \* of the dispatched shadow evaluation
  queued,     \* the task queue holds it
  run,        \* executions of the payload
  visit,      \* a call of evaluate_thread
  mishaps     \* what went wrong

vars == <<response, config, cache, judge, inline, rows, flagged, tasks, payload,
          queued, run, visit, mishaps>>

----------------------------------------------------------------------------
(***************************************************************************)
(* Data.                                                                   *)
(***************************************************************************)

Judge ==
  [pc : {"judging", "inserting", "flagging", "filing", "returning", "over"},
   skipped : BOOLEAN,              \* nothing to evaluate: gray
   badge : Badge, scores : Scores, verdicts : Verdicts(Step),
   version : Version \cup {NoVersion}]

NewJudge ==
  [pc |-> "judging", skipped |-> FALSE, badge |-> "gray", scores |-> NoScores,
   verdicts |-> NoVerdicts, version |-> NoVersion]

\* What the dispatch reads of inline_eval.
Eval ==
  [badge : Badge, verdicts : Verdicts(Step), version : Version \cup {NoVersion}]

NoEval == [badge |-> "none"]

\* The fallback of the node: gray, without a snapshot.
TimeoutEval == [badge |-> "gray", verdicts |-> NoVerdicts, version |-> NoVersion]

MetricRow ==
  [by : {"node", "endpoint"},      \* who inserted it
   badge : Badge,
   quality : Badge,                \* quality_badge, the badge it began with
   source : {"inline", "shadow"},  \* badge_source
   version : Version,              \* thresholds_snapshot
   scores : Scores,                \* async_<metric>
   verdicts : Verdicts(Step),      \* shadow_step_verdicts
   completed : BOOLEAN,            \* async_completed_at is not None
   override : BOOLEAN]

\* One execution more than what can go wrong.
Run == 1 .. MaxMishaps + 1

Execution ==
  [pc : {"idle", "scoring", "filing", "comparing", "patching", "replying", "done",
         "dead"},
   via : {"thread", "webhook"}, scores : Scores, verdicts : Verdicts(Step)]

Idle == [pc |-> "idle", via |-> "thread", scores |-> NoScores, verdicts |-> NoVerdicts]

Mishap ==
  {"inline timeout", "insert failed", "insert repeated", "flag failed",
   "task failed", "enqueue failed", "enqueue reply lost", "execution died",
   "patch failed", "webhook reply lost", "check failed"}

Reason == {"inline", "shadow_escalation", "low_step_agreement"}

TypeOK ==
  /\ response \in Responses
  /\ config \in Version
  /\ cache \in [Process -> Version \cup {NoVersion}]
  /\ judge \in Judge
  /\ inline \in Eval \cup {NoEval}
  /\ rows \in Seq(MetricRow)
  /\ flagged \in BOOLEAN
  /\ tasks \subseteq Reason \X Priority
  /\ payload \in [badge : Badge, verdicts : Verdicts(Step), version : Version]
                 \cup {NoEval}
  /\ queued \in BOOLEAN
  /\ run \in [Run -> Execution]
  /\ visit \in {"away", "evaluating", "patching", "over"}
  /\ mishaps \subseteq Mishap

Init ==
  /\ response \in Responses
  /\ config = FirstVersion
  /\ cache = [p \in Process |-> NoVersion]
  /\ judge = NewJudge
  /\ inline = NoEval
  /\ rows = << >>
  /\ flagged = FALSE
  /\ tasks = {}
  /\ payload = NoEval
  /\ queued = FALSE
  /\ run = [r \in Run |-> Idle]
  /\ visit = "away"
  /\ mishaps = {}

----------------------------------------------------------------------------
(***************************************************************************)
(* Helpers.                                                                *)
(***************************************************************************)

\* At most MaxMishaps things go wrong, each once.
Mishappens(kind) ==
  /\ kind \notin mishaps
  /\ Cardinality(mishaps) < MaxMishaps
  /\ mishaps' = mishaps \cup {kind}

\* A call that may fail, the failure being logged and ignored.
Attempt(done, failed, kind) ==
  \/ done /\ UNCHANGED mishaps
  \/ failed /\ Mishappens(kind)

\* get_thresholds in process p returns v.
GetThresholds(p, v) ==
  /\ v = IF cache[p] = NoVersion THEN config ELSE cache[p]
  /\ cache' = [cache EXCEPT ![p] = v]

\* insert_evaluation_metric
Inserted(by, badge, v) ==
  Append(rows,
         [by |-> by, badge |-> badge, quality |-> badge, source |-> "inline",
          version |-> v, scores |-> NoScores, verdicts |-> NoVerdicts,
          completed |-> FALSE, override |-> FALSE])

Latest == rows[Len(rows)]

\* Mutant of Patched: the first row.
PatchedFirst(row) == IF rows = << >> THEN rows ELSE [rows EXCEPT ![1] = row]

\* update_evaluation_metric_async and record_override change the row with the
\* highest id, and return False if there is none.
Patched(row) == IF rows = << >> THEN rows ELSE [rows EXCEPT ![Len(rows)] = row]

----------------------------------------------------------------------------
(***************************************************************************)
(* InlineEvaluator.                                                        *)
(***************************************************************************)

JudgeStep(from, to) ==
  /\ judge.pc = from
  /\ judge' = [judge EXCEPT !.pc = to]

\* There is nothing to judge, or the error fallback of an upstream node.
Skips == ~(response.question /\ response.context) \/ IsPlanFailure(response)

\* The unified call is scored and the badge computed.
JudgeResponse ==
  /\ judge.pc = "judging" /\ ~Skips
  /\ \E result \in Unified(InlineResults), v \in Version :
       LET scores == [NoScores EXCEPT
                        !["faithfulness"] = Faithfulness(result.verdicts),
                        !["answer_relevance"] = result.relevance]
       IN  /\ GetThresholds(Home, v)
           /\ judge' = [judge EXCEPT
                          !.pc = "inserting", !.version = v, !.scores = scores,
                          !.verdicts = result.verdicts,
                          !.badge = QualityBadge(scores, ThresholdsOf[v],
                                                 Scored(scores, InlineKeys),
                                                 result.verdicts)]
  /\ UNCHANGED <<response, config, inline, rows, flagged, tasks, payload, queued,
                 run, visit, mishaps>>

\* Gray.
SkipResponse ==
  /\ judge.pc = "judging" /\ Skips
  /\ \E v \in Version :
       /\ GetThresholds(Home, v)
       /\ judge' = [judge EXCEPT !.pc = "inserting", !.version = v,
                                 !.skipped = TRUE]
  /\ UNCHANGED <<response, config, inline, rows, flagged, tasks, payload, queued,
                 run, visit, mishaps>>

\* A red or gray plan is flagged for review.
Flags ==
  ~judge.skipped /\ Artifact(response) = "repair_plan" /\ judge.badge \in {"red", "gray"}

InsertRow ==
  LET next == IF Flags THEN "flagging" ELSE "returning" IN
  /\ \/ /\ JudgeStep("inserting", next)
        /\ Attempt(rows' = Inserted("node", judge.badge, judge.version),
                   UNCHANGED rows, "insert failed")
     \/ /\ JudgeStep("inserting", "inserting")  \* the reply is lost: once more
        /\ rows' = Inserted("node", judge.badge, judge.version)
        /\ Mishappens("insert repeated")
  /\ UNCHANGED <<response, config, cache, inline, flagged, tasks, payload, queued,
                 run, visit>>

SetThreadFlag ==
  /\ JudgeStep("flagging", "filing")
  /\ Attempt(flagged' = TRUE, UNCHANGED flagged, "flag failed")
  /\ UNCHANGED <<response, config, cache, inline, rows, tasks, payload, queued, run,
                 visit>>

CreateTask(reason, priority) ==
  Attempt(tasks' = tasks \cup {<<reason, priority>>}, UNCHANGED tasks, "task failed")

\* create_review_task sets the flags of the thread, too.
FileInline ==
  /\ JudgeStep("filing", "returning")
  /\ CreateTask("inline", AutoEvalPriority(judge.scores, judge.badge))
  /\ flagged' = (flagged \/ tasks' # tasks)
  /\ UNCHANGED <<response, config, cache, inline, rows, payload, queued, run, visit>>

\* The thread's result reaches the checkpoint unless the fallback has.
Return ==
  /\ judge.pc = "returning"
  /\ judge' = [NewJudge EXCEPT !.pc = "over"]
  /\ inline' = IF inline # NoEval THEN inline
               ELSE [badge |-> judge.badge, verdicts |-> judge.verdicts,
                     version |-> IF judge.skipped THEN NoVersion ELSE judge.version]
  /\ UNCHANGED <<response, config, cache, rows, flagged, tasks, payload, queued, run,
                 visit, mishaps>>

\* with_node_timeout: the graph takes the fallback, the thread goes on.
TimeOut ==
  /\ inline = NoEval
  /\ inline' = TimeoutEval
  /\ Mishappens("inline timeout")
  /\ UNCHANGED <<response, config, cache, judge, rows, flagged, tasks, payload,
                 queued, run, visit>>

----------------------------------------------------------------------------
(***************************************************************************)
(* Dispatch.                                                               *)
(***************************************************************************)

\* The next execution starts.
StartRun(via) ==
  \E r \in Run :
    /\ run[r].pc = "idle"
    /\ \A q \in Run : q < r => run[q].pc # "idle"
    /\ run' = [run EXCEPT ![r].pc = "scoring", ![r].via = via]

\* Mutant of Send: no fallback to a thread.
SendOnly ==
  \/ StartRun("thread") /\ UNCHANGED <<queued, mishaps>>
  \/ queued' = TRUE /\ UNCHANGED <<run, mishaps>>
  \/ Mishappens("enqueue failed") /\ UNCHANGED <<queued, run>>
  \/ StartRun("thread") /\ Mishappens("enqueue reply lost") /\ queued' = TRUE

\* _dispatch_local, or _dispatch_cloud_tasks with its fallback to a thread, which
\* may double an execution that was enqueued.
Send ==
  \/ StartRun("thread") /\ UNCHANGED <<queued, mishaps>>
  \/ queued' = TRUE /\ UNCHANGED <<run, mishaps>>
  \/ StartRun("thread") /\ Mishappens("enqueue failed") /\ UNCHANGED queued
  \/ StartRun("thread") /\ Mishappens("enqueue reply lost") /\ queued' = TRUE

\* Mutant of Dispatch: the thresholds are read anew.
DispatchCurrent ==
  /\ inline # NoEval /\ payload = NoEval
  /\ \E v \in Version :
       /\ GetThresholds(Home, v)
       /\ payload' = [inline EXCEPT !.version = v]
  /\ Send
  /\ UNCHANGED <<response, config, judge, inline, rows, flagged, tasks, visit>>

\* dispatch_shadow_eval: inline_eval's snapshot, or else get_thresholds().
Dispatch ==
  /\ inline # NoEval /\ payload = NoEval
  /\ \E v \in Version :
       /\ IF inline.version = NoVersion THEN GetThresholds(Home, v)
          ELSE v = inline.version /\ UNCHANGED cache
       /\ payload' = [inline EXCEPT !.version = v]
  /\ Send
  /\ UNCHANGED <<response, config, judge, inline, rows, flagged, tasks, visit>>

\* The queue delivers what was not acknowledged.
Deliver ==
  /\ queued
  /\ \A r \in Run : run[r].via = "webhook" => run[r].pc \in {"idle", "done", "dead"}
  /\ StartRun("webhook")
  /\ UNCHANGED <<response, config, cache, judge, inline, rows, flagged, tasks,
                 payload, queued, visit, mishaps>>

----------------------------------------------------------------------------
(***************************************************************************)
(* _execute_shadow_eval.                                                   *)
(***************************************************************************)

RunStep(r, from, to) ==
  /\ run[r].pc = from
  /\ run' = [run EXCEPT ![r].pc = to]

\* What it has found is gone with the execution.
RunEnds(r, from, to) ==
  /\ run[r].pc = from
  /\ run' = [run EXCEPT ![r] = [Idle EXCEPT !.pc = to, !.via = run[r].via]]

\* run_shadow_evaluation is given repair_steps only: without them there is no
\* text to evaluate, and it returns no score and no verdict.  The fallback of a
\* node is text to it.
ScoreRun(r) ==
  /\ run[r].pc = "scoring"
  /\ \E result \in IF Artifact(response) = "repair_plan" /\ response.question /\ response.context
                   THEN ShadowResults
                   ELSE {[scores |-> NoScores, verdicts |-> NoVerdicts]} :
       run' = [run EXCEPT ![r].pc = "filing", ![r].scores = result.scores,
                          ![r].verdicts = result.verdicts]
  /\ UNCHANGED <<response, config, cache, judge, inline, rows, flagged, tasks,
                 payload, queued, visit, mishaps>>

ShadowBadge(scores, verdicts) ==
  QualityBadge(scores, ThresholdsOf[payload.version], Scored(scores, Metric), verdicts)

\* Mutant of Escalates: any other badge replaces the inline one.
Differs(r) == ShadowBadge(run[r].scores, run[r].verdicts) # payload.badge

\* "Shadow found worse quality than inline"
Escalates(r) ==
  Rank[ShadowBadge(run[r].scores, run[r].verdicts)] < Rank[payload.badge]

\* Mutant of FileEscalation: only a red badge is filed.
FileRed(r) ==
  /\ RunStep(r, "filing", "comparing")
  /\ IF Escalates(r) /\ ShadowBadge(run[r].scores, run[r].verdicts) = "red"
     THEN CreateTask("shadow_escalation", "P2")
     ELSE UNCHANGED <<tasks, mishaps>>
  /\ flagged' = (flagged \/ tasks' # tasks)
  /\ UNCHANGED <<response, config, cache, judge, inline, rows, payload, queued, visit>>

FileEscalation(r) ==
  /\ RunStep(r, "filing", "comparing")
  /\ IF Escalates(r) THEN CreateTask("shadow_escalation", "P2")
     ELSE UNCHANGED <<tasks, mishaps>>
  /\ flagged' = (flagged \/ tasks' # tasks)
  /\ UNCHANGED <<response, config, cache, judge, inline, rows, payload, queued, visit>>

CompareSteps(r) ==
  /\ RunStep(r, "comparing", "patching")
  /\ IF LowAgreement(payload.verdicts, run[r].verdicts)
     THEN CreateTask("low_step_agreement", "P1")
     ELSE UNCHANGED <<tasks, mishaps>>
  /\ flagged' = (flagged \/ tasks' # tasks)
  /\ UNCHANGED <<response, config, cache, judge, inline, rows, payload, queued, visit>>

\* Mutant of WithScores: the verdicts are stored only if the badge stays.
WithFewVerdicts(row, r) ==
  [row EXCEPT !.scores = run[r].scores,
              !.completed = TRUE,
              !.verdicts = IF Escalates(r) \/ run[r].verdicts = NoVerdicts THEN @
                           ELSE run[r].verdicts,
              !.badge = IF Escalates(r)
                        THEN ShadowBadge(run[r].scores, run[r].verdicts) ELSE @,
              !.source = IF Escalates(r) THEN "shadow" ELSE @]

\* The scores always, the badge only when it escalates.
WithScores(row, r) ==
  [row EXCEPT !.scores = run[r].scores,
              !.completed = TRUE,
              !.verdicts = IF run[r].verdicts = NoVerdicts THEN @
                           ELSE run[r].verdicts,
              !.badge = IF Escalates(r)
                        THEN ShadowBadge(run[r].scores, run[r].verdicts) ELSE @,
              !.source = IF Escalates(r) THEN "shadow" ELSE @]

PatchRow(r) ==
  /\ RunEnds(r, "patching", IF run[r].via = "webhook" THEN "replying" ELSE "done")
  /\ Attempt(rows' = Patched(WithScores(Latest, r)), UNCHANGED rows, "patch failed")
  /\ UNCHANGED <<response, config, cache, judge, inline, flagged, tasks, payload,
                 queued, visit>>

\* The webhook answers 200 and the queue forgets the task, or the answer is lost.
Reply(r) ==
  /\ RunStep(r, "replying", "done")
  /\ Attempt(queued' = FALSE, UNCHANGED queued, "webhook reply lost")
  /\ UNCHANGED <<response, config, cache, judge, inline, rows, flagged, tasks,
                 payload, visit>>

\* The server stops in the middle; a delivered task stays in the queue.
Die(r) ==
  /\ \E pc \in {"scoring", "filing", "comparing", "patching"} : RunEnds(r, pc, "dead")
  /\ Mishappens("execution died")
  /\ UNCHANGED <<response, config, cache, judge, inline, rows, flagged, tasks,
                 payload, queued, visit>>

----------------------------------------------------------------------------
(***************************************************************************)
(* The endpoints, which a user may call while all this goes on.            *)
(***************************************************************************)

\* evaluate_thread returns the rows it finds; it goes on when it finds none, or
\* when reading them fails, and then refuses the fallback of a node.
EvaluateThread ==
  /\ visit = "away" /\ ~IsPlanFailure(response)
  /\ Attempt(rows = << >>, TRUE, "check failed")
  /\ visit' = "evaluating"
  /\ UNCHANGED <<response, config, cache, judge, inline, rows, flagged, tasks,
                 payload, queued, run>>

\* It judges by both inline metrics, scored or not, and inserts a row.
InsertEvaluation ==
  /\ visit = "evaluating"
  /\ visit' = "patching"
  /\ \E result \in ShadowResults, p \in Process, v \in Version :
       /\ GetThresholds(p, v)
       /\ LET badge == QualityBadge(result.scores, ThresholdsOf[v], InlineKeys,
                                    result.verdicts)
          IN  Attempt(rows' = Inserted("endpoint", badge, v), UNCHANGED rows,
                      "insert failed")
  /\ UNCHANGED <<response, config, judge, inline, flagged, tasks, payload, queued, run>>

\* It runs a shadow evaluation of its own and patches two scores.
PatchEvaluation ==
  /\ visit = "patching"
  /\ visit' = "over"
  /\ \E result \in ShadowResults :
       Attempt(rows' = Patched(
                 [Latest EXCEPT
                    !.scores["context_relevance"] = result.scores["context_relevance"],
                    !.scores["completeness"] = result.scores["completeness"],
                    !.completed = TRUE]),
               UNCHANGED rows, "patch failed")
  /\ UNCHANGED <<response, config, cache, judge, inline, flagged, tasks, payload,
                 queued, run>>

\* escalate_to_supervisor: record_override.
Escalate ==
  /\ rows # << >> /\ ~Latest.override
  /\ rows' = Patched([Latest EXCEPT !.override = TRUE])
  /\ UNCHANGED <<response, config, cache, judge, inline, flagged, tasks, payload,
                 queued, run, visit, mishaps>>

\* An admin stores other thresholds; no process is told.
UpdateEvaluationConfig ==
  /\ config = FirstVersion
  /\ config' \in Version \ {config}
  /\ UNCHANGED <<response, cache, judge, inline, rows, flagged, tasks, payload,
                 queued, run, visit, mishaps>>

\* The TTL of 300 seconds has passed, or the process is new: what it had cached
\* matters once the row says something else.
Expire(p) ==
  /\ cache[p] \notin {NoVersion, config}
  /\ cache' = [cache EXCEPT ![p] = NoVersion]
  /\ UNCHANGED <<response, config, judge, inline, rows, flagged, tasks, payload,
                 queued, run, visit, mishaps>>

----------------------------------------------------------------------------

Evaluator ==
  \/ JudgeResponse \/ SkipResponse \/ InsertRow \/ SetThreadFlag \/ FileInline
  \/ Return

Shadow(r) ==
  \/ ScoreRun(r) \/ FileEscalation(r) \/ CompareSteps(r) \/ PatchRow(r) \/ Reply(r)

Next ==
  \/ Evaluator \/ TimeOut \/ Dispatch \/ Deliver
  \/ \E r \in Run : Shadow(r) \/ Die(r)
  \/ EvaluateThread \/ InsertEvaluation \/ PatchEvaluation \/ Escalate
  \/ UpdateEvaluationConfig
  \/ \E p \in Process : Expire(p)

\* The graph runs on, the queue delivers, threads are scheduled.
Fairness ==
  /\ WF_vars(Evaluator)
  /\ WF_vars(Dispatch)
  /\ WF_vars(Deliver)
  /\ \A r \in Run : WF_vars(Shadow(r))

Spec == Init /\ [][Next]_vars /\ Fairness

----------------------------------------------------------------------------
(***************************************************************************)
(* Properties.                                                             *)
(***************************************************************************)

TimedOut == "inline timeout" \in mishaps

Patches == {r \in Run : run[r].pc \in {"replying", "done"}}

\* Whatever is repeated, late or lost, the shadow evaluation never improves the
\* badge InlineEvaluator gave a row (_execute_shadow_eval).
BadgeOnlyWorsens ==
  \A i \in DOMAIN rows :
    rows[i].by = "node" /\ rows[i].badge # rows[i].quality
      => Rank[rows[i].badge] < Rank[rows[i].quality]

\* A badge that comes from the shadow evaluation is the one its row's scores
\* deserve; only a second execution, or the evaluate endpoint, which patch scores
\* without the badge, leave another.
CoherentRow ==
  \A i \in DOMAIN rows :
    rows[i].source = "shadow" =>
      \/ rows[i].badge = ShadowBadge(rows[i].scores, rows[i].verdicts)
      \/ Cardinality(Patches) > 1
      \/ visit = "over"

\* A badge is lowered only after somebody was asked to review it, if the task
\* could be created.
EscalationHasTask ==
  (\E i \in DOMAIN rows : rows[i].source = "shadow")
    => <<"shadow_escalation", "P2">> \in tasks \/ "task failed" \in mishaps

\* Both evaluations of a response judge by the same thresholds, whatever the
\* caches and an admin do between, unless the inline one timed out or had nothing
\* to judge and left no snapshot.
SameThresholds ==
  payload # NoEval =>
    \A i \in DOMAIN rows :
      \/ rows[i].by = "endpoint"
      \/ rows[i].version = payload.version
      \/ inline.version = NoVersion

\* What a shadow evaluation has stored is on the row that is shown, the latest,
\* even if the row was inserted twice; only the thread of an InlineEvaluator that
\* had timed out, or the endpoint, hide it behind another row.  So is an override,
\* but for a repeated insert (update_evaluation_metric_async, record_override).
LatestHasResults ==
  \A i \in DOMAIN rows :
    \/ /\ rows[i].completed => Latest.completed
       /\ rows[i].override => Latest.override \/ "insert repeated" \in mishaps
    \/ TimedOut \/ visit \in {"patching", "over"}

\* A dispatched evaluation is stored in the end, unless the row is missing or
\* late, its execution died with its thread, or the patch failed: what the queue
\* could not take is run in a thread, and what died in the webhook comes again.
ResultsArrive ==
  payload # NoEval
    ~> \/ \E i \in DOMAIN rows : rows[i].completed
       \/ mishaps \cap {"inline timeout", "insert failed", "patch failed"} # {}
       \/ \E r \in Run : run[r].pc = "dead" /\ run[r].via = "thread"
=============================================================================
