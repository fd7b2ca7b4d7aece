------------------------- MODULE DiagnosticWorkflow ------------------------
(***************************************************************************)
(* The diagnostic workflow of pipeline/workflow.py over the turns of one   *)
(* thread: the twelve nodes of pipeline/nodes.py and safety_judge_gate.py, *)
(* the routing between them, the timeouts of with_node_timeout, and the    *)
(* DiagnosticState that the checkpoint carries from turn to turn.          *)
(*                                                                         *)
(* A field keeps its value until a node writes it, so a node that times    *)
(* out, or a route that leaves a node out, lets a later node read what an  *)
(* earlier turn wrote.  Fields are therefore modelled by their provenance: *)
(* the turn that wrote them and the little that the routing tells apart.   *)
(***************************************************************************)
EXTENDS WorkflowRouting, Integers, FiniteSets

CONSTANTS
  MaxTurns,     \* questions asked in the thread
  Instruction,  \* safety instructions the manuals may hold
  NoText        \* what .get("text", "") yields for a dict without the key

ASSUME TurnsAssumption == MaxTurns \in Nat \ {0}
ASSUME NoTextAssumption == NoText \notin Instruction

VARIABLES
  turn,      \* the turn that runs, or ran last
  node,      \* the node to run next; "__END__" or "failed" between turns
  state,     \* DiagnosticState
  plan,      \* of the RepairPlanner runs of this turn, what the last read
  timedOut,  \* <<turn, node>> of every timeout so far
  intent,    \* what IntentRouter said, and whether the warning was emitted
  replay,    \* the auditor's replay of the trace logged for this turn
  links,     \* response_chunk_link, by response and retrieving turn
  metrics,   \* evaluation_metrics
  late       \* the threads of timed-out nodes that still run

vars == <<turn, node, state, plan, timedOut, intent, replay, links, metrics, late>>

Process == INSTANCE ProcessModel WITH at <- node

Turn == 0 .. MaxTurns

----------------------------------------------------------------------------
(***************************************************************************)
(* Data.                                                                   *)
(***************************************************************************)

\* SafetyProtocol.model_dump(): it has an instruction and no text.
Protocols == [instruction : Instruction]

ASSUME ProtocolsAssumption == IsFiniteSet(Protocols)

\* final_response and response_id, which every writer writes together.
\* "error": the LLM failed; "outline": a root cause without steps.
PlanKinds   == {"plan", "outline", "error"}
AnswerKinds == {"answer", "answer_error"}
NoResponse  == [turn |-> 0, kind |-> "none"]

ResponseKinds ==
  PlanKinds \cup AnswerKinds \cup {"override", "timeout", "none"}

\* The fallback of repair_planner has response_id "timeout" in every turn.
ResponseId(r) == IF r.kind = "timeout" THEN [r EXCEPT !.turn = 0] ELSE r

Qualities == {"none", "weak", "good"}  \* of a retrieval: similarity, length
CauseKinds == {"none", "procedural", "cause", "no_docs", "timeout"}

NoPlan == [runs |-> 0, covers |-> {}, route |-> "", procedural |-> FALSE,
           chunks |-> [turn |-> 0, quality |-> "none"],
           cause |-> [turn |-> 0, kind |-> "none"],
           protocols |-> [turn |-> 0, of |-> {}]]

Initially ==
  [route      |-> "troubleshoot",       \* state.get("route", "troubleshoot")
   procedural |-> FALSE,
   manuals    |-> 0,                    \* 0: retrieved_manuals is empty
   chunks     |-> NoPlan.chunks,        \* ids, scores, groups and context
   cause      |-> NoPlan.cause,         \* root_causes
   protocols  |-> NoPlan.protocols,     \* safety_protocols
   response   |-> NoResponse,
   override   |-> FALSE,                \* deterministic_override
   feedback   |-> FALSE,                \* judge_feedback is not empty
   retry      |-> 0]                    \* safety_judge_retry_count

StateType ==
  [route : Intents \cup Corrected, procedural : BOOLEAN, manuals : Turn,
   chunks : [turn : Turn, quality : Qualities],
   cause : [turn : Turn, kind : CauseKinds],
   protocols : [turn : Turn, of : SUBSET Protocols],
   response : [turn : Turn, kind : ResponseKinds],
   override : BOOLEAN, feedback : BOOLEAN, retry : 0 .. 1]

PlanType ==
  [runs : Nat, covers : SUBSET Instruction, route : Intents \cup Corrected \cup {""},
   procedural : BOOLEAN, chunks : [turn : Turn, quality : Qualities],
   cause : [turn : Turn, kind : CauseKinds],
   protocols : [turn : Turn, of : SUBSET Protocols]]

\* Rows of response_chunk_link and of evaluation_metrics name a turn.
LinksTyped(rows)   == \A l \in rows : l.chunks \in Turn
MetricsTyped(rows) == \A m \in rows : m.turn \in Turn

TypeOK ==
  /\ turn \in Turn
  /\ node \in Process!Nodes \cup Process!Ended
  /\ state \in StateType
  /\ plan \in PlanType
  /\ timedOut \subseteq Turn \X Process!Nodes
  /\ intent \in [is : Intents \cup {""}, warned : BOOLEAN]
  /\ LinksTyped(links)
  /\ MetricsTyped(metrics)
  /\ \A thread \in late : LinksTyped(thread.links) /\ MetricsTyped(thread.metrics)

Init ==
  /\ turn = 0 /\ node = "__END__" /\ state = Initially
  /\ plan = NoPlan /\ timedOut = {} /\ intent = [is |-> "", warned |-> FALSE]
  /\ replay = Process!NothingReplayed
  /\ links = {} /\ metrics = {} /\ late = {}

----------------------------------------------------------------------------
(***************************************************************************)
(* Helpers of the nodes.                                                   *)
(***************************************************************************)

\* Node n ends with the state s and, unless it logs nothing, its own record.
Finish(n, s) ==
  /\ node = n
  /\ state' = s
  /\ node' = NextNode(n, s)
  /\ UNCHANGED <<turn, timedOut>>

Logged(n) == replay' = Process!Replay(replay, n)

\* with_node_timeout: the record of a timed-out node bears the name of its
\* function ("repair_planner"), which is not the name of a node.
TimeOut(n, fallback) ==
  /\ node = n
  /\ state' = fallback
  /\ node' = NextNode(n, fallback)
  /\ timedOut' = timedOut \cup {<<turn, n>>}
  /\ UNCHANGED <<turn, replay>>

\* protocol_survives: the gate reads the field "text" of a protocol.
ProtocolText(p) == IF "text" \in DOMAIN p THEN p.text ELSE NoText

ProtocolSurvives(p, covers) == ProtocolText(p) = NoText \/ ProtocolText(p) \in covers

\* survival_rate >= 0.85
GatePasses(protocols, covers) ==
  100 * Cardinality({p \in protocols : ProtocolSurvives(p, covers)})
    >= 85 * Cardinality(protocols)

\* classify_artifact and extract_context, on what the state holds.
IsPlanArtifact(r) == r.kind \in {"plan", "error", "override", "timeout"}

NothingToEvaluate(s) ==
  \/ s.response.kind = "none"
  \/ s.response.kind \in AnswerKinds /\ s.manuals = 0

\* Missing context, or a text with one of _PLAN_FAILURE_MARKERS.
EvaluationSkipped(s) ==
  \/ s.manuals = 0
  \/ s.response.kind \in {"error", "timeout", "answer_error"}
  \/ s.response.kind = "outline" /\ s.cause.kind = "timeout"

Badges == {"green", "yellow", "red", "gray"}

\* The row insert_evaluation_metric adds, and whether a review task follows.
MetricRow(response, badge, byLate) ==
  [turn |-> turn, response |-> ResponseId(response), late |-> byLate,
   review |-> IsPlanArtifact(response) /\ badge \in {"red", "gray"}]

LinkRow(response, chunks) == [response |-> response, chunks |-> chunks]

----------------------------------------------------------------------------
(***************************************************************************)
(* Nodes.                                                                  *)
(***************************************************************************)

\* stream_graph with a new message; what the last turn left stays.
StartTurn ==
  /\ node \in Process!Ended
  /\ turn < MaxTurns
  /\ turn' = turn + 1
  /\ node' = "IntentRouter"
  /\ plan' = NoPlan
  /\ intent' = [is |-> "", warned |-> FALSE]
  /\ replay' = Process!NothingReplayed
  /\ UNCHANGED <<state, timedOut, links, metrics, late>>

IntentRouter ==
  /\ \/ \E r \in Intents, p \in BOOLEAN :
          /\ Finish("IntentRouter", [state EXCEPT !.route = r, !.procedural = p])
          /\ intent' = [intent EXCEPT !.is = r]
          /\ Logged("IntentRouter")
     \/ /\ TimeOut("IntentRouter", [state EXCEPT !.route = "troubleshoot",
                                                 !.procedural = FALSE])
        /\ UNCHANGED intent
  /\ UNCHANGED <<plan, links, metrics, late>>

UnsafeMethodGate ==
  /\ \/ \E c \in Corrected :
          /\ Finish("UnsafeMethodGate", [state EXCEPT !.route = c])
          /\ intent' = [intent EXCEPT !.warned = TRUE]
          /\ Logged("UnsafeMethodGate")
     \/ /\ TimeOut("UnsafeMethodGate", [state EXCEPT !.route = "troubleshoot"])
        /\ UNCHANGED intent
  /\ UNCHANGED <<plan, links, metrics, late>>

\* No rule matches, or the check fails; or a rule answers the question.
DeterministicRuleChecker ==
  /\ \/ Finish("DeterministicRuleChecker", [state EXCEPT !.override = FALSE])
     \/ \E ps \in {ps \in SUBSET Protocols : Cardinality(ps) <= 1} :
          Finish("DeterministicRuleChecker",
                 [state EXCEPT !.override  = TRUE,
                               !.response  = [turn |-> turn, kind |-> "override"],
                               !.protocols = [turn |-> turn, of |-> ps]])
  /\ Logged("DeterministicRuleChecker")
  /\ UNCHANGED <<plan, intent, links, metrics, late>>

\* Mutant of Analyzer: a skipped rewrite returns no telemetry.
SilentAnalyzer(n) ==
  /\ Finish(n, state)
  /\ UNCHANGED <<plan, intent, links, metrics, late, replay>>

\* SymptomAnalyzer and DirectReplacementAnalyzer write search_queries only.
Analyzer(n) ==
  /\ Finish(n, state)
  /\ Logged(n)
  /\ UNCHANGED <<plan, intent, links, metrics, late>>

\* Without chunks the manual's overview may still be in retrieved_manuals.
ManualsWith(quality) == IF quality = "none" THEN {0, turn} ELSE {turn}

\* Mutant of KnowledgeRetriever: chunk ids are only written when there are some.
RetrieverKeepsOldChunks ==
  /\ \/ \E q \in Qualities : \E m \in ManualsWith(q) :
          /\ Finish("KnowledgeRetriever",
                    [state EXCEPT !.manuals = m,
                                  !.chunks = IF q = "none" THEN @
                                             ELSE [turn |-> turn, quality |-> q]])
          /\ Logged("KnowledgeRetriever")
     \/ TimeOut("KnowledgeRetriever", [state EXCEPT !.manuals = 0])
  /\ UNCHANGED <<plan, intent, links, metrics, late>>

\* The fallback empties retrieved_manuals and retrieved_image_map and leaves
\* the chunk ids, their scores and the grouped context of an earlier turn.
KnowledgeRetriever ==
  /\ \/ \E q \in Qualities : \E m \in ManualsWith(q) :
          /\ Finish("KnowledgeRetriever",
                    [state EXCEPT !.manuals = m,
                                  !.chunks = [turn |-> turn, quality |-> q]])
          /\ Logged("KnowledgeRetriever")
     \/ TimeOut("KnowledgeRetriever", [state EXCEPT !.manuals = 0])
  /\ UNCHANGED <<plan, intent, links, metrics, late>>

\* Mutant of RetrievalGate: the similarity is not looked at.
AnyRetrievalGate(s) == s.chunks.quality # "none"

\* The quality gate short-circuits before the LLM is called.
RetrievalGate(s) == s.chunks.quality = "good"

RootCauseAnalyzer ==
  /\ LET With(kind) == [state EXCEPT !.cause = [turn |-> turn, kind |-> kind]]
     IN  \/ /\ \/ state.procedural /\ Finish("RootCauseAnalyzer", With("procedural"))
               \/ /\ ~ state.procedural
                  /\ ~ RetrievalGate(state)
                  /\ Finish("RootCauseAnalyzer", With("no_docs"))
               \/ /\ ~ state.procedural
                  /\ RetrievalGate(state)
                  /\ \E kind \in {"cause", "no_docs"} :
                       Finish("RootCauseAnalyzer", With(kind))
            /\ Logged("RootCauseAnalyzer")
         \/ /\ ~ state.procedural
            /\ RetrievalGate(state)
            /\ TimeOut("RootCauseAnalyzer", With("timeout"))
  /\ UNCHANGED <<plan, intent, links, metrics, late>>

\* Extracted from the context and a search of its own; none if that fails.
SafetyExtractor ==
  /\ \E ps \in SUBSET Protocols :
       Finish("SafetyExtractor",
              [state EXCEPT !.protocols = [turn |-> turn, of |-> ps]])
  /\ Logged("SafetyExtractor")
  /\ UNCHANGED <<plan, intent, links, metrics, late>>

\* The thread of a timed-out node goes on and writes what it would have.
LeaveBehind(newLinks, newMetrics) ==
  late' = late \cup {[links |-> newLinks, metrics |-> newMetrics]}

ChunkLinks(response) ==
  IF state.chunks.quality = "none" THEN {}
  ELSE {LinkRow(response, state.chunks.turn)}

\* The write of the links may fail; the failure is logged and ignored.
PlanWith(kind, covers) ==
  LET response == [turn |-> turn, kind |-> kind]
  IN  /\ Finish("RepairPlanner",
                [state EXCEPT !.response = response,
                              !.retry    = IF state.feedback THEN 1 ELSE 0])
      /\ plan' = [runs |-> plan.runs + 1, covers |-> covers, route |-> state.route,
                  procedural |-> state.procedural, chunks |-> state.chunks,
                  cause |-> state.cause, protocols |-> state.protocols]
      /\ \E rows \in SUBSET ChunkLinks(response) : links' = links \cup rows
      /\ Logged("RepairPlanner")
      /\ UNCHANGED late

\* The fallback leaves safety_judge_retry_count; the thread that is left behind
\* links a response nobody sees.
PlannerTimesOut ==
  /\ TimeOut("RepairPlanner",
             [state EXCEPT !.response = [turn |-> turn, kind |-> "timeout"]])
  /\ plan' = [plan EXCEPT !.runs = @ + 1, !.covers = {}]
  /\ LeaveBehind(ChunkLinks([turn |-> turn, kind |-> "lost"]), {})
  /\ UNCHANGED links

RepairPlanner ==
  /\ \/ \E covers \in SUBSET Instruction : PlanWith("plan", covers)
     \/ \E kind \in {"outline", "error"} : PlanWith(kind, {})
     \/ PlannerTimesOut
  /\ UNCHANGED <<intent, metrics>>

\* Without protocols, or without plan text, judge_feedback is left alone.
SafetyJudgeGate ==
  /\ LET skip == \/ state.protocols.of = {}
                 \/ state.response.kind = "outline"
         pass == GatePasses(state.protocols.of, plan.covers)
     IN  Finish("SafetyJudgeGate",
                [state EXCEPT !.feedback = IF skip THEN @ ELSE ~ pass])
  /\ Logged("SafetyJudgeGate")
  /\ UNCHANGED <<plan, intent, links, metrics, late>>

\* Without a fallback, a timeout leaves the response of an earlier turn.
FollowUpResponder ==
  /\ \/ \E kind \in AnswerKinds :
          /\ Finish("FollowUpResponder",
                    [state EXCEPT !.response = [turn |-> turn, kind |-> kind]])
          /\ Logged("FollowUpResponder")
     \/ TimeOut("FollowUpResponder", state)
  /\ UNCHANGED <<plan, intent, links, metrics, late>>

\* The steps of a plan are attributed to the chunks of retrieved_manuals.
Attributions ==
  IF IsPlanArtifact(state.response)
  THEN {LinkRow(ResponseId(state.response), state.manuals)} ELSE {}

\* Nothing to evaluate and a skipped evaluation return no telemetry record.
InlineEvaluator ==
  /\ \/ /\ NothingToEvaluate(state)
        /\ Finish("InlineEvaluator", state)
        /\ UNCHANGED <<links, metrics, late, replay>>
     \/ /\ ~ NothingToEvaluate(state)
        /\ EvaluationSkipped(state)
        /\ Finish("InlineEvaluator", state)
        /\ \E rows \in SUBSET {[MetricRow(state.response, "gray", FALSE)
                                  EXCEPT !.review = FALSE]} :
             metrics' = metrics \cup rows
        /\ UNCHANGED <<links, late, replay>>
     \/ /\ ~ NothingToEvaluate(state)
        /\ ~ EvaluationSkipped(state)
        /\ \E badge \in Badges :
             \/ /\ Finish("InlineEvaluator", state)
                /\ Logged("InlineEvaluator")
                /\ \E rows \in SUBSET {MetricRow(state.response, badge, FALSE)} :
                     metrics' = metrics \cup rows
                /\ \E rows \in SUBSET Attributions : links' = links \cup rows
                /\ UNCHANGED late
             \/ /\ TimeOut("InlineEvaluator", state)
                /\ LeaveBehind(Attributions, {MetricRow(state.response, badge, TRUE)})
                /\ UNCHANGED <<links, metrics>>
  /\ UNCHANGED <<plan, intent>>

\* A node raises, or the client disconnects between two nodes: stream_graph
\* ends, and the checkpoint holds what the nodes before wrote.
Abandon ==
  /\ node \in Process!Nodes \ Process!Ended
  /\ node' = "failed"
  /\ UNCHANGED <<turn, state, plan, timedOut, intent, replay, links, metrics, late>>

FinishLate ==
  \E thread \in late :
    /\ links' = links \cup thread.links
    /\ metrics' = metrics \cup thread.metrics
    /\ late' = late \ {thread}
    /\ UNCHANGED <<turn, node, state, plan, timedOut, intent, replay>>

RunNode ==
  \/ IntentRouter
  \/ UnsafeMethodGate
  \/ DeterministicRuleChecker
  \/ Analyzer("SymptomAnalyzer")
  \/ Analyzer("DirectReplacementAnalyzer")
  \/ KnowledgeRetriever
  \/ RootCauseAnalyzer
  \/ SafetyExtractor
  \/ RepairPlanner
  \/ SafetyJudgeGate
  \/ FollowUpResponder
  \/ InlineEvaluator

Next == StartTurn \/ RunNode \/ Abandon \/ FinishLate

Spec == Init /\ [][Next]_vars

----------------------------------------------------------------------------
(***************************************************************************)
(* Properties.                                                             *)
(***************************************************************************)

TimedOut(n) == <<turn, n>> \in timedOut

Planned == plan.runs > 0 /\ state.response = [turn |-> turn, kind |-> "plan"]

\* A plan rests on what this turn prepared for it: its safety protocols were
\* extracted in this turn whatever the route, and its chunks were retrieved in
\* this turn unless KnowledgeRetriever timed out.  And the retrieval quality gate
\* holds: unless a part is to be replaced or a procedure is asked for, no plan is
\* drawn up from a context that was empty or dissimilar when it was retrieved, nor
\* after a "no documentation" conclusion of this turn's root cause analysis.
PlanIsGrounded ==
  Planned =>
    /\ plan.protocols.turn = turn
    /\ plan.chunks.turn = turn \/ TimedOut("KnowledgeRetriever")
    /\ plan.route # "replace_part" /\ ~ plan.procedural =>
         /\ plan.chunks.quality = "good"
         /\ plan.cause.turn = turn /\ plan.cause.kind # "no_docs"

\* A turn whose image shows another device never yields a plan.
MismatchNeverPlanned == intent.is = "mismatch" => plan.runs = 0

\* A method classified as unsafe is answered only after its warning was sent,
\* through whichever route the corrected intent takes.
UnsafeIsWarned ==
  /\ intent.is = "unsafe_method"
  /\ state.response.turn = turn
  => intent.warned \/ TimedOut("UnsafeMethodGate")

\* The intents that must not be planned for like any other are heeded to the end of
\* the turn: another device's image stops it, an unsafe method is warned of first.
RiskIsHeeded == MismatchNeverPlanned /\ UnsafeIsWarned

\* What is stored about a response is traced to its turn.  A link names chunks
\* retrieved in the response's own turn unless a retrieval or a follow-up timed
\* out since, and a response the thread never got only if its planner timed out.
\* A response is scored in two turns only if a follow-up that timed out left it in
\* place for another; "timeout" names no single response.
RowsTraceable ==
  /\ \A l \in links :
       /\ \/ l.chunks = l.response.turn
          \/ \E t \in l.response.turn .. turn :
               {<<t, "KnowledgeRetriever">>, <<t, "FollowUpResponder">>,
                <<t, "RepairPlanner">>} \cap timedOut # {}
       /\ l.response.kind = "lost" =>
            <<l.response.turn, "RepairPlanner">> \in timedOut
  /\ \A m, n \in metrics :
       m.turn < n.turn /\ m.response = n.response /\ m.response.kind # "timeout" =>
         <<n.turn, "FollowUpResponder">> \in timedOut

\* A turn that ended without a timeout, and whose evaluator had something to
\* score, left a log the auditor's token replay accepts.
UndisturbedTurnsConform ==
  /\ node = "__END__" /\ turn > 0
  /\ \A n \in Process!Nodes : ~ TimedOut(n)
  /\ replay.last # "FollowUpResponder"
  => Process!Conforming(replay)

\* The workflow takes no transition the auditor's reference model lacks.
FollowsProcessModel == Process!Spec

\* "fail: protocols missing -> loop back to RepairPlanner with judge_feedback ... The
\* gate prevents safety-blind plans from reaching the technician."
\* (pipeline/safety_judge_gate.py:7): a plan that goes on without having been sent back
\* covers 85 % of the protocols.  The code does not keep this, as NeverSentBack proves.
SafetyBlindSentBack ==
  LET protocols == state.protocols.of
      covered   == {p \in protocols : p.instruction \in plan.covers}
  IN  node = "InlineEvaluator" /\ Planned /\ plan.runs = 1 =>
        100 * Cardinality(covered) >= 85 * Cardinality(protocols)

============================================================================
