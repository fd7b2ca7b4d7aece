-------------------------- MODULE TraceConformance -------------------------
(***************************************************************************)
(* What the readers of agent_execution_logs make of the turns of a thread: *)
(* the process-mining auditor (audit/process_mining.py), the trace page    *)
(* (api/routers/trace.py) and the diagnostic procedure of the evaluation   *)
(* (eval/scripts/run_diagnostics.py).  None of them sees a turn, only the  *)
(* records it left: a node that timed out bears another name, an evaluator *)
(* that had nothing to score left none, and the dispatcher of the shadow   *)
(* evaluation adds one of its own.                                         *)
(*                                                                         *)
(* A turn is a walk through the graph of WorkflowRouting; what its nodes   *)
(* compute is DiagnosticWorkflow's concern.                                *)
(***************************************************************************)
EXTENDS WorkflowRouting, ProcessGraph, Integers, SequencesExt

CONSTANTS
  MaxTurns,    \* questions asked in the thread
  MaxMishaps,  \* bound on timeouts, disconnects and exceptions
  MinSessions  \* min_sessions: with fewer traces the auditor reports nothing

ASSUME ConformanceAssumption ==
  MaxTurns \in Nat \ {0} /\ MaxMishaps \in Nat /\ MinSessions \in Nat

VARIABLES
  turn,     \* the turn that runs, or ran last; a turn is a trace_id
  node,     \* the node to run next; "__END__" or "failed" between turns
  state,    \* the fields of DiagnosticState that the edges read
  records,  \* the thread's agent_execution_logs, by started_at
  walk,     \* the nodes each turn ran
  mishaps   \* <<turn, node, what>>

conformanceVars == <<turn, node, state, records, walk, mishaps>>

Turn == 1 .. MaxTurns

----------------------------------------------------------------------------
(***************************************************************************)
(* Records.  node_name is base, or base ":" suffix.                        *)
(***************************************************************************)

\* The nodes that are decorated with with_node_timeout, and func.__name__.
FunctionName ==
  [IntentRouter       |-> "intent_router",
   UnsafeMethodGate   |-> "unsafe_method_gate",
   KnowledgeRetriever |-> "knowledge_retriever",
   RootCauseAnalyzer  |-> "root_cause_analyzer",
   RepairPlanner      |-> "repair_planner",
   FollowUpResponder  |-> "followup_responder",
   InlineEvaluator    |-> "inline_evaluator"]

\* record_edge_decision: the routing function behind each conditional edge.
EdgeName ==
  [IntentRouter             |-> "route_from_intent",
   UnsafeMethodGate         |-> "route_from_unsafe",
   DeterministicRuleChecker |-> "route_from_deterministic_check",
   KnowledgeRetriever       |-> "route_from_knowledge",
   RootCauseAnalyzer        |-> "route_from_root_cause",
   SafetyJudgeGate          |-> "route_from_safety_judge"]

NodeRow(t, base, suffix) ==
  [trace |-> t, base |-> base, suffix |-> suffix, op |-> "node"]

EdgeRow(t, n) ==
  [trace |-> t, base |-> "edge", suffix |-> EdgeName[n], op |-> "edge_decision"]

\* _persist_dispatch_record
DispatchRow(t) ==
  [NodeRow(t, "ShadowEvaluator_dispatch", "") EXCEPT !.op = "shadow_dispatch"]

\* SymptomAnalyzer logs itself and, unless that failed, the rewrite it asked for;
\* SafetyExtractor itself and its LLM call.  Both records bear one name.
RowsOf(t, n) ==
  CASE n = "InlineEvaluator" -> {<<NodeRow(t, n, "unified")>>}
    [] n = "SymptomAnalyzer" ->
         {[i \in 1 .. calls |-> NodeRow(t, n, "")] : calls \in 1 .. 2}
    [] n = "SafetyExtractor" -> {<<NodeRow(t, n, ""), NodeRow(t, n, "")>>}
    [] OTHER -> {<<NodeRow(t, n, "")>>}

ConformanceInit ==
  /\ turn = 0 /\ node = "__END__"
  /\ state = [route |-> "troubleshoot", override |-> FALSE,
              cause |-> [kind |-> "none"], feedback |-> FALSE, retry |-> 0]
  /\ records = << >>
  /\ walk = [t \in Turn |-> << >>]
  /\ mishaps = {}

----------------------------------------------------------------------------
(***************************************************************************)
(* Turns.                                                                  *)
(***************************************************************************)

StartTurn ==
  /\ node \in Ended
  /\ turn < MaxTurns
  /\ turn' = turn + 1
  /\ node' = "IntentRouter"
  /\ UNCHANGED <<state, records, walk, mishaps>>

\* What node n may leave in the state.  The safety judge passes every plan.
StatesAfter(n) ==
  CASE n = "IntentRouter"     -> {[state EXCEPT !.route = r] : r \in Intents}
    [] n = "UnsafeMethodGate" -> {[state EXCEPT !.route = r] : r \in Corrected}
    [] n = "DeterministicRuleChecker" ->
         {[state EXCEPT !.override = o] : o \in BOOLEAN}
    [] n = "RootCauseAnalyzer" ->
         {[state EXCEPT !.cause.kind = k] : k \in {"cause", "no_docs"}}
    [] OTHER -> {state}

\* The fallback of with_node_timeout.
Fallback(n) ==
  CASE n \in {"IntentRouter", "UnsafeMethodGate"} ->
         [state EXCEPT !.route = "troubleshoot"]
    [] n = "RootCauseAnalyzer" -> [state EXCEPT !.cause.kind = "timeout"]
    [] OTHER -> state

\* The node ends, leaves s and logs rows; the edge behind it logs itself.
Ran(s, rows) ==
  /\ state' = s
  /\ node' = NextNode(node, s)
  /\ walk' = [walk EXCEPT ![turn] = Append(@, node)]
  /\ records' = records \o rows
                \o (IF node \in DOMAIN EdgeName THEN <<EdgeRow(turn, node)>> ELSE << >>)
  /\ UNCHANGED turn

Run ==
  /\ node \in Nodes
  /\ \E s \in StatesAfter(node), rows \in RowsOf(turn, node) : Ran(s, rows)
  /\ UNCHANGED mishaps

Spare == Cardinality({m \in mishaps : m[3] # "silent"}) < MaxMishaps

TimeOut ==
  /\ node \in DOMAIN FunctionName
  /\ Spare
  /\ Ran(Fallback(node), <<NodeRow(turn, FunctionName[node], "")>>)
  /\ mishaps' = mishaps \cup {<<turn, node, "timeout">>}

\* InlineEvaluator had nothing to score, or no context to score it by.
SkipEvaluation ==
  /\ node = "InlineEvaluator"
  /\ Ran(state, << >>)
  /\ mishaps' = mishaps \cup {<<turn, "InlineEvaluator", "silent">>}

\* A node raises or the client disconnects; the finally block of stream_graph
\* persists what the nodes before have logged.
Abandon ==
  /\ node \in Nodes
  /\ Spare
  /\ node' = "failed"
  /\ mishaps' = mishaps \cup {<<turn, node, "abandoned">>}
  /\ UNCHANGED <<turn, state, records, walk>>

Closed(t) == t \in 1 .. turn /\ (t = turn => node \in Ended)

Cut(t) == \E m \in mishaps : m[1] = t /\ m[3] = "abandoned"

Dispatched(t) ==
  \E i \in DOMAIN records : records[i].trace = t /\ records[i].op = "shadow_dispatch"

\* A rule, a plan or an answer set response_id; a later turn finds it in the state.
Answered(t) ==
  \/ {"RepairPlanner", "FollowUpResponder"} \cap ToSet(walk[t]) # {}
  \/ walk[t] # << >> /\ Last(walk[t]) = "DeterministicRuleChecker"

\* dispatch_shadow_eval, once the client has been told AGENT_DONE: the client
\* may have asked its next question by then.
DispatchShadowEval(t) ==
  /\ Closed(t) /\ ~ Cut(t) /\ ~ Dispatched(t)
  /\ \E u \in 1 .. t : Answered(u)
  /\ records' = Append(records, DispatchRow(t))
  /\ UNCHANGED <<turn, node, state, walk, mishaps>>

ConformanceNext ==
  \/ StartTurn
  \/ Run
  \/ TimeOut
  \/ SkipEvaluation
  \/ Abandon
  \/ \E t \in Turn : DispatchShadowEval(t)

ConformanceSpec == ConformanceInit /\ [][ConformanceNext]_conformanceVars

----------------------------------------------------------------------------
(***************************************************************************)
(* What the readers take from the records: the rows whose nodes, in order,  *)
(* are the steps of a trace or of the page.                                *)
(***************************************************************************)

\* Mutant of TraceRows: the suffix of a name is not stripped.
UnstrippedRows(t) ==
  {i \in DOMAIN records :
     LET r == records[i]
     IN  r.trace = t /\ r.op = "node" /\ r.base \in Nodes /\ r.suffix = ""}

\* compute_process_fitness and compute_process_precision: the nodes of one trace.
TraceRows(t) ==
  {i \in DOMAIN records :
     LET r == records[i] IN r.trace = t /\ r.op = "node" /\ r.base \in Nodes}

\* Mutant of Listed: the dispatcher's record is listed like a node.
ListedWithDispatch(r) == r.op # "edge_decision"

\* get_trace: names that end in _dispatch and edges are not shown.
Listed(r) == r.op \notin {"edge_decision", "shadow_dispatch"}

\* get_trace: what the page shows of the thread, each name at its first place.
PageRows ==
  {i \in DOMAIN records :
     /\ Listed(records[i])
     /\ \A j \in 1 .. i - 1 :
          records[j].base = records[i].base => ~ Listed(records[j])}

\* _step1_overview: every row of the thread but those of edges.
ScriptRows == {i \in DOMAIN records : records[i].op # "edge_decision"}

----------------------------------------------------------------------------
(***************************************************************************)
(* The auditor.                                                            *)
(***************************************************************************)

\* Names of the rows, between those of the ends of a trace.
NameAt(i) ==
  IF i = 0 THEN "__START__"
  ELSE IF i = Len(records) + 1 THEN "__END__" ELSE records[i].base

NamesOf(rows) == {NameAt(i) : i \in rows}

\* From __START__ over some rows to __END__, a repeated name being dropped: from
\* where to where each transition goes, and its names.
Hops(rows) ==
  {p \in (rows \cup {0}) \X (rows \cup {Len(records) + 1}) :
     /\ p[1] < p[2] /\ ~ \E i \in rows : p[1] < i /\ i < p[2]
     /\ NameAt(p[1]) # NameAt(p[2])}

Step(p) == <<NameAt(p[1]), NameAt(p[2])>>

Permitted(step) == step[1] \in DOMAIN Allowed /\ step[2] \in Allowed[step[1]]

NoStep == <<"", "">>

Signature(label, ran, end) == [label |-> label, ran |-> ran, end |-> end]

\* _VARIANT_SIGNATURES; the first that fits names the variant.
VariantSignatures ==
  <<Signature("followup", {"FollowUpResponder", "InlineEvaluator"}, "InlineEvaluator"),
    Signature("troubleshoot_deterministic_exit", {"DeterministicRuleChecker"},
              "DeterministicRuleChecker"),
    Signature("replace_part", {"DirectReplacementAnalyzer", "InlineEvaluator"},
              "InlineEvaluator"),
    Signature("troubleshoot_short_circuit", {"SymptomAnalyzer", "RootCauseAnalyzer"},
              "RootCauseAnalyzer")>>

\* The heuristics for what the signatures leave over.
LabelByHeuristics(rows) ==
  LET occurs(step) == step \in {Step(p) : p \in Hops(rows)}
  IN  IF NameAt(Max(rows)) # "InlineEvaluator" THEN "none"
      ELSE IF "UnsafeMethodGate" \in NamesOf(rows) THEN "unsafe_method_redirect"
      ELSE IF occurs(<<"InlineEvaluator", "RepairPlanner">>) THEN "troubleshoot_eval_retry"
      ELSE IF occurs(<<"SafetyJudgeGate", "RepairPlanner">>) THEN "troubleshoot_safety_retry"
      ELSE "troubleshoot_full"

VariantLabel(rows) ==
  LET fits == {k \in DOMAIN VariantSignatures :
                 /\ VariantSignatures[k].ran \subseteq NamesOf(rows)
                 /\ VariantSignatures[k].end = NameAt(Max(rows))}
  IN  IF fits = {} THEN LabelByHeuristics(rows) ELSE VariantSignatures[Min(fits)].label

\* match_trace_variant; the script holds a copy of it.
MatchTraceVariant(rows) ==
  LET deviating == {p \in Hops(rows) : ~ Permitted(Step(p))}
      first == CHOOSE p \in deviating : \A q \in deviating : p[2] <= q[2]
  IN  IF rows = {}
      THEN [conforming |-> TRUE, label |-> "none", edge |-> NoStep]
      ELSE [conforming |-> deviating = {}, label |-> VariantLabel(rows),
            edge |-> IF deviating = {} THEN NoStep ELSE Step(first)]

\* A trace as fitness and precision replay it.
Replayed(t) == {Step(p) : p \in Hops(TraceRows(t))}

\* The traces the auditor finds in the log.
Traces == {t \in Turn : TraceRows(t) # {}}

Deviations(t) == {step \in Replayed(t) : ~ Permitted(step)}

\* compute_process_fitness: the traces that conform fully; the ratio of consumed
\* transitions is one when these are all.
ProcessFitness ==
  IF Cardinality(Traces) < MinSessions THEN {} ELSE {t \in Traces : Deviations(t) = {}}

ModelTransitions == UNION {{<<a, b>> : b \in Allowed[a]} : a \in DOMAIN Allowed}

\* compute_process_precision: the model's transitions that were exercised.  The
\* ends of a trace are only counted if the model has them.
ProcessPrecision ==
  IF Cardinality(Traces) < MinSessions THEN {}
  ELSE ModelTransitions \cap UNION {Replayed(t) : t \in Traces}

----------------------------------------------------------------------------
(***************************************************************************)
(* Properties.                                                             *)
(***************************************************************************)

TimedOut(t)    == {m[2] : m \in {m \in mishaps : m[1] = t /\ m[3] = "timeout"}}
Silent(t)      == <<t, "InlineEvaluator", "silent">> \in mishaps
Undisturbed(t) == Closed(t) /\ ~ Cut(t) /\ TimedOut(t) = {}

\* The variant a turn took, by the nodes it ran, as the evaluation's queries expect it:
\* a replacement by an unsafe method that was corrected is "unsafe_method_redirect"
\* (eval/generation/eval_queries_coverage.md #7, eval/scripts/run_diagnostics.py:63).
Variant(t) ==
  LET ran(n) == n \in ToSet(walk[t])
  IN  IF ran("FollowUpResponder") THEN "followup"
      ELSE IF Last(walk[t]) = "DeterministicRuleChecker" THEN "troubleshoot_deterministic_exit"
      ELSE IF Last(walk[t]) = "RootCauseAnalyzer" THEN "troubleshoot_short_circuit"
      ELSE IF ran("UnsafeMethodGate") THEN "unsafe_method_redirect"
      ELSE IF ran("DirectReplacementAnalyzer") THEN "replace_part"
      ELSE "troubleshoot_full"

\* The label is the turn's variant; the code disagrees with that expectation, as it
\* tries the signature of "replace_part" before it looks for UnsafeMethodGate.
Names(label, t) ==
  \/ label = Variant(t)
  \/ /\ label = "replace_part"
     /\ {"UnsafeMethodGate", "DirectReplacementAnalyzer"} \subseteq ToSet(walk[t])

\* The trace page tells what the turn of a thread did: of its first turn always, of
\* a later one as long as it went the way of those before.  Of the first, it calls
\* nothing conforming that the auditor's replay rejects, and agrees with it unless
\* a node timed out; it names the variant of every turn that ran undisturbed and
\* was scored, and no other unless the turn was cut short or UnsafeMethodGate or
\* FollowUpResponder timed out, but calls a corrected unsafe replacement a plain one
\* (Names).  The diagnostic procedure says the same as long as no shadow evaluation
\* was dispatched.
PageTellsTheTurn ==
  turn > 0 /\ Closed(turn) =>
    LET page == MatchTraceVariant(PageRows)
        replayed == Deviations(1) = {} \/ 1 \notin Traces
    IN  /\ (\A t \in 1 .. turn :
              Undisturbed(t) /\ ~ Silent(t) /\ walk[t] = walk[turn])
             => page.conforming /\ Names(page.label, turn)
        /\ turn = 1 =>
             /\ page.conforming => replayed
             /\ TimedOut(1) = {} => page.conforming = replayed
             /\ Undisturbed(1) /\ Silent(1) => page.label = "none"
             /\ \/ page.label = "none" \/ Names(page.label, 1)
                \/ Cut(1)
                \/ TimedOut(1) \cap {"UnsafeMethodGate", "FollowUpResponder"} # {}
             /\ ~ Dispatched(1) => MatchTraceVariant(ScriptRows) = page

\* The transitions a turn took.
Took(t) ==
  LET path == <<"__START__">> \o walk[t] \o (IF Cut(t) THEN << >> ELSE <<"__END__">>)
  IN  {<<path[i], path[i + 1]>> : i \in 1 .. Len(path) - 1}

\* The auditor counts the transitions of every turn that ran undisturbed and was
\* scored.  It credits one that nobody took only where a record is missing between
\* its ends, or behind a turn that was cut short where a turn may end.  And it
\* accepts a turn with a timeout only if the node is one a turn can do without.
OnlyGapsMislead ==
  node \in Ended /\ Cardinality(Traces) >= MinSessions =>
    LET credited   == ProcessPrecision
        conforming == ProcessFitness
        Skipped(n) == \E m \in mishaps : m[2] = n /\ m[3] \in {"timeout", "silent"}
        CutAfter(n) == \E t \in 1 .. turn : Cut(t) /\ walk[t] # << >> /\ Last(walk[t]) = n
    IN  /\ \A t \in 1 .. turn :
             Undisturbed(t) /\ ~ Silent(t) =>
               Took(t) \subseteq credited /\ t \in conforming
        /\ \A step \in credited \ UNION {Took(t) : t \in 1 .. turn} :
             \/ step = <<"IntentRouter", "DeterministicRuleChecker">>
                  /\ Skipped("UnsafeMethodGate")
             \/ step = <<"KnowledgeRetriever", "SafetyExtractor">>
                  /\ Skipped("RootCauseAnalyzer")
             \/ step = <<"SafetyJudgeGate", "__END__">> /\ Skipped("InlineEvaluator")
             \/ step[2] = "__END__" /\ CutAfter(step[1])
        /\ \A t \in conforming :
             TimedOut(t) \subseteq {"UnsafeMethodGate", "RootCauseAnalyzer",
                                   "InlineEvaluator"}

============================================================================
