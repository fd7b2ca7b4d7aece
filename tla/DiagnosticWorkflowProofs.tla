---------------------- MODULE DiagnosticWorkflowProofs ---------------------
(***************************************************************************)
(* Theorems about the diagnostic workflow, for any number of turns and any *)
(* set of safety instructions.                                             *)
(***************************************************************************)
EXTENDS DiagnosticWorkflow, FiniteSetTheorems, TLAPS

(***************************************************************************)
(* A node that runs hands over to a node its edges name.                   *)
(***************************************************************************)

GraphNodes ==
  {"IntentRouter", "UnsafeMethodGate", "DeterministicRuleChecker",
   "SymptomAnalyzer", "DirectReplacementAnalyzer", "KnowledgeRetriever",
   "RootCauseAnalyzer", "SafetyExtractor", "RepairPlanner", "SafetyJudgeGate",
   "FollowUpResponder", "InlineEvaluator"}

\* The nodes of the auditor's reference model are the twelve of the graph.
LEMMA NodesAreGraphNodes == Process!Nodes = GraphNodes
  BY DEF Process!Nodes, Process!Allowed, GraphNodes

\* The routing functions choose a transition of the reference model, whatever
\* the state they read.
LEMMA RoutesAreAllowed ==
  ASSUME NEW n \in GraphNodes, NEW s
  PROVE  NextNode(n, s) \in Process!Allowed[n]
  BY DEF GraphNodes, NextNode, Process!Allowed, RouteFromIntent, RouteFromUnsafe,
         DispatchTarget, RouteFromDeterministicCheck, RouteFromKnowledge,
         RouteFromRootCause, RouteFromSafetyJudge

\* Every disjunct of RunNode runs the node it is named for.
LEMMA RunNodeRoutes ==
  ASSUME RunNode
  PROVE  \E n \in GraphNodes : node = n /\ node' = NextNode(n, state')
<1>1. ASSUME NEW n \in GraphNodes, NEW s, Finish(n, s)
      PROVE  node = n /\ node' = NextNode(n, state')
  BY <1>1 DEF Finish
<1>2. ASSUME NEW n \in GraphNodes, NEW s, TimeOut(n, s)
      PROVE  node = n /\ node' = NextNode(n, state')
  BY <1>2 DEF TimeOut
<1> QED
  BY <1>1, <1>2 DEF RunNode, GraphNodes, IntentRouter, UnsafeMethodGate,
     DeterministicRuleChecker, Analyzer, KnowledgeRetriever, RootCauseAnalyzer,
     SafetyExtractor, RepairPlanner, PlanWith, PlannerTimesOut, SafetyJudgeGate,
     FollowUpResponder, InlineEvaluator

ProcessStep == Process!Begin \/ Process!Follow \/ Process!Abandon

\* Seen at the node alone, every step of the workflow begins, follows or
\* abandons a run of the reference model.
LEMMA NodeSteps ==
  ASSUME [Next]_vars
  PROVE  [ProcessStep]_node
<1>1. CASE StartTurn
  BY <1>1 DEF StartTurn, ProcessStep, Process!Begin, Process!Allowed
<1>2. CASE RunNode
  <2>1. PICK n \in GraphNodes : node = n /\ node' = NextNode(n, state')
    BY <1>2, RunNodeRoutes
  <2>2. node' \in Process!Allowed[node]
    BY <2>1, RoutesAreAllowed
  <2> QED
    BY <2>1, <2>2, NodesAreGraphNodes DEF ProcessStep, Process!Follow
<1>3. CASE Abandon
  BY <1>3 DEF Abandon, ProcessStep, Process!Abandon
<1>4. CASE FinishLate \/ UNCHANGED vars
  BY <1>4 DEF FinishLate, vars
<1> QED
  BY <1>1, <1>2, <1>3, <1>4 DEF Next

\* The workflow implements the auditor's reference model: every transition it
\* takes, timeouts and retries included, is one the token replay allows.
THEOREM WorkflowFollowsProcessModel == Spec => FollowsProcessModel
<1>1. Init => Process!Init
  BY DEF Init, Process!Init
<1>2. [Next]_vars => [ProcessStep]_node
  BY NodeSteps
<1> QED
  BY <1>1, <1>2, PTL DEF Spec, FollowsProcessModel, Process!Spec, ProcessStep

----------------------------------------------------------------------------
(***************************************************************************)
(* The types.                                                              *)
(***************************************************************************)

\* What the nodes write to a field of DiagnosticState keeps its type.
LEMMA FieldTypes ==
  ASSUME NEW s \in StateType
  PROVE  /\ \A r \in Intents \cup Corrected : [s EXCEPT !.route = r] \in StateType
         /\ \A p \in BOOLEAN : [s EXCEPT !.procedural = p] \in StateType
         /\ \A t \in Turn : [s EXCEPT !.manuals = t] \in StateType
         /\ \A c \in [turn : Turn, quality : Qualities] :
              [s EXCEPT !.chunks = c] \in StateType
         /\ \A c \in [turn : Turn, kind : CauseKinds] :
              [s EXCEPT !.cause = c] \in StateType
         /\ \A p \in [turn : Turn, of : SUBSET Protocols] :
              [s EXCEPT !.protocols = p] \in StateType
         /\ \A r \in [turn : Turn, kind : ResponseKinds] :
              [s EXCEPT !.response = r] \in StateType
         /\ \A b \in BOOLEAN : [s EXCEPT !.override = b] \in StateType
         /\ \A b \in BOOLEAN : [s EXCEPT !.feedback = b] \in StateType
         /\ \A n \in 0 .. 1 : [s EXCEPT !.retry = n] \in StateType
  BY DEF StateType

\* What each node leaves in the state has the state's type.
LEMMA StateStep ==
  ASSUME TypeOK, RunNode
  PROVE  state' \in StateType
<1> USE DEF Finish, TimeOut
<1>0. 0 \in Turn
  BY TurnsAssumption DEF Turn
<1>1. turn \in Turn /\ 0 \in Turn /\ state \in StateType
  BY <1>0 DEF TypeOK
<1>2. CASE IntentRouter
  <2>1. PICK r \in Intents, p \in BOOLEAN :
          state' = [[state EXCEPT !.route = r] EXCEPT !.procedural = p]
    BY <1>2 DEF IntentRouter, Intents
  <2>2. [state EXCEPT !.route = r] \in StateType
    BY <1>1, FieldTypes
  <2> QED
    BY <2>1, <2>2, FieldTypes
<1>3. CASE UnsafeMethodGate
  <2>1. PICK r \in Intents \cup Corrected : state' = [state EXCEPT !.route = r]
    BY <1>3 DEF UnsafeMethodGate, Intents
  <2> QED
    BY <1>1, <2>1, FieldTypes
<1>4. CASE DeterministicRuleChecker
  <2>1. CASE state' = [state EXCEPT !.override = FALSE]
    BY <1>1, <2>1, FieldTypes
  <2>2. ASSUME NEW ps \in SUBSET Protocols,
               state' = [[[state EXCEPT !.override = TRUE]
                                EXCEPT !.response = [turn |-> turn, kind |-> "override"]]
                                EXCEPT !.protocols = [turn |-> turn, of |-> ps]]
        PROVE  state' \in StateType
    <3> DEFINE s1 == [state EXCEPT !.override = TRUE]
               s2 == [s1 EXCEPT !.response = [turn |-> turn, kind |-> "override"]]
    <3>1. s1 \in StateType
      BY <1>1, FieldTypes
    <3> HIDE DEF s1
    <3>2. [turn |-> turn, kind |-> "override"] \in [turn : Turn, kind : ResponseKinds]
      BY <1>1 DEF ResponseKinds
    <3>3. s2 \in StateType
      BY <3>1, <3>2, FieldTypes
    <3> HIDE DEF s2
    <3>4. [s2 EXCEPT !.protocols = [turn |-> turn, of |-> ps]] \in StateType
      BY <1>1, <3>3, FieldTypes
    <3> QED
      BY <2>2, <3>4 DEF s1, s2
  <2> QED
    BY <1>4, <2>1, <2>2 DEF DeterministicRuleChecker
<1>5. CASE Analyzer("SymptomAnalyzer") \/ Analyzer("DirectReplacementAnalyzer")
  BY <1>1, <1>5 DEF Analyzer
<1>6. CASE KnowledgeRetriever
  <2>1. CASE state' = [state EXCEPT !.manuals = 0]
    BY <1>1, <2>1, FieldTypes
  <2>2. ASSUME NEW q \in Qualities, NEW t \in Turn,
               state' = [[state EXCEPT !.manuals = t]
                                EXCEPT !.chunks = [turn |-> turn, quality |-> q]]
        PROVE  state' \in StateType
    <3>1. [state EXCEPT !.manuals = t] \in StateType
      BY <1>1, FieldTypes
    <3> QED
      BY <1>1, <2>2, <3>1, FieldTypes
  <2>3. \A q \in Qualities : ManualsWith(q) \subseteq Turn
    BY <1>1 DEF ManualsWith
  <2> QED
    BY <1>1, <1>6, <2>1, <2>2, <2>3 DEF KnowledgeRetriever
<1>7. CASE RootCauseAnalyzer
  <2>1. PICK kind \in CauseKinds :
          state' = [state EXCEPT !.cause = [turn |-> turn, kind |-> kind]]
    BY <1>7 DEF RootCauseAnalyzer, CauseKinds
  <2> QED
    BY <1>1, <2>1, FieldTypes
<1>8. CASE SafetyExtractor
  <2>1. PICK ps \in SUBSET Protocols :
          state' = [state EXCEPT !.protocols = [turn |-> turn, of |-> ps]]
    BY <1>8 DEF SafetyExtractor
  <2> QED
    BY <1>1, <2>1, FieldTypes
<1>9. CASE RepairPlanner
  <2>1. CASE PlannerTimesOut
    <3>1. [turn |-> turn, kind |-> "timeout"] \in [turn : Turn, kind : ResponseKinds]
      BY <1>1 DEF ResponseKinds
    <3> QED
      BY <1>1, <2>1, <3>1, FieldTypes DEF PlannerTimesOut
  <2>2. ASSUME NEW kind \in PlanKinds, NEW covers, PlanWith(kind, covers)
        PROVE  state' \in StateType
    <3>1. [turn |-> turn, kind |-> kind] \in [turn : Turn, kind : ResponseKinds]
      BY <1>1 DEF ResponseKinds
    <3>2. [state EXCEPT !.response = [turn |-> turn, kind |-> kind]] \in StateType
      BY <1>1, <3>1, FieldTypes
    <3> DEFINE n == IF state.feedback THEN 1 ELSE 0
    <3>3. n \in 0 .. 1
      OBVIOUS
    <3>4. state' = [[state EXCEPT !.response = [turn |-> turn, kind |-> kind]]
                             EXCEPT !.retry = n]
      BY <2>2 DEF PlanWith
    <3> HIDE DEF n
    <3> QED
      BY <3>2, <3>3, <3>4, FieldTypes
  <2> QED
    BY <1>9, <2>1, <2>2 DEF RepairPlanner, PlanKinds
<1>10. CASE SafetyJudgeGate
  <2>1. state.feedback \in BOOLEAN
    BY <1>1 DEF StateType
  <2>2. PICK b \in BOOLEAN : state' = [state EXCEPT !.feedback = b]
    BY <1>10, <2>1 DEF SafetyJudgeGate, GatePasses
  <2> QED
    BY <1>1, <2>2, FieldTypes
<1>11. CASE FollowUpResponder
  <2>1. CASE state' = state
    BY <1>1, <2>1
  <2>2. ASSUME NEW kind \in AnswerKinds,
               state' = [state EXCEPT !.response = [turn |-> turn, kind |-> kind]]
        PROVE  state' \in StateType
    <3>1. [turn |-> turn, kind |-> kind] \in [turn : Turn, kind : ResponseKinds]
      BY <1>1 DEF ResponseKinds
    <3> QED
      BY <1>1, <2>2, <3>1, FieldTypes
  <2> QED
    BY <1>11, <2>1, <2>2 DEF FollowUpResponder
<1>12. CASE InlineEvaluator
  BY <1>1, <1>12 DEF InlineEvaluator
<1> QED
  BY <1>2, <1>3, <1>4, <1>5, <1>6, <1>7, <1>8, <1>9, <1>10, <1>11, <1>12 DEF RunNode

\* What a plan records is what the planner read, and has its type.
LEMMA PlanStep ==
  ASSUME TypeOK, RunNode
  PROVE  plan' \in PlanType
<1>1. plan \in PlanType /\ state \in StateType
  BY DEF TypeOK
<1>2. plan.runs + 1 \in Nat
  <2>1. plan.runs \in Nat
    BY <1>1 DEF PlanType
  <2> QED
    BY <2>1
<1>3. CASE RepairPlanner
  <2>1. ASSUME NEW kind, NEW covers \in SUBSET Instruction, PlanWith(kind, covers)
        PROVE  plan' \in PlanType
    <3>0. plan.runs + 1 \in Nat
      BY <1>2
    <3>1. /\ state.route \in Intents \cup Corrected \cup {""}
          /\ state.procedural \in BOOLEAN
          /\ state.chunks \in [turn : Turn, quality : Qualities]
          /\ state.cause \in [turn : Turn, kind : CauseKinds]
          /\ state.protocols \in [turn : Turn, of : SUBSET Protocols]
      BY <1>1 DEF StateType
    <3>2. plan' = [runs |-> plan.runs + 1, covers |-> covers, route |-> state.route,
                   procedural |-> state.procedural, chunks |-> state.chunks,
                   cause |-> state.cause, protocols |-> state.protocols]
      BY <2>1 DEF PlanWith
    <3> QED
      BY <3>0, <3>1, <3>2 DEF PlanType
  <2>2. CASE PlannerTimesOut
    <3> DEFINE more == plan.runs + 1
               p    == [plan EXCEPT !.runs = more]
    <3>0. more \in Nat
      BY <1>2
    <3> HIDE DEF more
    <3>1. p \in PlanType
      BY <1>1, <3>0 DEF PlanType
    <3>2. plan' = [p EXCEPT !.covers = {}]
      BY <2>2 DEF PlannerTimesOut, more
    <3> HIDE DEF p
    <3> QED
      BY <3>1, <3>2 DEF PlanType
  <2> QED
    BY <1>3, <2>1, <2>2 DEF RepairPlanner
<1>4. CASE UNCHANGED plan
  BY <1>1, <1>4
<1> QED
  BY <1>3, <1>4 DEF RunNode, IntentRouter, UnsafeMethodGate, DeterministicRuleChecker,
     Analyzer, KnowledgeRetriever, RootCauseAnalyzer, SafetyExtractor,
     SafetyJudgeGate, FollowUpResponder, InlineEvaluator

\* The rows a node writes, or leaves to a thread of its own, name turns.
LateTyped(threads) ==
  \A thread \in threads : LinksTyped(thread.links) /\ MetricsTyped(thread.metrics)

RowsTyped == LinksTyped(links) /\ MetricsTyped(metrics) /\ LateTyped(late)

\* The rows a timed-out node leaves to its thread name turns, as its own do.
LEMMA LeftBehind ==
  ASSUME LateTyped(late), NEW newLinks, LinksTyped(newLinks),
         NEW newMetrics, MetricsTyped(newMetrics), LeaveBehind(newLinks, newMetrics)
  PROVE  LateTyped(late')
  BY DEF LateTyped, LeaveBehind

\* Every node writes chunk links and metric rows that name turns.
LEMMA RowsStep ==
  ASSUME TypeOK, RunNode
  PROVE  RowsTyped'
<1>1. turn \in Turn /\ state \in StateType /\ RowsTyped
  BY DEF TypeOK, RowsTyped, LateTyped
<1>2. state.chunks.turn \in Turn /\ state.manuals \in Turn
  BY <1>1 DEF StateType
<1>3. ASSUME NEW old, NEW new, LinksTyped(old), LinksTyped(new),
             links' = old \cup new
      PROVE  LinksTyped(links')
  BY <1>3 DEF LinksTyped
<1>4. ASSUME NEW old, NEW new, MetricsTyped(old), MetricsTyped(new),
             metrics' = old \cup new
      PROVE  MetricsTyped(metrics')
  BY <1>4 DEF MetricsTyped
<1>5. ASSUME UNCHANGED <<links, metrics, late>>
      PROVE  RowsTyped'
  BY <1>1, <1>5 DEF RowsTyped, LinksTyped, MetricsTyped, LateTyped
<1>6. CASE RepairPlanner
  <2>1. ASSUME NEW response
        PROVE  \A rows \in SUBSET ChunkLinks(response) : LinksTyped(rows)
    BY <1>2 DEF ChunkLinks, LinkRow, LinksTyped
  <2>2. metrics' = metrics
    BY <1>6 DEF RepairPlanner
  <2>3. ASSUME NEW kind, NEW covers, PlanWith(kind, covers)
        PROVE  RowsTyped'
    BY <1>1, <1>3, <2>1, <2>2, <2>3 DEF PlanWith, RowsTyped, LateTyped, MetricsTyped
  <2>4. CASE PlannerTimesOut
    <3>1. MetricsTyped({})
      BY DEF MetricsTyped
    <3>2. LateTyped(late')
      BY <1>1, <2>1, <2>4, <3>1, LeftBehind DEF PlannerTimesOut, RowsTyped
    <3> QED
      BY <1>1, <2>2, <2>4, <3>2 DEF PlannerTimesOut, RowsTyped, LateTyped,
         LinksTyped, MetricsTyped
  <2> QED
    BY <1>6, <2>3, <2>4 DEF RepairPlanner
<1>7. CASE InlineEvaluator
  <2>1. \A rows \in SUBSET Attributions : LinksTyped(rows)
    BY <1>2 DEF Attributions, LinkRow, LinksTyped
  <2>2. ASSUME NEW badge, NEW byLate
        PROVE  /\ \A rows \in SUBSET {MetricRow(state.response, badge, byLate)} :
                    MetricsTyped(rows)
               /\ \A rows \in SUBSET {[MetricRow(state.response, badge, byLate)
                                         EXCEPT !.review = FALSE]} :
                    MetricsTyped(rows)
    BY <1>1 DEF MetricRow, MetricsTyped
  <2>3. CASE UNCHANGED <<links, metrics, late>>
    BY <1>5, <2>3
  <2>4. ASSUME NEW rows \in SUBSET {[MetricRow(state.response, "gray", FALSE)
                                       EXCEPT !.review = FALSE]},
               metrics' = metrics \cup rows, UNCHANGED <<links, late>>
        PROVE  RowsTyped'
    BY <1>1, <1>4, <2>2, <2>4 DEF RowsTyped, LinksTyped, LateTyped
  <2>5. ASSUME NEW badge,
               NEW rows \in SUBSET {MetricRow(state.response, badge, FALSE)},
               NEW more \in SUBSET Attributions,
               metrics' = metrics \cup rows, links' = links \cup more,
               UNCHANGED late
        PROVE  RowsTyped'
    BY <1>1, <1>3, <1>4, <2>1, <2>2, <2>5 DEF RowsTyped, LateTyped
  <2>6. ASSUME NEW badge,
               LeaveBehind(Attributions, {MetricRow(state.response, badge, TRUE)}),
               UNCHANGED <<links, metrics>>
        PROVE  RowsTyped'
    <3>1. LateTyped(late')
      BY <1>1, <2>1, <2>2, <2>6, LeftBehind DEF RowsTyped
    <3> QED
      BY <1>1, <2>6, <3>1 DEF RowsTyped, LateTyped, LinksTyped, MetricsTyped
  <2> QED
    BY <1>7, <2>3, <2>4, <2>5, <2>6 DEF InlineEvaluator
<1> QED
  BY <1>5, <1>6, <1>7 DEF RunNode, IntentRouter, UnsafeMethodGate,
     DeterministicRuleChecker, Analyzer, KnowledgeRetriever, RootCauseAnalyzer,
     SafetyExtractor, SafetyJudgeGate, FollowUpResponder

\* The turn stays, and the books on timeouts and on the intent keep their types.
LEMMA BooksStep ==
  ASSUME TypeOK, RunNode
  PROVE  /\ turn' \in Turn
         /\ timedOut' \subseteq Turn \X Process!Nodes
         /\ intent' \in [is : Intents \cup {""}, warned : BOOLEAN]
<1>1. /\ turn \in Turn /\ timedOut \subseteq Turn \X Process!Nodes
      /\ intent \in [is : Intents \cup {""}, warned : BOOLEAN]
  BY DEF TypeOK
<1>2. turn' = turn
  BY DEF RunNode, Finish, TimeOut, IntentRouter, UnsafeMethodGate,
     DeterministicRuleChecker, Analyzer, KnowledgeRetriever, RootCauseAnalyzer,
     SafetyExtractor, RepairPlanner, PlanWith, PlannerTimesOut, SafetyJudgeGate,
     FollowUpResponder, InlineEvaluator
<1>3. timedOut' = timedOut
      \/ \E n \in GraphNodes : timedOut' = timedOut \cup {<<turn, n>>}
  BY DEF RunNode, Finish, TimeOut, GraphNodes, IntentRouter, UnsafeMethodGate,
     DeterministicRuleChecker, Analyzer, KnowledgeRetriever, RootCauseAnalyzer,
     SafetyExtractor, RepairPlanner, PlanWith, PlannerTimesOut, SafetyJudgeGate,
     FollowUpResponder, InlineEvaluator
<1>4. \/ intent' = intent
      \/ \E r \in Intents : intent' = [intent EXCEPT !.is = r]
      \/ intent' = [intent EXCEPT !.warned = TRUE]
  BY DEF RunNode, IntentRouter, UnsafeMethodGate,
     DeterministicRuleChecker, Analyzer, KnowledgeRetriever, RootCauseAnalyzer,
     SafetyExtractor, RepairPlanner, PlanWith, PlannerTimesOut, SafetyJudgeGate,
     FollowUpResponder, InlineEvaluator
<1>5. timedOut' \subseteq Turn \X Process!Nodes
  <2>1. ASSUME NEW n \in GraphNodes
        PROVE  <<turn, n>> \in Turn \X Process!Nodes
    BY <1>1, NodesAreGraphNodes
  <2> QED
    BY <1>1, <1>3, <2>1
<1>6. intent' \in [is : Intents \cup {""}, warned : BOOLEAN]
  BY <1>1, <1>4
<1> QED
  BY <1>1, <1>2, <1>5, <1>6

\* Every field of the thread's state, every row and every late thread keeps its
\* type, whichever nodes time out: TypeOK holds of every behaviour.
THEOREM TypeCorrect == Spec => []TypeOK
<1>1. Init => TypeOK
  <2> SUFFICES ASSUME Init
               PROVE  TypeOK
    OBVIOUS
  <2>1. 0 \in Turn
    BY TurnsAssumption DEF Turn
  <2>2. Initially \in StateType
    BY <2>1 DEF Initially, StateType, NoPlan, NoResponse, Intents, Corrected,
       Qualities, CauseKinds, ResponseKinds
  <2>3. NoPlan \in PlanType
    BY <2>1 DEF NoPlan, PlanType, Qualities, CauseKinds
  <2> QED
    BY <2>1, <2>2, <2>3 DEF Init, TypeOK, Process!Ended, LinksTyped, MetricsTyped
<1>2. TypeOK /\ [Next]_vars => TypeOK'
  <2> SUFFICES ASSUME TypeOK, [Next]_vars
               PROVE  TypeOK'
    OBVIOUS
  <2>1. CASE StartTurn
    <3>1. turn' \in Turn
      <4>1. turn \in Turn
        BY DEF TypeOK
      <4>2. turn < MaxTurns /\ turn' = turn + 1
        BY <2>1 DEF StartTurn
      <4> QED
        BY <4>1, <4>2, TurnsAssumption DEF Turn
    <3>2. NoPlan \in PlanType
      BY TurnsAssumption DEF NoPlan, PlanType, Turn, Qualities, CauseKinds
    <3>3. node' \in Process!Nodes
      BY <2>1, NodesAreGraphNodes DEF StartTurn, GraphNodes
    <3> QED
      BY <2>1, <3>1, <3>2, <3>3 DEF StartTurn, TypeOK, LinksTyped, MetricsTyped
  <2>2. CASE RunNode
    <3>1. node' \in Process!Nodes \cup Process!Ended
      <4>1. PICK n \in GraphNodes : node = n /\ node' = NextNode(n, state')
        BY <2>2, RunNodeRoutes
      <4>2. node' \in Process!Allowed[n] /\ Process!Allowed[n] \subseteq
              Process!Nodes \cup Process!Ended
        BY <4>1, RoutesAreAllowed, NodesAreGraphNodes
           DEF GraphNodes, Process!Allowed, Process!Ended
      <4> QED
        BY <4>2
    <3> QED
      BY <2>2, <3>1, StateStep, PlanStep, RowsStep, BooksStep
         DEF TypeOK, RowsTyped, LateTyped, LinksTyped, MetricsTyped
  <2>3. CASE Abandon
    BY <2>3 DEF Abandon, TypeOK, LinksTyped, MetricsTyped, Process!Ended
  <2>4. CASE FinishLate
    BY <2>4 DEF FinishLate, TypeOK, LinksTyped, MetricsTyped
  <2>5. CASE UNCHANGED vars
    BY <2>5 DEF vars, TypeOK, LinksTyped, MetricsTyped
  <2> QED
    BY <2>1, <2>2, <2>3, <2>4, <2>5 DEF Next
<1> QED
  BY <1>1, <1>2, PTL DEF Spec

----------------------------------------------------------------------------
(***************************************************************************)
(* What an intent entails.                                                 *)
(***************************************************************************)

\* A node other than IntentRouter leaves the record of the intent alone, up to
\* the warning; no node leads back to IntentRouter, and only IntentRouter leads
\* to the warning.
LEMMA IntentStep ==
  ASSUME RunNode
  PROVE  /\ turn' = turn /\ timedOut \subseteq timedOut'
         /\ node' # "IntentRouter"
         /\ node' = "UnsafeMethodGate" => node = "IntentRouter"
         /\ node \in GraphNodes
         /\ node \notin {"IntentRouter", "UnsafeMethodGate"} => intent' = intent
<1>1. node' # "IntentRouter" /\ node \in GraphNodes
      /\ (node' = "UnsafeMethodGate" => node = "IntentRouter")
  <2>1. PICK n \in GraphNodes : node = n /\ node' = NextNode(n, state')
    BY RunNodeRoutes
  <2> QED
    BY <2>1, RoutesAreAllowed DEF GraphNodes, Process!Allowed
<1>2. turn' = turn /\ timedOut \subseteq timedOut'
  BY DEF RunNode, Finish, TimeOut, IntentRouter, UnsafeMethodGate,
     DeterministicRuleChecker, Analyzer, KnowledgeRetriever, RootCauseAnalyzer,
     SafetyExtractor, RepairPlanner, PlanWith, PlannerTimesOut, SafetyJudgeGate,
     FollowUpResponder, InlineEvaluator
<1>3. node \notin {"IntentRouter", "UnsafeMethodGate"} => intent' = intent
  BY DEF RunNode, Finish, TimeOut, IntentRouter, UnsafeMethodGate,
     DeterministicRuleChecker, Analyzer, KnowledgeRetriever, RootCauseAnalyzer,
     SafetyExtractor, RepairPlanner, SafetyJudgeGate,
     FollowUpResponder, InlineEvaluator
<1> QED
  BY <1>1, <1>2, <1>3

\* RepairPlanner alone writes the plan.
LEMMA PlanUnchanged ==
  ASSUME RunNode, node # "RepairPlanner"
  PROVE  plan' = plan
  BY DEF RunNode, IntentRouter, UnsafeMethodGate, DeterministicRuleChecker, Analyzer,
     KnowledgeRetriever, RootCauseAnalyzer, SafetyExtractor, RepairPlanner, PlanWith,
     PlannerTimesOut, SafetyJudgeGate, FollowUpResponder, InlineEvaluator, Finish,
     TimeOut

\* What a mismatch runs through before it ends.
MismatchPath ==
  {"DeterministicRuleChecker", "SymptomAnalyzer", "KnowledgeRetriever",
   "RootCauseAnalyzer"}

MismatchInv ==
  /\ node = "IntentRouter" => plan.runs = 0 /\ intent.is = ""
  /\ intent.is = "mismatch" =>
       /\ plan.runs = 0
       /\ \/ node \in Process!Ended
          \/ node \in MismatchPath /\ state.route = "mismatch"

\* The nodes of that path leave the route as it is.
LEMMA RouteKept ==
  ASSUME TypeOK, RunNode, node \in MismatchPath
  PROVE  state'.route = state.route
<1>1. state \in StateType
  BY DEF TypeOK
<1>2. CASE DeterministicRuleChecker
  <2>1. ASSUME NEW ps,
               state' = [state EXCEPT !.override  = TRUE,
                                      !.response  = [turn |-> turn, kind |-> "override"],
                                      !.protocols = [turn |-> turn, of |-> ps]]
        PROVE  state'.route = state.route
    BY <1>1, <2>1 DEF StateType
  <2>2. CASE state' = [state EXCEPT !.override = FALSE]
    BY <1>1, <2>2 DEF StateType
  <2> QED
    BY <1>2, <2>1, <2>2 DEF DeterministicRuleChecker, Finish
<1>3. CASE KnowledgeRetriever
  <2>1. ASSUME NEW q, NEW t,
               state' = [state EXCEPT !.manuals = t,
                                      !.chunks = [turn |-> turn, quality |-> q]]
        PROVE  state'.route = state.route
    BY <1>1, <2>1 DEF StateType
  <2>2. CASE state' = [state EXCEPT !.manuals = 0]
    BY <1>1, <2>2 DEF StateType
  <2> QED
    BY <1>3, <2>1, <2>2 DEF KnowledgeRetriever, Finish, TimeOut
<1>4. CASE RootCauseAnalyzer
  <2>1. PICK c : state' = [state EXCEPT !.cause = c]
    BY <1>4 DEF RootCauseAnalyzer, Finish, TimeOut
  <2> QED
    BY <1>1, <2>1 DEF StateType
<1>5. CASE Analyzer("SymptomAnalyzer")
  BY <1>5 DEF Analyzer, Finish
<1> QED
  BY <1>2, <1>3, <1>4, <1>5 DEF MismatchPath, RunNode, Finish, TimeOut, IntentRouter,
     UnsafeMethodGate, Analyzer, SafetyExtractor, RepairPlanner, PlanWith,
     PlannerTimesOut, SafetyJudgeGate, FollowUpResponder, InlineEvaluator

\* A mismatch recognised by IntentRouter keeps its route, or its turn away
\* from RepairPlanner, through every step.
LEMMA MismatchStep ==
  ASSUME TypeOK, MismatchInv, [Next]_vars
  PROVE  MismatchInv'
<1>1. CASE StartTurn
  BY <1>1 DEF StartTurn, MismatchInv, NoPlan
<1>2. CASE RunNode
  <2>1. CASE node = "IntentRouter"
    <3>1. PICK r \in Intents :
            \/ intent' = [intent EXCEPT !.is = r] /\ state'.route = r
            \/ intent' = intent
      <4>1. state \in StateType
        BY DEF TypeOK
      <4>2. \/ \E r \in Intents, p \in BOOLEAN :
                 /\ state' = [state EXCEPT !.route = r, !.procedural = p]
                 /\ intent' = [intent EXCEPT !.is = r]
            \/ intent' = intent
        BY <1>2, <2>1 DEF RunNode, Finish, TimeOut, IntentRouter,
           UnsafeMethodGate, DeterministicRuleChecker, Analyzer, KnowledgeRetriever,
           RootCauseAnalyzer, SafetyExtractor, RepairPlanner, PlanWith,
           PlannerTimesOut, SafetyJudgeGate, FollowUpResponder, InlineEvaluator
      <4>3. ASSUME NEW r \in Intents, NEW p \in BOOLEAN,
                   state' = [state EXCEPT !.route = r, !.procedural = p]
            PROVE  state'.route = r
        BY <4>1, <4>3 DEF StateType
      <4> QED
        BY <4>2, <4>3 DEF Intents
    <3>2. intent \in [is : Intents \cup {""}, warned : BOOLEAN]
      BY DEF TypeOK
    <3>3. node' = RouteFromIntent(state')
      <4>1. PICK n \in GraphNodes : node = n /\ node' = NextNode(n, state')
        BY <1>2, RunNodeRoutes
      <4> QED
        BY <2>1, <4>1 DEF NextNode
    <3>4. plan' = plan /\ node' # "IntentRouter"
      BY <1>2, <2>1, PlanUnchanged, IntentStep
    <3>5. intent'.is = "mismatch" => state'.route = "mismatch"
      BY <2>1, <3>1, <3>2 DEF MismatchInv
    <3>6. state'.route = "mismatch" => node' = "DeterministicRuleChecker"
      BY <3>3 DEF RouteFromIntent, DispatchTarget
    <3> QED
      BY <2>1, <3>4, <3>5, <3>6 DEF MismatchInv, MismatchPath
  <2>2. CASE node = "UnsafeMethodGate"
    <3>1. intent'.is = intent.is
      <4>1. intent \in [is : Intents \cup {""}, warned : BOOLEAN]
        BY DEF TypeOK
      <4>2. intent' = intent \/ intent' = [intent EXCEPT !.warned = TRUE]
        BY <1>2, <2>2 DEF RunNode, Finish, TimeOut, IntentRouter,
           UnsafeMethodGate, DeterministicRuleChecker, Analyzer, KnowledgeRetriever,
           RootCauseAnalyzer, SafetyExtractor, RepairPlanner, PlanWith,
           PlannerTimesOut, SafetyJudgeGate, FollowUpResponder, InlineEvaluator
      <4> QED
        BY <4>1, <4>2
    <3> QED
      BY <1>2, <2>2, <3>1, IntentStep DEF MismatchInv, MismatchPath, Process!Ended
  <2>3. CASE node \notin {"IntentRouter", "UnsafeMethodGate"}
    <3>1. intent' = intent /\ node' # "IntentRouter"
      BY <1>2, <2>3, IntentStep
    <3>2. ASSUME intent.is = "mismatch"
          PROVE  /\ plan'.runs = 0
                 /\ \/ node' \in Process!Ended
                    \/ node' \in MismatchPath /\ state'.route = "mismatch"
      <4>1. node \in MismatchPath /\ state.route = "mismatch"
        BY <1>2, <3>2, IntentStep DEF MismatchInv, Process!Ended, GraphNodes
      <4>2. state'.route = "mismatch" /\ plan' = plan
        BY <1>2, <4>1, RouteKept, PlanUnchanged DEF MismatchPath
      <4>3. PICK n \in GraphNodes : node = n /\ node' = NextNode(n, state')
        BY <1>2, RunNodeRoutes
      <4>4. node' \in Process!Ended \cup MismatchPath
        BY <4>1, <4>2, <4>3 DEF NextNode, MismatchPath, Process!Ended,
           RouteFromDeterministicCheck, RouteFromKnowledge, RouteFromRootCause
      <4> QED
        BY <3>2, <4>2, <4>4 DEF MismatchInv
    <3> QED
      BY <3>1, <3>2 DEF MismatchInv
  <2> QED
    BY <2>1, <2>2, <2>3
<1>3. CASE Abandon
  BY <1>3 DEF Abandon, MismatchInv, Process!Ended
<1>4. CASE FinishLate \/ UNCHANGED vars
  BY <1>4 DEF FinishLate, MismatchInv, vars
<1> QED
  BY <1>1, <1>2, <1>3, <1>4 DEF Next

\* Whatever times out, a turn whose image shows another device never reaches
\* RepairPlanner: the route is kept up to the edge behind RootCauseAnalyzer.
THEOREM MismatchStopped == Spec => []MismatchNeverPlanned
<1>1. Init => MismatchInv
  <2> SUFFICES ASSUME Init
               PROVE  MismatchInv
    OBVIOUS
  <2>1. node = "__END__" /\ intent = [is |-> "", warned |-> FALSE]
    BY DEF Init
  <2>2. intent.is = ""
    BY <2>1
  <2> QED
    BY <2>1, <2>2 DEF MismatchInv
<1>2. TypeOK /\ MismatchInv /\ [Next]_vars => MismatchInv'
  BY MismatchStep
<1>3. MismatchInv => MismatchNeverPlanned
  BY DEF MismatchInv, MismatchNeverPlanned
<1> QED
  BY <1>1, <1>2, <1>3, TypeCorrect, PTL DEF Spec

----------------------------------------------------------------------------
(***************************************************************************)
(* The warning before an unsafe method.                                    *)
(***************************************************************************)

\* The response is older than the turn until a node behind the warning answers.
Unanswered == state.response.turn # turn

UnsafeInv ==
  /\ state.response.turn \in 0 .. turn
  /\ node = "IntentRouter" => intent.is = "" /\ Unanswered
  /\ node = "UnsafeMethodGate" => Unanswered
  /\ intent.is = "unsafe_method" =>
       \/ intent.warned
       \/ TimedOut("UnsafeMethodGate")
       \/ Unanswered /\ node \in Process!Ended \cup {"UnsafeMethodGate"}

\* A node answers for the turn that runs or not at all, and neither IntentRouter
\* nor UnsafeMethodGate answers.
LEMMA ResponseStep ==
  ASSUME TypeOK, RunNode
  PROVE  /\ \/ state'.response = state.response
            \/ state'.response.turn = turn
         /\ node \in {"IntentRouter", "UnsafeMethodGate"} =>
              state'.response = state.response
<1> USE DEF Finish, TimeOut
<1>1. state \in StateType
  BY DEF TypeOK
<1>2. CASE IntentRouter
  <2>1. PICK r, p : state' = [state EXCEPT !.route = r, !.procedural = p]
    BY <1>2 DEF IntentRouter
  <2> QED
    BY <1>1, <2>1 DEF StateType
<1>3. CASE UnsafeMethodGate
  <2>1. PICK r : state' = [state EXCEPT !.route = r]
    BY <1>3 DEF UnsafeMethodGate
  <2> QED
    BY <1>1, <2>1 DEF StateType
<1>4. CASE DeterministicRuleChecker
  <2>1. ASSUME NEW ps,
               state' = [state EXCEPT !.override  = TRUE,
                                      !.response  = [turn |-> turn, kind |-> "override"],
                                      !.protocols = [turn |-> turn, of |-> ps]]
        PROVE  state'.response.turn = turn
    BY <1>1, <2>1 DEF StateType
  <2>2. ASSUME state' = [state EXCEPT !.override = FALSE]
        PROVE  state'.response = state.response
    BY <1>1, <2>2 DEF StateType
  <2> QED
    BY <1>4, <2>1, <2>2 DEF DeterministicRuleChecker
<1>5. CASE Analyzer("SymptomAnalyzer") \/ Analyzer("DirectReplacementAnalyzer")
  BY <1>5 DEF Analyzer
<1>6. CASE KnowledgeRetriever
  <2>1. ASSUME NEW q, NEW t,
               state' = [state EXCEPT !.manuals = t,
                                      !.chunks = [turn |-> turn, quality |-> q]]
        PROVE  state'.response = state.response
    BY <1>1, <2>1 DEF StateType
  <2>2. ASSUME state' = [state EXCEPT !.manuals = 0]
        PROVE  state'.response = state.response
    BY <1>1, <2>2 DEF StateType
  <2> QED
    BY <1>6, <2>1, <2>2 DEF KnowledgeRetriever
<1>7. CASE RootCauseAnalyzer
  <2>1. PICK c : state' = [state EXCEPT !.cause = c]
    BY <1>7 DEF RootCauseAnalyzer
  <2> QED
    BY <1>1, <1>7, <2>1 DEF StateType, RootCauseAnalyzer
<1>8. CASE SafetyExtractor
  <2>1. PICK ps : state' = [state EXCEPT !.protocols = ps]
    BY <1>8 DEF SafetyExtractor
  <2> QED
    BY <1>1, <1>8, <2>1 DEF StateType, SafetyExtractor
<1>9. CASE RepairPlanner
  <2>1. ASSUME NEW r, NEW k, state' = [state EXCEPT !.response = [turn |-> turn, kind |-> k],
                                                   !.retry = r]
        PROVE  state'.response.turn = turn
    BY <1>1, <2>1 DEF StateType
  <2>2. ASSUME NEW k, state' = [state EXCEPT !.response = [turn |-> turn, kind |-> k]]
        PROVE  state'.response.turn = turn
    BY <1>1, <2>2 DEF StateType
  <2> QED
    BY <1>9, <2>1, <2>2 DEF RepairPlanner, PlanWith, PlannerTimesOut
<1>10. CASE SafetyJudgeGate
  <2>1. PICK b : state' = [state EXCEPT !.feedback = b]
    BY <1>10 DEF SafetyJudgeGate
  <2> QED
    BY <1>1, <1>10, <2>1 DEF StateType, SafetyJudgeGate
<1>11. CASE FollowUpResponder
  <2>1. ASSUME NEW k, state' = [state EXCEPT !.response = [turn |-> turn, kind |-> k]]
        PROVE  state'.response.turn = turn
    BY <1>1, <2>1 DEF StateType
  <2> QED
    BY <1>11, <2>1 DEF FollowUpResponder
<1>12. CASE InlineEvaluator
  BY <1>12 DEF InlineEvaluator
<1> QED
  BY <1>2, <1>3, <1>4, <1>5, <1>6, <1>7, <1>8, <1>9, <1>10, <1>11, <1>12 DEF RunNode

\* A turn that begins is later than every turn a field was written in.
LEMMA UpTo ==
  ASSUME NEW n \in Nat
  PROVE  n \in 0 .. n /\ \A t \in 0 .. n : t \in 0 .. n + 1 /\ t # n + 1
  OBVIOUS

\* Until an unsafe method is warned of, or its gate timed out, no step
\* answers in the turn.
LEMMA UnsafeStep ==
  ASSUME TypeOK, UnsafeInv, [Next]_vars
  PROVE  UnsafeInv'
<1>1. CASE StartTurn
  <2>1. turn \in Nat /\ turn' = turn + 1 /\ state' = state /\ node' = "IntentRouter"
        /\ intent' = [is |-> "", warned |-> FALSE]
    <3>1. turn \in Turn
      BY DEF TypeOK
    <3>2. turn \in Nat
      BY <3>1, TurnsAssumption DEF Turn
    <3> QED
      BY <1>1, <3>2 DEF StartTurn
  <2>2. state.response.turn \in 0 .. turn
    BY DEF UnsafeInv
  <2>3. intent'.is = ""
    BY <2>1
  <2>4. state'.response.turn \in 0 .. turn' /\ Unanswered'
    <3> DEFINE t == state.response.turn
    <3>1. state'.response.turn = t /\ t \in 0 .. turn
      BY <2>1, <2>2
    <3> HIDE DEF t
    <3>2. t \in 0 .. turn + 1 /\ t # turn + 1
      BY <2>1, <3>1, UpTo
    <3> QED
      BY <2>1, <3>1, <3>2 DEF Unanswered
  <2> QED
    BY <2>1, <2>3, <2>4 DEF UnsafeInv
<1>2. CASE RunNode
  <2>1. turn' = turn /\ turn \in Nat
    <3>1. turn \in Turn
      BY DEF TypeOK
    <3> QED
      BY <1>2, <3>1, IntentStep, TurnsAssumption DEF Turn
  <2>2. state'.response.turn \in 0 .. turn'
    <3>1. state.response.turn \in 0 .. turn /\ turn \in 0 .. turn
      BY <2>1, UpTo DEF UnsafeInv
    <3>2. \/ state'.response = state.response
          \/ state'.response.turn = turn
      BY <1>2, ResponseStep
    <3> QED
      BY <2>1, <3>1, <3>2
  <2>3. node \in {"IntentRouter", "UnsafeMethodGate"} => Unanswered'
    BY <1>2, <2>1, ResponseStep DEF UnsafeInv, Unanswered
  <2>4. node' # "IntentRouter" /\ (node' = "UnsafeMethodGate" => Unanswered')
    BY <1>2, <2>3, IntentStep
  <2>5. ASSUME intent'.is = "unsafe_method"
        PROVE  \/ intent'.warned
               \/ TimedOut("UnsafeMethodGate")'
               \/ Unanswered' /\ node' \in Process!Ended \cup {"UnsafeMethodGate"}
    <3>1. CASE node = "IntentRouter"
      <4>1. PICK n \in GraphNodes : node = n /\ node' = NextNode(n, state')
        BY <1>2, RunNodeRoutes
      <4>2. state'.route = "unsafe_method"
        <5>1. \/ \E r \in Intents, p \in BOOLEAN :
                   /\ state' = [state EXCEPT !.route = r, !.procedural = p]
                   /\ intent' = [intent EXCEPT !.is = r]
              \/ intent' = intent
          BY <1>2, <3>1 DEF RunNode, Finish, TimeOut, IntentRouter,
             UnsafeMethodGate, DeterministicRuleChecker, Analyzer, KnowledgeRetriever,
             RootCauseAnalyzer, SafetyExtractor, RepairPlanner, PlanWith,
             PlannerTimesOut, SafetyJudgeGate, FollowUpResponder, InlineEvaluator
        <5>2. intent' # intent
          BY <2>5, <3>1 DEF UnsafeInv
        <5>3. PICK r \in Intents, p \in BOOLEAN :
                /\ state' = [state EXCEPT !.route = r, !.procedural = p]
                /\ intent' = [intent EXCEPT !.is = r]
          BY <5>1, <5>2
        <5>4. state \in StateType
              /\ intent \in [is : Intents \cup {""}, warned : BOOLEAN]
          BY DEF TypeOK
        <5>5. r = "unsafe_method"
          BY <2>5, <5>3, <5>4
        <5>6. state'.route = r
          BY <5>3, <5>4 DEF StateType
        <5> QED
          BY <5>5, <5>6
      <4>3. node' = "UnsafeMethodGate"
        BY <3>1, <4>1, <4>2 DEF NextNode, RouteFromIntent
      <4> QED
        BY <2>4, <4>3
    <3>2. CASE node = "UnsafeMethodGate"
      <4>1. \/ intent' = [intent EXCEPT !.warned = TRUE]
            \/ timedOut' = timedOut \cup {<<turn, "UnsafeMethodGate">>}
        BY <1>2, <3>2 DEF RunNode, Finish, TimeOut, IntentRouter,
           UnsafeMethodGate, DeterministicRuleChecker, Analyzer, KnowledgeRetriever,
           RootCauseAnalyzer, SafetyExtractor, RepairPlanner, PlanWith,
           PlannerTimesOut, SafetyJudgeGate, FollowUpResponder, InlineEvaluator
      <4>2. intent \in [is : Intents \cup {""}, warned : BOOLEAN]
        BY DEF TypeOK
      <4> QED
        BY <2>1, <4>1, <4>2 DEF TimedOut
    <3>3. CASE node \notin {"IntentRouter", "UnsafeMethodGate"}
      <4>1. intent' = intent /\ timedOut \subseteq timedOut'
            /\ node \notin Process!Ended \cup {"UnsafeMethodGate"}
        BY <1>2, <3>3, IntentStep DEF GraphNodes, Process!Ended
      <4> QED
        BY <2>1, <2>5, <4>1 DEF UnsafeInv, TimedOut
    <3> QED
      BY <3>1, <3>2, <3>3
  <2> QED
    BY <2>2, <2>4, <2>5 DEF UnsafeInv
<1>3. CASE Abandon
  <2>1. node \notin Process!Ended /\ node' = "failed"
        /\ UNCHANGED <<turn, state, timedOut, intent>>
    BY <1>3 DEF Abandon
  <2>2. node' \in Process!Ended
    BY <2>1 DEF Process!Ended
  <2> QED
    BY <2>1, <2>2 DEF UnsafeInv, Unanswered, TimedOut
<1>4. CASE FinishLate \/ UNCHANGED vars
  BY <1>4 DEF FinishLate, UnsafeInv, Unanswered, TimedOut, vars
<1> QED
  BY <1>1, <1>2, <1>3, <1>4 DEF Next

\* A method classified as unsafe is answered only after the warning went out,
\* unless the gate that sends it timed out.
THEOREM UnsafeWarned == Spec => []UnsafeIsWarned
<1>1. Init => UnsafeInv
  <2> SUFFICES ASSUME Init
               PROVE  UnsafeInv
    OBVIOUS
  <2>1. /\ turn = 0 /\ node = "__END__" /\ state.response.turn = 0
        /\ intent = [is |-> "", warned |-> FALSE]
    BY DEF Init, Initially, NoResponse
  <2>2. intent.is = ""
    BY <2>1
  <2>3. state.response.turn \in 0 .. turn
    <3>1. 0 \in 0 .. 0
      OBVIOUS
    <3> QED
      BY <2>1, <3>1, Zenon
  <2>4. node # "IntentRouter" /\ node # "UnsafeMethodGate"
        /\ intent.is # "unsafe_method"
    BY <2>1, <2>2
  <2> QED
    BY <2>3, <2>4 DEF UnsafeInv
<1>2. TypeOK /\ UnsafeInv /\ [Next]_vars => UnsafeInv'
  BY UnsafeStep
<1>3. UnsafeInv => UnsafeIsWarned
  BY DEF UnsafeInv, UnsafeIsWarned, Unanswered
<1> QED
  BY <1>1, <1>2, <1>3, TypeCorrect, PTL DEF Spec

\* Risky intents are heeded for any number of turns: mismatches are not planned
\* for, unsafe methods are not answered without their warning.
THEOREM RiskHeeded == Spec => []RiskIsHeeded
<1>1. MismatchNeverPlanned /\ UnsafeIsWarned => RiskIsHeeded
  BY DEF RiskIsHeeded
<1> QED
  BY <1>1, MismatchStopped, UnsafeWarned, PTL

----------------------------------------------------------------------------
(***************************************************************************)
(* The retry loop of the safety judge.                                     *)
(***************************************************************************)

\* A dict with an instruction has no "text", so the gate counts it as covered
\* whatever the plan says: every plan passes.
LEMMA GateAlwaysPasses ==
  ASSUME NEW protocols \in SUBSET Protocols, NEW covers
  PROVE  GatePasses(protocols, covers)
<1>1. ASSUME NEW p \in protocols
      PROVE  ProtocolSurvives(p, covers)
  BY <1>1 DEF ProtocolSurvives, ProtocolText, Protocols
<1>2. {p \in protocols : ProtocolSurvives(p, covers)} = protocols
  BY <1>1
<1>3. Cardinality(protocols) \in Nat
  BY FS_Subset, FS_CardinalityType, ProtocolsAssumption
<1>4. \A n \in Nat : 100 * n >= 85 * n
  OBVIOUS
<1> QED
  BY <1>2, <1>3, <1>4 DEF GatePasses

BeforePlan ==
  {"IntentRouter", "UnsafeMethodGate", "DeterministicRuleChecker",
   "SymptomAnalyzer", "DirectReplacementAnalyzer", "KnowledgeRetriever",
   "RootCauseAnalyzer", "SafetyExtractor", "RepairPlanner"}

OnceInv ==
  /\ state.feedback = FALSE
  /\ plan.runs \in {0, 1}
  /\ node \in BeforePlan => plan.runs = 0

\* SafetyJudgeGate alone writes judge_feedback.
LEMMA FeedbackStep ==
  ASSUME TypeOK, RunNode, state.feedback = FALSE
  PROVE  state'.feedback = FALSE
<1> USE DEF Finish, TimeOut
<1>1. state \in StateType
  BY DEF TypeOK
<1>2. CASE IntentRouter
  <2>1. PICK r, p : state' = [state EXCEPT !.route = r, !.procedural = p]
    BY <1>2 DEF IntentRouter
  <2> QED
    BY <1>1, <2>1 DEF StateType
<1>3. CASE UnsafeMethodGate
  <2>1. PICK r : state' = [state EXCEPT !.route = r]
    BY <1>3 DEF UnsafeMethodGate
  <2> QED
    BY <1>1, <2>1 DEF StateType
<1>4. CASE DeterministicRuleChecker
  <2>1. ASSUME NEW ps, NEW r,
               state' = [state EXCEPT !.override = TRUE, !.response = r,
                                      !.protocols = [turn |-> turn, of |-> ps]]
        PROVE  state'.feedback = FALSE
    BY <1>1, <2>1 DEF StateType
  <2>2. ASSUME state' = [state EXCEPT !.override = FALSE]
        PROVE  state'.feedback = FALSE
    BY <1>1, <2>2 DEF StateType
  <2> QED
    BY <1>4, <2>1, <2>2 DEF DeterministicRuleChecker
<1>5. CASE Analyzer("SymptomAnalyzer") \/ Analyzer("DirectReplacementAnalyzer")
  BY <1>5 DEF Analyzer
<1>6. CASE KnowledgeRetriever
  <2>1. ASSUME NEW t, NEW c, state' = [state EXCEPT !.manuals = t, !.chunks = c]
        PROVE  state'.feedback = FALSE
    BY <1>1, <2>1 DEF StateType
  <2>2. ASSUME state' = [state EXCEPT !.manuals = 0]
        PROVE  state'.feedback = FALSE
    BY <1>1, <2>2 DEF StateType
  <2> QED
    BY <1>6, <2>1, <2>2 DEF KnowledgeRetriever
<1>7. CASE RootCauseAnalyzer
  <2>1. ASSUME NEW c, state' = [state EXCEPT !.cause = c]
        PROVE  state'.feedback = FALSE
    BY <1>1, <2>1 DEF StateType
  <2> QED
    BY <1>7, <2>1 DEF RootCauseAnalyzer
<1>8. CASE SafetyExtractor
  <2>1. ASSUME NEW ps, state' = [state EXCEPT !.protocols = ps]
        PROVE  state'.feedback = FALSE
    BY <1>1, <2>1 DEF StateType
  <2> QED
    BY <1>8, <2>1 DEF SafetyExtractor
<1>9. CASE RepairPlanner
  <2>1. ASSUME NEW r, NEW k, state' = [state EXCEPT !.response = k, !.retry = r]
        PROVE  state'.feedback = FALSE
    BY <1>1, <2>1 DEF StateType
  <2>2. ASSUME NEW k, state' = [state EXCEPT !.response = k]
        PROVE  state'.feedback = FALSE
    BY <1>1, <2>2 DEF StateType
  <2> QED
    BY <1>9, <2>1, <2>2 DEF RepairPlanner, PlanWith, PlannerTimesOut
<1>10. CASE SafetyJudgeGate
  <2>1. state.protocols.of \in SUBSET Protocols
    BY <1>1 DEF StateType
  <2>2. GatePasses(state.protocols.of, plan.covers)
    BY <2>1, GateAlwaysPasses
  <2>3. state' = [state EXCEPT !.feedback = FALSE]
    BY <1>10, <2>2 DEF SafetyJudgeGate
  <2> QED
    BY <1>1, <2>3 DEF StateType
<1>11. CASE FollowUpResponder
  <2>1. ASSUME NEW k, state' = [state EXCEPT !.response = k]
        PROVE  state'.feedback = FALSE
    BY <1>1, <2>1 DEF StateType
  <2> QED
    BY <1>11, <2>1 DEF FollowUpResponder
<1>12. CASE InlineEvaluator
  BY <1>12 DEF InlineEvaluator
<1> QED
  BY <1>2, <1>3, <1>4, <1>5, <1>6, <1>7, <1>8, <1>9, <1>10, <1>11, <1>12 DEF RunNode

\* The gate never asks for a second plan, and RepairPlanner is not reached
\* twice without it.
LEMMA OnceStep ==
  ASSUME TypeOK, OnceInv, [Next]_vars
  PROVE  OnceInv'
<1>1. CASE StartTurn
  BY <1>1 DEF StartTurn, OnceInv, NoPlan
<1>2. CASE RunNode
  <2>1. state'.feedback = FALSE
    BY <1>2, FeedbackStep DEF OnceInv
  <2>2. PICK n \in GraphNodes : node = n /\ node' = NextNode(n, state')
    BY <1>2, RunNodeRoutes
  <2>3. node' \in BeforePlan => node \in BeforePlan \ {"RepairPlanner"}
    <3>1. CASE node = "SafetyJudgeGate"
      BY <2>1, <2>2, <3>1 DEF NextNode, RouteFromSafetyJudge, BeforePlan
    <3>2. CASE node # "SafetyJudgeGate"
      BY <2>2, <3>2, RoutesAreAllowed DEF GraphNodes, Process!Allowed, BeforePlan
    <3> QED
      BY <3>1, <3>2
  <2>4. CASE node = "RepairPlanner"
    <3>1. plan.runs = 0 /\ plan \in PlanType
      BY <2>4 DEF OnceInv, BeforePlan, TypeOK
    <3>2. plan'.runs = plan.runs + 1
      <4>1. ASSUME NEW kind, NEW covers, PlanWith(kind, covers)
            PROVE  plan'.runs = plan.runs + 1
        BY <4>1 DEF PlanWith
      <4>2. ASSUME PlannerTimesOut
            PROVE  plan'.runs = plan.runs + 1
        BY <3>1, <4>2 DEF PlannerTimesOut, PlanType
      <4> QED
        BY <1>2, <2>4, <4>1, <4>2 DEF RunNode, Finish, TimeOut, IntentRouter,
           UnsafeMethodGate, DeterministicRuleChecker, Analyzer, KnowledgeRetriever,
           RootCauseAnalyzer, SafetyExtractor, RepairPlanner, SafetyJudgeGate,
           FollowUpResponder, InlineEvaluator
    <3>3. plan'.runs = 1
      BY <3>1, <3>2
    <3> QED
      BY <2>1, <2>3, <2>4, <3>3 DEF OnceInv
  <2>5. CASE node # "RepairPlanner"
    <3>1. plan' = plan
      BY <1>2, <2>5, PlanUnchanged
    <3> QED
      BY <2>1, <2>3, <3>1 DEF OnceInv
  <2> QED
    BY <2>4, <2>5
<1>3. CASE Abandon
  BY <1>3 DEF Abandon, OnceInv, BeforePlan
<1>4. CASE FinishLate \/ UNCHANGED vars
  BY <1>4 DEF FinishLate, OnceInv, vars
<1> QED
  BY <1>1, <1>2, <1>3, <1>4 DEF Next

\* The retry edge is dead: no gate of any turn sends a plan back, so a turn plans at
\* most once, whatever the protocols and the plan say.
THEOREM NeverSentBack == Spec => [](plan.runs <= 1)
<1>1. Init => OnceInv
  <2> SUFFICES ASSUME Init
               PROVE  OnceInv
    OBVIOUS
  <2>1. node = "__END__" /\ state = Initially /\ plan = NoPlan
    BY DEF Init
  <2>2. state.feedback = FALSE
    BY <2>1 DEF Initially
  <2>3. plan.runs = 0
    BY <2>1 DEF NoPlan
  <2> QED
    BY <2>1, <2>2, <2>3 DEF OnceInv, BeforePlan
<1>2. TypeOK /\ OnceInv /\ [Next]_vars => OnceInv'
  BY OnceStep
<1>3. OnceInv => plan.runs <= 1
  <2>1. \A n \in {0, 1} : n <= 1
    OBVIOUS
  <2> QED
    BY <2>1 DEF OnceInv
<1> QED
  BY <1>1, <1>2, <1>3, TypeCorrect, PTL DEF Spec

----------------------------------------------------------------------------
(***************************************************************************)
(* What a plan rests on.                                                   *)
(***************************************************************************)

\* The step taken at a node is that node's own.
LEMMA NodeRuns ==
  ASSUME RunNode
  PROVE  /\ node = "DeterministicRuleChecker" => DeterministicRuleChecker
         /\ node = "KnowledgeRetriever" => KnowledgeRetriever
         /\ node = "RootCauseAnalyzer" => RootCauseAnalyzer
         /\ node = "SafetyExtractor" => SafetyExtractor
         /\ node = "RepairPlanner" => RepairPlanner
         /\ node = "FollowUpResponder" => FollowUpResponder
         /\ node = "InlineEvaluator" => InlineEvaluator
  BY DEF RunNode, Finish, TimeOut, IntentRouter, UnsafeMethodGate,
     DeterministicRuleChecker, Analyzer, KnowledgeRetriever, RootCauseAnalyzer,
     SafetyExtractor, RepairPlanner, PlanWith, PlannerTimesOut, SafetyJudgeGate,
     FollowUpResponder, InlineEvaluator

\* A field of the thread's state is written by the nodes named here alone.
LEMMA FieldsKept ==
  ASSUME TypeOK, RunNode
  PROVE  /\ node # "KnowledgeRetriever" =>
              state'.chunks = state.chunks /\ state'.manuals = state.manuals
         /\ node # "RootCauseAnalyzer" => state'.cause = state.cause
         /\ node \notin {"IntentRouter", "UnsafeMethodGate"} => state'.route = state.route
         /\ node # "IntentRouter" => state'.procedural = state.procedural
         /\ node \notin {"DeterministicRuleChecker", "SafetyExtractor"} =>
              state'.protocols = state.protocols
         /\ node \notin {"DeterministicRuleChecker", "RepairPlanner",
                         "FollowUpResponder"} => state'.response = state.response
<1> USE DEF Finish, TimeOut
<1>1. state \in StateType
  BY DEF TypeOK
<1>2. CASE IntentRouter
  <2>1. PICK r, p : state' = [state EXCEPT !.route = r, !.procedural = p]
    BY <1>2 DEF IntentRouter
  <2> QED
    BY <1>1, <1>2, <2>1 DEF StateType, IntentRouter
<1>3. CASE UnsafeMethodGate
  <2>1. PICK r : state' = [state EXCEPT !.route = r]
    BY <1>3 DEF UnsafeMethodGate
  <2> QED
    BY <1>1, <1>3, <2>1 DEF StateType, UnsafeMethodGate
<1>4. CASE DeterministicRuleChecker
  <2>1. \/ state' = [state EXCEPT !.override = FALSE]
        \/ \E ps, r : state' = [state EXCEPT !.override = TRUE, !.response = r,
                                             !.protocols = [turn |-> turn, of |-> ps]]
    BY <1>4 DEF DeterministicRuleChecker
  <2>2. node = "DeterministicRuleChecker"
    BY <1>4 DEF DeterministicRuleChecker
  <2>3. /\ state'.chunks = state.chunks /\ state'.manuals = state.manuals
        /\ state'.cause = state.cause /\ state'.route = state.route
        /\ state'.procedural = state.procedural
    BY <1>1, <2>1 DEF StateType
  <2> QED
    BY <2>2, <2>3
<1>5. CASE Analyzer("SymptomAnalyzer") \/ Analyzer("DirectReplacementAnalyzer")
  BY <1>5 DEF Analyzer
<1>6. CASE KnowledgeRetriever
  <2>1. \/ \E t, c : state' = [state EXCEPT !.manuals = t, !.chunks = c]
        \/ state' = [state EXCEPT !.manuals = 0]
    BY <1>6 DEF KnowledgeRetriever
  <2>2. node = "KnowledgeRetriever"
    BY <1>6 DEF KnowledgeRetriever
  <2>3. /\ state'.cause = state.cause /\ state'.route = state.route
        /\ state'.procedural = state.procedural /\ state'.protocols = state.protocols
        /\ state'.response = state.response
    BY <1>1, <2>1 DEF StateType
  <2> QED
    BY <2>2, <2>3
<1>7. CASE RootCauseAnalyzer
  <2>1. PICK c : state' = [state EXCEPT !.cause = c]
    BY <1>7 DEF RootCauseAnalyzer
  <2> QED
    BY <1>1, <1>7, <2>1 DEF StateType, RootCauseAnalyzer
<1>8. CASE SafetyExtractor
  <2>1. PICK ps : state' = [state EXCEPT !.protocols = ps]
    BY <1>8 DEF SafetyExtractor
  <2> QED
    BY <1>1, <1>8, <2>1 DEF StateType, SafetyExtractor
<1>9. CASE RepairPlanner
  <2>1. \/ \E r, k : state' = [state EXCEPT !.response = k, !.retry = r]
        \/ \E k : state' = [state EXCEPT !.response = k]
    BY <1>9 DEF RepairPlanner, PlanWith, PlannerTimesOut
  <2>2. node = "RepairPlanner"
    BY <1>9 DEF RepairPlanner, PlanWith, PlannerTimesOut
  <2>3. /\ state'.chunks = state.chunks /\ state'.manuals = state.manuals
        /\ state'.cause = state.cause /\ state'.route = state.route
        /\ state'.procedural = state.procedural /\ state'.protocols = state.protocols
    BY <1>1, <2>1 DEF StateType
  <2> QED
    BY <2>2, <2>3
<1>10. CASE SafetyJudgeGate
  <2>1. PICK b : state' = [state EXCEPT !.feedback = b]
    BY <1>10 DEF SafetyJudgeGate
  <2> QED
    BY <1>1, <2>1 DEF StateType
<1>11. CASE FollowUpResponder
  <2>1. \/ state' = state
        \/ \E k : state' = [state EXCEPT !.response = k]
    BY <1>11 DEF FollowUpResponder
  <2>2. node = "FollowUpResponder"
    BY <1>11 DEF FollowUpResponder
  <2>3. /\ state'.chunks = state.chunks /\ state'.manuals = state.manuals
        /\ state'.cause = state.cause /\ state'.route = state.route
        /\ state'.procedural = state.procedural /\ state'.protocols = state.protocols
    BY <1>1, <2>1 DEF StateType
  <2> QED
    BY <2>2, <2>3
<1>12. CASE InlineEvaluator
  BY <1>12 DEF InlineEvaluator
<1> QED
  BY <1>2, <1>3, <1>4, <1>5, <1>6, <1>7, <1>8, <1>9, <1>10, <1>11, <1>12 DEF RunNode

\* Besides RepairPlanner, a rule and the follow-up node answer, with kinds of their own.
LEMMA OtherAnswers ==
  ASSUME TypeOK, RunNode, node # "RepairPlanner"
  PROVE  \/ state'.response = state.response
         \/ \E k \in AnswerKinds \cup {"override"} :
              state'.response = [turn |-> turn, kind |-> k]
<1>1. state \in StateType
  BY DEF TypeOK
<1>2. CASE node \notin {"DeterministicRuleChecker", "FollowUpResponder"}
  BY <1>2, FieldsKept
<1>3. CASE node = "DeterministicRuleChecker"
  <2>1. \/ state' = [state EXCEPT !.override = FALSE]
        \/ \E ps : state' = [state EXCEPT !.override  = TRUE,
                               !.response  = [turn |-> turn, kind |-> "override"],
                               !.protocols = [turn |-> turn, of |-> ps]]
    BY <1>3, NodeRuns DEF DeterministicRuleChecker, Finish
  <2>2. ASSUME NEW ps,
               state' = [state EXCEPT !.override  = TRUE,
                           !.response  = [turn |-> turn, kind |-> "override"],
                           !.protocols = [turn |-> turn, of |-> ps]]
        PROVE  state'.response = [turn |-> turn, kind |-> "override"]
    BY <1>1, <2>2 DEF StateType
  <2>3. ASSUME state' = [state EXCEPT !.override = FALSE]
        PROVE  state'.response = state.response
    BY <1>1, <2>3 DEF StateType
  <2> QED
    BY <2>1, <2>2, <2>3
<1>4. CASE node = "FollowUpResponder"
  <2>1. \/ state' = state
        \/ \E k \in AnswerKinds :
             state' = [state EXCEPT !.response = [turn |-> turn, kind |-> k]]
    BY <1>4, NodeRuns DEF FollowUpResponder, Finish, TimeOut
  <2>2. ASSUME NEW k \in AnswerKinds,
               state' = [state EXCEPT !.response = [turn |-> turn, kind |-> k]]
        PROVE  state'.response = [turn |-> turn, kind |-> k]
    BY <1>1, <2>2 DEF StateType
  <2> QED
    BY <2>1, <2>2
<1> QED
  BY <1>2, <1>3, <1>4

\* What RootCauseAnalyzer and the retrieval gate before it let through.
CauseFound ==
  state.route # "replace_part" /\ ~ state.procedural =>
    /\ state.chunks.quality = "good"
    /\ state.cause.turn = turn /\ state.cause.kind # "no_docs"

ChunksOfTurn == state.chunks.turn = turn \/ TimedOut("KnowledgeRetriever")

Retrieved == {"RootCauseAnalyzer", "SafetyExtractor", "RepairPlanner"}

\* What the nodes before RepairPlanner have prepared when a node is about to run.
GroundInv ==
  /\ node \in Retrieved => ChunksOfTurn
  /\ node \in {"SafetyExtractor", "RepairPlanner"} => CauseFound
  /\ node = "RepairPlanner" => state.protocols.turn = turn
  /\ PlanIsGrounded

\* Only these nodes lead to the nodes that prepare and write a plan, as long as the
\* safety gate sends nothing back.
LEMMA Predecessors ==
  ASSUME RunNode, state'.feedback = FALSE
  PROVE  /\ node' = "RootCauseAnalyzer" => node = "KnowledgeRetriever"
         /\ node' = "SafetyExtractor" =>
              \/ node = "KnowledgeRetriever" /\ state'.route = "replace_part"
              \/ node = "RootCauseAnalyzer" /\ state'.cause.kind # "no_docs"
         /\ node' = "RepairPlanner" => node = "SafetyExtractor"
<1>1. PICK n \in GraphNodes : node = n /\ node' = NextNode(n, state')
  BY RunNodeRoutes
<1>2. CASE n = "SafetyJudgeGate"
  BY <1>1, <1>2 DEF NextNode, RouteFromSafetyJudge
<1>3. CASE n = "RootCauseAnalyzer"
  BY <1>1, <1>3 DEF NextNode, RouteFromRootCause
<1>4. CASE n = "KnowledgeRetriever"
  BY <1>1, <1>4 DEF NextNode, RouteFromKnowledge
<1>5. CASE n \notin {"SafetyJudgeGate", "RootCauseAnalyzer", "KnowledgeRetriever"}
  BY <1>1, <1>5, RoutesAreAllowed DEF GraphNodes, Process!Allowed
<1> QED
  BY <1>2, <1>3, <1>4, <1>5

\* A retrieval that ended wrote the chunks of this turn.
LEMMA RetrieverWrites ==
  ASSUME TypeOK, RunNode, node = "KnowledgeRetriever"
  PROVE  ChunksOfTurn' /\ state'.manuals \in {0, turn}
<1>1. KnowledgeRetriever
  BY NodeRuns
<1>2. state \in StateType
  BY DEF TypeOK
<1>3. ASSUME NEW q \in Qualities, NEW m \in ManualsWith(q),
             Finish("KnowledgeRetriever",
                    [state EXCEPT !.manuals = m,
                                  !.chunks = [turn |-> turn, quality |-> q]])
      PROVE  ChunksOfTurn' /\ state'.manuals \in {0, turn}
  BY <1>2, <1>3 DEF StateType, Finish, ChunksOfTurn, ManualsWith
<1>4. ASSUME TimeOut("KnowledgeRetriever", [state EXCEPT !.manuals = 0])
      PROVE  ChunksOfTurn' /\ state'.manuals \in {0, turn}
  BY <1>2, <1>4 DEF StateType, TimeOut, ChunksOfTurn, TimedOut
<1> QED
  BY <1>1, <1>3, <1>4 DEF KnowledgeRetriever

\* The retrieval gate: without chunks that are similar enough, RootCauseAnalyzer
\* concludes that there is no documentation.
LEMMA RootCauseWrites ==
  ASSUME TypeOK, RunNode, node = "RootCauseAnalyzer"
  PROVE  /\ state'.cause.turn = turn
         /\ state.procedural \/ state.chunks.quality = "good"
              \/ state'.cause.kind = "no_docs"
<1>1. RootCauseAnalyzer
  BY NodeRuns
<1>2. state \in StateType
  BY DEF TypeOK
<1>3. PICK kind :
        /\ state' = [state EXCEPT !.cause = [turn |-> turn, kind |-> kind]]
        /\ state.procedural \/ RetrievalGate(state) \/ kind = "no_docs"
  BY <1>1 DEF RootCauseAnalyzer, Finish, TimeOut
<1> QED
  BY <1>2, <1>3 DEF StateType, RetrievalGate

\* A node that runs prepares what its successor counts on.
LEMMA GroundRun ==
  ASSUME TypeOK, OnceInv, GroundInv, RunNode
  PROVE  GroundInv'
<1>1. turn' = turn /\ timedOut \subseteq timedOut' /\ state'.feedback = FALSE
  BY IntentStep, FeedbackStep DEF OnceInv
<1>2. node' \in Retrieved => ChunksOfTurn'
  <2>1. CASE node = "KnowledgeRetriever"
    BY <2>1, RetrieverWrites
  <2>2. CASE node # "KnowledgeRetriever" /\ node' \in Retrieved
    <3>1. node \in Retrieved /\ state'.chunks = state.chunks
      BY <1>1, <2>2, Predecessors, FieldsKept DEF Retrieved
    <3> QED
      BY <1>1, <3>1 DEF GroundInv, ChunksOfTurn, TimedOut
  <2> QED
    BY <2>1, <2>2
<1>3. node' \in {"SafetyExtractor", "RepairPlanner"} => CauseFound'
  <2>1. CASE node' = "SafetyExtractor" /\ node = "KnowledgeRetriever"
    BY <1>1, <2>1, Predecessors DEF CauseFound
  <2>2. CASE node' = "SafetyExtractor" /\ node = "RootCauseAnalyzer"
    BY <1>1, <2>2, Predecessors, RootCauseWrites, FieldsKept DEF CauseFound
  <2>3. CASE node' = "RepairPlanner"
    <3>1. node = "SafetyExtractor"
      BY <1>1, <2>3, Predecessors
    <3> QED
      BY <1>1, <3>1, FieldsKept DEF GroundInv, CauseFound
  <2> QED
    BY <1>1, <2>1, <2>2, <2>3, Predecessors
<1>4. node' = "RepairPlanner" => state'.protocols.turn = turn'
  <2>1. SUFFICES ASSUME node' = "RepairPlanner"
                 PROVE  state'.protocols.turn = turn
    BY <1>1
  <2>2. node = "SafetyExtractor" /\ state \in StateType
    BY <1>1, <2>1, Predecessors DEF TypeOK
  <2>3. PICK ps : state' = [state EXCEPT !.protocols = [turn |-> turn, of |-> ps]]
    BY <2>2, NodeRuns DEF SafetyExtractor, Finish
  <2> QED
    BY <2>2, <2>3 DEF StateType
<1>5. PlanIsGrounded'
  <2>1. CASE node = "RepairPlanner"
    <3>1. RepairPlanner
      BY <2>1, NodeRuns
    <3>2. ASSUME NEW kind, NEW covers, PlanWith(kind, covers)
          PROVE  PlanIsGrounded'
      <4>1. plan' = [runs |-> plan.runs + 1, covers |-> covers, route |-> state.route,
                     procedural |-> state.procedural, chunks |-> state.chunks,
                     cause |-> state.cause, protocols |-> state.protocols]
        BY <3>2 DEF PlanWith
      <4>2. ChunksOfTurn /\ CauseFound /\ state.protocols.turn = turn
        BY <2>1 DEF GroundInv, Retrieved
      <4> QED
        BY <1>1, <4>1, <4>2 DEF PlanIsGrounded, ChunksOfTurn, CauseFound, TimedOut
    <3>3. CASE PlannerTimesOut
      <4>1. state' = [state EXCEPT !.response = [turn |-> turn, kind |-> "timeout"]]
            /\ state \in StateType
        BY <3>3 DEF PlannerTimesOut, TimeOut, TypeOK
      <4>2. state'.response.kind = "timeout"
        BY <4>1 DEF StateType
      <4> QED
        BY <4>2 DEF PlanIsGrounded, Planned
    <3> QED
      BY <3>1, <3>2, <3>3 DEF RepairPlanner
  <2>2. CASE node # "RepairPlanner"
    <3>1. plan' = plan
      BY <2>2, PlanUnchanged
    <3>2. state'.response = [turn |-> turn, kind |-> "plan"] =>
            state.response = [turn |-> turn, kind |-> "plan"]
      <4>1. state \in StateType
        BY DEF TypeOK
      <4>2. \/ state'.response = state.response
            \/ \E k \in AnswerKinds \cup {"override"} :
                 state'.response = [turn |-> turn, kind |-> k]
        BY <2>2, <4>1, OtherAnswers
      <4> QED
        BY <4>2 DEF AnswerKinds
    <3> QED
      BY <1>1, <3>1, <3>2 DEF GroundInv, PlanIsGrounded, Planned, TimedOut
  <2> QED
    BY <2>1, <2>2
<1> QED
  BY <1>2, <1>3, <1>4, <1>5 DEF GroundInv

LEMMA GroundStep ==
  ASSUME TypeOK, OnceInv, GroundInv, [Next]_vars
  PROVE  GroundInv'
<1>1. CASE StartTurn
  <2>1. node' = "IntentRouter" /\ plan'.runs = 0
    BY <1>1 DEF StartTurn, NoPlan
  <2>2. ~ Planned'
    BY <2>1 DEF Planned
  <2> QED
    BY <2>1, <2>2 DEF GroundInv, PlanIsGrounded, Retrieved
<1>2. CASE RunNode
  BY <1>2, GroundRun
<1>3. CASE Abandon
  BY <1>3 DEF Abandon, GroundInv, PlanIsGrounded, Planned, TimedOut, Retrieved
<1>4. CASE FinishLate \/ UNCHANGED vars
  BY <1>4 DEF FinishLate, vars, GroundInv, PlanIsGrounded, Planned, TimedOut,
     ChunksOfTurn, CauseFound
<1> QED
  BY <1>1, <1>2, <1>3, <1>4 DEF Next

\* No plan is drawn up from what an earlier turn left in the state, and none from a
\* context the retrieval gate refuses, for any number of turns and any timeouts: what
\* a turn prepares is complete whenever RepairPlanner runs.
THEOREM PlanGrounded == Spec => []PlanIsGrounded
<1>1. Init => OnceInv /\ GroundInv
  <2> SUFFICES ASSUME Init
               PROVE  OnceInv /\ GroundInv
    OBVIOUS
  <2>1. node = "__END__" /\ plan.runs = 0 /\ state.feedback = FALSE
    BY DEF Init, NoPlan, Initially
  <2>2. ~ Planned
    BY <2>1 DEF Planned
  <2> QED
    BY <2>1, <2>2 DEF OnceInv, BeforePlan, GroundInv, PlanIsGrounded, Retrieved
<1>2. TypeOK /\ OnceInv /\ GroundInv /\ [Next]_vars => (OnceInv /\ GroundInv)'
  BY OnceStep, GroundStep
<1>3. GroundInv => PlanIsGrounded
  BY DEF GroundInv
<1> QED
  BY <1>1, <1>2, <1>3, TypeCorrect, PTL DEF Spec

----------------------------------------------------------------------------
(***************************************************************************)
(* The log of a turn and the auditor's replay of it.                       *)
(***************************************************************************)

Disturbed == \E n \in GraphNodes : TimedOut(n)

\* Until a timeout leaves a node out of the log, the node to run next is one that
\* the reference model allows after the last record replayed.
ConformInv ==
  /\ replay \in [last : {"__START__"} \cup GraphNodes, deviated : BOOLEAN]
  /\ \/ Disturbed
     \/ node = "failed"
     \/ node = "__END__" /\ turn = 0
     \/ /\ ~ replay.deviated
        /\ \/ node \in Process!Allowed[replay.last]
           \/ node = "__END__" /\ replay.last = "FollowUpResponder"

\* A node that ends without a timeout logs a record of its own; only InlineEvaluator
\* may end without one.
LEMMA LogStep ==
  ASSUME RunNode
  PROVE  \/ <<turn, node>> \in timedOut'
         \/ Logged(node)
         \/ node = "InlineEvaluator" /\ replay' = replay
  BY DEF RunNode, Finish, TimeOut, TimedOut, Logged, IntentRouter, UnsafeMethodGate,
     DeterministicRuleChecker, Analyzer, KnowledgeRetriever, RootCauseAnalyzer,
     SafetyExtractor, RepairPlanner, PlanWith, PlannerTimesOut, SafetyJudgeGate,
     FollowUpResponder, InlineEvaluator

\* The trace of a timed-out node is left as it was.
LEMMA TimeoutLog ==
  ASSUME RunNode
  PROVE  replay' = replay \/ Logged(node)
  BY DEF RunNode, Finish, TimeOut, Logged, IntentRouter, UnsafeMethodGate,
     DeterministicRuleChecker, Analyzer, KnowledgeRetriever, RootCauseAnalyzer,
     SafetyExtractor, RepairPlanner, PlanWith, PlannerTimesOut, SafetyJudgeGate,
     FollowUpResponder, InlineEvaluator

\* The reference model has no transition from a node to itself, and reaches
\* InlineEvaluator from two nodes only.
LEMMA AllowedEdges ==
  /\ \A n \in {"__START__"} \cup GraphNodes :
       /\ n \notin Process!Allowed[n]
       /\ "InlineEvaluator" \in Process!Allowed[n] =>
            n \in {"SafetyJudgeGate", "FollowUpResponder"}
       /\ "failed" \notin Process!Allowed[n]
  /\ "__END__" \in Process!Allowed["SafetyJudgeGate"]
  /\ "IntentRouter" \in Process!Allowed["__START__"]
  BY DEF GraphNodes, Process!Allowed

\* The log of an undisturbed turn keeps pace with the node that runs.
LEMMA ConformStep ==
  ASSUME TypeOK, ConformInv, [Next]_vars
  PROVE  ConformInv'
<1> DEFINE Names == {"__START__"} \cup GraphNodes
<1>0. replay \in [last : Names, deviated : BOOLEAN]
  BY DEF ConformInv
<1>1. CASE StartTurn
  <2>1. node' = "IntentRouter" /\ replay' = [last |-> "__START__", deviated |-> FALSE]
    BY <1>1 DEF StartTurn, Process!NothingReplayed
  <2> QED
    BY <2>1, AllowedEdges DEF ConformInv
<1>2. CASE RunNode
  <2>1. PICK n \in GraphNodes : node = n /\ node' = NextNode(n, state')
    BY <1>2, RunNodeRoutes
  <2>2. turn' = turn /\ timedOut \subseteq timedOut'
    BY <1>2, IntentStep
  <2>3. replay' \in [last : Names, deviated : BOOLEAN]
    <3>1. CASE replay' = replay
      BY <1>0, <3>1
    <3>2. CASE replay' = Process!Replay(replay, n)
      BY <1>0, <2>1, <3>2 DEF Process!Replay
    <3> QED
      BY <1>2, <2>1, <3>1, <3>2, TimeoutLog DEF Logged
  <2>4. CASE Disturbed
    BY <2>2, <2>3, <2>4 DEF ConformInv, Disturbed, TimedOut
  <2>5. CASE <<turn, n>> \in timedOut'
    <3>1. Disturbed'
      BY <2>2, <2>5 DEF Disturbed, TimedOut
    <3> QED
      BY <2>3, <3>1 DEF ConformInv
  <2>6. CASE ~ Disturbed /\ <<turn, n>> \notin timedOut'
    <3>1. ~ replay.deviated /\ n \in Process!Allowed[replay.last]
      BY <2>1, <2>6 DEF ConformInv, GraphNodes
    <3>2. CASE replay' = Process!Replay(replay, n)
      <4>1. n # replay.last
        BY <1>0, <3>1, AllowedEdges
      <4>2. replay' = [last |-> n, deviated |-> FALSE]
        BY <3>1, <3>2, <4>1 DEF Process!Replay
      <4>3. node' \in Process!Allowed[n]
        BY <2>1, RoutesAreAllowed
      <4> QED
        BY <2>3, <4>2, <4>3 DEF ConformInv
    <3>3. CASE n = "InlineEvaluator" /\ replay' = replay
      <4>1. replay.last \in {"SafetyJudgeGate", "FollowUpResponder"}
        BY <1>0, <3>1, <3>3, AllowedEdges
      <4>2. node' = "__END__"
        BY <2>1, <3>3 DEF NextNode
      <4> QED
        BY <2>3, <3>1, <3>3, <4>1, <4>2, AllowedEdges DEF ConformInv
    <3> QED
      BY <1>2, <2>1, <2>6, <3>2, <3>3, LogStep DEF Logged
  <2> QED
    BY <2>4, <2>5, <2>6
<1>3. CASE Abandon
  BY <1>3 DEF Abandon, ConformInv
<1>4. CASE FinishLate \/ UNCHANGED vars
  BY <1>4 DEF FinishLate, ConformInv, Disturbed, TimedOut, vars
<1> QED
  BY <1>1, <1>2, <1>3, <1>4 DEF Next

\* The auditor's token replay raises no false alarm about a turn without timeouts:
\* the log it left conforms to the reference model, whatever route it took.
THEOREM UndisturbedConform == Spec => []UndisturbedTurnsConform
<1>1. Init => ConformInv
  <2> SUFFICES ASSUME Init
               PROVE  ConformInv
    OBVIOUS
  <2>1. replay = [last |-> "__START__", deviated |-> FALSE]
        /\ node = "__END__" /\ turn = 0
    BY DEF Init, Process!NothingReplayed
  <2> QED
    BY <2>1 DEF ConformInv
<1>2. TypeOK /\ ConformInv /\ [Next]_vars => ConformInv'
  BY ConformStep
<1>3. TypeOK /\ ConformInv => UndisturbedTurnsConform
  <2> SUFFICES ASSUME TypeOK, ConformInv, node = "__END__", turn > 0,
                      \A n \in Process!Nodes : ~ TimedOut(n),
                      replay.last # "FollowUpResponder"
               PROVE  Process!Conforming(replay)
    BY DEF UndisturbedTurnsConform
  <2>1. ~ Disturbed
    BY NodesAreGraphNodes DEF Disturbed
  <2>2. turn # 0
    <3>1. turn \in Turn
      BY DEF TypeOK
    <3> QED
      BY <3>1, TurnsAssumption DEF Turn
  <2>3. ~ replay.deviated /\ "__END__" \in Process!Allowed[replay.last]
    BY <2>1, <2>2 DEF ConformInv
  <2> QED
    BY <2>3 DEF Process!Conforming
<1> QED
  BY <1>1, <1>2, <1>3, TypeCorrect, PTL DEF Spec

----------------------------------------------------------------------------
(***************************************************************************)
(* What is stored about a response.                                        *)
(***************************************************************************)

ChunksLate ==
  {"KnowledgeRetriever", "FollowUpResponder", "RepairPlanner"}

LinkTraced(l) ==
  /\ l.response.turn \in Turn
  /\ \/ l.chunks = l.response.turn
     \/ \E t \in l.response.turn .. turn : \E n \in ChunksLate : <<t, n>> \in timedOut
  /\ l.response.kind = "lost" => <<l.response.turn, "RepairPlanner">> \in timedOut

MetricTraced(m) ==
  /\ m.turn \in Turn /\ m.response.turn \in 0 .. m.turn
  /\ \/ m.response.kind = "timeout"
     \/ m.response.turn = m.turn
     \/ <<m.turn, "FollowUpResponder">> \in timedOut

Traced(ls, ms) == (\A l \in ls : LinkTraced(l)) /\ (\A m \in ms : MetricTraced(m))

\* The thread of a timed-out node may write its rows in any later turn.
TracedInv ==
  /\ Traced(links, metrics)
  /\ \A thread \in late : Traced(thread.links, thread.metrics)

Prepared == {"RootCauseAnalyzer", "SafetyExtractor", "RepairPlanner", "SafetyJudgeGate"}

\* What InlineEvaluator is handed: this turn's answer, or this turn's plan with the
\* manuals this turn retrieved, unless the follow-up timed out.
HandedOver ==
  \/ TimedOut("FollowUpResponder")
  \/ /\ state.response.turn = turn
     /\ state.response.kind \in AnswerKinds \/ state.manuals \in {0, turn}

AnswerInv ==
  /\ state.response.turn \in 0 .. turn
  /\ node \in Prepared => state.manuals \in {0, turn}
  /\ node = "SafetyJudgeGate" => state.response.turn = turn
  /\ node = "InlineEvaluator" => HandedOver

\* The turn is a number, and the first and last of the turns up to itself.
LEMMA TurnIsNat ==
  ASSUME TypeOK
  PROVE  turn \in Turn /\ turn \in Nat /\ turn \in 0 .. turn /\ turn \in turn .. turn
<1>1. turn \in Turn
  BY DEF TypeOK
<1>2. turn \in Nat
  BY <1>1, TurnsAssumption DEF Turn
<1> QED
  BY <1>1, <1>2

\* RepairPlanner answers for the turn that runs.
LEMMA PlannerAnswers ==
  ASSUME TypeOK, RunNode, node = "RepairPlanner"
  PROVE  state'.response.turn = turn
<1>1. state \in StateType /\ RepairPlanner
  BY NodeRuns DEF TypeOK
<1>2. CASE PlannerTimesOut
  <2>1. state' = [state EXCEPT !.response = [turn |-> turn, kind |-> "timeout"]]
    BY <1>2 DEF PlannerTimesOut, TimeOut
  <2> QED
    BY <1>1, <2>1 DEF StateType
<1>3. ASSUME NEW kind, NEW covers, PlanWith(kind, covers)
      PROVE  state'.response.turn = turn
  <2>1. PICK n : state' = [state EXCEPT !.response = [turn |-> turn, kind |-> kind],
                                        !.retry = n]
    BY <1>3 DEF PlanWith, Finish
  <2> QED
    BY <1>1, <2>1 DEF StateType
<1> QED
  BY <1>1, <1>2, <1>3 DEF RepairPlanner

\* A follow-up answers in the turn that runs, or has timed out in it.
LEMMA FollowUpAnswers ==
  ASSUME TypeOK, RunNode, node = "FollowUpResponder"
  PROVE  \/ <<turn, "FollowUpResponder">> \in timedOut'
         \/ state'.response.turn = turn /\ state'.response.kind \in AnswerKinds
<1>1. state \in StateType /\ FollowUpResponder
  BY NodeRuns DEF TypeOK
<1>2. ASSUME NEW k \in AnswerKinds,
             state' = [state EXCEPT !.response = [turn |-> turn, kind |-> k]]
      PROVE  state'.response.turn = turn /\ state'.response.kind \in AnswerKinds
  BY <1>1, <1>2 DEF StateType
<1> QED
  BY <1>1, <1>2 DEF FollowUpResponder, Finish, TimeOut

\* What a node that runs hands over to the next.
LEMMA AnswerRun ==
  ASSUME TypeOK, OnceInv, AnswerInv, RunNode
  PROVE  AnswerInv'
<1>1. /\ turn' = turn /\ timedOut \subseteq timedOut' /\ state'.feedback = FALSE
      /\ turn \in Nat
  BY TurnIsNat, IntentStep, FeedbackStep DEF OnceInv
<1>2. PICK n \in GraphNodes : node = n /\ node' = NextNode(n, state')
  BY RunNodeRoutes
<1>3. node' \in Process!Allowed[n]
  BY <1>2, RoutesAreAllowed
<1>4. state'.response.turn \in 0 .. turn'
  <2>1. turn \in 0 .. turn /\ state.response.turn \in 0 .. turn
    BY <1>1, UpTo DEF AnswerInv
  <2>2. state'.response = state.response \/ state'.response.turn = turn
    BY ResponseStep
  <2> QED
    BY <1>1, <2>1, <2>2
<1>5. node' \in Prepared => state'.manuals \in {0, turn'}
  <2>1. CASE node = "KnowledgeRetriever"
    BY <1>1, <2>1, RetrieverWrites
  <2>2. CASE node # "KnowledgeRetriever" /\ node' \in Prepared
    <3>1. node \in Prepared
      <4>1. CASE node' = "SafetyJudgeGate"
        BY <1>2, <1>3, <4>1 DEF GraphNodes, Process!Allowed, Prepared
      <4> QED
        BY <1>1, <2>2, <4>1, Predecessors DEF Prepared
    <3> QED
      BY <1>1, <2>2, <3>1, FieldsKept DEF AnswerInv
  <2> QED
    BY <2>1, <2>2
<1>6. node' = "SafetyJudgeGate" => state'.response.turn = turn'
  <2>1. node' = "SafetyJudgeGate" => node = "RepairPlanner"
    BY <1>2, <1>3 DEF GraphNodes, Process!Allowed
  <2> QED
    BY <1>1, <2>1, PlannerAnswers
<1>7. node' = "InlineEvaluator" => HandedOver'
  <2>1. CASE node = "SafetyJudgeGate"
    <3>1. state.response.turn = turn /\ state.manuals \in {0, turn}
      BY <2>1 DEF AnswerInv, Prepared
    <3>2. state'.response = state.response /\ state'.manuals = state.manuals
      BY <2>1, FieldsKept
    <3> QED
      BY <1>1, <3>1, <3>2 DEF HandedOver
  <2>2. CASE node = "FollowUpResponder"
    BY <1>1, <2>2, FollowUpAnswers DEF HandedOver, TimedOut
  <2> QED
    BY <1>2, <1>3, <2>1, <2>2, AllowedEdges
<1> QED
  BY <1>4, <1>5, <1>6, <1>7 DEF AnswerInv

\* A row that is traced stays so: turns and timeouts are only added.
LEMMA TracedLater ==
  ASSUME turn \in Nat, turn' \in {turn, turn + 1}, timedOut \subseteq timedOut'
  PROVE  /\ \A l : LinkTraced(l) => LinkTraced(l)'
         /\ \A m : MetricTraced(m) => MetricTraced(m)'
<1>1. ASSUME NEW l, LinkTraced(l)
      PROVE  LinkTraced(l)'
  <2>1. ASSUME NEW t \in l.response.turn .. turn
        PROVE  t \in l.response.turn .. turn'
    <3>1. l.response.turn \in Int
      BY <1>1, TurnsAssumption DEF LinkTraced, Turn
    <3> DEFINE low == l.response.turn
    <3> HIDE DEF low
    <3> QED
      BY <2>1, <3>1 DEF low
  <2> QED
    BY <1>1, <2>1 DEF LinkTraced
<1>2. ASSUME NEW m, MetricTraced(m)
      PROVE  MetricTraced(m)'
  BY <1>2 DEF MetricTraced
<1> QED
  BY <1>1, <1>2

\* The chunks a plan is linked to, by its planner or by the thread a timeout left.
LEMMA ChunkLinksTraced ==
  ASSUME TypeOK, GroundInv, node = "RepairPlanner", NEW kind,
         turn' = turn, timedOut \subseteq timedOut',
         kind = "lost" => <<turn, "RepairPlanner">> \in timedOut'
  PROVE  \A l \in ChunkLinks([turn |-> turn, kind |-> kind]) : LinkTraced(l)'
<1>1. turn \in Turn /\ turn \in turn .. turn
  BY TurnIsNat
<1>2. ChunksOfTurn
  BY DEF GroundInv, Retrieved
<1>3. SUFFICES ASSUME NEW l, l = [response |-> [turn |-> turn, kind |-> kind],
                                  chunks |-> state.chunks.turn]
               PROVE  LinkTraced(l)'
  BY DEF ChunkLinks, LinkRow
<1>4. l.response.turn = turn /\ l.response.kind = kind /\ l.chunks = state.chunks.turn
  BY <1>3
<1>5. \/ l.chunks = l.response.turn
      \/ \E t \in l.response.turn .. turn' : \E n \in ChunksLate : <<t, n>> \in timedOut'
  <2>1. CASE TimedOut("KnowledgeRetriever")
    <3>1. <<turn, "KnowledgeRetriever">> \in timedOut'
      BY <2>1 DEF TimedOut
    <3>2. turn \in l.response.turn .. turn'
      BY <1>1, <1>4
    <3> QED
      BY <3>1, <3>2 DEF ChunksLate
  <2> QED
    BY <1>2, <1>4, <2>1 DEF ChunksOfTurn
<1> QED
  BY <1>1, <1>4, <1>5 DEF LinkTraced

\* The manuals the steps of a plan are attributed to: those of the plan's turn,
\* unless a follow-up that timed out left the plan of an earlier one.
LEMMA AttributionsTraced ==
  ASSUME TypeOK, AnswerInv, node = "InlineEvaluator", ~ EvaluationSkipped(state),
         turn' = turn, timedOut \subseteq timedOut'
  PROVE  \A l \in Attributions : LinkTraced(l)'
<1>1. turn \in Nat /\ turn \in Turn /\ state \in StateType
  BY TurnIsNat DEF TypeOK
<1>2. SUFFICES ASSUME IsPlanArtifact(state.response), NEW l,
                      l = [response |-> ResponseId(state.response),
                           chunks |-> state.manuals]
               PROVE  LinkTraced(l)'
  BY DEF Attributions, LinkRow
<1>3. ResponseId(state.response) = state.response
      /\ state.response.kind \notin AnswerKinds \cup {"lost"}
  BY <1>2 DEF IsPlanArtifact, EvaluationSkipped, ResponseId, AnswerKinds
<1>4. l.response = state.response /\ l.chunks = state.manuals
  BY <1>2, <1>3
<1>5. state.manuals # 0 /\ HandedOver /\ state.response.turn \in 0 .. turn
  BY DEF EvaluationSkipped, AnswerInv
<1>6. l.response.turn \in Turn
  BY <1>1, <1>4 DEF StateType
<1>7. \/ l.chunks = l.response.turn
      \/ \E t \in l.response.turn .. turn' : \E n \in ChunksLate : <<t, n>> \in timedOut'
  <2>1. CASE TimedOut("FollowUpResponder")
    <3> DEFINE first == state.response.turn
    <3>1. first \in 0 .. turn
      BY <1>5
    <3> HIDE DEF first
    <3>2. turn \in first .. turn'
      BY <1>1, <3>1
    <3>3. <<turn, "FollowUpResponder">> \in timedOut'
      BY <2>1 DEF TimedOut
    <3> QED
      BY <1>4, <3>2, <3>3 DEF first, ChunksLate
  <2> QED
    BY <1>3, <1>4, <1>5, <2>1 DEF HandedOver
<1> QED
  BY <1>3, <1>4, <1>6, <1>7 DEF LinkTraced

\* The row of an evaluation is about the answer of its turn, unless the follow-up
\* timed out.
LEMMA MetricRowTraced ==
  ASSUME TypeOK, AnswerInv, node = "InlineEvaluator",
         turn' = turn, timedOut \subseteq timedOut', NEW m,
         m.turn = turn, m.response = ResponseId(state.response)
  PROVE  MetricTraced(m)'
<1>1. turn \in Nat /\ turn \in Turn /\ state \in StateType
  BY TurnIsNat DEF TypeOK
<1>2. state.response.turn \in 0 .. turn /\ HandedOver
  BY DEF AnswerInv
<1>3. CASE state.response.kind = "timeout"
  <2>1. m.response = [state.response EXCEPT !.turn = 0]
    BY <1>3 DEF ResponseId
  <2>2. m.response.turn = 0 /\ m.response.kind = "timeout"
    BY <1>1, <1>3, <2>1 DEF StateType
  <2>3. 0 \in 0 .. turn
    BY <1>1
  <2> QED
    BY <1>1, <2>2, <2>3 DEF MetricTraced
<1>4. CASE state.response.kind # "timeout"
  <2>1. m.response = state.response
    BY <1>4 DEF ResponseId
  <2> QED
    BY <1>1, <1>2, <2>1 DEF MetricTraced, HandedOver, TimedOut
<1> QED
  BY <1>3, <1>4

\* A step that adds traced rows, at once or through a thread it leaves behind,
\* keeps all rows traced.
LEMMA RowsAdded ==
  ASSUME TracedInv, turn \in Nat, turn' \in {turn, turn + 1}, timedOut \subseteq timedOut',
         NEW ls, NEW ms, Traced(ls, ms)',
         \/ links' \subseteq links \cup ls /\ metrics' \subseteq metrics \cup ms
              /\ late' = late
         \/ links' = links /\ metrics' = metrics
              /\ late' = late \cup {[links |-> ls, metrics |-> ms]}
  PROVE  TracedInv'
<1>1. /\ \A l \in links : LinkTraced(l)'
      /\ \A m \in metrics : MetricTraced(m)'
      /\ \A thread \in late : /\ \A l \in thread.links : LinkTraced(l)'
                              /\ \A m \in thread.metrics : MetricTraced(m)'
  BY TracedLater DEF TracedInv, Traced
<1>2. (\A l \in ls : LinkTraced(l)') /\ (\A m \in ms : MetricTraced(m)')
  BY DEF Traced
<1>3. CASE links' \subseteq links \cup ls /\ metrics' \subseteq metrics \cup ms
             /\ late' = late
  BY <1>1, <1>2, <1>3 DEF TracedInv, Traced
<1>4. CASE links' = links /\ metrics' = metrics
             /\ late' = late \cup {[links |-> ls, metrics |-> ms]}
  BY <1>1, <1>2, <1>4 DEF TracedInv, Traced
<1> QED
  BY <1>3, <1>4

\* The planner and the evaluator alone write rows, and what they write is traced.
LEMMA TracedRun ==
  ASSUME TypeOK, GroundInv, AnswerInv, TracedInv, RunNode
  PROVE  TracedInv'
<1>1. turn' = turn /\ timedOut \subseteq timedOut' /\ turn \in Nat
  BY TurnIsNat, IntentStep
<1>2. Traced({}, {})'
  BY DEF Traced
<1>3. CASE UNCHANGED <<links, metrics, late>>
  BY <1>1, <1>2, <1>3, RowsAdded
<1>4. CASE RepairPlanner
  <2>1. metrics' = metrics /\ node = "RepairPlanner"
    BY <1>4 DEF RepairPlanner, PlanWith, PlannerTimesOut, Finish, TimeOut
  <2>2. ASSUME NEW kind \in PlanKinds, NEW covers, PlanWith(kind, covers)
        PROVE  TracedInv'
    <3> PICK new : new = ChunkLinks([turn |-> turn, kind |-> kind])
      OBVIOUS
    <3>1. \A l \in new : LinkTraced(l)'
      BY <1>1, <2>1, ChunkLinksTraced DEF PlanKinds
    <3>2. links' \subseteq links \cup new /\ late' = late
      BY <2>2 DEF PlanWith
    <3>3. Traced(new, {})'
      BY <3>1 DEF Traced
    <3> QED
      BY <1>1, <2>1, <3>2, <3>3, RowsAdded
  <2>3. CASE PlannerTimesOut
    <3> PICK new : new = ChunkLinks([turn |-> turn, kind |-> "lost"])
      OBVIOUS
    <3>1. <<turn, "RepairPlanner">> \in timedOut'
      BY <2>3 DEF PlannerTimesOut, TimeOut
    <3>2. \A l \in new : LinkTraced(l)'
      BY <1>1, <2>1, <3>1, ChunkLinksTraced
    <3>3. links' = links /\ late' = late \cup {[links |-> new, metrics |-> {}]}
      BY <2>3 DEF PlannerTimesOut, LeaveBehind
    <3>4. Traced(new, {})'
      BY <3>2 DEF Traced
    <3> QED
      BY <1>1, <2>1, <3>3, <3>4, RowsAdded
  <2> QED
    BY <1>4, <2>2, <2>3 DEF RepairPlanner, PlanKinds
<1>5. CASE InlineEvaluator
  <2>1. node = "InlineEvaluator"
    BY <1>5 DEF InlineEvaluator, Finish, TimeOut
  <2>2. ASSUME NEW badge, NEW byLate, NEW m,
               \/ m = MetricRow(state.response, badge, byLate)
               \/ m = [MetricRow(state.response, badge, byLate) EXCEPT !.review = FALSE]
        PROVE  MetricTraced(m)'
    <3>1. m.turn = turn /\ m.response = ResponseId(state.response)
      BY <2>2 DEF MetricRow
    <3> QED
      BY <1>1, <2>1, <3>1, MetricRowTraced
  <2>3. CASE UNCHANGED <<links, metrics, late>>
    BY <1>3, <2>3
  <2>4. ASSUME NEW rows \in SUBSET {[MetricRow(state.response, "gray", FALSE)
                                       EXCEPT !.review = FALSE]},
               metrics' = metrics \cup rows, UNCHANGED <<links, late>>
        PROVE  TracedInv'
    <3>1. Traced({}, rows)'
      BY <2>2 DEF Traced
    <3> QED
      BY <1>1, <2>4, <3>1, RowsAdded
  <2>5. ASSUME ~ EvaluationSkipped(state), NEW badge,
               NEW rows \in SUBSET {MetricRow(state.response, badge, FALSE)},
               NEW more \in SUBSET Attributions,
               metrics' = metrics \cup rows, links' = links \cup more,
               UNCHANGED late
        PROVE  TracedInv'
    <3>1. \A l \in more : LinkTraced(l)'
      BY <1>1, <2>1, <2>5, AttributionsTraced
    <3>2. Traced(more, rows)'
      BY <2>2, <3>1 DEF Traced
    <3> QED
      BY <1>1, <2>5, <3>2, RowsAdded
  <2>6. ASSUME ~ EvaluationSkipped(state), NEW badge,
               LeaveBehind(Attributions, {MetricRow(state.response, badge, TRUE)}),
               UNCHANGED <<links, metrics>>
        PROVE  TracedInv'
    <3> PICK more, ms : more = Attributions
                          /\ ms = {MetricRow(state.response, badge, TRUE)}
      OBVIOUS
    <3>1. \A l \in more : LinkTraced(l)'
      BY <1>1, <2>1, <2>6, AttributionsTraced
    <3>2. \A m \in ms : MetricTraced(m)'
      BY <2>2
    <3>3. late' = late \cup {[links |-> more, metrics |-> ms]}
      BY <2>6 DEF LeaveBehind
    <3>4. Traced(more, ms)'
      BY <3>1, <3>2 DEF Traced
    <3> QED
      BY <1>1, <2>6, <3>3, <3>4, RowsAdded
  <2> QED
    BY <1>5, <2>3, <2>4, <2>5, <2>6 DEF InlineEvaluator
<1> QED
  BY <1>3, <1>4, <1>5 DEF RunNode, IntentRouter, UnsafeMethodGate,
     DeterministicRuleChecker, Analyzer, KnowledgeRetriever, RootCauseAnalyzer,
     SafetyExtractor, SafetyJudgeGate, FollowUpResponder

\* A turn that begins finds what earlier ones left; so does the thread of a
\* timed-out node that writes its rows.
LEMMA TracedStep ==
  ASSUME TypeOK, OnceInv, GroundInv, AnswerInv, TracedInv, [Next]_vars
  PROVE  AnswerInv' /\ TracedInv'
<1>0. turn \in Nat
  BY TurnIsNat
<1>1. CASE StartTurn
  <2>1. /\ turn' = turn + 1 /\ node' = "IntentRouter"
        /\ UNCHANGED <<state, timedOut, links, metrics, late>>
    BY <1>1 DEF StartTurn
  <2>2. state'.response.turn \in 0 .. turn'
    <3> DEFINE t == state.response.turn
    <3>1. t \in 0 .. turn /\ state'.response.turn = t
      BY <2>1 DEF AnswerInv
    <3> HIDE DEF t
    <3> QED
      BY <1>0, <2>1, <3>1, UpTo
  <2>3. AnswerInv'
    BY <2>1, <2>2 DEF AnswerInv, Prepared
  <2>4. Traced({}, {})'
    BY DEF Traced
  <2> QED
    BY <1>0, <2>1, <2>3, <2>4, RowsAdded
<1>2. CASE RunNode
  BY <1>2, AnswerRun, TracedRun
<1>3. CASE Abandon
  <2>1. node' = "failed" /\ UNCHANGED <<turn, state, timedOut, links, metrics, late>>
    BY <1>3 DEF Abandon
  <2> QED
    BY <2>1 DEF AnswerInv, Prepared, TracedInv, Traced, LinkTraced, MetricTraced
<1>4. CASE FinishLate
  <2>1. PICK thread \in late :
          /\ links' = links \cup thread.links /\ metrics' = metrics \cup thread.metrics
          /\ late' = late \ {thread}
          /\ UNCHANGED <<turn, node, state, timedOut>>
    BY <1>4 DEF FinishLate
  <2>2. AnswerInv'
    BY <2>1 DEF AnswerInv, HandedOver, TimedOut
  <2>3. TracedInv'
    BY <2>1 DEF TracedInv, Traced, LinkTraced, MetricTraced
  <2> QED
    BY <2>2, <2>3
<1>5. CASE UNCHANGED vars
  BY <1>5 DEF vars, AnswerInv, HandedOver, TimedOut, TracedInv, Traced, LinkTraced,
     MetricTraced
<1> QED
  BY <1>1, <1>2, <1>3, <1>4, <1>5 DEF Next

\* Every stored row can be traced to its turn, for any number of turns: a row misled
\* by an earlier turn, by a late thread or by an answer nobody saw is explained by a
\* timeout of the one of three nodes that causes it.
THEOREM RowsAreTraced == Spec => []RowsTraceable
<1>1. Init => OnceInv /\ GroundInv /\ AnswerInv /\ TracedInv
  <2> SUFFICES ASSUME Init
               PROVE  OnceInv /\ GroundInv /\ AnswerInv /\ TracedInv
    OBVIOUS
  <2>1. node = "__END__" /\ turn = 0 /\ plan.runs = 0 /\ state.feedback = FALSE
        /\ state.response.turn = 0 /\ links = {} /\ metrics = {} /\ late = {}
    BY DEF Init, NoPlan, Initially, NoResponse
  <2>2. ~ Planned
    BY <2>1 DEF Planned
  <2>3. state.response.turn \in 0 .. turn
    <3>1. 0 \in 0 .. 0
      OBVIOUS
    <3> QED
      BY <2>1, <3>1, Zenon
  <2> QED
    BY <2>1, <2>2, <2>3 DEF OnceInv, BeforePlan, GroundInv, PlanIsGrounded, Retrieved,
       AnswerInv, Prepared, TracedInv, Traced
<1>2. TypeOK /\ OnceInv /\ GroundInv /\ AnswerInv /\ TracedInv /\ [Next]_vars
        => (OnceInv /\ GroundInv /\ AnswerInv /\ TracedInv)'
  BY OnceStep, GroundStep, TracedStep
<1>3. TracedInv => RowsTraceable
  <2> SUFFICES ASSUME TracedInv
               PROVE  RowsTraceable
    OBVIOUS
  <2>1. ASSUME NEW l \in links
        PROVE  /\ \/ l.chunks = l.response.turn
                  \/ \E t \in l.response.turn .. turn :
                       {<<t, "KnowledgeRetriever">>, <<t, "FollowUpResponder">>,
                        <<t, "RepairPlanner">>} \cap timedOut # {}
               /\ l.response.kind = "lost" =>
                    <<l.response.turn, "RepairPlanner">> \in timedOut
    <3>1. LinkTraced(l)
      BY <2>1 DEF TracedInv, Traced
    <3>2. ASSUME NEW t, NEW n \in ChunksLate, <<t, n>> \in timedOut
          PROVE  {<<t, "KnowledgeRetriever">>, <<t, "FollowUpResponder">>,
                  <<t, "RepairPlanner">>} \cap timedOut # {}
      BY <3>2 DEF ChunksLate
    <3> QED
      BY <3>1, <3>2 DEF LinkTraced
  <2>2. ASSUME NEW m \in metrics, NEW n \in metrics,
               m.turn < n.turn, m.response = n.response, m.response.kind # "timeout"
        PROVE  <<n.turn, "FollowUpResponder">> \in timedOut
    <3>1. MetricTraced(m) /\ MetricTraced(n)
      BY <2>2 DEF TracedInv, Traced
    <3>2. n.response.turn # n.turn
      <4> DEFINE a == m.turn
                 b == n.turn
                 r == m.response.turn
      <4>1. a \in Turn /\ b \in Turn /\ r \in 0 .. a /\ a < b /\ n.response.turn = r
        BY <2>2, <3>1 DEF MetricTraced
      <4> HIDE DEF a, b, r
      <4>2. r # b
        BY <4>1, TurnsAssumption DEF Turn
      <4> QED
        BY <4>1, <4>2 DEF b
    <3> QED
      BY <2>2, <3>1, <3>2 DEF MetricTraced
  <2> QED
    BY <2>1, <2>2 DEF RowsTraceable
<1> QED
  BY <1>1, <1>2, <1>3, TypeCorrect, PTL DEF Spec
============================================================================
