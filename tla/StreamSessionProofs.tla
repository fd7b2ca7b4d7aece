------------------------ MODULE StreamSessionProofs ------------------------
(***************************************************************************)
(* Theorems about the sessions of a server process, for any requests and   *)
(* threads and whatever goes wrong.                                        *)
(***************************************************************************)
EXTENDS StreamSession, TLAPS

\* A step of the session of s, as in Next.
Step(s) ==
  \/ Begin(s) \/ ReadActive(s) \/ IntentRouter(s) \/ DeterministicRuleChecker(s)
  \/ Answer(s) \/ InlineEvaluator(s) \/ BreakOff(s) \/ FailAfterRouting(s)
  \/ GraphEnds(s) \/ ReadCheckpoint(s) \/ CollectEdges(s) \/ CommitLogs(s)
  \/ LoseCommitReply(s) \/ FailInsert(s) \/ UpdateTerminal(s)

(***************************************************************************)
(* The types.                                                              *)
(***************************************************************************)

\* A session that is closed, or left to its finally block, keeps its type.
LEMMA EndTypes ==
  ASSUME NEW local \in Session, NEW ok \in BOOLEAN
  PROVE  /\ Closed(local) \in Session
         /\ Unwind(local) \in Session
         /\ AfterInsert(local, ok) \in Session
<1>1. 1 \in 1 .. MaxAttempts
  BY StreamAssumption
<1>2. NoState \in State
  BY DEF NoState, State, Response
<1>3. Closed(local) \in Session
  BY <1>1, <1>2 DEF Closed, NewSession, Session, Pcs
<1>4. Unwind(local) \in Session
  <2>1. [Closed(local) EXCEPT !.pc = "persisting", !.recovering = TRUE] \in Session
    BY <1>3 DEF Session, Pcs
  <2> QED
    BY <1>3, <2>1 DEF Unwind
<1>5. AfterInsert(local, ok) \in Session
  BY <1>1, <1>3 DEF AfterInsert, Session, Pcs
<1> QED
  BY <1>3, <1>4, <1>5

\* An edge record leaves the store a store.
LEMMA AppendEdgeType ==
  ASSUME TypeOK, NEW s \in Stream, NEW n \in Nodes, AppendEdge(s, n)
  PROVE  store' \in [Thread -> Seq(Record)]
<1>1. Rec(s, n, "edge") \in Record
  BY DEF Rec, Record
<1>2. \A t \in Thread : Append(store[t], Rec(s, n, "edge")) \in Seq(Record)
  BY <1>1 DEF TypeOK
<1>3. session[s].edge \in Thread \cup {NoThread}
  BY DEF TypeOK, Session
<1> QED
  BY <1>2, <1>3 DEF AppendEdge, TypeOK

\* So does a node's update with the sessions and the checkpoints.
LEMMA UpdateType ==
  ASSUME TypeOK, NEW s \in Stream, NEW n \in Nodes, NEW state \in State,
         NEW to \in Nodes \cup {"__END__"}, NEW buffered \in BOOLEAN,
         NEW records \in Seq(Record), Update(s, n, state, to, buffered, records)
  PROVE  /\ session' \in [Stream -> Session]
         /\ checkpoint' \in [Thread -> State]
<1>1. session[s] \in Session
  BY DEF TypeOK
<1>2. session[s].records \o records \in Seq(Record)
  BY <1>1 DEF Session
<1>3. [session[s] EXCEPT !.pc = "streaming", !.next = to, !.state = state,
                         !.edge = NoThread, !.buffered = buffered,
                         !.records = @ \o records] \in Session
  BY <1>1, <1>2 DEF Session, Pcs
<1>4. session' \in [Stream -> Session]
  BY <1>1, <1>3 DEF Update, TypeOK
<1>5. checkpoint' \in [Thread -> State]
  BY DEF Update, TypeOK
<1> QED
  BY <1>4, <1>5

\* The rows of a batch are rows of the log.
LEMMA LogRowsType ==
  ASSUME TypeOK, NEW s \in Stream
  PROVE  /\ LogRows(s) \in Seq(LogRow)
         /\ Len(LogRows(s)) = Len(session[s].records)
         /\ \A i \in 1 .. Len(session[s].records) :
              LogRows(s)[i].data = session[s].records[i]
<1> DEFINE records == session[s].records
<1>1. /\ records \in Seq(Record) /\ session[s].state.response \in Response
      /\ log[s] \in Seq(LogRow)
  BY DEF TypeOK, Session, State
<1>2. TailHash(s) \in Seq(Record)
  <2>1. CASE log[s] = << >>
    BY <2>1 DEF TailHash, Hashes!Genesis
  <2>2. CASE log[s] # << >>
    <3>1. log[s][Len(log[s])] \in LogRow
      BY <1>1, <2>2
    <3> QED
      BY <2>2, <3>1 DEF TailHash, LogRow
  <2> QED
    BY <2>1, <2>2
<1>3. ASSUME NEW i \in 1 .. Len(records)
      PROVE  TailHash(s) \o SubSeq(records, 1, i) \in Seq(Record)
  BY <1>1, <1>2, <1>3
<1>4. NoStream \in Response
  BY DEF Response
<1>5. DOMAIN records = 1 .. Len(records) /\ Len(records) \in Nat
  BY <1>1
<1>6. \A i \in 1 .. Len(records) : records[i] \in Record
  BY <1>1
<1>7. \A i \in 1 .. Len(records) : Len(log[s]) + i \in Nat
  BY <1>1
<1>8. LogRows(s) \in [1 .. Len(records) -> LogRow]
  BY <1>1, <1>3, <1>4, <1>5, <1>6, <1>7 DEF LogRows, LogRow
<1>9. LogRows(s) \in Seq(LogRow) /\ Len(LogRows(s)) = Len(records)
  BY <1>5, <1>8
<1> QED
  BY <1>5, <1>9 DEF LogRows

\* What a retried or failed insert leaves of the session.
LEMMA RetryType ==
  ASSUME TypeOK, NEW s \in Stream, NEW what \in SUBSET (Stream \X Mishap),
         RetryOrGiveUp(s, what)
  PROVE  /\ session' \in [Stream -> Session]
         /\ mishaps' \subseteq Stream \X Mishap
<1>1. session[s] \in Session /\ AfterInsert(session[s], FALSE) \in Session
  BY EndTypes DEF TypeOK
<1>2. <<s, "not persisted">> \in Stream \X Mishap
  BY DEF Mishap
<1>3. mishaps' \subseteq Stream \X Mishap
  BY <1>2 DEF RetryOrGiveUp, TypeOK
<1>4. CASE session[s].attempt < MaxAttempts
            /\ session' = [session EXCEPT ![s].attempt = @ + 1]
  <2>1. session[s].attempt + 1 \in 1 .. MaxAttempts
    BY <1>1, <1>4, StreamAssumption DEF Session
  <2>2. [session[s] EXCEPT !.attempt = @ + 1] \in Session
    BY <1>1, <2>1 DEF Session
  <2> QED
    BY <1>3, <1>4, <2>2 DEF TypeOK
<1>5. CASE session' = [session EXCEPT ![s] = AfterInsert(@, FALSE)]
  BY <1>1, <1>3, <1>5 DEF TypeOK
<1> QED
  BY <1>3, <1>4, <1>5 DEF RetryOrGiveUp

\* Between a routing function's read of the global and its record, the graph
\* stands before a node that routes.
RoutesFromRouted == \A s \in Stream : At(s, "routing") => session[s].next \in Routed

\* Every step keeps the types.
LEMMA TypeStep ==
  ASSUME TypeOK, RoutesFromRouted, [Next]_vars
  PROVE  TypeOK'
<1>0. CASE UNCHANGED vars
  BY <1>0 DEF vars, TypeOK
<1> SUFFICES ASSUME NEW s \in Stream, Step(s)
             PROVE  TypeOK'
  BY <1>0 DEF Next, Step
<1>1. /\ session[s] \in Session /\ session[s].state \in State
      /\ threadOf[s] \in Thread /\ checkpoint[threadOf[s]] \in State
      /\ store[threadOf[s]] \in Seq(Record) /\ session[s].records \in Seq(Record)
  BY DEF TypeOK, Session
<1>2. /\ Unwind(session[s]) \in Session /\ Closed(session[s]) \in Session
      /\ AfterInsert(session[s], TRUE) \in Session
  BY <1>1, EndTypes
<1>3. \A what \in Mishap : GoesWrong(s, what) => mishaps' \subseteq Stream \X Mishap
  BY DEF GoesWrong, TypeOK
<1>4. \A n \in Nodes, kind \in {"node", "edge"} :
        Rec(s, n, kind) \in Record /\ <<Rec(s, n, kind)>> \in Seq(Record)
  BY DEF Rec, Record
<1>5. Respond(s, session[s].state) \in State
  BY <1>1 DEF Respond, State, Response
<1>6. {"IntentRouter", "DeterministicRuleChecker", "Answer", "InlineEvaluator"}
        \subseteq Nodes /\ Routed \subseteq Nodes
  BY DEF Nodes, Routed
<1>7. CASE Begin(s)
  <2>1. [session[s] EXCEPT !.pc = "streaming", !.state = checkpoint[threadOf[s]]]
          \in Session
    BY <1>1 DEF Session, Pcs
  <2>2. session' \in [Stream -> Session]
    BY <1>7, <2>1 DEF Begin, TypeOK
  <2>3. overlaps' \subseteq Stream \X Stream
    BY <1>7 DEF Begin, TypeOK
  <2>4. store' \in [Thread -> Seq(Record)]
    BY <1>7 DEF Begin, TypeOK
  <2> QED
    BY <1>1, <1>7, <2>2, <2>3, <2>4 DEF Begin, TypeOK
<1>8. CASE ReadActive(s)
  <2>1. [session[s] EXCEPT !.pc = "routing", !.edge = active] \in Session
    BY <1>1 DEF Session, Pcs, TypeOK
  <2> QED
    BY <1>8, <2>1 DEF ReadActive, TypeOK
<1>9. CASE IntentRouter(s)
  <2>1. PICK route \in Routes :
          Update(s, "IntentRouter", [session[s].state EXCEPT !.route = route],
                 IF route = "followup" THEN "Answer" ELSE "DeterministicRuleChecker",
                 FALSE, <<Rec(s, "IntentRouter", "node")>>)
    BY <1>9 DEF IntentRouter
  <2>2. [session[s].state EXCEPT !.route = route] \in State
    BY <1>1 DEF State
  <2>3. session' \in [Stream -> Session] /\ checkpoint' \in [Thread -> State]
    BY <1>4, <1>6, <2>1, <2>2, UpdateType
  <2>4. store' \in [Thread -> Seq(Record)]
    BY <1>6, <1>9, AppendEdgeType DEF IntentRouter
  <2> QED
    BY <1>9, <2>3, <2>4 DEF IntentRouter, TypeOK
<1>10. CASE DeterministicRuleChecker(s)
  <2>1. /\ [Respond(s, session[s].state) EXCEPT !.override = TRUE] \in State
        /\ [session[s].state EXCEPT !.override = FALSE] \in State
    BY <1>1, <1>5 DEF State
  <2>2. session' \in [Stream -> Session] /\ checkpoint' \in [Thread -> State]
    BY <1>4, <1>6, <1>10, <2>1, UpdateType DEF DeterministicRuleChecker
  <2>3. store' \in [Thread -> Seq(Record)]
    BY <1>6, <1>10, AppendEdgeType DEF DeterministicRuleChecker
  <2>4. answered' \subseteq Stream /\ shown' \subseteq Stream
    BY <1>10 DEF DeterministicRuleChecker, TypeOK
  <2> QED
    BY <1>10, <2>2, <2>3, <2>4 DEF DeterministicRuleChecker, TypeOK
<1>11. CASE Answer(s)
  <2>1. session' \in [Stream -> Session] /\ checkpoint' \in [Thread -> State]
    BY <1>1, <1>4, <1>5, <1>6, <1>11, UpdateType DEF Answer
  <2>2. answered' \subseteq Stream /\ shown' \subseteq Stream
    BY <1>11 DEF Answer, TypeOK
  <2> QED
    BY <1>11, <2>1, <2>2 DEF Answer, TypeOK
<1>12. CASE InlineEvaluator(s)
  <2>1. PICK passed \in BOOLEAN :
          Update(s, "InlineEvaluator", session[s].state, "__END__",
                 session[s].buffered /\ ~ passed, << >>)
    BY <1>12 DEF InlineEvaluator
  <2>2. (session[s].buffered /\ ~ passed) \in BOOLEAN
    OBVIOUS
  <2>3. ASSUME NEW b \in BOOLEAN,
               Update(s, "InlineEvaluator", session[s].state, "__END__", b, << >>)
        PROVE  session' \in [Stream -> Session] /\ checkpoint' \in [Thread -> State]
    <3>1. << >> \in Seq(Record) /\ "__END__" \in Nodes \cup {"__END__"}
      OBVIOUS
    <3> QED
      BY <1>1, <1>6, <2>3, <3>1, UpdateType
  <2>5. session' \in [Stream -> Session] /\ checkpoint' \in [Thread -> State]
    BY <2>1, <2>2, <2>3, Zenon
  <2>4. shown' \subseteq Stream
    BY <1>12 DEF InlineEvaluator, TypeOK
  <2> QED
    BY <1>12, <2>5, <2>4 DEF InlineEvaluator, TypeOK
<1>13. CASE BreakOff(s)
  BY <1>2, <1>3, <1>13 DEF BreakOff, TypeOK, Mishap
<1>14. CASE FailAfterRouting(s)
  <2>1. session[s].next \in Nodes
    BY <1>6, <1>14 DEF FailAfterRouting, RoutesFromRouted
  <2> QED
    BY <1>2, <1>3, <1>14, <2>1, AppendEdgeType DEF FailAfterRouting, TypeOK, Mishap
<1>15. CASE GraphEnds(s)
  <2>1. [session[s] EXCEPT !.pc = "done", !.buffered = FALSE] \in Session
    BY <1>1 DEF Session, Pcs
  <2> QED
    BY <1>15, <2>1 DEF GraphEnds, TypeOK
<1>16. CASE ReadCheckpoint(s)
  <2>1. NoState \in State
    BY DEF NoState, State, Response
  <2>2. \A state \in State :
          [session[s] EXCEPT !.pc = "persisting", !.state = state] \in Session
    BY <1>1 DEF Session, Pcs
  <2>3. session' \in [Stream -> Session]
    BY <1>1, <1>16, <2>1, <2>2 DEF ReadCheckpoint, TypeOK
  <2>4. dispatched' \subseteq Stream \X Stream
    BY <1>1, <1>16 DEF ReadCheckpoint, TypeOK, State, Response
  <2> QED
    BY <1>3, <1>16, <2>3, <2>4 DEF ReadCheckpoint, TypeOK, Mishap
<1>17. CASE CollectEdges(s)
  <2>1. session[s].records \o store[threadOf[s]] \in Seq(Record)
    BY <1>1
  <2>2. 1 \in 1 .. MaxAttempts
    BY StreamAssumption
  <2>3. [session[s] EXCEPT !.pc = "inserting", !.attempt = 1,
                           !.records = @ \o store[threadOf[s]]] \in Session
    BY <1>1, <2>1, <2>2 DEF Session, Pcs
  <2>4. store' \in [Thread -> Seq(Record)]
    BY <1>17 DEF CollectEdges, TypeOK
  <2> QED
    BY <1>17, <2>3, <2>4 DEF CollectEdges, TypeOK
<1>18. log[s] \o LogRows(s) \in Seq(LogRow)
  BY LogRowsType DEF TypeOK
<1>19. CASE CommitLogs(s)
  BY <1>2, <1>18, <1>19 DEF CommitLogs, TypeOK
<1>20. CASE LoseCommitReply(s)
  <2>1. {<<s, "reply lost">>} \in SUBSET (Stream \X Mishap)
    <3>1. <<s, "reply lost">> \in Stream \X Mishap
      BY DEF Mishap
    <3> QED
      BY <3>1
  <2>2. session' \in [Stream -> Session] /\ mishaps' \subseteq Stream \X Mishap
    BY <1>20, <2>1, RetryType DEF LoseCommitReply
  <2> QED
    BY <1>18, <1>20, <2>2 DEF LoseCommitReply, TypeOK
<1>21. CASE FailInsert(s)
  <2>1. session' \in [Stream -> Session] /\ mishaps' \subseteq Stream \X Mishap
    BY <1>21, RetryType DEF FailInsert
  <2> QED
    BY <1>21, <2>1 DEF FailInsert, TypeOK
<1>22. CASE UpdateTerminal(s)
  <2>1. session' \in [Stream -> Session]
    BY <1>2, <1>22 DEF UpdateTerminal, TypeOK
  <2> QED
    BY <1>3, <1>22, <2>1 DEF UpdateTerminal, TypeOK, TerminalOf, Mishap
<1> QED
  BY <1>7, <1>8, <1>9, <1>10, <1>11, <1>12, <1>13, <1>14, <1>15, <1>16, <1>17,
     <1>19, <1>20, <1>21, <1>22 DEF Step

\* Where the ends of a session leave it.
LEMMA EndPcs ==
  ASSUME NEW local, NEW ok
  PROVE  /\ Closed(local).pc = "closed"
         /\ Closed(local).records = local.records
         /\ Unwind(local).pc \in {"closed", "persisting"}
         /\ Unwind(local).records = local.records
  BY DEF Unwind, Closed, NewSession

\* A step changes one session; only ReadActive takes it to "routing".
LEMMA RoutingStep ==
  ASSUME TypeOK, RoutesFromRouted, [Next]_vars
  PROVE  RoutesFromRouted'
<1>0. CASE UNCHANGED vars
  BY <1>0 DEF vars, RoutesFromRouted, At
<1> SUFFICES ASSUME NEW s \in Stream, Step(s)
             PROVE  RoutesFromRouted'
  BY <1>0 DEF Next, Step
<1>1. \A local \in Session : AfterInsert(local, TRUE).pc # "routing"
                            /\ AfterInsert(local, FALSE).pc # "routing"
  BY EndPcs DEF AfterInsert, Session
<1>2. session \in [Stream -> Session] /\ session[s] \in Session
  BY DEF TypeOK
<1>3. \A c \in Stream \ {s} : session'[c] = session[c]
  BY <1>2 DEF Step, Begin, ReadActive, IntentRouter, DeterministicRuleChecker,
     Answer, InlineEvaluator, BreakOff, FailAfterRouting, GraphEnds,
     ReadCheckpoint, CollectEdges, CommitLogs, LoseCommitReply, FailInsert,
     UpdateTerminal, Update, RetryOrGiveUp
<1>4. CASE ReadActive(s)
  <2>1. session'[s].next \in Routed
    BY <1>2, <1>4 DEF ReadActive, Session
  <2> QED
    BY <1>3, <2>1 DEF RoutesFromRouted, At
<1>5. CASE ~ ReadActive(s)
  <2>1. CASE \/ IntentRouter(s) \/ DeterministicRuleChecker(s) \/ Answer(s)
             \/ InlineEvaluator(s) \/ Begin(s) \/ GraphEnds(s)
    <3>1. \A n, state, to, buffered, records :
            Update(s, n, state, to, buffered, records)
              => session'[s].pc = "streaming"
      BY <1>2 DEF Update, Session
    <3>2. Begin(s) \/ GraphEnds(s) => session'[s].pc \in {"streaming", "done"}
      BY <1>2 DEF Begin, GraphEnds, Session
    <3>3. session'[s].pc \in {"streaming", "done"}
      BY <2>1, <3>1, <3>2 DEF IntentRouter, DeterministicRuleChecker, Answer,
         InlineEvaluator
    <3> QED
      BY <1>3, <3>3 DEF RoutesFromRouted, At
  <2>2. CASE \/ BreakOff(s) \/ FailAfterRouting(s) \/ UpdateTerminal(s)
             \/ ReadCheckpoint(s) \/ CollectEdges(s)
    <3>1. CASE BreakOff(s) \/ FailAfterRouting(s) \/ UpdateTerminal(s)
      <4>1. session'[s] \in {Unwind(session[s]), Closed(session[s])}
        BY <1>2, <3>1 DEF BreakOff, FailAfterRouting, UpdateTerminal
      <4> QED
        BY <1>3, <4>1, EndPcs DEF RoutesFromRouted, At
    <3>2. CASE ReadCheckpoint(s) \/ CollectEdges(s)
      <4>1. \/ \E state : session'[s] = [session[s] EXCEPT !.pc = "persisting",
                                                           !.state = state]
            \/ \E records : session'[s] = [session[s] EXCEPT !.pc = "inserting",
                                               !.attempt = 1, !.records = records]
        BY <1>2, <3>2 DEF ReadCheckpoint, CollectEdges
      <4> QED
        BY <1>2, <1>3, <4>1 DEF RoutesFromRouted, At, Session
    <3> QED
      BY <2>2, <3>1, <3>2
  <2>3. CASE CommitLogs(s) \/ LoseCommitReply(s) \/ FailInsert(s)
    <3>1. \/ \E ok \in BOOLEAN : session'[s] = AfterInsert(session[s], ok)
          \/ session'[s] = [session[s] EXCEPT !.attempt = @ + 1]
             /\ session[s].pc = "inserting"
      BY <1>2, <2>3 DEF CommitLogs, LoseCommitReply, FailInsert, RetryOrGiveUp, At
    <3>2. session'[s].pc # "routing"
      BY <1>1, <1>2, <3>1 DEF Session
    <3> QED
      BY <1>3, <3>2 DEF RoutesFromRouted, At
  <2> QED
    BY <1>5, <2>1, <2>2, <2>3 DEF Step
<1> QED
  BY <1>4, <1>5

\* The server starts with no session and empty tables.
LEMMA TypeInit ==
  ASSUME Init
  PROVE  TypeOK
<1>1. NoState \in State /\ 1 \in 1 .. MaxAttempts
  BY StreamAssumption DEF NoState, State, Response
<1>2. NewSession \in Session
  BY <1>1 DEF NewSession, Session, Pcs, Nodes
<1> QED
  BY <1>1, <1>2 DEF Init, TypeOK

\* Sessions, checkpoints, edge records and rows keep their types.
THEOREM TypeCorrect == Spec => []TypeOK
<1>1. Init => TypeOK
  BY TypeInit
<1>2. Init => RoutesFromRouted
  BY DEF Init, NewSession, RoutesFromRouted, At
<1>3. TypeOK /\ RoutesFromRouted /\ [Next]_vars => TypeOK' /\ RoutesFromRouted'
  BY TypeStep, RoutingStep
<1> QED
  BY <1>1, <1>2, <1>3, PTL DEF Spec
----------------------------------------------------------------------------
(***************************************************************************)
(* Turns mix only when they overlap.                                       *)
(***************************************************************************)

\* Records that stream c may hold when the overlaps are `met': its own, and
\* those of turns that ran while it did.
MayHold(c, met, records) ==
  \A i \in DOMAIN records : records[i].by # c => <<c, records[i].by>> \in met

\* Turns that are running have met.
OpenOverlap ==
  \A a, b \in Stream : Open(a) /\ Open(b) /\ a # b => <<a, b>> \in overlaps

\* What a running turn will find in the edge store is its own or of turns it met.
StoreKnown ==
  \A c \in Stream : Open(c) => MayHold(c, overlaps, store[threadOf[c]])

RecordsKnown == \A c \in Stream : MayHold(c, overlaps, session[c].records)

MixInv == OpenOverlap /\ StoreKnown /\ RecordsKnown /\ OnlyOverlapMixes

\* Batches a stream may hold can be joined.
LEMMA JoinHeld ==
  ASSUME NEW c, NEW met, NEW a \in Seq(Record), NEW b \in Seq(Record),
         MayHold(c, met, a), MayHold(c, met, b)
  PROVE  MayHold(c, met, a \o b)
<1> SUFFICES ASSUME NEW i \in 1 .. Len(a \o b), (a \o b)[i].by # c
             PROVE  <<c, (a \o b)[i].by>> \in met
  BY DEF MayHold
<1>1. CASE i <= Len(a)
  <2>1. (a \o b)[i] = a[i] /\ i \in DOMAIN a
    BY <1>1
  <2> QED
    BY <2>1 DEF MayHold
<1>2. CASE i > Len(a)
  <2>1. (a \o b)[i] = b[i - Len(a)] /\ i - Len(a) \in DOMAIN b
    BY <1>2
  <2> QED
    BY <2>1 DEF MayHold
<1> QED
  BY <1>1, <1>2

\* A record of its own, or of a turn it met, is one a stream may hold.
LEMMA HoldOne ==
  ASSUME NEW c, NEW met, NEW s \in Stream, c = s \/ <<c, s>> \in met,
         NEW n \in Nodes, NEW kind \in {"node", "edge"}
  PROVE  /\ <<Rec(s, n, kind)>> \in Seq(Record)
         /\ MayHold(c, met, <<Rec(s, n, kind)>>)
  BY DEF MayHold, Rec, Record

\* A step is of one session, which is running unless the step begins it.
LEMMA StepOfOne ==
  ASSUME TypeOK, NEW s \in Stream, Step(s)
  PROVE  /\ overlaps \subseteq overlaps' /\ threadOf' = threadOf
         /\ \A c \in Stream \ {s} : session'[c] = session[c]
         /\ Begin(s) \/ (Open(s) /\ overlaps' = overlaps)
<1>1. session \in [Stream -> Session]
  BY DEF TypeOK
<1>2. \A c \in Stream \ {s} : session'[c] = session[c]
  BY <1>1 DEF Step, Begin, ReadActive, IntentRouter, DeterministicRuleChecker,
     Answer, InlineEvaluator, BreakOff, FailAfterRouting, GraphEnds,
     ReadCheckpoint, CollectEdges, CommitLogs, LoseCommitReply, FailInsert,
     UpdateTerminal, Update, RetryOrGiveUp
<1>3. Begin(s) => overlaps \subseteq overlaps' /\ threadOf' = threadOf
  BY DEF Begin
<1>4. ~ Begin(s) => overlaps' = overlaps /\ threadOf' = threadOf
  BY DEF Step, ReadActive, IntentRouter, DeterministicRuleChecker, Answer,
     InlineEvaluator, BreakOff, FailAfterRouting, GraphEnds, ReadCheckpoint,
     CollectEdges, CommitLogs, LoseCommitReply, FailInsert, UpdateTerminal
<1>5. ~ Begin(s) => Open(s)
  BY DEF Step, ReadActive, IntentRouter, DeterministicRuleChecker, Answer,
     InlineEvaluator, BreakOff, FailAfterRouting, GraphEnds, ReadCheckpoint,
     CollectEdges, CommitLogs, LoseCommitReply, FailInsert, UpdateTerminal,
     Before, At, Open
<1> QED
  BY <1>2, <1>3, <1>4, <1>5

\* Begin pairs the new turn with every running one.
LEMMA OpenOverlapStep ==
  ASSUME TypeOK, MixInv, NEW s \in Stream, Step(s)
  PROVE  OpenOverlap'
<1>1. \A c \in Stream \ {s} : Open(c)' => Open(c)
  BY StepOfOne DEF Open
<1>2. CASE Begin(s)
  <2>1. \A b \in Stream : Open(b) => <<s, b>> \in overlaps' /\ <<b, s>> \in overlaps'
    BY <1>2 DEF Begin
  <2> QED
    BY <1>1, <2>1, StepOfOne DEF MixInv, OpenOverlap
<1>3. CASE Open(s) /\ overlaps' = overlaps
  BY <1>1, <1>3 DEF MixInv, OpenOverlap
<1> QED
  BY <1>2, <1>3, StepOfOne

\* Edge records are appended by running turns, and Begin clears the thread's.
LEMMA StoreStep ==
  ASSUME TypeOK, RoutesFromRouted, MixInv, NEW s \in Stream, Step(s)
  PROVE  StoreKnown'
<1> SUFFICES ASSUME NEW c \in Stream, Open(c)'
             PROVE  MayHold(c, overlaps', store'[threadOf[c]])
  BY StepOfOne DEF StoreKnown
<1> DEFINE t == threadOf[c]
<1>1. t \in Thread /\ store[t] \in Seq(Record) /\ store \in [Thread -> Seq(Record)]
  BY DEF TypeOK
<1>2. overlaps \subseteq overlaps'
  BY StepOfOne
<1>3. (Begin(s) /\ c = s) \/ Open(c)
  BY StepOfOne DEF Open
<1>4. CASE store'[t] = << >>
  BY <1>4 DEF MayHold
<1>5. CASE Open(c) /\ store'[t] = store[t]
  BY <1>2, <1>5 DEF MixInv, StoreKnown, MayHold
<1>6. CASE Begin(s) \/ CollectEdges(s)
  <2>1. store'[t] \in {<< >>, store[t]}
    BY <1>1, <1>6 DEF Begin, CollectEdges
  <2>2. Begin(s) /\ c = s => store'[t] = << >>
    BY <1>1 DEF Begin
  <2> QED
    BY <1>3, <1>4, <1>5, <2>1, <2>2
<1>7. CASE IntentRouter(s) \/ DeterministicRuleChecker(s) \/ FailAfterRouting(s)
  <2>1. PICK n \in Nodes : AppendEdge(s, n)
    BY <1>7 DEF IntentRouter, DeterministicRuleChecker, FailAfterRouting,
       RoutesFromRouted, Routed, Nodes
  <2>2. Open(s) /\ ~ Begin(s)
    BY <1>7 DEF IntentRouter, DeterministicRuleChecker, FailAfterRouting,
       Open, At, Begin
  <2>3. c = s \/ <<c, s>> \in overlaps
    BY <1>3, <2>2 DEF MixInv, OpenOverlap
  <2>4. MayHold(c, overlaps, store[t] \o <<Rec(s, n, "edge")>>)
    BY <1>1, <1>3, <2>2, <2>3, HoldOne, JoinHeld DEF MixInv, StoreKnown
  <2>5. CASE session[s].edge = t
    <3>1. Rec(s, n, "edge") \in Record
      BY DEF Rec, Record
    <3>2. store'[t] = store[t] \o <<Rec(s, n, "edge")>>
      BY <1>1, <2>1, <2>5, <3>1 DEF AppendEdge
    <3> QED
      BY <1>2, <2>4, <3>2 DEF MayHold
  <2>6. CASE session[s].edge # t
    <3>1. store'[t] = store[t]
      BY <1>1, <2>1, <2>6 DEF AppendEdge
    <3> QED
      BY <1>3, <1>5, <2>2, <3>1
  <2> QED
    BY <2>5, <2>6
<1>8. CASE store' = store /\ ~ Begin(s)
  BY <1>3, <1>5, <1>8
<1>9. \/ store' = store /\ ~ Begin(s)
      \/ Begin(s) \/ CollectEdges(s) \/ IntentRouter(s)
      \/ DeterministicRuleChecker(s) \/ FailAfterRouting(s)
  BY DEF Step, ReadActive, Answer, InlineEvaluator, BreakOff, GraphEnds,
     ReadCheckpoint, CommitLogs, LoseCommitReply, FailInsert, UpdateTerminal
<1> QED
  BY <1>6, <1>7, <1>8, <1>9
\* What a step makes of the records a session collected.
LEMMA CollectedRecords ==
  ASSUME TypeOK, NEW s \in Stream, Step(s)
  PROVE  \/ session'[s].records = session[s].records
         \/ \E n \in Nodes :
              session'[s].records = session[s].records \o <<Rec(s, n, "node")>>
         \/ /\ Open(s)
            /\ session'[s].records = session[s].records \o store[threadOf[s]]
<1>1. session \in [Stream -> Session] /\ session[s] \in Session
  BY DEF TypeOK
<1>2. session[s].records \o << >> = session[s].records
  BY <1>1 DEF Session
<1>3. \A n, state, to, buffered, records :
        Update(s, n, state, to, buffered, records)
          => session'[s].records = session[s].records \o records
  BY <1>1 DEF Update, Session
<1>4. CASE IntentRouter(s) \/ DeterministicRuleChecker(s) \/ Answer(s)
  <2> DEFINE Collects(n) ==
        session'[s].records = session[s].records \o <<Rec(s, n, "node")>>
  <2>1. CASE IntentRouter(s)
    <3>1. Collects("IntentRouter")
      BY <1>3, <2>1 DEF IntentRouter
    <3> QED
      BY <3>1 DEF Nodes
  <2>2. CASE DeterministicRuleChecker(s)
    <3>1. Collects("DeterministicRuleChecker")
      BY <1>3, <2>2 DEF DeterministicRuleChecker
    <3> QED
      BY <3>1 DEF Nodes
  <2>3. CASE Answer(s)
    <3>1. Collects("Answer")
      BY <1>3, <2>3 DEF Answer
    <3> QED
      BY <3>1 DEF Nodes
  <2> QED
    BY <1>4, <2>1, <2>2, <2>3
<1>5. CASE InlineEvaluator(s)
  BY <1>2, <1>3, <1>5 DEF InlineEvaluator
<1>6. CASE Begin(s) \/ ReadActive(s) \/ GraphEnds(s)
  BY <1>1, <1>6 DEF Begin, ReadActive, GraphEnds, Session
<1>7. CASE ReadCheckpoint(s)
  BY <1>1, <1>7 DEF ReadCheckpoint, Session
<1>8. CASE CollectEdges(s)
  BY <1>1, <1>8 DEF CollectEdges, Session, At, Open
<1>9. CASE BreakOff(s) \/ FailAfterRouting(s) \/ UpdateTerminal(s)
  <2>1. session'[s] \in {Unwind(session[s]), Closed(session[s])}
    BY <1>1, <1>9 DEF BreakOff, FailAfterRouting, UpdateTerminal
  <2> QED
    BY <2>1, EndPcs
<1>10. CASE CommitLogs(s) \/ LoseCommitReply(s) \/ FailInsert(s)
  <2>1. \/ \E ok \in BOOLEAN : session'[s] = AfterInsert(session[s], ok)
        \/ session'[s] = [session[s] EXCEPT !.attempt = @ + 1]
    BY <1>1, <1>10 DEF CommitLogs, LoseCommitReply, FailInsert, RetryOrGiveUp
  <2>2. \A ok \in BOOLEAN :
          AfterInsert(session[s], ok).records = session[s].records
    BY <1>1, EndPcs DEF AfterInsert, Session
  <2> QED
    BY <1>1, <2>1, <2>2 DEF Session
<1> QED
  BY <1>4, <1>5, <1>6, <1>7, <1>8, <1>9, <1>10 DEF Step

\* A session collects records of its own nodes, and its thread's edge records.
LEMMA RecordsStep ==
  ASSUME TypeOK, MixInv, NEW s \in Stream, Step(s)
  PROVE  RecordsKnown'
<1> SUFFICES ASSUME NEW c \in Stream
             PROVE  MayHold(c, overlaps', session'[c].records)
  BY DEF RecordsKnown
<1>1. /\ session[s].records \in Seq(Record)
      /\ store[threadOf[s]] \in Seq(Record)
  BY DEF TypeOK, Session
<1>2. overlaps \subseteq overlaps'
  BY StepOfOne
<1>3. MayHold(s, overlaps, session[s].records)
  BY DEF MixInv, RecordsKnown
<1>4. CASE c # s
  <2>1. session'[c] = session[c]
    BY <1>4, StepOfOne
  <2> QED
    BY <1>2, <2>1 DEF MixInv, RecordsKnown, MayHold
<1>5. ASSUME NEW n \in Nodes
      PROVE  MayHold(s, overlaps, session[s].records \o <<Rec(s, n, "node")>>)
  BY <1>1, <1>3, HoldOne, JoinHeld
<1>6. ASSUME Open(s)
      PROVE  MayHold(s, overlaps, session[s].records \o store[threadOf[s]])
  BY <1>1, <1>3, <1>6, JoinHeld DEF MixInv, StoreKnown
<1>7. MayHold(s, overlaps, session'[s].records)
  BY <1>3, <1>5, <1>6, CollectedRecords
<1> QED
  BY <1>2, <1>4, <1>7 DEF MayHold

\* A step leaves the log of a trace, or appends the batch of its session.
LEMMA LogStep ==
  ASSUME TypeOK, MixInv, NEW s \in Stream, Step(s)
  PROVE  OnlyOverlapMixes'
<1> SUFFICES ASSUME NEW c \in Stream, NEW i \in DOMAIN log'[c],
                    log'[c][i].data.by # c
             PROVE  <<c, log'[c][i].data.by>> \in overlaps'
  BY DEF OnlyOverlapMixes, Overlapped
<1>1. overlaps \subseteq overlaps' /\ log \in [Stream -> Seq(LogRow)]
  BY StepOfOne DEF TypeOK
<1>2. \/ log' = log
      \/ log' = [log EXCEPT ![s] = @ \o LogRows(s)]
  BY DEF Step, Begin, ReadActive, IntentRouter, DeterministicRuleChecker, Answer,
     InlineEvaluator, BreakOff, FailAfterRouting, GraphEnds, ReadCheckpoint,
     CollectEdges, CommitLogs, LoseCommitReply, FailInsert, UpdateTerminal
<1>3. CASE log'[c] = log[c]
  BY <1>1, <1>3 DEF MixInv, OnlyOverlapMixes, Overlapped
<1>4. CASE c = s /\ log'[c] = log[s] \o LogRows(s)
  <2>1. /\ log[s] \in Seq(LogRow) /\ LogRows(s) \in Seq(LogRow)
        /\ session[s].records \in Seq(Record)
    BY LogRowsType DEF TypeOK, Session
  <2>2. i \in 1 .. Len(log[s]) + Len(LogRows(s))
    BY <1>4, <2>1
  <2>3. CASE i <= Len(log[s])
    <3>1. log'[c][i] = log[s][i] /\ i \in DOMAIN log[s]
      BY <1>4, <2>1, <2>2, <2>3
    <3> QED
      BY <1>1, <1>4, <3>1 DEF MixInv, OnlyOverlapMixes, Overlapped
  <2>4. CASE i > Len(log[s])
    <3> DEFINE k == i - Len(log[s])
    <3>1. log'[c][i] = LogRows(s)[k] /\ k \in 1 .. Len(LogRows(s))
      BY <1>4, <2>1, <2>2, <2>4
    <3>2. log'[c][i].data = session[s].records[k] /\ k \in DOMAIN session[s].records
      BY <2>1, <3>1, LogRowsType
    <3> QED
      BY <1>1, <1>4, <3>2 DEF MixInv, RecordsKnown, MayHold
  <2> QED
    BY <2>2, <2>3, <2>4
<1> QED
  BY <1>1, <1>2, <1>3, <1>4

\* Records are always those of turns that met.
LEMMA MixInvariant == Spec => [](TypeOK /\ RoutesFromRouted /\ MixInv)
<1>1. Init => TypeOK
  BY TypeInit
<1>2. Init => RoutesFromRouted /\ MixInv
  BY DEF Init, NewSession, RoutesFromRouted, At, Open, MixInv, OpenOverlap,
     StoreKnown, RecordsKnown, OnlyOverlapMixes, MayHold
<1>3. ASSUME TypeOK, RoutesFromRouted, MixInv, [Next]_vars
      PROVE  MixInv'
  <2>1. CASE UNCHANGED vars
    BY <1>3, <2>1 DEF vars, MixInv, OpenOverlap, StoreKnown, RecordsKnown,
       OnlyOverlapMixes, MayHold, Overlapped, Open
  <2>2. ASSUME NEW s \in Stream, Step(s)
        PROVE  MixInv'
    BY <1>3, <2>2, OpenOverlapStep, StoreStep, RecordsStep, LogStep DEF MixInv
  <2> QED
    BY <1>3, <2>1, <2>2 DEF Next, Step
<1>4. TypeOK /\ RoutesFromRouted /\ MixInv /\ [Next]_vars
        => TypeOK' /\ RoutesFromRouted' /\ MixInv'
  BY <1>3, TypeStep, RoutingStep
<1> QED
  BY <1>1, <1>2, <1>4, PTL DEF Spec

\* The log of a trace holds a record of another turn only if the two turns ran
\* at the same time, however often a batch is repeated and however a turn ends:
\* set_edge_telemetry_thread_id clears what earlier turns left of the thread.
THEOREM TurnsStayApart == Spec => []OnlyOverlapMixes
<1>1. MixInv => OnlyOverlapMixes
  BY DEF MixInv
<1> QED
  BY <1>1, MixInvariant, PTL

----------------------------------------------------------------------------
(***************************************************************************)
(* Every trace is a chain.                                                 *)
(***************************************************************************)

\* A step leaves the logs, or appends the batch of a session that inserts.
LEMMA LogChange ==
  ASSUME TypeOK, NEW s \in Stream, Step(s)
  PROVE  \/ log' = log
         \/ /\ CommitLogs(s) \/ LoseCommitReply(s)
            /\ At(s, "inserting")
            /\ log' = [log EXCEPT ![s] = @ \o LogRows(s)]
  BY DEF Step, Begin, ReadActive, IntentRouter, DeterministicRuleChecker, Answer,
     InlineEvaluator, BreakOff, FailAfterRouting, GraphEnds, ReadCheckpoint,
     CollectEdges, CommitLogs, LoseCommitReply, FailInsert, UpdateTerminal

SoundLogs == \A s \in Stream : Hashes!SoundLog(log[s])

\* The rows of a log with a batch behind it: the old ones, then the new ones.
LEMMA BatchRows ==
  ASSUME TypeOK, NEW s \in Stream
  PROVE  /\ log[s] \in Seq(LogRow) /\ LogRows(s) \in Seq(LogRow)
         /\ Len(log[s]) \in Nat /\ Len(LogRows(s)) \in Nat
         /\ DOMAIN log[s] = 1 .. Len(log[s])
         /\ DOMAIN (log[s] \o LogRows(s)) = 1 .. Len(log[s]) + Len(LogRows(s))
         /\ \A i \in 1 .. Len(log[s]) : (log[s] \o LogRows(s))[i] = log[s][i]
         /\ \A i \in 1 .. Len(LogRows(s)) :
              (log[s] \o LogRows(s))[Len(log[s]) + i] = LogRows(s)[i]
<1>1. log[s] \in Seq(LogRow) /\ LogRows(s) \in Seq(LogRow)
  BY LogRowsType DEF TypeOK
<1> DEFINE a == log[s]
           b == LogRows(s)
<1> HIDE DEF a, b
<1>2. a \in Seq(LogRow) /\ b \in Seq(LogRow)
  BY <1>1 DEF a, b
<1>3. /\ Len(a) \in Nat /\ Len(b) \in Nat
      /\ DOMAIN a = 1 .. Len(a)
      /\ DOMAIN (a \o b) = 1 .. Len(a) + Len(b)
      /\ \A i \in 1 .. Len(a) : (a \o b)[i] = a[i]
      /\ \A i \in 1 .. Len(b) : (a \o b)[Len(a) + i] = b[i]
  BY <1>2
<1> QED
  BY <1>2, <1>3 DEF a, b

\* A batch is chained to the tail of its trace, whatever the trace holds already.
LEMMA SoundBatch ==
  ASSUME TypeOK, NEW s \in Stream, Hashes!SoundLog(log[s])
  PROVE  Hashes!SoundLog(log[s] \o LogRows(s))
<1> DEFINE old     == log[s]
           records == session[s].records
           rows    == log[s] \o LogRows(s)
           n       == Len(log[s])
           m       == Len(LogRows(s))
<1>1. /\ n \in Nat /\ m \in Nat /\ DOMAIN old = 1 .. n /\ DOMAIN rows = 1 .. n + m
      /\ \A i \in 1 .. n : rows[i] = old[i]
      /\ \A i \in 1 .. m : rows[n + i] = LogRows(s)[i]
      /\ old \in Seq(LogRow)
  BY BatchRows
<1>2. records \in Seq(Record) /\ m = Len(records) /\ DOMAIN records = 1 .. m
      /\ \A i \in 1 .. m : LogRows(s)[i].data = records[i]
  <2>1. records \in Seq(Record)
    BY DEF TypeOK, Session
  <2>2. m = Len(records) /\ \A i \in 1 .. Len(records) : LogRows(s)[i].data = records[i]
    BY LogRowsType
  <2> HIDE DEF records, m
  <2> QED
    BY <2>1, <2>2
<1>3. \A i \in 1 .. m : LogRows(s)[i].record_hash = TailHash(s) \o SubSeq(records, 1, i)
  BY <1>2 DEF LogRows
<1>4. \A i \in 1 .. n : old[i].record_hash = [j \in 1 .. i |-> old[j].data]
  BY <1>1 DEF Hashes!SoundLog, Hashes!Expected
<1>5. TailHash(s) = [j \in 1 .. n |-> old[j].data]
  <2>1. CASE old = << >>
    BY <1>1, <2>1 DEF TailHash, Hashes!Genesis
  <2>2. CASE old # << >>
    <3>1. n \in 1 .. n
      BY <1>1, <2>2
    <3> QED
      BY <1>4, <2>2, <3>1 DEF TailHash
  <2> QED
    BY <2>1, <2>2
<1>6. \A j \in 1 .. n : old[j].data \in Record
  <2>1. \A j \in 1 .. n : old[j] \in LogRow
    BY <1>1
  <2> QED
    BY <2>1 DEF LogRow
<1> HIDE DEF rows, records, old, n, m
<1>7. TailHash(s) \in Seq(Record) /\ Len(TailHash(s)) = n
  BY <1>1, <1>5, <1>6
<1>8. ASSUME NEW i \in 1 .. n
      PROVE  rows[i].record_hash = [j \in 1 .. i |-> rows[j].data]
  BY <1>1, <1>4, <1>8
<1>9. ASSUME NEW k \in 1 .. m
      PROVE  rows[n + k].record_hash = [j \in 1 .. n + k |-> rows[j].data]
  <2> DEFINE tail == TailHash(s)
             part == SubSeq(records, 1, k)
             hash == tail \o part
             want == [j \in 1 .. n + k |-> rows[j].data]
  <2>1. rows[n + k].record_hash = hash
    BY <1>1, <1>3, <1>9
  <2>2. part \in Seq(Record) /\ Len(part) = k /\ \A j \in 1 .. k : part[j] = records[j]
    BY <1>1, <1>2, <1>9
  <2>3. \A j \in 1 .. n : tail[j] = old[j].data
    BY <1>5
  <2>7. tail \in Seq(Record) /\ Len(tail) = n /\ n \in Nat /\ k \in Nat
    BY <1>1, <1>7, <1>9
  <2> HIDE DEF tail, part
  <2>4. /\ DOMAIN hash = 1 .. n + k
        /\ \A j \in 1 .. n : hash[j] = tail[j]
        /\ \A j \in n + 1 .. n + k : hash[j] = part[j - n]
        /\ hash \in Seq(Record)
    BY <2>2, <2>7
  <2>5. ASSUME NEW j \in 1 .. n + k
        PROVE  hash[j] = rows[j].data
    <3>1. CASE j \in 1 .. n
      BY <1>1, <2>3, <2>4, <3>1
    <3>2. CASE j \in n + 1 .. n + k
      <4>1. j - n \in 1 .. k /\ j - n \in 1 .. m /\ n + (j - n) = j
        BY <1>1, <1>9, <3>2
      <4>2. rows[n + (j - n)] = LogRows(s)[j - n]
        BY <1>1, <4>1
      <4>3. rows[j].data = records[j - n]
        BY <1>2, <4>1, <4>2
      <4> QED
        BY <2>2, <2>4, <3>2, <4>1, <4>3
    <3>3. j \in 1 .. n \/ j \in n + 1 .. n + k
      BY <2>5, <2>7
    <3> QED
      BY <3>1, <3>2, <3>3
  <2> HIDE DEF hash
  <2>6. hash = want
    <3>1. hash = [j \in DOMAIN hash |-> hash[j]]
      BY <2>4
    <3> QED
      BY <2>4, <2>5, <3>1
  <2> QED
    BY <2>1, <2>6
<1>10. ASSUME NEW i \in 1 .. n + m
       PROVE  rows[i].record_hash = [j \in 1 .. i |-> rows[j].data]
  <2>1. CASE i \in 1 .. n
    BY <1>8, <2>1
  <2>2. CASE i \notin 1 .. n
    <3>1. i - n \in 1 .. m /\ n + (i - n) = i
      BY <1>1, <1>10, <2>2
    <3>2. rows[n + (i - n)].record_hash = [j \in 1 .. n + (i - n) |-> rows[j].data]
      BY <1>9, <3>1
    <3> QED
      BY <3>1, <3>2
  <2> QED
    BY <2>1, <2>2
<1> QED
  BY <1>1, <1>10 DEF Hashes!SoundLog, Hashes!Expected, rows

\* The verifier accepts every trace: retries, commits whose reply was lost and the
\* finally block all chain their batch to what the trace holds by then.
THEOREM TracesVerify == Spec => []ChainsVerify
<1>1. Init => SoundLogs
  BY DEF Init, SoundLogs, Hashes!SoundLog
<1>2. ASSUME TypeOK, SoundLogs, [Next]_vars
      PROVE  SoundLogs'
  <2>1. CASE UNCHANGED vars
    BY <1>2, <2>1 DEF vars, SoundLogs
  <2>2. ASSUME NEW s \in Stream, Step(s)
        PROVE  SoundLogs'
    <3>1. log \in [Stream -> Seq(LogRow)]
      BY <1>2 DEF TypeOK
    <3>2. CASE log' = log
      BY <1>2, <3>2 DEF SoundLogs
    <3>3. CASE log' = [log EXCEPT ![s] = @ \o LogRows(s)]
      <4>1. log'[s] = log[s] \o LogRows(s) /\ \A c \in Stream \ {s} : log'[c] = log[c]
        BY <3>1, <3>3
      <4>2. Hashes!SoundLog(log[s] \o LogRows(s))
        BY <1>2, SoundBatch DEF SoundLogs
      <4> QED
        BY <1>2, <4>1, <4>2 DEF SoundLogs
    <3> QED
      BY <1>2, <2>2, <3>2, <3>3, LogChange
  <2> QED
    BY <1>2, <2>1, <2>2 DEF Next, Step
<1>3. SoundLogs => ChainsVerify
  BY DEF SoundLogs, ChainsVerify, Hashes!SoundLog, Hashes!VerifyChain,
     Hashes!BrokenRecords
<1> QED
  BY <1>1, <1>2, <1>3, TypeCorrect, PTL DEF Spec

----------------------------------------------------------------------------
(***************************************************************************)
(* What a step makes of the session it belongs to.                         *)
(***************************************************************************)

\* What a node's update makes of the session.
NodeRan(s, n, next) ==
  /\ session[s].next = n /\ session'[s].pc = "streaming" /\ session'[s].next \in next
  /\ session'[s].persisted = session[s].persisted
  /\ session'[s].recovering = session[s].recovering
  /\ checkpoint' = [checkpoint EXCEPT ![threadOf[s]] = session'[s].state]

Recorded(s, n) ==
  session'[s].records = session[s].records \o <<Rec(s, n, "node")>>

\* The nodes' updates, field by field.
LEMMA NodeFields ==
  ASSUME TypeOK, NEW s \in Stream
  PROVE  /\ IntentRouter(s) =>
              /\ session[s].pc = "routing"
              /\ NodeRan(s, "IntentRouter", {"Answer", "DeterministicRuleChecker"})
              /\ Recorded(s, "IntentRouter")
              /\ session'[s].state.response = session[s].state.response
              /\ session'[s].buffered = FALSE
         /\ DeterministicRuleChecker(s) =>
              /\ session[s].pc = "routing"
              /\ NodeRan(s, "DeterministicRuleChecker", {"Answer", "__END__"})
              /\ Recorded(s, "DeterministicRuleChecker")
              /\ session'[s].buffered = FALSE
              /\ \/ /\ session'[s].next = "__END__"
                    /\ session'[s].state.response = s
                    /\ answered' = answered \cup {s} /\ shown' = shown \cup {s}
                 \/ /\ session'[s].next = "Answer"
                    /\ session'[s].state.response = session[s].state.response
                    /\ UNCHANGED <<answered, shown>>
         /\ Answer(s) =>
              /\ session[s].pc = "streaming"
              /\ NodeRan(s, "Answer", {"InlineEvaluator", "__END__"})
              /\ Recorded(s, "Answer")
              /\ \/ /\ session'[s].next = "InlineEvaluator"
                    /\ session'[s].state.response = s
                    /\ answered' = answered \cup {s}
                    /\ \/ session'[s].buffered = TRUE /\ shown' = shown
                       \/ session'[s].buffered = FALSE /\ shown' = shown \cup {s}
                 \/ /\ session'[s].buffered = FALSE
                    /\ session'[s].state.response = session[s].state.response
                    /\ UNCHANGED <<answered, shown>>
         /\ InlineEvaluator(s) =>
              /\ session[s].pc = "streaming"
              /\ NodeRan(s, "InlineEvaluator", {"__END__"})
              /\ session'[s].records = session[s].records
              /\ session'[s].state = session[s].state
              /\ \/ session'[s].buffered = session[s].buffered /\ shown' = shown
                 \/ session'[s].buffered = FALSE /\ shown' = shown \cup {s}
                 \/ ~ session[s].buffered /\ session'[s].buffered = FALSE /\ shown' = shown
<1>1. /\ session \in [Stream -> Session] /\ session[s] \in Session
      /\ session[s].state \in State /\ session[s].buffered \in BOOLEAN
  BY DEF TypeOK, Session
<1>2. session[s].records \in Seq(Record)
  BY <1>1 DEF Session
<1>3. session[s].records \o << >> = session[s].records
  BY <1>2
<1>4. ASSUME IntentRouter(s)
      PROVE  /\ session[s].pc = "routing"
             /\ NodeRan(s, "IntentRouter", {"Answer", "DeterministicRuleChecker"})
             /\ Recorded(s, "IntentRouter")
             /\ session'[s].state.response = session[s].state.response
             /\ session'[s].buffered = FALSE
  <2>1. PICK route \in Routes :
          Update(s, "IntentRouter", [session[s].state EXCEPT !.route = route],
                 IF route = "followup" THEN "Answer" ELSE "DeterministicRuleChecker",
                 FALSE, <<Rec(s, "IntentRouter", "node")>>)
    BY <1>4 DEF IntentRouter
  <2>2. PICK to \in {"Answer", "DeterministicRuleChecker"} :
          to = IF route = "followup" THEN "Answer" ELSE "DeterministicRuleChecker"
    OBVIOUS
  <2>3. session'[s] = [session[s] EXCEPT !.pc = "streaming", !.next = to,
                         !.state = [session[s].state EXCEPT !.route = route],
                         !.edge = NoThread, !.buffered = FALSE,
                         !.records = @ \o <<Rec(s, "IntentRouter", "node")>>]
    BY <1>1, <2>1, <2>2 DEF Update
  <2>4. checkpoint' = [checkpoint EXCEPT ![threadOf[s]]
                         = [session[s].state EXCEPT !.route = route]]
    BY <2>1 DEF Update
  <2>5. session[s].pc = "routing" /\ session[s].next = "IntentRouter"
    BY <1>4 DEF IntentRouter, At
  <2> QED
    BY <1>1, <2>3, <2>4, <2>5 DEF Session, State, NodeRan, Recorded
<1>5. ASSUME DeterministicRuleChecker(s)
      PROVE  /\ session[s].pc = "routing"
             /\ NodeRan(s, "DeterministicRuleChecker", {"Answer", "__END__"})
             /\ Recorded(s, "DeterministicRuleChecker")
             /\ session'[s].buffered = FALSE
             /\ \/ /\ session'[s].next = "__END__"
                   /\ session'[s].state.response = s
                   /\ answered' = answered \cup {s} /\ shown' = shown \cup {s}
                \/ /\ session'[s].next = "Answer"
                   /\ session'[s].state.response = session[s].state.response
                   /\ UNCHANGED <<answered, shown>>
  <2> DEFINE n == "DeterministicRuleChecker"
  <2>1. session[s].pc = "routing" /\ session[s].next = n
    BY <1>5 DEF DeterministicRuleChecker, At
  <2>2. CASE /\ Update(s, n, [Respond(s, session[s].state) EXCEPT !.override = TRUE],
                       "__END__", FALSE, <<Rec(s, n, "node")>>)
             /\ answered' = answered \cup {s} /\ shown' = shown \cup {s}
    <3>1. /\ session'[s] = [session[s] EXCEPT !.pc = "streaming", !.next = "__END__",
                              !.state = [Respond(s, session[s].state) EXCEPT !.override = TRUE],
                              !.edge = NoThread, !.buffered = FALSE,
                              !.records = @ \o <<Rec(s, n, "node")>>]
          /\ checkpoint' = [checkpoint EXCEPT ![threadOf[s]]
                              = [Respond(s, session[s].state) EXCEPT !.override = TRUE]]
      BY <1>1, <2>2 DEF Update
    <3> QED
      BY <1>1, <2>1, <2>2, <3>1 DEF Session, State, NodeRan, Recorded, Respond
  <2>3. CASE /\ Update(s, n, [session[s].state EXCEPT !.override = FALSE],
                       "Answer", FALSE, <<Rec(s, n, "node")>>)
             /\ UNCHANGED <<answered, shown>>
    <3>1. /\ session'[s] = [session[s] EXCEPT !.pc = "streaming", !.next = "Answer",
                              !.state = [session[s].state EXCEPT !.override = FALSE],
                              !.edge = NoThread, !.buffered = FALSE,
                              !.records = @ \o <<Rec(s, n, "node")>>]
          /\ checkpoint' = [checkpoint EXCEPT ![threadOf[s]]
                              = [session[s].state EXCEPT !.override = FALSE]]
      BY <1>1, <2>3 DEF Update
    <3> QED
      BY <1>1, <2>1, <2>3, <3>1 DEF Session, State, NodeRan, Recorded
  <2> QED
    BY <1>5, <2>2, <2>3 DEF DeterministicRuleChecker
<1>6. ASSUME Answer(s)
      PROVE  /\ session[s].pc = "streaming"
             /\ NodeRan(s, "Answer", {"InlineEvaluator", "__END__"})
             /\ Recorded(s, "Answer")
             /\ \/ /\ session'[s].next = "InlineEvaluator"
                   /\ session'[s].state.response = s
                   /\ answered' = answered \cup {s}
                   /\ \/ session'[s].buffered = TRUE /\ shown' = shown
                      \/ session'[s].buffered = FALSE /\ shown' = shown \cup {s}
                \/ /\ session'[s].buffered = FALSE
                   /\ session'[s].state.response = session[s].state.response
                   /\ UNCHANGED <<answered, shown>>
  <2>1. session[s].pc = "streaming" /\ session[s].next = "Answer"
    BY <1>6 DEF Answer, At, Before
  <2> DEFINE state    == session[s].state
             followUp == state.route = "followup"
             rec      == <<Rec(s, "Answer", "node")>>
  <2>2. CASE /\ Update(s, "Answer", Respond(s, state), "InlineEvaluator", ~ followUp, rec)
             /\ answered' = answered \cup {s}
             /\ shown' = IF followUp THEN shown \cup {s} ELSE shown
    <3>1. /\ session'[s] = [session[s] EXCEPT !.pc = "streaming",
                              !.next = "InlineEvaluator", !.state = Respond(s, state),
                              !.edge = NoThread, !.buffered = ~ followUp,
                              !.records = @ \o rec]
          /\ checkpoint' = [checkpoint EXCEPT ![threadOf[s]] = Respond(s, state)]
      BY <1>1, <2>2 DEF Update
    <3>2. session'[s].buffered = ~ followUp
      BY <1>1, <3>1 DEF Session
    <3>3. \/ session'[s].buffered = TRUE /\ shown' = shown
          \/ session'[s].buffered = FALSE /\ shown' = shown \cup {s}
      BY <2>2, <3>2
    <3>4. /\ session'[s].pc = "streaming" /\ session'[s].next = "InlineEvaluator"
          /\ session'[s].state = Respond(s, state)
          /\ session'[s].persisted = session[s].persisted
          /\ session'[s].recovering = session[s].recovering
          /\ session'[s].records = session[s].records \o rec
      <4>1. PICK b \in BOOLEAN : b = ~ followUp
        OBVIOUS
      <4>2. session'[s] = [session[s] EXCEPT !.pc = "streaming",
                             !.next = "InlineEvaluator", !.state = Respond(s, state),
                             !.edge = NoThread, !.buffered = b, !.records = @ \o rec]
        BY <3>1, <4>1
      <4> QED
        BY <1>1, <4>2 DEF Session
    <3>5. Respond(s, state).response = s
      BY <1>1 DEF State, Respond
    <3> QED
      BY <2>1, <2>2, <3>1, <3>3, <3>4, <3>5 DEF NodeRan, Recorded
  <2>3. CASE /\ Update(s, "Answer", state,
                       IF followUp THEN "InlineEvaluator" ELSE "__END__", FALSE, rec)
             /\ UNCHANGED <<answered, shown>>
    <3>1. PICK to \in {"InlineEvaluator", "__END__"} :
            to = IF followUp THEN "InlineEvaluator" ELSE "__END__"
      OBVIOUS
    <3>2. /\ session'[s] = [session[s] EXCEPT !.pc = "streaming", !.next = to,
                              !.state = state, !.edge = NoThread, !.buffered = FALSE,
                              !.records = @ \o rec]
          /\ checkpoint' = [checkpoint EXCEPT ![threadOf[s]] = state]
      BY <1>1, <2>3, <3>1 DEF Update
    <3> QED
      BY <1>1, <2>1, <2>3, <3>2 DEF Session, State, NodeRan, Recorded
  <2> QED
    BY <1>6, <2>2, <2>3 DEF Answer
<1>7. ASSUME InlineEvaluator(s)
      PROVE  /\ session[s].pc = "streaming"
             /\ NodeRan(s, "InlineEvaluator", {"__END__"})
             /\ session'[s].records = session[s].records
             /\ session'[s].state = session[s].state
             /\ \/ session'[s].buffered = session[s].buffered /\ shown' = shown
                \/ session'[s].buffered = FALSE /\ shown' = shown \cup {s}
                \/ ~ session[s].buffered /\ session'[s].buffered = FALSE /\ shown' = shown
  <2>1. session[s].pc = "streaming" /\ session[s].next = "InlineEvaluator"
    BY <1>7 DEF InlineEvaluator, At, Before
  <2>2. PICK passed \in BOOLEAN :
          /\ Update(s, "InlineEvaluator", session[s].state, "__END__",
                    session[s].buffered /\ ~ passed, << >>)
          /\ shown' = IF session[s].buffered /\ passed THEN shown \cup {s} ELSE shown
    BY <1>7 DEF InlineEvaluator
  <2>3. /\ session'[s] = [session[s] EXCEPT !.pc = "streaming", !.next = "__END__",
                            !.state = session[s].state, !.edge = NoThread,
                            !.buffered = session[s].buffered /\ ~ passed,
                            !.records = @ \o << >>]
        /\ checkpoint' = [checkpoint EXCEPT ![threadOf[s]] = session[s].state]
    BY <1>1, <2>2 DEF Update
  <2>4. session'[s].buffered = (session[s].buffered /\ ~ passed)
    BY <1>1, <2>3 DEF Session
  <2>5. \/ session'[s].buffered = session[s].buffered /\ shown' = shown
        \/ session'[s].buffered = FALSE /\ shown' = shown \cup {s}
        \/ ~ session[s].buffered /\ session'[s].buffered = FALSE /\ shown' = shown
    BY <1>1, <2>2, <2>4
  <2> QED
    BY <1>1, <1>3, <2>1, <2>3, <2>5 DEF Session, NodeRan
<1> QED
  BY <1>4, <1>5, <1>6, <1>7

\* The ends of a session, field by field.
LEMMA EndFields ==
  ASSUME NEW local \in Session
  PROVE  /\ Closed(local).pc = "closed" /\ Closed(local).records = local.records
         /\ Closed(local).persisted = FALSE /\ Closed(local).recovering = FALSE
         /\ Closed(local).state = NoState
         /\ Unwind(local).records = local.records /\ Unwind(local).persisted = FALSE
         /\ Unwind(local).state = NoState
         /\ \/ Unwind(local).pc = "closed" /\ local.records = << >>
               /\ Unwind(local).recovering = FALSE
            \/ Unwind(local).pc = "persisting" /\ Unwind(local).recovering = TRUE
  BY DEF Unwind, Closed, NewSession

\* An insert, with its result or its exception, leaves the session closed if it
\* recovers and before its terminal state if not.
Inserted(s, ok) ==
  /\ session[s].pc = "inserting" /\ session'[s].records = session[s].records
  /\ session'[s].recovering = FALSE
  /\ \/ session[s].recovering = TRUE /\ session'[s].pc = "closed"
        /\ session'[s].persisted = FALSE /\ session'[s].state = NoState
     \/ session[s].recovering = FALSE /\ session'[s].pc = "terminal"
        /\ session'[s].persisted = ok /\ session'[s].state = session[s].state

Retried(s) ==
  /\ session[s].pc = "inserting" /\ session'[s].pc = "inserting"
  /\ session'[s].records = session[s].records
  /\ session'[s].persisted = session[s].persisted
  /\ session'[s].recovering = session[s].recovering
  /\ session'[s].state = session[s].state

LEMMA InsertFields ==
  ASSUME TypeOK, NEW s \in Stream, session[s].pc = "inserting"
  PROVE  /\ session' = [session EXCEPT ![s] = AfterInsert(@, TRUE)] => Inserted(s, TRUE)
         /\ session' = [session EXCEPT ![s] = AfterInsert(@, FALSE)] => Inserted(s, FALSE)
         /\ session' = [session EXCEPT ![s].attempt = @ + 1] => Retried(s)
<1>1. session \in [Stream -> Session] /\ session[s] \in Session
      /\ session[s].recovering \in BOOLEAN
  BY DEF TypeOK, Session
<1>2. ASSUME session' = [session EXCEPT ![s] = AfterInsert(@, TRUE)]
      PROVE  Inserted(s, TRUE)
  <2>1. CASE session[s].recovering = TRUE
    <3>1. session'[s] = Closed(session[s])
      BY <1>1, <1>2, <2>1 DEF AfterInsert
    <3>2. /\ Closed(session[s]).pc = "closed"
          /\ Closed(session[s]).records = session[s].records
          /\ Closed(session[s]).persisted = FALSE /\ Closed(session[s]).recovering = FALSE
          /\ Closed(session[s]).state = NoState
      BY <1>1, EndFields
    <3> QED
      BY <2>1, <3>1, <3>2 DEF Inserted
  <2>2. CASE session[s].recovering = FALSE
    <3>1. session'[s] = [session[s] EXCEPT !.pc = "terminal", !.persisted = TRUE,
                                           !.attempt = 1]
      BY <1>1, <1>2, <2>2 DEF AfterInsert
    <3> QED
      BY <1>1, <2>2, <3>1 DEF Inserted, Session
  <2> QED
    BY <1>1, <2>1, <2>2
<1>3. ASSUME session' = [session EXCEPT ![s] = AfterInsert(@, FALSE)]
      PROVE  Inserted(s, FALSE)
  <2>1. CASE session[s].recovering = TRUE
    <3>1. session'[s] = Closed(session[s])
      BY <1>1, <1>3, <2>1 DEF AfterInsert
    <3>2. /\ Closed(session[s]).pc = "closed"
          /\ Closed(session[s]).records = session[s].records
          /\ Closed(session[s]).persisted = FALSE /\ Closed(session[s]).recovering = FALSE
          /\ Closed(session[s]).state = NoState
      BY <1>1, EndFields
    <3> QED
      BY <2>1, <3>1, <3>2 DEF Inserted
  <2>2. CASE session[s].recovering = FALSE
    <3>1. session'[s] = [session[s] EXCEPT !.pc = "terminal", !.persisted = FALSE,
                                           !.attempt = 1]
      BY <1>1, <1>3, <2>2 DEF AfterInsert
    <3> QED
      BY <1>1, <2>2, <3>1 DEF Inserted, Session
  <2> QED
    BY <1>1, <2>1, <2>2
<1>4. ASSUME session' = [session EXCEPT ![s].attempt = @ + 1]
      PROVE  Retried(s)
  <2>1. session'[s] = [session[s] EXCEPT !.attempt = @ + 1]
    BY <1>1, <1>4
  <2> QED
    BY <1>1, <2>1 DEF Retried, Session
<1> QED
  BY <1>2, <1>3, <1>4

\* The nodes that come after a node.
After == [IntentRouter             |-> {"DeterministicRuleChecker", "Answer",
                                        "InlineEvaluator", "__END__"},
          DeterministicRuleChecker |-> {"Answer", "InlineEvaluator", "__END__"},
          Answer                   |-> {"InlineEvaluator", "__END__"},
          InlineEvaluator          |-> {"__END__"}]

\* The turn of c is past node n.
Passed(c, n) ==
  /\ ~ At(c, "new")
  /\ session[c].pc \in {"streaming", "routing"} => session[c].next \in After[n]

\* A step of s that runs node n of the graph: it is not yet past n, and then it is.
Runs(s, n) ==
  /\ session[s].pc \in {"streaming", "routing"} /\ session[s].next = n
  /\ ~ Passed(s, n) /\ Passed(s, n)'

\* The steps that move the session on without a node of the graph.
LEMMA QuietFields ==
  ASSUME TypeOK, NEW s \in Stream
  PROVE  /\ Begin(s) => /\ session[s].pc = "new" /\ session'[s].pc = "streaming"
                        /\ session'[s].next = session[s].next
                        /\ session'[s].state = checkpoint[threadOf[s]]
         /\ ReadActive(s) => /\ session[s].pc = "streaming" /\ session'[s].pc = "routing"
                             /\ session'[s].next = session[s].next
                             /\ session'[s].edge = active
                             /\ session'[s].state = session[s].state
                             /\ session'[s].buffered = session[s].buffered
         /\ GraphEnds(s) => /\ session[s].pc = "streaming" /\ session'[s].pc = "done"
                            /\ session'[s].state = session[s].state
                            /\ session'[s].buffered = FALSE
         /\ ReadCheckpoint(s) => session[s].pc = "done" /\ session'[s].pc = "persisting"
         /\ Begin(s) \/ ReadActive(s) \/ GraphEnds(s) \/ ReadCheckpoint(s) =>
              /\ session'[s].records = session[s].records
              /\ session'[s].persisted = session[s].persisted
              /\ session'[s].recovering = session[s].recovering
         /\ CollectEdges(s) =>
              /\ session[s].pc = "persisting" /\ session'[s].pc = "inserting"
              /\ session'[s].records = session[s].records \o store[threadOf[s]]
              /\ session'[s].persisted = session[s].persisted
              /\ session'[s].recovering = session[s].recovering
              /\ session'[s].state = session[s].state
<1>1. session \in [Stream -> Session] /\ session[s] \in Session
  BY DEF TypeOK
<1>2. Begin(s) => session'[s] = [session[s] EXCEPT !.pc = "streaming",
                                   !.state = checkpoint[threadOf[s]]]
  BY <1>1 DEF Begin
<1>3. ReadActive(s) => session'[s] = [session[s] EXCEPT !.pc = "routing", !.edge = active]
  BY <1>1 DEF ReadActive
<1>4. GraphEnds(s) => session'[s] = [session[s] EXCEPT !.pc = "done", !.buffered = FALSE]
  BY <1>1 DEF GraphEnds
<1>5. ReadCheckpoint(s) =>
        \E state : session'[s] = [session[s] EXCEPT !.pc = "persisting", !.state = state]
  BY <1>1 DEF ReadCheckpoint
<1>6. CollectEdges(s) =>
        session'[s] = [session[s] EXCEPT !.pc = "inserting", !.attempt = 1,
                                         !.records = @ \o store[threadOf[s]]]
  BY <1>1 DEF CollectEdges
<1>7. /\ Begin(s) => session[s].pc = "new"
      /\ ReadActive(s) => session[s].pc = "streaming"
      /\ GraphEnds(s) => session[s].pc = "streaming"
      /\ ReadCheckpoint(s) => session[s].pc = "done"
      /\ CollectEdges(s) => session[s].pc = "persisting"
  BY DEF Begin, ReadActive, GraphEnds, ReadCheckpoint, CollectEdges, At, Before
<1> QED
  BY <1>1, <1>2, <1>3, <1>4, <1>5, <1>6, <1>7 DEF Session

\* The steps that insert a batch or end a session.
LEMMA LateFields ==
  ASSUME TypeOK, NEW s \in Stream
  PROVE  /\ BreakOff(s) \/ FailAfterRouting(s) =>
              /\ session[s].pc \in {"streaming", "done", "routing"}
              /\ session'[s] = Unwind(session[s])
              /\ Had(s, "broke off")'
         /\ CommitLogs(s) => Inserted(s, TRUE)
         /\ LoseCommitReply(s) => Had(s, "reply lost")'
         /\ LoseCommitReply(s) \/ FailInsert(s) =>
              Retried(s) \/ (Inserted(s, FALSE) /\ Had(s, "not persisted")')
         /\ UpdateTerminal(s) =>
              /\ session[s].pc = "terminal"
              /\ session'[s] = IF session[s].persisted THEN Closed(session[s])
                               ELSE Unwind(session[s])
         /\ mishaps \subseteq mishaps' \/ ~ Step(s)
<1>1. session \in [Stream -> Session]
  BY DEF TypeOK
<1>2. CommitLogs(s) => Inserted(s, TRUE)
  BY InsertFields DEF CommitLogs, At
<1>3. LoseCommitReply(s) \/ FailInsert(s) =>
        Retried(s) \/ (Inserted(s, FALSE) /\ Had(s, "not persisted")')
  BY InsertFields DEF LoseCommitReply, FailInsert, RetryOrGiveUp, At, Had
<1>4. /\ BreakOff(s) \/ FailAfterRouting(s) =>
           /\ session[s].pc \in {"streaming", "done", "routing"}
           /\ session'[s] = Unwind(session[s])
           /\ Had(s, "broke off")'
      /\ UpdateTerminal(s) =>
           /\ session[s].pc = "terminal"
           /\ session'[s] = IF session[s].persisted THEN Closed(session[s])
                            ELSE Unwind(session[s])
  BY <1>1 DEF BreakOff, FailAfterRouting, UpdateTerminal, GoesWrong, Had, At
<1>5. LoseCommitReply(s) => Had(s, "reply lost")'
  BY DEF LoseCommitReply, RetryOrGiveUp, Had
<1>6. Step(s) => mishaps \subseteq mishaps'
  BY DEF Step, Begin, ReadActive, IntentRouter, DeterministicRuleChecker, Answer,
     InlineEvaluator, BreakOff, FailAfterRouting, GraphEnds, ReadCheckpoint,
     CollectEdges, CommitLogs, LoseCommitReply, FailInsert, UpdateTerminal,
     RetryOrGiveUp, GoesWrong
<1> QED
  BY <1>2, <1>3, <1>4, <1>5, <1>6

\* What a step adds to the edge store and to the records of its session: nothing; a
\* node's record and the edge behind it; an edge alone; a node's record alone; or what
\* the store holds for the thread.
Quiet(s) == store' = store /\ session'[s].records = session[s].records

RoutedRun(s, n) ==
  At(s, "routing") /\ Runs(s, n) /\ AppendEdge(s, n) /\ Recorded(s, n)

RoutedFailure(s, n) ==
  /\ At(s, "routing") /\ Runs(s, n) /\ AppendEdge(s, n)
  /\ session'[s].records = session[s].records

PlainRun(s, n) == Runs(s, n) /\ store' = store /\ Recorded(s, n)

Collection(s) ==
  /\ CollectEdges(s)
  /\ store' = [store EXCEPT ![threadOf[s]] = << >>]
  /\ session'[s].records = session[s].records \o store[threadOf[s]]

\* The end of a session in a step, and what is left of the session.
LEMMA EndSteps ==
  ASSUME TypeOK, NEW s \in Stream,
         \/ BreakOff(s) \/ FailAfterRouting(s) \/ CommitLogs(s) \/ LoseCommitReply(s)
         \/ FailInsert(s) \/ UpdateTerminal(s)
  PROVE  /\ session'[s].records = session[s].records
         /\ session'[s].pc \in {"persisting", "inserting", "terminal", "closed"}
         /\ FailAfterRouting(s) => session'[s].pc \in {"persisting", "closed"}
<1>1. session[s] \in Session
  BY DEF TypeOK
<1>5. /\ Closed(session[s]).pc = "closed"
      /\ Closed(session[s]).records = session[s].records
      /\ Unwind(session[s]).pc \in {"persisting", "closed"}
      /\ Unwind(session[s]).records = session[s].records
  BY <1>1, EndFields
<1>2. CASE BreakOff(s) \/ FailAfterRouting(s)
  <2>1. session'[s] = Unwind(session[s])
    BY <1>2, LateFields
  <2> QED
    BY <1>5, <2>1
<1>3. CASE CommitLogs(s) \/ LoseCommitReply(s) \/ FailInsert(s)
  <2>1. ~ FailAfterRouting(s)
    BY <1>3 DEF CommitLogs, LoseCommitReply, FailInsert, FailAfterRouting, At
  <2>2. Inserted(s, TRUE) \/ Inserted(s, FALSE) \/ Retried(s)
    BY <1>3, LateFields
  <2> QED
    BY <2>1, <2>2 DEF Inserted, Retried
<1>4. CASE UpdateTerminal(s)
  <2>1. ~ FailAfterRouting(s)
    BY <1>4 DEF UpdateTerminal, FailAfterRouting, At
  <2>2. session'[s] \in {Closed(session[s]), Unwind(session[s])}
    BY <1>4, LateFields
  <2> QED
    BY <1>5, <2>1, <2>2
<1> QED
  BY <1>2, <1>3, <1>4

\* Every step is one of these.
LEMMA Effects ==
  ASSUME TypeOK, RoutesFromRouted, NEW s \in Stream, Step(s)
  PROVE  \/ Quiet(s)
         \/ /\ Begin(s)
            /\ store' = [store EXCEPT ![threadOf[s]] = << >>]
            /\ session'[s].records = session[s].records
         \/ \E n \in Routed : RoutedRun(s, n) \/ RoutedFailure(s, n)
         \/ PlainRun(s, "Answer")
         \/ Collection(s)
<1>3. CASE IntentRouter(s)
  <2>1. /\ session[s].pc = "routing"
        /\ NodeRan(s, "IntentRouter", {"Answer", "DeterministicRuleChecker"})
        /\ Recorded(s, "IntentRouter")
    BY <1>3, NodeFields
  <2>2. AppendEdge(s, "IntentRouter")
    BY <1>3 DEF IntentRouter
  <2>3. RoutedRun(s, "IntentRouter")
    BY <2>1, <2>2 DEF RoutedRun, NodeRan, Runs, Passed, After, At
  <2> QED
    BY <2>3 DEF Routed
<1>4. CASE DeterministicRuleChecker(s)
  <2>1. /\ session[s].pc = "routing"
        /\ NodeRan(s, "DeterministicRuleChecker", {"Answer", "__END__"})
        /\ Recorded(s, "DeterministicRuleChecker")
    BY <1>4, NodeFields
  <2>2. AppendEdge(s, "DeterministicRuleChecker")
    BY <1>4 DEF DeterministicRuleChecker
  <2>3. RoutedRun(s, "DeterministicRuleChecker")
    BY <2>1, <2>2 DEF RoutedRun, NodeRan, Runs, Passed, After, At
  <2> QED
    BY <2>3 DEF Routed
<1>5. CASE Answer(s)
  <2>1. /\ session[s].pc = "streaming"
        /\ NodeRan(s, "Answer", {"InlineEvaluator", "__END__"})
        /\ Recorded(s, "Answer")
    BY <1>5, NodeFields
  <2>2. store' = store
    BY <1>5 DEF Answer
  <2> QED
    BY <2>1, <2>2 DEF PlainRun, NodeRan, Runs, Passed, After, At
<1>6. CASE InlineEvaluator(s)
  BY <1>6, NodeFields DEF InlineEvaluator, Quiet
<1>7. CASE FailAfterRouting(s)
  <2>1. session[s].pc = "routing" /\ session[s].next \in Routed
        /\ AppendEdge(s, session[s].next)
    BY <1>7 DEF FailAfterRouting, At, RoutesFromRouted
  <2>2. /\ session'[s].records = session[s].records
        /\ session'[s].pc \in {"closed", "persisting"}
    BY <1>7, EndSteps
  <2>3. session[s].next \notin After[session[s].next]
    BY <2>1 DEF Routed, After
  <2>4. RoutedFailure(s, session[s].next)
    BY <2>1, <2>2, <2>3 DEF RoutedFailure, Runs, Passed, At
  <2> QED
    BY <2>1, <2>4
<1>8. CASE Begin(s)
  BY <1>8, QuietFields DEF Begin
<1>9. CASE CollectEdges(s)
  BY <1>9, QuietFields DEF CollectEdges, Collection
<1>10. CASE ReadActive(s) \/ GraphEnds(s) \/ ReadCheckpoint(s)
  BY <1>10, QuietFields DEF ReadActive, GraphEnds, ReadCheckpoint, Quiet
<1>11. CASE BreakOff(s) \/ CommitLogs(s) \/ LoseCommitReply(s) \/ FailInsert(s)
            \/ UpdateTerminal(s)
  <2>1. session'[s].records = session[s].records
    BY <1>11, EndSteps
  <2>2. store' = store
    BY <1>11 DEF BreakOff, CommitLogs, LoseCommitReply, FailInsert, UpdateTerminal
  <2> QED
    BY <2>1, <2>2 DEF Quiet
<1> QED
  BY <1>3, <1>4, <1>5, <1>6, <1>7, <1>8, <1>9, <1>10, <1>11 DEF Step

\* A turn never gets behind a node it has passed.
LEMMA PassedStays ==
  ASSUME TypeOK, NEW s \in Stream, Step(s), NEW c \in Stream, NEW n \in Nodes,
         Passed(c, n)
  PROVE  Passed(c, n)'
<1>2. CASE c # s
  <2>1. session'[c] = session[c]
    BY <1>2, StepOfOne
  <2> QED
    BY <2>1 DEF Passed, At
<1>3. CASE c = s
  <2>1. ASSUME session'[s].pc \in {"done", "persisting", "inserting", "closed", "terminal"}
        PROVE  Passed(c, n)'
    BY <1>3, <2>1 DEF Passed, At
  <2>2. CASE ReadActive(s) \/ Begin(s)
    BY <1>3, <2>2, QuietFields DEF Passed, At
  <2>3. ASSUME NEW k \in Nodes, NEW next, NodeRan(s, k, next), next \subseteq After[k],
               session[s].pc \in {"streaming", "routing"}
        PROVE  Passed(c, n)'
    <3>1. k \in After[n] /\ session'[s].next \in After[k] /\ session'[s].pc = "streaming"
      BY <1>3, <2>3 DEF NodeRan, Passed
    <3>2. After[k] \subseteq After[n]
      BY <3>1 DEF After, Nodes
    <3> QED
      BY <1>3, <3>1, <3>2 DEF Passed, At
  <2>4. CASE IntentRouter(s)
    BY <2>3, <2>4, NodeFields DEF After, Nodes
  <2>5. CASE DeterministicRuleChecker(s)
    BY <2>3, <2>5, NodeFields DEF After, Nodes
  <2>6. CASE Answer(s)
    BY <2>3, <2>6, NodeFields DEF After, Nodes
  <2>7. CASE InlineEvaluator(s)
    BY <2>3, <2>7, NodeFields DEF After, Nodes
  <2>8. CASE GraphEnds(s) \/ ReadCheckpoint(s) \/ CollectEdges(s)
    BY <2>1, <2>8, QuietFields
  <2>9. CASE BreakOff(s) \/ FailAfterRouting(s) \/ CommitLogs(s)
             \/ LoseCommitReply(s) \/ FailInsert(s) \/ UpdateTerminal(s)
    BY <2>1, <2>9, EndSteps
  <2> QED
    BY <2>2, <2>4, <2>5, <2>6, <2>7, <2>8, <2>9 DEF Step
<1> QED
  BY <1>2, <1>3

----------------------------------------------------------------------------
(***************************************************************************)
(* The records of a turn.                                                  *)
(***************************************************************************)

Elems(q) == {q[i] : i \in DOMAIN q}

Distinct(q) == \A i, j \in DOMAIN q : q[i] = q[j] => i = j

\* The empty sequence and one element.
LEMMA FewElems ==
  /\ Elems(<< >>) = {} /\ Distinct(<< >>)
  /\ \A e : Elems(<<e>>) = {e} /\ Distinct(<<e>>)
BY DEF Elems, Distinct

\* Two sequences without a common element.
LEMMA JoinedElems ==
  ASSUME NEW S, NEW p \in Seq(S), NEW q \in Seq(S)
  PROVE  /\ Elems(p \o q) = Elems(p) \cup Elems(q)
         /\ Distinct(p) /\ Distinct(q) /\ Elems(p) \cap Elems(q) = {}
              => Distinct(p \o q)
<1> DEFINE r == p \o q
<1>1. /\ DOMAIN p = 1 .. Len(p) /\ DOMAIN q = 1 .. Len(q)
      /\ Len(p) \in Nat /\ Len(q) \in Nat
      /\ DOMAIN r = 1 .. Len(p) + Len(q)
      /\ \A i \in 1 .. Len(p) : r[i] = p[i]
      /\ \A i \in 1 .. Len(q) : r[Len(p) + i] = q[i]
  OBVIOUS
<1>2. ASSUME NEW i \in 1 .. Len(p) + Len(q)
      PROVE  \/ i \in 1 .. Len(p) /\ r[i] = p[i]
             \/ i - Len(p) \in 1 .. Len(q) /\ r[i] = q[i - Len(p)]
                /\ i = Len(p) + (i - Len(p))
  <2>1. i \in 1 .. Len(p) \/ i - Len(p) \in 1 .. Len(q)
    BY <1>1, <1>2
  <2>2. i = Len(p) + (i - Len(p))
    BY <1>1, <1>2
  <2> QED
    BY <1>1, <2>1, <2>2
<1> HIDE DEF r
<1>3. Elems(r) \subseteq Elems(p) \cup Elems(q)
  BY <1>1, <1>2 DEF Elems
<1>4. Elems(p) \subseteq Elems(r)
  <2>1. \A i \in 1 .. Len(p) : i \in DOMAIN r
    BY <1>1
  <2> QED
    BY <1>1, <2>1 DEF Elems
<1>5. Elems(q) \subseteq Elems(r)
  <2>1. \A i \in 1 .. Len(q) : Len(p) + i \in DOMAIN r
    BY <1>1
  <2> QED
    BY <1>1, <2>1 DEF Elems
<1>6. ASSUME Distinct(p), Distinct(q), Elems(p) \cap Elems(q) = {}
      PROVE  Distinct(r)
  <2>1. ASSUME NEW i \in 1 .. Len(p) + Len(q), NEW j \in 1 .. Len(p) + Len(q),
               r[i] = r[j]
        PROVE  i = j
    <3> DEFINE a == i - Len(p)
               b == j - Len(p)
    <3>1. \/ i \in 1 .. Len(p) /\ r[i] = p[i]
          \/ a \in 1 .. Len(q) /\ r[i] = q[a] /\ i = Len(p) + a
      BY <1>2
    <3>2. \/ j \in 1 .. Len(p) /\ r[j] = p[j]
          \/ b \in 1 .. Len(q) /\ r[j] = q[b] /\ j = Len(p) + b
      BY <1>2
    <3> HIDE DEF a, b
    <3>3. \A k \in 1 .. Len(p), l \in 1 .. Len(q) : p[k] # q[l]
      BY <1>1, <1>6 DEF Elems
    <3>4. /\ \A k, l \in 1 .. Len(p) : p[k] = p[l] => k = l
          /\ \A k, l \in 1 .. Len(q) : q[k] = q[l] => k = l
      BY <1>1, <1>6 DEF Distinct
    <3> QED
      BY <2>1, <3>1, <3>2, <3>3, <3>4
  <2> QED
    BY <1>1, <2>1 DEF Distinct
<1> QED
  BY <1>3, <1>4, <1>5, <1>6 DEF r

\* One element more.
LEMMA AppendedElems ==
  ASSUME NEW S, NEW p \in Seq(S), NEW e \in S
  PROVE  /\ Append(p, e) \in Seq(S) /\ p \o <<e>> = Append(p, e)
         /\ Elems(Append(p, e)) = Elems(p) \cup {e}
         /\ Distinct(p) /\ e \notin Elems(p) => Distinct(Append(p, e))
<1>1. <<e>> \in Seq(S) /\ Append(p, e) \in Seq(S) /\ p \o <<e>> = Append(p, e)
  OBVIOUS
<1>2. Elems(<<e>>) = {e} /\ Distinct(<<e>>)
  BY FewElems
<1>3. PICK q \in Seq(S) : q = <<e>>
  BY <1>1
<1>4. /\ Elems(p \o q) = Elems(p) \cup Elems(q)
      /\ Distinct(p) /\ Distinct(q) /\ Elems(p) \cap Elems(q) = {} => Distinct(p \o q)
  BY JoinedElems
<1>5. p \o q = Append(p, e) /\ Elems(q) = {e} /\ Distinct(q)
  BY <1>1, <1>2, <1>3
<1>6. e \notin Elems(p) => Elems(p) \cap {e} = {}
  OBVIOUS
<1> QED
  BY <1>1, <1>4, <1>5, <1>6

\* No record is made twice, and none is in two places at once: a turn makes its
\* records as it passes the node they are of.
Unique ==
  /\ \A t \in Thread :
       /\ Distinct(store[t])
       /\ \A r \in Elems(store[t]) : r.kind = "edge" /\ Passed(r.by, r.of)
  /\ \A t, u \in Thread : t # u => Elems(store[t]) \cap Elems(store[u]) = {}
  /\ \A c \in Stream :
       /\ Distinct(session[c].records)
       /\ \A r \in Elems(session[c].records) :
            Passed(r.by, r.of) /\ (r.kind = "node" => r.by = c)
  /\ \A t \in Thread, c \in Stream : Elems(store[t]) \cap Elems(session[c].records) = {}

\* The store and the collected records hold records.
LEMMA RecordTypes ==
  ASSUME TypeOK
  PROVE  /\ \A t \in Thread : store[t] \in Seq(Record) /\ Elems(store[t]) \subseteq Record
         /\ \A c \in Stream : /\ session[c].records \in Seq(Record)
                              /\ Elems(session[c].records) \subseteq Record
         /\ \A r \in Record : r.by \in Stream /\ r.of \in Nodes
         /\ \A c \in Stream, n \in Nodes, kind \in {"node", "edge"} :
              /\ Rec(c, n, kind) \in Record
              /\ Rec(c, n, kind).by = c /\ Rec(c, n, kind).of = n
              /\ Rec(c, n, kind).kind = kind
<1>1. \A t \in Thread : store[t] \in Seq(Record)
  BY DEF TypeOK
<1>2. \A c \in Stream : session[c].records \in Seq(Record)
  BY DEF TypeOK, Session
<1>3. \A q \in Seq(Record) : Elems(q) \subseteq Record
  BY DEF Elems
<1> QED
  BY <1>1, <1>2, <1>3 DEF Record, Rec

\* A step adds no record that is there already.
LEMMA UniqueStep ==
  ASSUME TypeOK, RoutesFromRouted, Unique, NEW s \in Stream, Step(s)
  PROVE  Unique'
<1>1. /\ session \in [Stream -> Session] /\ store \in [Thread -> Seq(Record)]
      /\ threadOf[s] \in Thread
  BY DEF TypeOK
<1>2. \A c \in Stream \ {s} : session'[c] = session[c]
  BY StepOfOne
<1>3. \A c \in Stream, n \in Nodes : Passed(c, n) => Passed(c, n)'
  BY PassedStays
<1>13. /\ \A t \in Thread : \A r \in Elems(store[t]) : r.kind = "edge" /\ Passed(r.by, r.of)'
       /\ \A c \in Stream : \A r \in Elems(session[c].records) :
            Passed(r.by, r.of)' /\ (r.kind = "node" => r.by = c)
  <2>1. ASSUME NEW r \in Record, Passed(r.by, r.of)
        PROVE  Passed(r.by, r.of)'
    <3>1. r.by \in Stream /\ r.of \in Nodes
      BY RecordTypes
    <3> QED
      BY <1>3, <2>1, <3>1
  <2>2. \A t \in Thread : \A r \in Elems(store[t]) :
          r \in Record /\ r.kind = "edge" /\ Passed(r.by, r.of)
    BY RecordTypes DEF Unique
  <2>3. \A c \in Stream : \A r \in Elems(session[c].records) :
          r \in Record /\ Passed(r.by, r.of) /\ (r.kind = "node" => r.by = c)
    BY RecordTypes DEF Unique
  <2> QED
    BY <2>1, <2>2, <2>3
<1> DEFINE new == session'[s].records
           old == session[s].records
<1>4. ASSUME NEW n \in Nodes, Runs(s, n)
      PROVE  /\ \A kind \in {"node", "edge"}, t \in Thread : Rec(s, n, kind) \notin Elems(store[t])
             /\ \A kind \in {"node", "edge"}, c \in Stream :
                  Rec(s, n, kind) \notin Elems(session[c].records)
             /\ Passed(s, n)'
  <2>1. ~ Passed(s, n) /\ Passed(s, n)'
    BY <1>4 DEF Runs
  <2> QED
    BY <2>1, RecordTypes DEF Unique
<1>5. ASSUME NEW n \in Nodes, Runs(s, n), Recorded(s, n)
      PROVE  /\ Elems(new) = Elems(old) \cup {Rec(s, n, "node")}
             /\ Distinct(new)
  <2>1. new = Append(old, Rec(s, n, "node"))
    BY <1>5, RecordTypes, AppendedElems DEF Recorded
  <2> QED
    BY <1>4, <1>5, <2>1, RecordTypes, AppendedElems DEF Unique
<1>6. ASSUME NEW n \in Nodes, Runs(s, n), AppendEdge(s, n), NEW t \in Thread
      PROVE  /\ Distinct(store'[t])
             /\ Elems(store'[t]) = Elems(store[t]) \cup
                  (IF t = session[s].edge THEN {Rec(s, n, "edge")} ELSE {})
  <2>1. CASE t = session[s].edge
    <3>1. store'[t] = Append(store[t], Rec(s, n, "edge"))
      BY <1>1, <1>6, <2>1 DEF AppendEdge
    <3> QED
      BY <1>4, <1>6, <2>1, <3>1, RecordTypes, AppendedElems DEF Unique
  <2>2. CASE t # session[s].edge
    <3>1. store'[t] = store[t]
      BY <1>1, <1>6, <2>2 DEF AppendEdge
    <3> QED
      BY <2>2, <3>1 DEF Unique
  <2> QED
    BY <2>1, <2>2
\* What is left of the proof is about sets of records.
<1>7. ASSUME \A t \in Thread : Distinct(store'[t]), Distinct(new),
             \A t, u \in Thread : t # u => Elems(store'[t]) \cap Elems(store'[u]) = {},
             \A t \in Thread : \A r \in Elems(store'[t]) : r.kind = "edge" /\ Passed(r.by, r.of)',
             \A r \in Elems(new) : Passed(r.by, r.of)' /\ (r.kind = "node" => r.by = s),
             \A t \in Thread, c \in Stream \ {s} : Elems(store'[t]) \cap Elems(session[c].records) = {},
             \A t \in Thread : Elems(store'[t]) \cap Elems(new) = {}
      PROVE  Unique'
  <2>1. ASSUME NEW c \in Stream
        PROVE  /\ Distinct(session'[c].records)
               /\ \A r \in Elems(session'[c].records) :
                    Passed(r.by, r.of)' /\ (r.kind = "node" => r.by = c)
               /\ \A t \in Thread : Elems(store'[t]) \cap Elems(session'[c].records) = {}
    <3>1. CASE c = s
      BY <1>7, <3>1
    <3>2. CASE c # s
      <4>1. session'[c].records = session[c].records
        BY <1>2, <3>2
      <4> QED
        BY <1>7, <1>13, <3>2, <4>1 DEF Unique
    <3> QED
      BY <3>1, <3>2
  <2> QED
    BY <1>7, <2>1 DEF Unique
<1>8. CASE store' = store /\ new = old
  BY <1>7, <1>8, <1>13 DEF Unique
<1>9. CASE store' = [store EXCEPT ![threadOf[s]] = << >>] /\ new = old
  <2>1. \A t \in Thread : store'[t] = store[t] \/ store'[t] = << >>
    BY <1>1, <1>9
  <2>2. \A t \in Thread : Distinct(store'[t]) /\ Elems(store'[t]) \subseteq Elems(store[t])
    BY <2>1, FewElems DEF Unique
  <2>3. \A t \in Thread : \A r \in Elems(store'[t]) : r.kind = "edge" /\ Passed(r.by, r.of)'
    BY <1>13, <2>2
  <2>4. \A r \in Elems(new) : Passed(r.by, r.of)' /\ (r.kind = "node" => r.by = s)
    BY <1>9, <1>13
  <2>5. /\ \A t, u \in Thread : t # u => Elems(store'[t]) \cap Elems(store'[u]) = {}
        /\ \A t \in Thread, c \in Stream : Elems(store'[t]) \cap Elems(session[c].records) = {}
        /\ Distinct(old)
    BY <2>2 DEF Unique
  <2> QED
    BY <1>7, <1>9, <2>2, <2>3, <2>4, <2>5
<1>10. ASSUME NEW n \in Routed, RoutedRun(s, n) \/ RoutedFailure(s, n)
       PROVE  Unique'
  <2>1. n \in Nodes /\ Runs(s, n) /\ AppendEdge(s, n)
    BY <1>10 DEF Routed, Nodes, RoutedRun, RoutedFailure
  <2>2. \A t \in Thread : /\ Distinct(store'[t])
                          /\ Elems(store'[t]) = Elems(store[t]) \cup
                               (IF t = session[s].edge THEN {Rec(s, n, "edge")} ELSE {})
    BY <1>6, <2>1
  <2>3. /\ Distinct(new)
        /\ Elems(new) = Elems(old) \/ Elems(new) = Elems(old) \cup {Rec(s, n, "node")}
    <3>1. CASE RoutedRun(s, n)
      BY <1>5, <2>1, <3>1 DEF RoutedRun
    <3>2. CASE RoutedFailure(s, n)
      BY <3>2 DEF RoutedFailure, Unique
    <3> QED
      BY <1>10, <3>1, <3>2
  <2>4. /\ \A kind \in {"node", "edge"}, t \in Thread : Rec(s, n, kind) \notin Elems(store[t])
        /\ \A kind \in {"node", "edge"}, c \in Stream :
             Rec(s, n, kind) \notin Elems(session[c].records)
        /\ Passed(s, n)'
    BY <1>4, <2>1
  <2>5. \A t \in Thread : \A r \in Elems(store'[t]) : r.kind = "edge" /\ Passed(r.by, r.of)'
    <3>1. LET e == Rec(s, n, "edge") IN e.kind = "edge" /\ Passed(e.by, e.of)'
      BY <2>1, <2>4, RecordTypes
    <3>2. \A t \in Thread : \A r \in Elems(store'[t]) :
            r \in Elems(store[t]) \/ r = Rec(s, n, "edge")
      BY <2>2
    <3> QED
      BY <1>13, <3>1, <3>2
  <2>6. \A r \in Elems(new) : Passed(r.by, r.of)' /\ (r.kind = "node" => r.by = s)
    BY <1>13, <2>1, <2>3, <2>4, RecordTypes
  <2>7. \A t, u \in Thread : t # u => Elems(store'[t]) \cap Elems(store'[u]) = {}
    BY <2>2, <2>4 DEF Unique
  <2>8. \A t \in Thread, c \in Stream \ {s} :
          Elems(store'[t]) \cap Elems(session[c].records) = {}
    BY <2>2, <2>4 DEF Unique
  <2>9. Rec(s, n, "node") # Rec(s, n, "edge")
    BY DEF Rec
  <2>10. \A t \in Thread : Elems(store'[t]) \cap Elems(new) = {}
    BY <2>2, <2>3, <2>4, <2>9 DEF Unique
  <2> QED
    BY <1>7, <2>2, <2>3, <2>5, <2>6, <2>7, <2>8, <2>10
<1>11. CASE PlainRun(s, "Answer")
  <2>1. "Answer" \in Nodes /\ Runs(s, "Answer") /\ store' = store /\ Recorded(s, "Answer")
    BY <1>11 DEF Nodes, PlainRun
  <2>2. Distinct(new) /\ Elems(new) = Elems(old) \cup {Rec(s, "Answer", "node")}
    BY <1>5, <2>1
  <2>3. /\ \A t \in Thread : Rec(s, "Answer", "node") \notin Elems(store[t])
        /\ Passed(s, "Answer")'
    BY <1>4, <2>1
  <2>4. \A r \in Elems(new) : Passed(r.by, r.of)' /\ (r.kind = "node" => r.by = s)
    BY <1>13, <2>1, <2>2, <2>3, RecordTypes
  <2>5. \A t \in Thread : \A r \in Elems(store'[t]) : r.kind = "edge" /\ Passed(r.by, r.of)'
    BY <1>13, <2>1
  <2> QED
    BY <1>7, <2>1, <2>2, <2>3, <2>4, <2>5 DEF Unique
<1>12. CASE Collection(s)
  <2> DEFINE t0 == threadOf[s]
  <2>1. /\ new = old \o store[t0] /\ store'[t0] = << >>
        /\ \A t \in Thread \ {t0} : store'[t] = store[t]
    BY <1>1, <1>12 DEF Collection
  <2>2. \A t \in Thread : /\ Distinct(store'[t])
                          /\ Elems(store'[t]) = IF t = t0 THEN {} ELSE Elems(store[t])
    BY <2>1, FewElems DEF Unique
  <2>3. old \in Seq(Record) /\ store[t0] \in Seq(Record)
    BY <1>1, RecordTypes
  <2>4. Elems(store[t0]) \cap Elems(old) = {} /\ Distinct(old) /\ Distinct(store[t0])
    BY <1>1 DEF Unique
  <2>5. Elems(new) = Elems(old) \cup Elems(store[t0]) /\ Distinct(new)
    BY <2>1, <2>3, <2>4, JoinedElems
  <2>6. \A r \in Elems(new) : Passed(r.by, r.of)' /\ (r.kind = "node" => r.by = s)
    <3>1. \A r \in Elems(old) : Passed(r.by, r.of)' /\ (r.kind = "node" => r.by = s)
      BY <1>13
    <3>2. \A r \in Elems(store[t0]) : Passed(r.by, r.of)' /\ r.kind = "edge"
      BY <1>1, <1>13
    <3> QED
      BY <2>5, <3>1, <3>2
  <2>7. \A t \in Thread : \A r \in Elems(store'[t]) : r.kind = "edge" /\ Passed(r.by, r.of)'
    BY <1>13, <2>2
  <2>8. \A t, u \in Thread : t # u => Elems(store'[t]) \cap Elems(store'[u]) = {}
    BY <2>2 DEF Unique
  <2>9. \A t \in Thread, c \in Stream \ {s} :
          Elems(store'[t]) \cap Elems(session[c].records) = {}
    BY <2>2 DEF Unique
  <2>10. \A t \in Thread : Elems(store'[t]) \cap Elems(new) = {}
    BY <1>1, <2>2, <2>5 DEF Unique
  <2> QED
    BY <1>7, <2>2, <2>5, <2>6, <2>7, <2>8, <2>9, <2>10
<1> QED
  BY <1>8, <1>9, <1>10, <1>11, <1>12, Effects DEF Quiet

\* The rows of a trace hold each record once, as long as no reply to a commit was
\* lost: a session whose batch is committed inserts no other.
LogOnce(c) ==
  \/ Had(c, "reply lost")
  \/ log[c] = << >>
  \/ /\ \A i, j \in DOMAIN log[c] : log[c][i].data = log[c][j].data => i = j
     /\ At(c, "closed") \/ (At(c, "terminal") /\ session[c].persisted)

AllLogged(c) == \A i \in DOMAIN session[c].records : Logged(c, session[c].records[i])

\* A session that takes its batch as persisted has it in the log, and so has one
\* that is closed unless it gave up.
Kept(c) ==
  /\ session[c].persisted => At(c, "terminal") /\ AllLogged(c)
  /\ At(c, "closed") /\ ~ Had(c, "not persisted") => AllLogged(c)

Apart(c) == \A b \in Stream : ~ Overlapped(c, b)

\* Before the edge records are collected.
Collecting(c) == session[c].pc \in {"streaming", "routing", "done", "persisting"}

\* A turn that overlaps no other finds its thread in the global, and the routing
\* behind each of its nodes is in the thread's store until the turn has collected it.
OwnEdges(c) ==
  Apart(c) =>
    /\ Open(c) => /\ active = threadOf[c]
                  /\ At(c, "routing") => session[c].edge = threadOf[c]
    /\ \A n \in Routed :
         Rec(c, n, "node") \in Elems(session[c].records) =>
           \/ Rec(c, n, "edge") \in Elems(session[c].records)
           \/ Collecting(c) /\ Rec(c, n, "edge") \in Elems(store[threadOf[c]])

\* A session that is not before its terminal state has no batch it takes as persisted;
\* what an insert, or the end of a session, makes of that.
LEMMA BatchKept ==
  ASSUME TypeOK, NEW s \in Stream, Step(s), Kept(s)
  PROVE  /\ session'[s].persisted => CommitLogs(s) /\ session'[s].pc = "terminal"
         /\ session'[s].pc = "closed" =>
              \/ session'[s].records = << >>
              \/ CommitLogs(s)
              \/ Inserted(s, FALSE) /\ Had(s, "not persisted")'
              \/ UpdateTerminal(s) /\ session[s].persisted
         /\ session[s].pc # "closed"
<1>1. session[s] \in Session /\ session[s].persisted \in BOOLEAN
  BY DEF TypeOK, Session
<1>2. session[s].persisted => session[s].pc = "terminal"
  BY DEF Kept, At
<1>3. /\ Closed(session[s]).persisted = FALSE /\ Unwind(session[s]).persisted = FALSE
      /\ Unwind(session[s]).records = session[s].records
      /\ \/ Unwind(session[s]).pc = "closed" /\ session[s].records = << >>
         \/ Unwind(session[s]).pc = "persisting"
  BY <1>1, EndFields
<1>4. CASE Begin(s) \/ ReadActive(s) \/ GraphEnds(s) \/ ReadCheckpoint(s) \/ CollectEdges(s)
  <2>1. /\ session[s].pc \in {"new", "streaming", "done", "persisting"}
        /\ session'[s].pc \in {"streaming", "routing", "done", "persisting", "inserting"}
        /\ session'[s].persisted = session[s].persisted
    BY <1>4, QuietFields
  <2> QED
    BY <1>2, <2>1
<1>5. CASE IntentRouter(s) \/ DeterministicRuleChecker(s) \/ Answer(s) \/ InlineEvaluator(s)
  <2>1. /\ session[s].pc \in {"streaming", "routing"} /\ session'[s].pc = "streaming"
        /\ session'[s].persisted = session[s].persisted
    BY <1>5, NodeFields DEF NodeRan
  <2> QED
    BY <1>2, <2>1
<1>6. CASE BreakOff(s) \/ FailAfterRouting(s)
  <2>1. /\ session[s].pc \in {"streaming", "done", "routing"}
        /\ session'[s] = Unwind(session[s])
    BY <1>6, LateFields
  <2> QED
    BY <1>3, <2>1
<1>7. CASE CommitLogs(s)
  <2>1. Inserted(s, TRUE)
    BY <1>7, LateFields
  <2> QED
    BY <1>7, <2>1 DEF Inserted
<1>8. CASE LoseCommitReply(s) \/ FailInsert(s)
  <2>1. Retried(s) \/ (Inserted(s, FALSE) /\ Had(s, "not persisted")')
    BY <1>8, LateFields
  <2>2. CASE Retried(s)
    BY <1>2, <2>2 DEF Retried
  <2>3. CASE Inserted(s, FALSE) /\ Had(s, "not persisted")'
    BY <2>3 DEF Inserted
  <2> QED
    BY <2>1, <2>2, <2>3
<1>9. CASE UpdateTerminal(s)
  <2>1. /\ session[s].pc = "terminal"
        /\ session'[s] = IF session[s].persisted THEN Closed(session[s])
                         ELSE Unwind(session[s])
    BY <1>9, LateFields
  <2> QED
    BY <1>3, <1>9, <2>1
<1> QED
  BY <1>4, <1>5, <1>6, <1>7, <1>8, <1>9 DEF Step

\* A committed batch holds what its session collected.
LEMMA BatchLogged ==
  ASSUME TypeOK, NEW s \in Stream, session'[s].records = session[s].records,
         log'[s] = log[s] \o LogRows(s)
  PROVE  AllLogged(s)'
<1>1. session[s].records \in Seq(Record)
  BY RecordTypes
<1>2. /\ Len(LogRows(s)) = Len(session[s].records)
      /\ \A i \in 1 .. Len(session[s].records) :
           LogRows(s)[i].data = session[s].records[i]
  BY LogRowsType
<1>3. /\ DOMAIN log'[s] = 1 .. Len(log[s]) + Len(LogRows(s)) /\ Len(log[s]) \in Nat
      /\ Len(LogRows(s)) \in Nat
      /\ \A i \in 1 .. Len(LogRows(s)) : log'[s][Len(log[s]) + i] = LogRows(s)[i]
  BY BatchRows
<1>4. ASSUME NEW i \in DOMAIN session[s].records
      PROVE  \E k \in DOMAIN log'[s] : log'[s][k].data = session[s].records[i]
  <2>1. i \in 1 .. Len(LogRows(s))
    BY <1>1, <1>2, <1>4
  <2>2. Len(log[s]) + i \in DOMAIN log'[s]
    BY <1>3, <2>1
  <2> QED
    BY <1>2, <1>3, <2>1, <2>2
<1> QED
  BY <1>4 DEF AllLogged, Logged

\* The log of c outside the commits of its own session.
LEMMA LogElsewhere ==
  ASSUME TypeOK, NEW s \in Stream, Step(s), NEW c \in Stream
  PROVE  \/ log'[c] = log[c]
         \/ /\ c = s /\ (CommitLogs(s) \/ LoseCommitReply(s))
            /\ session[s].pc = "inserting" /\ session'[s].records = session[s].records
            /\ log'[s] = log[s] \o LogRows(s)
<1>1. log \in [Stream -> Seq(LogRow)]
  BY DEF TypeOK
<1>2. CASE log' = log
  BY <1>2
<1>3. CASE /\ CommitLogs(s) \/ LoseCommitReply(s)
           /\ At(s, "inserting") /\ log' = [log EXCEPT ![s] = @ \o LogRows(s)]
  <2>1. session'[s].records = session[s].records
    BY <1>3, EndSteps
  <2> QED
    BY <1>1, <1>3, <2>1 DEF At
<1> QED
  BY <1>2, <1>3, LogChange

\* A step keeps what the sessions have in the log.
LEMMA KeptStep ==
  ASSUME TypeOK, NEW s \in Stream, Step(s), NEW c \in Stream, Kept(c)
  PROVE  Kept(c)'
<1>1. mishaps \subseteq mishaps'
  BY LateFields
<1>2. CASE c # s
  <2>1. session'[c] = session[c]
    BY <1>2, StepOfOne
  <2>2. log'[c] = log[c]
    BY <1>2, LogElsewhere
  <2>3. AllLogged(c) => AllLogged(c)'
    BY <2>1, <2>2 DEF AllLogged, Logged
  <2> QED
    BY <1>1, <2>1, <2>3 DEF Kept, At, Had
<1>3. CASE c = s
  <2>1. CASE CommitLogs(s)
    <3>1. log'[s] = log[s] \o LogRows(s) /\ session'[s].records = session[s].records
      <4>1. log \in [Stream -> Seq(LogRow)]
        BY DEF TypeOK
      <4> QED
        BY <2>1, <4>1, EndSteps DEF CommitLogs
    <3>2. AllLogged(s)'
      BY <3>1, BatchLogged
    <3>3. session'[s].persisted => session'[s].pc = "terminal"
      BY <1>3, BatchKept
    <3> QED
      BY <1>3, <3>2, <3>3 DEF Kept, At
  <2>2. CASE ~ CommitLogs(s)
    <3>1. ~ session'[s].persisted
      BY <1>3, <2>2, BatchKept
    <3>2. ASSUME session'[s].pc = "closed", ~ Had(s, "not persisted")'
          PROVE  AllLogged(s)'
      <4>1. CASE session'[s].records = << >>
        BY <4>1 DEF AllLogged
      <4>2. CASE UpdateTerminal(s) /\ session[s].persisted
        <5>1. AllLogged(s)
          BY <1>3, <4>2 DEF Kept
        <5>2. log'[s] = log[s] /\ session'[s].records = session[s].records
          BY <4>2, EndSteps DEF UpdateTerminal
        <5> QED
          BY <5>1, <5>2 DEF AllLogged, Logged
      <4> QED
        BY <1>3, <2>2, <3>2, <4>1, <4>2, BatchKept
    <3> QED
      BY <1>3, <3>1, <3>2 DEF Kept, At
  <2> QED
    BY <2>1, <2>2
<1> QED
  BY <1>2, <1>3

\* A step repeats no row, unless the reply to its commit is lost.
LEMMA LogOnceStep ==
  ASSUME TypeOK, Unique, NEW s \in Stream, Step(s), NEW c \in Stream, LogOnce(c), Kept(c)
  PROVE  LogOnce(c)'
<1>1. mishaps \subseteq mishaps'
  BY LateFields
<1>2. CASE Had(c, "reply lost")
  BY <1>1, <1>2 DEF LogOnce, Had
<1>3. CASE c # s
  <2>1. session'[c] = session[c] /\ log'[c] = log[c]
    BY <1>3, StepOfOne, LogElsewhere
  <2> QED
    BY <1>1, <2>1 DEF LogOnce, Had, At
<1>4. CASE c = s /\ ~ Had(c, "reply lost")
  <2>1. CASE log'[s] = log[s]
    <3>1. CASE log[s] = << >>
      BY <1>4, <2>1, <3>1 DEF LogOnce
    <3>2. CASE log[s] # << >>
      <4>1. /\ \A i, j \in DOMAIN log[s] : log[s][i].data = log[s][j].data => i = j
            /\ session[s].pc = "terminal" /\ session[s].persisted
        BY <1>4, <3>2, BatchKept DEF LogOnce, At
      <4>2. UpdateTerminal(s)
        <5>1. ~ (BreakOff(s) \/ FailAfterRouting(s) \/ CommitLogs(s)
                 \/ LoseCommitReply(s) \/ FailInsert(s))
          BY <4>1 DEF BreakOff, FailAfterRouting, CommitLogs, LoseCommitReply,
             FailInsert, At
        <5>2. ~ (Begin(s) \/ ReadActive(s) \/ GraphEnds(s) \/ ReadCheckpoint(s)
                 \/ CollectEdges(s) \/ IntentRouter(s) \/ DeterministicRuleChecker(s)
                 \/ Answer(s) \/ InlineEvaluator(s))
          BY <4>1 DEF Begin, ReadActive, GraphEnds, ReadCheckpoint, CollectEdges,
             IntentRouter, DeterministicRuleChecker, Answer, InlineEvaluator, At, Before
        <5> QED
          BY <5>1, <5>2 DEF Step
      <4>3. session'[s].pc = "closed"
        <5>1. session'[s] = Closed(session[s])
          BY <4>1, <4>2, LateFields
        <5> QED
          BY <5>1 DEF Closed
      <4>4. \A i, j \in DOMAIN log'[s] : log'[s][i].data = log'[s][j].data => i = j
        BY <2>1, <4>1
      <4> QED
        BY <1>4, <4>3, <4>4 DEF LogOnce, At
    <3> QED
      BY <3>1, <3>2
  <2>2. CASE LoseCommitReply(s)
    BY <1>4, <2>2, LateFields DEF LogOnce
  <2>3. CASE CommitLogs(s) /\ session[s].pc = "inserting" /\ log'[s] = log[s] \o LogRows(s)
    <3>1. log[s] = << >>
      BY <1>4, <2>3 DEF LogOnce, At
    <3>2. /\ Len(LogRows(s)) = Len(session[s].records)
          /\ LogRows(s) \in Seq(LogRow) /\ session[s].records \in Seq(Record)
          /\ \A i \in 1 .. Len(session[s].records) :
               LogRows(s)[i].data = session[s].records[i]
      BY LogRowsType, RecordTypes
    <3>3. log'[s] = LogRows(s)
      BY <2>3, <3>1, <3>2
    <3>4. \A i, j \in 1 .. Len(session[s].records) :
            session[s].records[i] = session[s].records[j] => i = j
      BY <3>2 DEF Unique, Distinct
    <3>5. \A i, j \in DOMAIN log'[s] : log'[s][i].data = log'[s][j].data => i = j
      BY <3>2, <3>3, <3>4
    <3>6. \/ session'[s].pc = "closed"
          \/ session'[s].pc = "terminal" /\ session'[s].persisted
      BY <2>3, LateFields DEF Inserted
    <3> QED
      BY <1>4, <3>5, <3>6 DEF LogOnce, At
  <2> QED
    BY <2>1, <2>2, <2>3, LogElsewhere
<1> QED
  BY <1>2, <1>3, <1>4

\* Only Begin writes the global, and only ReadActive reads it.
LEMMA GlobalSteps ==
  ASSUME TypeOK, NEW s \in Stream, Step(s)
  PROVE  /\ Begin(s) => active' = threadOf[s] /\ session'[s].pc = "streaming"
         /\ ~ Begin(s) => active' = active
         /\ ReadActive(s) => session'[s].pc = "routing" /\ session'[s].edge = active
         /\ ~ ReadActive(s) => session'[s].pc # "routing"
         /\ Open(s) => Collecting(s) \/ session[s].pc \in {"inserting", "terminal"}
<1>1. Begin(s) => active' = threadOf[s] /\ session'[s].pc = "streaming"
  BY QuietFields DEF Begin
<1>2. ~ Begin(s) => active' = active
  BY DEF Step, ReadActive, IntentRouter, DeterministicRuleChecker, Answer,
     InlineEvaluator, BreakOff, FailAfterRouting, GraphEnds, ReadCheckpoint,
     CollectEdges, CommitLogs, LoseCommitReply, FailInsert, UpdateTerminal
<1>3. ReadActive(s) => session'[s].pc = "routing" /\ session'[s].edge = active
  BY QuietFields
<1>4. CASE ReadActive(s)
  BY <1>1, <1>2, <1>3, <1>4 DEF Open, Collecting, ReadActive, At
<1>5. CASE ~ ReadActive(s)
  <2>1. ASSUME IntentRouter(s) \/ DeterministicRuleChecker(s) \/ Answer(s)
               \/ InlineEvaluator(s)
        PROVE  session'[s].pc # "routing"
    BY <2>1, NodeFields DEF NodeRan
  <2>2. ASSUME GraphEnds(s) \/ ReadCheckpoint(s) \/ CollectEdges(s) \/ Begin(s)
        PROVE  session'[s].pc # "routing"
    BY <2>2, QuietFields
  <2>3. ASSUME BreakOff(s) \/ FailAfterRouting(s) \/ CommitLogs(s)
               \/ LoseCommitReply(s) \/ FailInsert(s) \/ UpdateTerminal(s)
        PROVE  session'[s].pc # "routing"
    BY <2>3, EndSteps
  <2>4. session'[s].pc # "routing"
    BY <1>5, <2>1, <2>2, <2>3 DEF Step
  <2>5. session[s].pc \in Pcs
    BY DEF TypeOK, Session
  <2> QED
    BY <1>1, <1>2, <1>5, <2>4, <2>5 DEF Open, Collecting, Pcs
<1> QED
  BY <1>4, <1>5

\* A session that collects goes on doing so, collects the edges, or has nothing.
LEMMA CollectingStep ==
  ASSUME TypeOK, NEW s \in Stream, Step(s), Collecting(s)
  PROVE  Collecting(s)' \/ CollectEdges(s) \/ session'[s].records = << >>
<1>1. session[s] \in Session
  BY DEF TypeOK
<1>2. CASE IntentRouter(s) \/ DeterministicRuleChecker(s) \/ Answer(s) \/ InlineEvaluator(s)
  BY <1>2, NodeFields DEF NodeRan, Collecting
<1>3. CASE ReadActive(s) \/ GraphEnds(s) \/ ReadCheckpoint(s) \/ Begin(s)
  BY <1>3, QuietFields DEF Collecting
<1>4. CASE BreakOff(s) \/ FailAfterRouting(s)
  <2>1. session'[s] = Unwind(session[s])
    BY <1>4, LateFields
  <2>2. /\ Unwind(session[s]).records = session[s].records
        /\ \/ Unwind(session[s]).pc = "closed" /\ session[s].records = << >>
           \/ Unwind(session[s]).pc = "persisting"
    BY <1>1, EndFields
  <2> QED
    BY <2>1, <2>2 DEF Collecting
<1>5. ~ (CommitLogs(s) \/ LoseCommitReply(s) \/ FailInsert(s) \/ UpdateTerminal(s))
  BY DEF Collecting, CommitLogs, LoseCommitReply, FailInsert, UpdateTerminal, At
<1> QED
  BY <1>2, <1>3, <1>4, <1>5 DEF Step

\* What a step of the turn itself does to the records that OwnEdges is about.
LEMMA EdgeKept ==
  ASSUME TypeOK, RoutesFromRouted, Unique, NEW s \in Stream, Step(s), NEW n \in Routed,
         At(s, "routing") => session[s].edge = threadOf[s],
         Rec(s, n, "node") \in Elems(session[s].records) =>
           \/ Rec(s, n, "edge") \in Elems(session[s].records)
           \/ Collecting(s) /\ Rec(s, n, "edge") \in Elems(store[threadOf[s]])
  PROVE  Rec(s, n, "node") \in Elems(session'[s].records) =>
           \/ Rec(s, n, "edge") \in Elems(session'[s].records)
           \/ Collecting(s)' /\ Rec(s, n, "edge") \in Elems(store'[threadOf[s]])
<1> DEFINE t    == threadOf[s]
           old  == session[s].records
           new  == session'[s].records
           node == Rec(s, n, "node")
           edge == Rec(s, n, "edge")
<1>1. /\ t \in Thread /\ old \in Seq(Record) /\ store[t] \in Seq(Record)
      /\ store \in [Thread -> Seq(Record)] /\ n \in Nodes
  BY DEF TypeOK, Session, Routed, Nodes
<1>2. edge \in Record
  BY <1>1, RecordTypes
<1>3. CASE Begin(s)
  <2>1. ~ Collecting(s) /\ new = old
    BY <1>3, QuietFields DEF Collecting
  <2> QED
    BY <2>1
<1>4. CASE CollectEdges(s)
  <2>1. new = old \o store[t]
    BY <1>4, QuietFields
  <2>2. Elems(new) = Elems(old) \cup Elems(store[t])
    BY <1>1, <2>1, JoinedElems
  <2>3. node \notin Elems(store[t])
    BY <1>1, RecordTypes DEF Unique
  <2> QED
    BY <2>2, <2>3
<1>5. CASE ~ Begin(s) /\ ~ CollectEdges(s)
  <2>1. Collecting(s) => Collecting(s)' \/ new = << >>
    BY <1>5, CollectingStep
  <2>2. new = << >> => node \notin Elems(new)
    BY FewElems
  <2>3. CASE store' = store /\ new = old
    BY <2>1, <2>2, <2>3
  <2>4. ASSUME NEW m \in Nodes, PlainRun(s, m), m \notin Routed
        PROVE  /\ store' = store
               /\ Elems(new) = Elems(old) \cup {Rec(s, m, "node")}
    <3>1. new = Append(old, Rec(s, m, "node")) /\ Rec(s, m, "node") \in Record
      BY <1>1, <2>4, RecordTypes, AppendedElems DEF PlainRun, Recorded
    <3> QED
      BY <1>1, <2>4, <3>1, AppendedElems DEF PlainRun
  <2>5. CASE PlainRun(s, "Answer")
    <3>1. "Answer" \in Nodes /\ "Answer" \notin Routed
      BY DEF Nodes, Routed
    <3>2. store' = store /\ Elems(new) = Elems(old) \cup {Rec(s, "Answer", "node")}
      BY <2>4, <2>5, <3>1
    <3>3. node # Rec(s, "Answer", "node")
      BY <3>1 DEF Rec
    <3> QED
      BY <2>1, <2>2, <3>2, <3>3
  <2>6. ASSUME NEW m \in Routed, RoutedRun(s, m) \/ RoutedFailure(s, m)
        PROVE  node \in Elems(new) =>
                 \/ edge \in Elems(new)
                 \/ Collecting(s)' /\ edge \in Elems(store'[t])
    <3>1. m \in Nodes /\ AppendEdge(s, m)
      BY <2>6 DEF RoutedRun, RoutedFailure, Routed, Nodes
    <3>2. session[s].edge = t /\ Collecting(s)
      <4>1. At(s, "routing")
        BY <2>6 DEF RoutedRun, RoutedFailure
      <4> QED
        BY <4>1 DEF At, Collecting
    <3>3. store'[t] = Append(store[t], Rec(s, m, "edge"))
      BY <1>1, <3>1, <3>2 DEF AppendEdge
    <3>4. Elems(store'[t]) = Elems(store[t]) \cup {Rec(s, m, "edge")}
      BY <1>1, <3>1, <3>3, RecordTypes, AppendedElems
    <3>5. Elems(new) = Elems(old) \/ Elems(new) = Elems(old) \cup {Rec(s, m, "node")}
      <4>1. CASE RoutedRun(s, m)
        <5>1. new = Append(old, Rec(s, m, "node")) /\ Rec(s, m, "node") \in Record
          BY <1>1, <3>1, <4>1, RecordTypes, AppendedElems DEF RoutedRun, Recorded
        <5> QED
          BY <1>1, <5>1, AppendedElems
      <4>2. CASE RoutedFailure(s, m)
        BY <4>2 DEF RoutedFailure
      <4> QED
        BY <2>6, <4>1, <4>2
    <3>6. m = n \/ node # Rec(s, m, "node")
      BY DEF Rec
    <3> QED
      BY <2>1, <2>2, <3>2, <3>4, <3>5, <3>6
  <2>7. ~ Collection(s)
    BY <1>5 DEF Collection
  <2> QED
    BY <1>5, <2>3, <2>5, <2>6, <2>7, Effects DEF Quiet
<1> QED
  BY <1>3, <1>4, <1>5

\* Another turn's step leaves the turn's edges, for it has met whoever is running.
LEMMA OwnEdgesStep ==
  ASSUME TypeOK, RoutesFromRouted, OpenOverlap, Unique, NEW s \in Stream, Step(s),
         NEW c \in Stream, OwnEdges(c)
  PROVE  OwnEdges(c)'
<1> SUFFICES ASSUME Apart(c)'
             PROVE  OwnEdges(c)'
  BY DEF OwnEdges
<1>1. overlaps \subseteq overlaps' /\ threadOf' = threadOf
  BY StepOfOne
<1>2. Apart(c)
  BY <1>1 DEF Apart, Overlapped
<1>3. CASE c # s
  <2>1. session'[c] = session[c]
    BY <1>3, StepOfOne
  <2>2. ~ Open(c)
    <3>1. SUFFICES ASSUME Open(c) PROVE FALSE
      OBVIOUS
    <3>2. CASE Begin(s)
      <4>1. <<c, s>> \in overlaps'
        BY <3>1, <3>2 DEF Begin
      <4> QED
        BY <4>1 DEF Apart, Overlapped
    <3>3. CASE Open(s)
      <4>1. <<c, s>> \in overlaps
        BY <1>3, <3>1, <3>3 DEF OpenOverlap
      <4> QED
        BY <1>2, <4>1 DEF Apart, Overlapped
    <3> QED
      BY <3>2, <3>3, StepOfOne
  <2>3. ~ Open(c)' /\ ~ Collecting(c)
    BY <2>1, <2>2 DEF Open, Collecting
  <2>4. \A n \in Routed : Rec(c, n, "node") \in Elems(session'[c].records) =>
                            Rec(c, n, "edge") \in Elems(session'[c].records)
    BY <1>2, <2>1, <2>3 DEF OwnEdges
  <2> QED
    BY <2>3, <2>4 DEF OwnEdges
<1>4. CASE c = s
  <2>1. CASE Begin(s)
    <3>1. active' = threadOf[s] /\ session'[s].pc = "streaming"
      BY <2>1, GlobalSteps
    <3>2. ~ Open(s)
      BY <2>1 DEF Begin, At, Open
    <3>3. session[s].pc = "new"
      BY <2>1 DEF Begin, At
    <3>4. ASSUME NEW n \in Routed
          PROVE  Rec(s, n, "node") \in Elems(session'[s].records) =>
                   \/ Rec(s, n, "edge") \in Elems(session'[s].records)
                   \/ Collecting(s)' /\ Rec(s, n, "edge") \in Elems(store'[threadOf[s]])
      <4>1. At(s, "routing") => session[s].edge = threadOf[s]
        BY <3>3 DEF At
      <4> QED
        BY <1>2, <1>4, <4>1, EdgeKept DEF OwnEdges
    <3> QED
      BY <1>1, <1>4, <3>1, <3>4 DEF OwnEdges, At
  <2>2. CASE ~ Begin(s)
    <3>1. Open(s)
      BY <2>2, StepOfOne
    <3>2. active = threadOf[s] /\ (At(s, "routing") => session[s].edge = threadOf[s])
      BY <1>2, <1>4, <3>1 DEF OwnEdges
    <3>3. active' = threadOf[s]
      BY <2>2, <3>2, GlobalSteps
    <3>4. At(s, "routing")' => session'[s].edge = threadOf[s]
      BY <3>2, GlobalSteps DEF At
    <3>5. \A n \in Routed :
            Rec(s, n, "node") \in Elems(session'[s].records) =>
              \/ Rec(s, n, "edge") \in Elems(session'[s].records)
              \/ Collecting(s)' /\ Rec(s, n, "edge") \in Elems(store'[threadOf[s]])
      BY <1>2, <1>4, <3>2, EdgeKept DEF OwnEdges
    <3> QED
      BY <1>1, <1>4, <3>3, <3>4, <3>5 DEF OwnEdges
  <2> QED
    BY <2>1, <2>2
<1> QED
  BY <1>3, <1>4

RecordInv == Unique /\ \A c \in Stream : LogOnce(c) /\ Kept(c) /\ OwnEdges(c)

\* What a turn collected is in its log once it is over, unless an insert failed for
\* good, with the routing behind each of its nodes unless another turn ran
\* meanwhile; and twice only if the reply to a commit was lost.
THEOREM RecordsAreLogged == Spec => []RecordsLoggedOnce
<1>1. Init => RecordInv
  <2> SUFFICES ASSUME Init PROVE RecordInv
    OBVIOUS
  <2>1. /\ \A t \in Thread : store[t] = << >>
        /\ \A c \in Stream : /\ session[c] = NewSession /\ log[c] = << >>
                             /\ session[c].records = << >>
                             /\ session[c].pc = "new" /\ session[c].persisted = FALSE
    BY DEF Init, NewSession
  <2>2. Unique
    BY <2>1, FewElems DEF Unique
  <2>3. \A c \in Stream : LogOnce(c)
    BY <2>1 DEF LogOnce
  <2>4. \A c \in Stream : Kept(c)
    BY <2>1 DEF Kept, At
  <2>5. \A c \in Stream : OwnEdges(c)
    BY <2>1, FewElems DEF OwnEdges, Open
  <2> QED
    BY <2>2, <2>3, <2>4, <2>5 DEF RecordInv
<1>2. ASSUME TypeOK, RoutesFromRouted, OpenOverlap, RecordInv, [Next]_vars
      PROVE  RecordInv'
  <2>1. CASE UNCHANGED vars
    <3>1. \A c, n : Passed(c, n)' <=> Passed(c, n)
      BY <2>1 DEF vars, Passed, At
    <3>2. store' = store /\ session' = session
      BY <2>1 DEF vars
    <3>3. Unique'
      BY <1>2, <3>1, <3>2 DEF RecordInv, Unique
    <3>4. ASSUME NEW c \in Stream
          PROVE  LogOnce(c)' /\ Kept(c)' /\ OwnEdges(c)'
      <4>1. LogOnce(c) /\ Kept(c) /\ OwnEdges(c)
        BY <1>2 DEF RecordInv
      <4>2. LogOnce(c)'
        BY <2>1, <4>1 DEF vars, LogOnce, Had, At
      <4>3. Kept(c)'
        BY <2>1, <4>1 DEF vars, Kept, Had, At, AllLogged, Logged
      <4>4. OwnEdges(c)'
        BY <2>1, <4>1 DEF vars, OwnEdges, At, Apart, Overlapped, Open, Collecting
      <4> QED
        BY <4>2, <4>3, <4>4
    <3> QED
      BY <3>3, <3>4 DEF RecordInv
  <2>2. ASSUME NEW s \in Stream, Step(s)
        PROVE  RecordInv'
    <3>1. Unique'
      BY <1>2, <2>2, UniqueStep DEF RecordInv
    <3>2. ASSUME NEW c \in Stream
          PROVE  LogOnce(c)' /\ Kept(c)' /\ OwnEdges(c)'
      BY <1>2, <2>2, LogOnceStep, KeptStep, OwnEdgesStep DEF RecordInv
    <3> QED
      BY <3>1, <3>2 DEF RecordInv
  <2> QED
    BY <1>2, <2>1, <2>2 DEF Next, Step
<1>3. ASSUME TypeOK, RecordInv
      PROVE  RecordsLoggedOnce
  <2>1. ASSUME NEW c \in Stream, At(c, "closed"), ~ Had(c, "not persisted"),
               NEW i \in DOMAIN session[c].records
        PROVE  LET rec == session[c].records[i]
               IN  /\ Logged(c, rec)
                   /\ rec.kind = "node" /\ rec.of \in Routed
                      /\ (\A b \in Stream : ~ Overlapped(c, b))
                      => Logged(c, Rec(c, rec.of, "edge"))
    <3> DEFINE rec == session[c].records[i]
    <3>1. AllLogged(c)
      BY <1>3, <2>1 DEF RecordInv, Kept
    <3>2. rec \in Elems(session[c].records) /\ rec \in Record
      <4>1. rec \in Elems(session[c].records)
        BY <2>1 DEF Elems
      <4> QED
        BY <1>3, <4>1, RecordTypes
    <3>3. ASSUME rec.kind = "node", rec.of \in Routed, \A b \in Stream : ~ Overlapped(c, b)
          PROVE  Logged(c, Rec(c, rec.of, "edge"))
      <4>1. rec.by = c
        BY <1>3, <3>2, <3>3 DEF RecordInv, Unique
      <4>2. rec = Rec(c, rec.of, "node")
        BY <3>2, <3>3, <4>1 DEF Rec, Record
      <4>3. Rec(c, rec.of, "node") \in Elems(session[c].records)
        BY <3>2, <4>2
      <4>4. Apart(c) /\ ~ Collecting(c) /\ OwnEdges(c)
        BY <1>3, <2>1, <3>3 DEF RecordInv, Apart, Collecting, At
      <4>5. Rec(c, rec.of, "edge") \in Elems(session[c].records)
        BY <3>3, <4>3, <4>4 DEF OwnEdges
      <4> QED
        BY <3>1, <4>5 DEF AllLogged, Elems
    <3> QED
      BY <2>1, <3>1, <3>3 DEF AllLogged
  <2>2. ASSUME NEW c \in Stream, NEW i \in DOMAIN log[c], NEW j \in DOMAIN log[c],
               i # j, log[c][i].data = log[c][j].data
        PROVE  Had(c, "reply lost")
    <3>1. LogOnce(c)
      BY <1>3 DEF RecordInv
    <3>2. log[c] # << >>
      BY <2>2
    <3> QED
      BY <2>2, <3>1, <3>2 DEF LogOnce
  <2> QED
    BY <2>1, <2>2 DEF RecordsLoggedOnce
<1>4. MixInv => OpenOverlap
  BY DEF MixInv
<1> QED
  BY <1>1, <1>2, <1>3, <1>4, MixInvariant, PTL DEF Spec

----------------------------------------------------------------------------
(***************************************************************************)
(* Whose response a turn is logged with.                                   *)
(***************************************************************************)

\* The response of a state belongs to the thread whose state it is.
OfThread(t, state) == state.response = NoStream \/ threadOf[state.response] = t

Running(c) == session[c].pc \in {"streaming", "routing", "done"}

Ending(c) == session[c].pc \in {"persisting", "inserting", "terminal"}

\* A running turn that wrote its response still has it, and so has the checkpoint
\* unless another turn of the thread ran meanwhile; a later reading is justified.
Attribution(c) ==
  /\ OfThread(threadOf[c], session[c].state)
  /\ At(c, "new") => c \notin answered
  /\ At(c, "new") \/ Running(c) => log[c] = << >> /\ \A d \in dispatched : d[2] # c
  /\ Running(c) /\ c \in answered =>
       /\ session[c].state.response = c
       /\ checkpoint[threadOf[c]].response = c \/ ~ Alone(c)
  /\ Ending(c) => Justified(c, session[c].state.response)

AttributionInv ==
  /\ \A t \in Thread : OfThread(t, checkpoint[t])
  /\ \A c \in Stream : Attribution(c)
  /\ AttributedToOwn

\* A step of the turn starts it from the checkpoint; runs a node, which may answer;
\* lets it run on; reads the checkpoint; or goes on from there.
Starts(s) ==
  /\ At(s, "new") /\ Running(s)' /\ session'[s].state = checkpoint[threadOf[s]]
  /\ UNCHANGED <<checkpoint, answered, dispatched>>

RunsNode(s) ==
  /\ Running(s) /\ Running(s)'
  /\ checkpoint' = [checkpoint EXCEPT ![threadOf[s]] = session'[s].state]
  /\ \/ answered' = answered \cup {s} /\ session'[s].state.response = s
     \/ /\ answered' = answered
        /\ session'[s].state.response = session[s].state.response
  /\ dispatched' = dispatched

RunsOn(s) ==
  /\ Running(s) /\ Running(s)' /\ session'[s].state = session[s].state
  /\ UNCHANGED <<checkpoint, answered, dispatched>>

Reads(s) ==
  /\ Running(s) /\ Ending(s)' /\ ~ Running(s)' /\ ~ At(s, "new")'
  /\ UNCHANGED <<checkpoint, answered>>
  /\ \/ /\ session'[s].state = checkpoint[threadOf[s]]
        /\ dispatched' = dispatched \cup
             ({checkpoint[threadOf[s]].response} \ {NoStream}) \X {s}
     \/ session'[s].state = NoState /\ dispatched' = dispatched

GoesOn(s) ==
  /\ ~ At(s, "new") /\ ~ At(s, "new")' /\ ~ Running(s)'
  /\ UNCHANGED <<checkpoint, answered, dispatched>>
  /\ (Ending(s) /\ session'[s].state = session[s].state) \/ session'[s].state = NoState

LEMMA Progress ==
  ASSUME TypeOK, NEW s \in Stream, Step(s)
  PROVE  Starts(s) \/ RunsNode(s) \/ RunsOn(s) \/ Reads(s) \/ GoesOn(s)
<1>1. session[s] \in Session /\ session \in [Stream -> Session]
  BY DEF TypeOK
<1>2. CASE Begin(s)
  BY <1>2, QuietFields DEF Begin, Starts, Running, At
<1>3. CASE IntentRouter(s)
  BY <1>3, NodeFields DEF IntentRouter, NodeRan, RunsNode, Running
<1>4. CASE DeterministicRuleChecker(s)
  BY <1>4, NodeFields DEF DeterministicRuleChecker, NodeRan, RunsNode, Running
<1>5. CASE Answer(s)
  BY <1>5, NodeFields DEF Answer, NodeRan, RunsNode, Running
<1>6. CASE InlineEvaluator(s)
  BY <1>6, NodeFields DEF InlineEvaluator, NodeRan, RunsNode, Running
<1>7. CASE ReadActive(s) \/ GraphEnds(s)
  BY <1>7, QuietFields DEF ReadActive, GraphEnds, RunsOn, Running
<1>8. CASE ReadCheckpoint(s)
  <2>1. session[s].pc = "done" /\ session'[s].pc = "persisting"
    BY <1>8, QuietFields
  <2>2. \/ /\ session'[s] = [session[s] EXCEPT !.pc = "persisting",
                                               !.state = checkpoint[threadOf[s]]]
           /\ dispatched' = dispatched \cup
                ({checkpoint[threadOf[s]].response} \ {NoStream}) \X {s}
        \/ /\ session'[s] = [session[s] EXCEPT !.pc = "persisting", !.state = NoState]
           /\ dispatched' = dispatched
    BY <1>1, <1>8 DEF ReadCheckpoint
  <2>3. \/ /\ session'[s].state = checkpoint[threadOf[s]]
           /\ dispatched' = dispatched \cup
                ({checkpoint[threadOf[s]].response} \ {NoStream}) \X {s}
        \/ session'[s].state = NoState /\ dispatched' = dispatched
    BY <1>1, <2>2 DEF Session
  <2>4. UNCHANGED <<checkpoint, answered>>
    BY <1>8 DEF ReadCheckpoint
  <2> QED
    BY <2>1, <2>3, <2>4 DEF Reads, Running, Ending, At
<1>9. CASE CollectEdges(s)
  BY <1>9, QuietFields DEF CollectEdges, GoesOn, Running, Ending, At
<1>10. ASSUME session[s].pc # "new",
              session'[s].pc \in {"persisting", "inserting", "terminal", "closed"},
              UNCHANGED <<checkpoint, answered, dispatched>>,
              (Ending(s) /\ session'[s].state = session[s].state)
                \/ session'[s].state = NoState
       PROVE  GoesOn(s)
  BY <1>10 DEF GoesOn, Running, At
<1>11. /\ Closed(session[s]).state = NoState /\ Unwind(session[s]).state = NoState
  BY <1>1, EndFields
<1>12. CASE BreakOff(s) \/ FailAfterRouting(s) \/ UpdateTerminal(s)
  <2>1. session[s].pc # "new" /\ session'[s] \in {Closed(session[s]), Unwind(session[s])}
    BY <1>12, LateFields
  <2>2. UNCHANGED <<checkpoint, answered, dispatched>>
    BY <1>12 DEF BreakOff, FailAfterRouting, UpdateTerminal
  <2>3. session'[s].pc \in {"persisting", "inserting", "terminal", "closed"}
    BY <1>12, EndSteps
  <2> QED
    BY <1>10, <1>11, <2>1, <2>2, <2>3
<1>13. CASE CommitLogs(s) \/ LoseCommitReply(s) \/ FailInsert(s)
  <2>1. Inserted(s, TRUE) \/ Inserted(s, FALSE) \/ Retried(s)
    BY <1>13, LateFields
  <2>2. UNCHANGED <<checkpoint, answered, dispatched>>
    BY <1>13 DEF CommitLogs, LoseCommitReply, FailInsert
  <2>3. session'[s].pc \in {"persisting", "inserting", "terminal", "closed"}
    BY <1>13, EndSteps
  <2>4. session[s].pc = "inserting" /\ (session'[s].state = session[s].state
                                        \/ session'[s].state = NoState)
    BY <2>1 DEF Inserted, Retried
  <2> QED
    BY <1>10, <2>2, <2>3, <2>4 DEF Ending
<1> QED
  BY <1>2, <1>3, <1>4, <1>5, <1>6, <1>7, <1>8, <1>9, <1>12, <1>13 DEF Step

\* What is justified stays so, unless the turn answers.
LEMMA JustifiedLater ==
  ASSUME TypeOK, NEW s \in Stream, Step(s), NEW c \in Stream, NEW response,
         Justified(c, response), c \in answered' => c \in answered
  PROVE  Justified(c, response)'
<1>1. overlaps \subseteq overlaps' /\ threadOf' = threadOf
  BY StepOfOne
<1>2. Alone(c)' => Alone(c)
  BY <1>1 DEF Alone, Overlapped
<1> QED
  BY <1>1, <1>2 DEF Justified

\* The rows of a batch name the response of the state that was read, or none.
LEMMA RowResponses ==
  ASSUME TypeOK, NEW s \in Stream, NEW i \in DOMAIN LogRows(s)
  PROVE  LogRows(s)[i].response_id \in {NoStream, session[s].state.response}
<1>1. session[s].records \in Seq(Record)
  BY RecordTypes
<1>2. DOMAIN LogRows(s) = DOMAIN session[s].records
  BY DEF LogRows
<1> QED
  BY <1>2 DEF LogRows

\* A step of another turn of the thread is one of a turn it overlaps.
LEMMA OthersAttribution ==
  ASSUME TypeOK, OpenOverlap, AttributionInv, NEW s \in Stream, Step(s),
         NEW c \in Stream, c # s
  PROVE  Attribution(c)'
<1>1. session'[c] = session[c] /\ threadOf' = threadOf /\ log'[c] = log[c]
      /\ overlaps \subseteq overlaps'
  BY StepOfOne, LogElsewhere
<1>2. Attribution(c)
  BY DEF AttributionInv
<1>3. /\ answered' = answered \/ answered' = answered \cup {s}
      /\ \A d \in dispatched' : d \in dispatched \/ d[2] = s
      /\ \/ checkpoint' = checkpoint
         \/ /\ Running(s)
            /\ checkpoint' = [checkpoint EXCEPT ![threadOf[s]] = session'[s].state]
  BY Progress DEF Starts, RunsNode, RunsOn, Reads, GoesOn
<1>4. checkpoint \in [Thread -> State] /\ threadOf[c] \in Thread
  BY DEF TypeOK
<1>5. c \in answered' <=> c \in answered
  BY <1>3
<1>6. Ending(c)' => Justified(c, session[c].state.response)'
  BY <1>1, <1>2, <1>5, JustifiedLater DEF Attribution, Ending
<1>7. ASSUME Running(c), c \in answered
      PROVE  checkpoint'[threadOf[c]].response = c \/ ~ Alone(c)'
  <2>1. CASE checkpoint'[threadOf[c]] = checkpoint[threadOf[c]]
    BY <1>1, <1>2, <1>7, <2>1 DEF Attribution, Alone, Overlapped
  <2>2. CASE Running(s) /\ threadOf[s] = threadOf[c]
    <3>1. <<c, s>> \in overlaps
      BY <1>7, <2>2 DEF OpenOverlap, Open, Running
    <3> QED
      BY <1>1, <2>2, <3>1 DEF Alone, Overlapped
  <2> QED
    BY <1>3, <1>4, <2>1, <2>2
<1>8. OfThread(threadOf[c], session[c].state)'
  BY <1>1, <1>2 DEF Attribution, OfThread
<1>9. At(c, "new") \/ Running(c) => log'[c] = << >> /\ \A d \in dispatched' : d[2] # c
  BY <1>1, <1>2, <1>3 DEF Attribution
<1>10. /\ At(c, "new") => c \notin answered'
       /\ Running(c) /\ c \in answered' => session[c].state.response = c
  BY <1>2, <1>5 DEF Attribution
<1> QED
  BY <1>1, <1>5, <1>6, <1>7, <1>8, <1>9, <1>10 DEF Attribution, At, Running

\* The turn's own step: its response is in its state and in the checkpoint when it
\* runs on, and the checkpoint it reads holds no other unless the turns mixed.
LEMMA OwnAttribution ==
  ASSUME TypeOK, OpenOverlap, AttributionInv, NEW s \in Stream, Step(s)
  PROVE  Attribution(s)'
<1> DEFINE t == threadOf[s]
<1>1. threadOf' = threadOf /\ overlaps \subseteq overlaps'
  BY StepOfOne
<1>2. Attribution(s) /\ OfThread(t, checkpoint[t])
  BY DEF AttributionInv, TypeOK
<1>3. checkpoint \in [Thread -> State] /\ t \in Thread
  BY DEF TypeOK
<1>4. Alone(s)' => Alone(s)
  BY <1>1 DEF Alone, Overlapped
<1>5. log'[s] = log[s] \/ session[s].pc = "inserting"
  BY LogElsewhere
<1>6. NoStream \notin Stream
  BY StreamAssumption
<1>7. OfThread(t, NoState)
  BY DEF OfThread, NoState
<1>8. ASSUME NEW state, OfThread(t, state), session'[s].state = state
      PROVE  OfThread(threadOf[s], session[s].state)'
  BY <1>1, <1>8 DEF OfThread
<1>9. Running(s) => ~ At(s, "new") /\ ~ Ending(s) /\ session[s].pc # "inserting"
  BY DEF Running, Ending, At
<1>10. Running(s)' => ~ At(s, "new")' /\ ~ Ending(s)'
  BY DEF Running, Ending, At
<1>11. CASE Starts(s)
  <2>1. s \notin answered' /\ log'[s] = << >> /\ \A d \in dispatched' : d[2] # s
    BY <1>2, <1>5, <1>11 DEF Starts, Attribution, At
  <2>2. OfThread(threadOf[s], session[s].state)'
    BY <1>2, <1>8, <1>11 DEF Starts
  <2> QED
    BY <1>10, <1>11, <2>1, <2>2 DEF Starts, Attribution
<1>12. CASE RunsNode(s)
  <2>1. log'[s] = << >> /\ \A d \in dispatched' : d[2] # s
    BY <1>2, <1>5, <1>9, <1>12 DEF RunsNode, Attribution
  <2>2. checkpoint'[t] = session'[s].state
    BY <1>3, <1>12 DEF RunsNode
  <2>3. OfThread(threadOf[s], session[s].state)'
    BY <1>1, <1>2, <1>12 DEF RunsNode, Attribution, OfThread
  <2>4. s \in answered' => session'[s].state.response = s
    BY <1>2, <1>12 DEF RunsNode, Attribution
  <2> QED
    BY <1>1, <1>10, <1>12, <2>1, <2>2, <2>3, <2>4 DEF RunsNode, Attribution
<1>13. CASE RunsOn(s)
  <2>1. log'[s] = << >> /\ \A d \in dispatched' : d[2] # s
    BY <1>2, <1>5, <1>9, <1>13 DEF RunsOn, Attribution
  <2>2. OfThread(threadOf[s], session[s].state)'
    BY <1>2, <1>8, <1>13 DEF RunsOn, Attribution
  <2>3. s \in answered' => /\ session'[s].state.response = s
                           /\ checkpoint'[t].response = s \/ ~ Alone(s)'
    BY <1>2, <1>4, <1>13 DEF RunsOn, Attribution
  <2> QED
    BY <1>1, <1>10, <1>13, <2>1, <2>2, <2>3 DEF RunsOn, Attribution
<1>14. NoState.response = NoStream
  BY DEF NoState
<1>15. CASE Reads(s)
  <2>1. PICK response : response = checkpoint[t].response
    OBVIOUS
  <2>2. Justified(s, response)
    BY <1>2, <1>15, <2>1 DEF Reads, Attribution, Justified, OfThread
  <2>3. Justified(s, response)'
    BY <1>15, <2>2, JustifiedLater DEF Reads
  <2>4. session'[s].state.response \in {response, NoStream}
    BY <1>14, <1>15, <2>1 DEF Reads
  <2>5. Justified(s, session[s].state.response)'
    BY <2>3, <2>4 DEF Justified
  <2>6. OfThread(threadOf[s], session[s].state)'
    BY <1>2, <1>7, <1>8, <1>15 DEF Reads
  <2>7. ~ At(s, "new")' /\ ~ Running(s)'
    BY <1>15 DEF Reads
  <2> QED
    BY <2>5, <2>6, <2>7 DEF Attribution
<1>16. CASE GoesOn(s)
  <2>1. OfThread(threadOf[s], session[s].state)'
    BY <1>2, <1>7, <1>8, <1>16 DEF GoesOn, Attribution
  <2>2. PICK response : response = session[s].state.response
    OBVIOUS
  <2>3. Ending(s) => Justified(s, response)'
    <3>1. Ending(s) => Justified(s, response)
      BY <1>2, <2>2 DEF Attribution
    <3> QED
      BY <1>16, <3>1, JustifiedLater DEF GoesOn
  <2>4. \/ session'[s].state.response = NoStream
        \/ Ending(s) /\ session'[s].state.response = response
    BY <1>14, <1>16, <2>2 DEF GoesOn
  <2>5. Justified(s, session[s].state.response)'
    BY <2>3, <2>4 DEF Justified
  <2>6. ~ At(s, "new")' /\ ~ Running(s)'
    BY <1>16 DEF GoesOn
  <2> QED
    BY <2>1, <2>5, <2>6 DEF Attribution
<1> QED
  BY <1>11, <1>12, <1>13, <1>15, <1>16, Progress

\* What is logged and dispatched is what the turn read.
LEMMA AttributedStep ==
  ASSUME TypeOK, OpenOverlap, AttributionInv, NEW s \in Stream, Step(s)
  PROVE  AttributedToOwn'
<1>1. \A c \in Stream : Attribution(c)
  BY DEF AttributionInv
<1>2. dispatched \subseteq Stream \X Stream
  BY DEF TypeOK
<1>3. /\ \A c \in Stream \ {s} : c \in answered' => c \in answered
      /\ s \in answered' => s \in answered \/ Running(s)
  BY Progress DEF Starts, RunsNode, RunsOn, Reads, GoesOn
<1>4. ASSUME NEW c \in Stream, NEW i \in DOMAIN log'[c], NEW response,
             response = log'[c][i].response_id
      PROVE  Justified(c, response)'
  <2>1. CASE log'[c] = log[c]
    <3>1. Justified(c, response)
      BY <1>4, <2>1 DEF AttributionInv, AttributedToOwn
    <3>2. ~ (c = s /\ Running(s))
      BY <1>1, <1>4, <2>1 DEF Attribution
    <3> QED
      BY <1>3, <2>1, <3>1, <3>2, JustifiedLater
  <2>2. CASE c = s /\ session[s].pc = "inserting" /\ log'[s] = log[s] \o LogRows(s)
    <3>1. ~ Running(s) /\ Ending(s)
      BY <2>2 DEF Running, Ending
    <3>2. \/ i \in DOMAIN log[s] /\ log'[s][i] = log[s][i]
          \/ \E k \in DOMAIN LogRows(s) : log'[s][i] = LogRows(s)[k]
      <4>1. /\ Len(log[s]) \in Nat /\ Len(LogRows(s)) \in Nat
            /\ DOMAIN log[s] = 1 .. Len(log[s])
            /\ DOMAIN log'[s] = 1 .. Len(log[s]) + Len(LogRows(s))
            /\ DOMAIN LogRows(s) = 1 .. Len(LogRows(s))
            /\ \A k \in 1 .. Len(log[s]) : log'[s][k] = log[s][k]
            /\ \A k \in 1 .. Len(LogRows(s)) : log'[s][Len(log[s]) + k] = LogRows(s)[k]
        BY <2>2, BatchRows
      <4>2. CASE i <= Len(log[s])
        BY <1>4, <2>2, <4>1, <4>2
      <4>3. CASE i > Len(log[s])
        <5>1. /\ i - Len(log[s]) \in 1 .. Len(LogRows(s))
              /\ Len(log[s]) + (i - Len(log[s])) = i
          BY <1>4, <2>2, <4>1, <4>3
        <5> QED
          BY <4>1, <5>1
      <4>4. i \in Nat
        BY <1>4, <2>2, <4>1
      <4> QED
        BY <4>1, <4>2, <4>3, <4>4
    <3>3. Justified(s, response)
      <4>1. CASE i \in DOMAIN log[s] /\ log'[s][i] = log[s][i]
        BY <1>4, <2>2, <4>1 DEF AttributionInv, AttributedToOwn
      <4>2. CASE \E k \in DOMAIN LogRows(s) : log'[s][i] = LogRows(s)[k]
        <5>1. response \in {NoStream, session[s].state.response}
          BY <1>4, <2>2, <4>2, RowResponses
        <5>2. Justified(s, NoStream)
          BY DEF Justified
        <5>3. Justified(s, session[s].state.response)
          BY <1>1, <3>1 DEF Attribution
        <5> QED
          BY <5>1, <5>2, <5>3
      <4> QED
        BY <3>2, <4>1, <4>2
    <3> QED
      BY <1>3, <2>2, <3>1, <3>3, JustifiedLater
  <2> QED
    BY <2>1, <2>2, LogElsewhere
<1>5. ASSUME NEW d \in dispatched', NEW response, response = d[1],
             NEW c, c = d[2]
      PROVE  Justified(c, response)'
  <2>1. CASE d \in dispatched
    <3>1. Justified(c, response) /\ c \in Stream
      BY <1>2, <1>5, <2>1 DEF AttributionInv, AttributedToOwn
    <3>2. ~ (c = s /\ Running(s))
      BY <1>1, <1>5, <2>1 DEF Attribution
    <3>3. c \in answered' => c \in answered
      BY <1>3, <3>1, <3>2
    <3> QED
      BY <3>1, <3>3, JustifiedLater
  <2>2. CASE d \notin dispatched
    <3>1. /\ Reads(s) /\ session'[s].state = checkpoint[threadOf[s]]
          /\ c = s /\ response = checkpoint[threadOf[s]].response
      BY <1>5, <2>2, Progress DEF Starts, RunsNode, RunsOn, Reads, GoesOn
    <3>2. Ending(s)' /\ Attribution(s)'
      BY <3>1, OwnAttribution DEF Reads
    <3>3. Justified(s, session[s].state.response)'
      BY <3>2 DEF Attribution
    <3> QED
      BY <3>1, <3>3 DEF Justified
  <2> QED
    BY <2>1, <2>2
<1>6. \A c \in Stream : \A i \in DOMAIN log'[c] : Justified(c, log[c][i].response_id)'
  BY <1>4 DEF Justified
<1>7. \A d \in dispatched' : Justified(d[2], d[1])'
  BY <1>5 DEF Justified
<1> QED
  BY <1>6, <1>7 DEF AttributedToOwn

\* Logs and shadow evaluations name the turn's own response, or one of its thread's
\* that the checkpoint brought it, where the turn wrote none or was not alone in its
\* thread.
THEOREM ResponsesAreOwn == Spec => []AttributedToOwn
<1>1. Init => AttributionInv
  <2> SUFFICES ASSUME Init PROVE AttributionInv
    OBVIOUS
  <2>1. /\ \A t \in Thread : checkpoint[t].response = NoStream
        /\ \A c \in Stream : /\ session[c].pc = "new" /\ log[c] = << >>
                             /\ session[c].state.response = NoStream
        /\ dispatched = {} /\ answered = {}
    BY DEF Init, NewSession, NoState
  <2>2. \A c \in Stream : Attribution(c)
    BY <2>1 DEF Attribution, OfThread, At, Running, Ending
  <2>3. AttributedToOwn
    BY <2>1 DEF AttributedToOwn
  <2> QED
    BY <2>1, <2>2, <2>3 DEF AttributionInv, OfThread
<1>2. ASSUME TypeOK, OpenOverlap, AttributionInv, [Next]_vars
      PROVE  AttributionInv'
  <2>1. CASE UNCHANGED vars
    <3>1. \A t \in Thread : OfThread(t, checkpoint[t])'
      BY <1>2, <2>1 DEF vars, AttributionInv, OfThread
    <3>2. ASSUME NEW c \in Stream
          PROVE  Attribution(c)'
      <4>1. Attribution(c)
        BY <1>2 DEF AttributionInv
      <4> QED
        BY <2>1, <4>1 DEF vars, Attribution, OfThread, At, Running, Ending, Justified,
           Alone, Overlapped
    <3>3. AttributedToOwn'
      BY <1>2, <2>1 DEF vars, AttributionInv, AttributedToOwn, Justified, Alone,
         Overlapped
    <3> QED
      BY <3>1, <3>2, <3>3 DEF AttributionInv
  <2>2. ASSUME NEW s \in Stream, Step(s)
        PROVE  AttributionInv'
    <3>1. \A c \in Stream : Attribution(c)'
      BY <1>2, <2>2, OthersAttribution, OwnAttribution
    <3>2. AttributedToOwn'
      BY <1>2, <2>2, AttributedStep
    <3>3. ASSUME NEW t \in Thread
          PROVE  OfThread(t, checkpoint[t])'
      <4>1. /\ checkpoint \in [Thread -> State] /\ threadOf' = threadOf
            /\ OfThread(t, checkpoint[t])
        BY <1>2, <2>2, StepOfOne DEF TypeOK, AttributionInv
      <4>2. \/ checkpoint'[t] = checkpoint[t]
            \/ t = threadOf[s] /\ checkpoint'[t] = session'[s].state
        BY <1>2, <2>2, <4>1, Progress DEF Starts, RunsNode, RunsOn, Reads, GoesOn
      <4>3. OfThread(threadOf[s], session[s].state)'
        BY <2>2, <3>1 DEF Attribution
      <4> QED
        BY <4>1, <4>2, <4>3 DEF OfThread
    <3> QED
      BY <3>1, <3>2, <3>3 DEF AttributionInv
  <2> QED
    BY <1>2, <2>1, <2>2 DEF Next, Step
<1>3. AttributionInv => AttributedToOwn
  BY DEF AttributionInv
<1>4. MixInv => OpenOverlap
  BY DEF MixInv
<1> QED
  BY <1>1, <1>2, <1>3, <1>4, MixInvariant, PTL DEF Spec

----------------------------------------------------------------------------
(***************************************************************************)
(* What the client and the thread are told.                                *)
(***************************************************************************)

\* A response that is not shown is buffered, or its turn broke off.
ShownInv ==
  \A c \in Stream :
    /\ c \in answered /\ c \notin shown =>
         (At(c, "streaming") /\ session[c].buffered) \/ Had(c, "broke off")
    /\ \/ At(c, "new") \/ At(c, "routing")
       \/ At(c, "streaming") /\ session[c].next \in Routed \cup {"Answer"}
       => c \notin answered

Turns(t) == {c \in Stream : threadOf[c] = t /\ ~ At(c, "new")}

\* What OutcomeIsTold asks of the turns of a thread, but for their end.
Calm(t) ==
  \A c \in Turns(t) :
    /\ \A b \in Turns(t) : ~ Overlapped(c, b)
    /\ \A what \in Mishap \ {"not persisted", "reply lost"} : ~ Had(c, what)

Over(c) == At(c, "closed") \/ session[c].recovering

\* In such a thread a turn ends with the state of the checkpoint, and leaves its
\* terminal state.
Outcome(t) ==
  Calm(t) =>
    /\ \A c \in Turns(t) : Ending(c) /\ ~ session[c].recovering =>
                             session[c].state = checkpoint[t]
    /\ Turns(t) # {} /\ (\A c \in Turns(t) : Over(c)) =>
         terminal[t] = TerminalOf(checkpoint[t])

OutcomeInv ==
  /\ \A c \in Stream : session[c].recovering => session[c].pc \in {"persisting", "inserting"}
  /\ \A t \in Thread : Outcome(t)

\* A response reaches its client, stays buffered, or its turn breaks off.
LEMMA ShownStep ==
  ASSUME TypeOK, RoutesFromRouted, ShownInv, NEW s \in Stream, Step(s)
  PROVE  ShownInv'
<1> DEFINE Fine(c) ==
             /\ c \in answered /\ c \notin shown =>
                  (At(c, "streaming") /\ session[c].buffered) \/ Had(c, "broke off")
             /\ \/ At(c, "new") \/ At(c, "routing")
                \/ At(c, "streaming") /\ session[c].next \in Routed \cup {"Answer"}
                => c \notin answered
<1>1. mishaps \subseteq mishaps'
  BY LateFields
<1>2. Fine(s)
  BY DEF ShownInv
<1>3. SUFFICES ASSUME answered' \subseteq answered \cup {s}, shown \subseteq shown'
               PROVE  Fine(s)'
  <2>1. answered' \subseteq answered \cup {s} /\ shown \subseteq shown'
    BY DEF Step, Begin, ReadActive, IntentRouter, DeterministicRuleChecker, Answer,
       InlineEvaluator, BreakOff, FailAfterRouting, GraphEnds, ReadCheckpoint,
       CollectEdges, CommitLogs, LoseCommitReply, FailInsert, UpdateTerminal
  <2>2. ASSUME NEW c \in Stream \ {s}
        PROVE  Fine(c)'
    <3>1. session'[c] = session[c]
      BY StepOfOne
    <3>2. Fine(c)
      BY DEF ShownInv
    <3> QED
      BY <1>1, <2>1, <3>1, <3>2 DEF At, Had
  <2> QED
    BY <1>3, <2>1, <2>2 DEF ShownInv
<1>4. CASE Begin(s)
  <2>1. /\ session[s].pc = "new" /\ session'[s].pc = "streaming" /\ answered' = answered
    BY <1>4, QuietFields DEF Begin
  <2> QED
    BY <1>2, <2>1 DEF At
<1>5. CASE ReadActive(s)
  <2>1. /\ session[s].pc = "streaming" /\ session[s].next \in Routed
        /\ session'[s].pc = "routing" /\ answered' = answered
    BY <1>5, QuietFields DEF ReadActive
  <2> QED
    BY <1>2, <2>1 DEF At
<1>6. CASE IntentRouter(s)
  <2>1. session[s].pc = "routing" /\ session'[s].pc = "streaming" /\ answered' = answered
    BY <1>6, NodeFields DEF IntentRouter, NodeRan
  <2> QED
    BY <1>2, <2>1 DEF At
<1>7. CASE DeterministicRuleChecker(s)
  <2>1. /\ session[s].pc = "routing" /\ session'[s].pc = "streaming"
        /\ \/ s \in shown' /\ session'[s].next = "__END__"
           \/ answered' = answered
    BY <1>7, NodeFields DEF NodeRan
  <2>2. "__END__" \notin Routed \cup {"Answer"}
    BY DEF Routed
  <2> QED
    BY <1>2, <2>1, <2>2 DEF At
<1>8. CASE Answer(s)
  <2>1. /\ session[s].pc = "streaming" /\ session[s].next = "Answer"
        /\ session'[s].pc = "streaming"
        /\ \/ session'[s].next = "InlineEvaluator" /\ session'[s].buffered = TRUE
           \/ session'[s].next = "InlineEvaluator" /\ s \in shown'
           \/ answered' = answered
    BY <1>8, NodeFields DEF NodeRan
  <2>2. "InlineEvaluator" \notin Routed \cup {"Answer"}
    BY DEF Routed
  <2> QED
    BY <1>2, <2>1, <2>2 DEF At
<1>9. CASE InlineEvaluator(s)
  <2>1. /\ session[s].pc = "streaming" /\ session'[s].pc = "streaming"
        /\ session'[s].next = "__END__" /\ answered' = answered
        /\ \/ session'[s].buffered = session[s].buffered
           \/ s \in shown'
           \/ ~ session[s].buffered
    BY <1>9, NodeFields DEF NodeRan, InlineEvaluator
  <2>2. "__END__" \notin Routed \cup {"Answer"}
    BY DEF Routed
  <2> QED
    BY <1>1, <1>2, <1>3, <2>1, <2>2 DEF At, Had
<1>10. CASE BreakOff(s) \/ FailAfterRouting(s)
  <2>1. Had(s, "broke off")' /\ session'[s].pc \notin {"new", "routing", "streaming"}
    BY <1>10, LateFields, EndSteps
  <2> QED
    BY <2>1 DEF At
<1>11. CASE GraphEnds(s)
  <2>1. /\ session'[s].pc = "done" /\ answered' = answered
        /\ session[s].buffered => s \in shown'
    BY <1>11, QuietFields DEF GraphEnds
  <2> QED
    BY <1>1, <1>2, <1>3, <2>1 DEF At, Had
<1>12. CASE ReadCheckpoint(s) \/ CollectEdges(s) \/ CommitLogs(s) \/ LoseCommitReply(s)
            \/ FailInsert(s) \/ UpdateTerminal(s)
  <2>1. session[s].pc # "streaming" /\ UNCHANGED <<answered, shown>>
    BY <1>12 DEF ReadCheckpoint, CollectEdges, CommitLogs, LoseCommitReply, FailInsert,
       UpdateTerminal, At
  <2>2. session'[s].pc \notin {"new", "routing", "streaming"}
    BY <1>12, QuietFields, EndSteps
  <2> QED
    BY <1>1, <1>2, <2>1, <2>2 DEF At, Had
<1> QED
  BY <1>4, <1>5, <1>6, <1>7, <1>8, <1>9, <1>10, <1>11, <1>12 DEF Step

\* Only a batch left to the finally block is one of a recovering session.
LEMMA RecoveringStep ==
  ASSUME TypeOK, NEW s \in Stream, Step(s), NEW c \in Stream,
         session[c].recovering => session[c].pc \in {"persisting", "inserting"}
  PROVE  session'[c].recovering => session'[c].pc \in {"persisting", "inserting"}
<1>1. session[s] \in Session
  BY DEF TypeOK
<1>2. CASE c # s
  BY <1>2, StepOfOne
<1>3. CASE c = s
  <2>1. CASE IntentRouter(s) \/ DeterministicRuleChecker(s) \/ Answer(s)
             \/ InlineEvaluator(s)
    BY <1>3, <2>1, NodeFields DEF NodeRan
  <2>2. CASE Begin(s) \/ ReadActive(s) \/ GraphEnds(s) \/ ReadCheckpoint(s)
             \/ CollectEdges(s)
    BY <1>3, <2>2, QuietFields
  <2>3. CASE BreakOff(s) \/ FailAfterRouting(s) \/ UpdateTerminal(s)
    <3>1. session'[s] \in {Closed(session[s]), Unwind(session[s])}
      BY <2>3, LateFields
    <3>2. /\ Closed(session[s]).recovering = FALSE
          /\ \/ Unwind(session[s]).recovering = FALSE
             \/ Unwind(session[s]).pc = "persisting"
      BY <1>1, EndFields
    <3> QED
      BY <1>3, <3>1, <3>2
  <2>4. CASE CommitLogs(s) \/ LoseCommitReply(s) \/ FailInsert(s)
    <3>1. Inserted(s, TRUE) \/ Inserted(s, FALSE) \/ Retried(s)
      BY <2>4, LateFields
    <3> QED
      BY <1>3, <3>1 DEF Inserted, Retried
  <2> QED
    BY <2>1, <2>2, <2>3, <2>4 DEF Step
<1> QED
  BY <1>2, <1>3

\* The end of a turn of a calm thread, step by step.
LEMMA OwnOutcome ==
  ASSUME TypeOK, OutcomeInv, NEW s \in Stream, Step(s),
         \A what \in Mishap \ {"not persisted", "reply lost"} : ~ Had(s, what)',
         session[s].recovering => terminal[threadOf[s]] = TerminalOf(checkpoint[threadOf[s]]),
         Ending(s) /\ ~ session[s].recovering =>
           session[s].state = checkpoint[threadOf[s]]
  PROVE  /\ Ending(s)' /\ ~ session'[s].recovering =>
              session'[s].state = checkpoint'[threadOf[s]]
         /\ Over(s)' => terminal'[threadOf[s]] = TerminalOf(checkpoint'[threadOf[s]])
<1> DEFINE t == threadOf[s]
<1>1. /\ session[s] \in Session /\ session[s].recovering \in BOOLEAN
      /\ terminal \in [Thread -> {"IN_PROGRESS", "COMPLETED"}] /\ t \in Thread
  BY DEF TypeOK, Session
<1>2. /\ session[s].recovering => session[s].pc \in {"persisting", "inserting"}
      /\ session'[s].recovering => session'[s].pc \in {"persisting", "inserting"}
  BY RecoveringStep DEF OutcomeInv
<1>3. ASSUME session'[s].pc \in {"streaming", "routing", "done"}
      PROVE  ~ Ending(s)' /\ ~ Over(s)'
  BY <1>2, <1>3 DEF Ending, Over, At
<1>4. CASE IntentRouter(s) \/ DeterministicRuleChecker(s) \/ Answer(s) \/ InlineEvaluator(s)
  BY <1>3, <1>4, NodeFields DEF NodeRan
<1>5. CASE Begin(s) \/ ReadActive(s) \/ GraphEnds(s)
  BY <1>3, <1>5, QuietFields
<1>6. ~ (BreakOff(s) \/ FailAfterRouting(s))
  BY LateFields DEF Mishap
<1>7. CASE ReadCheckpoint(s)
  <2>1. /\ session[s].pc = "done" /\ session'[s].pc = "persisting"
        /\ session'[s].recovering = session[s].recovering
    BY <1>7, QuietFields
  <2>2. ~ Over(s)'
    BY <1>2, <2>1 DEF Over, At
  <2>3. session'[s].state = checkpoint[t] /\ checkpoint' = checkpoint
    <3>1. ~ GoesWrong(s, "no checkpoint")
      BY DEF GoesWrong, Had, Mishap
    <3>2. session' = [session EXCEPT ![s].pc = "persisting",
                                     ![s].state = checkpoint[threadOf[s]]]
      BY <1>7, <3>1 DEF ReadCheckpoint
    <3>3. session \in [Stream -> Session]
      BY DEF TypeOK
    <3>4. session'[s] = [session[s] EXCEPT !.pc = "persisting",
                                           !.state = checkpoint[threadOf[s]]]
      BY <3>2, <3>3
    <3> QED
      BY <1>1, <1>7, <3>4 DEF ReadCheckpoint, Session
  <2> QED
    BY <2>2, <2>3
<1>8. CASE CollectEdges(s)
  <2>1. /\ session[s].pc = "persisting" /\ session'[s].pc = "inserting"
        /\ session'[s].recovering = session[s].recovering
        /\ session'[s].state = session[s].state
        /\ UNCHANGED <<checkpoint, terminal>>
    BY <1>8, QuietFields DEF CollectEdges
  <2> QED
    BY <2>1 DEF Ending, Over, At
<1>9. CASE CommitLogs(s) \/ LoseCommitReply(s) \/ FailInsert(s)
  <2>1. UNCHANGED <<checkpoint, terminal>>
    BY <1>9 DEF CommitLogs, LoseCommitReply, FailInsert
  <2>2. Inserted(s, TRUE) \/ Inserted(s, FALSE) \/ Retried(s)
    BY <1>9, LateFields
  <2>3. CASE Inserted(s, TRUE) \/ Inserted(s, FALSE)
    BY <2>1, <2>3 DEF Inserted, Ending, Over, At
  <2>4. CASE Retried(s)
    BY <2>1, <2>4 DEF Retried, Ending, Over, At
  <2> QED
    BY <2>2, <2>3, <2>4
<1>10. CASE UpdateTerminal(s)
  <2>1. /\ session[s].pc = "terminal"
        /\ session'[s] \in {Closed(session[s]), Unwind(session[s])}
        /\ checkpoint' = checkpoint
    BY <1>10, LateFields DEF UpdateTerminal
  <2>2. session[s].state = checkpoint[t]
    BY <1>2, <2>1 DEF Ending
  <2>3. ~ Ending(s)' \/ session'[s].recovering
    <3>1. /\ Closed(session[s]).pc = "closed"
          /\ Unwind(session[s]).pc = "closed" \/ Unwind(session[s]).recovering = TRUE
      BY <1>1, EndFields
    <3> QED
      BY <2>1, <3>1 DEF Ending
  <2>4. terminal'[t] = TerminalOf(session[s].state)
    <3>1. ~ GoesWrong(s, "no terminal state")
      BY DEF GoesWrong, Had, Mishap
    <3>2. terminal' = [terminal EXCEPT ![threadOf[s]] = TerminalOf(session[s].state)]
      BY <1>10, <3>1 DEF UpdateTerminal
    <3> QED
      BY <1>1, <3>2
  <2> QED
    BY <2>1, <2>2, <2>3, <2>4
<1> QED
  BY <1>4, <1>5, <1>6, <1>7, <1>8, <1>9, <1>10 DEF Step

\* In a calm thread the turn that takes a step is the only one that is not over.
LEMMA OutcomeStep ==
  ASSUME TypeOK, OpenOverlap, OutcomeInv, NEW s \in Stream, Step(s), NEW t \in Thread
  PROVE  Outcome(t)'
<1> SUFFICES ASSUME Calm(t)'
             PROVE  Outcome(t)'
  BY DEF Outcome
<1>1. /\ threadOf' = threadOf /\ overlaps \subseteq overlaps' /\ mishaps \subseteq mishaps'
      /\ \A c \in Stream \ {s} : session'[c] = session[c]
      /\ Begin(s) \/ Open(s)
  BY StepOfOne, LateFields
<1>2. ~ At(s, "new")'
  BY Progress DEF Starts, RunsNode, RunsOn, Reads, GoesOn, Running, At
<1>3. /\ Turns(t) \subseteq Turns(t)'
      /\ \A c \in Stream \ {s} : c \in Turns(t)' <=> c \in Turns(t)
  BY <1>1, <1>2 DEF Turns, At
<1>4. Calm(t)
  BY <1>1, <1>3 DEF Calm, Overlapped, Had
<1>5. /\ \A c \in Turns(t) : Ending(c) /\ ~ session[c].recovering =>
                               session[c].state = checkpoint[t]
      /\ Turns(t) # {} /\ (\A c \in Turns(t) : Over(c)) =>
           terminal[t] = TerminalOf(checkpoint[t])
  BY <1>4 DEF OutcomeInv, Outcome
<1>6. /\ checkpoint \in [Thread -> State] /\ threadOf[s] \in Thread
      /\ terminal \in [Thread -> {"IN_PROGRESS", "COMPLETED"}]
  BY DEF TypeOK
<1>7. \A u \in Thread \ {threadOf[s]} : checkpoint'[u] = checkpoint[u] /\ terminal'[u] = terminal[u]
  <2>1. checkpoint' = checkpoint
          \/ checkpoint' = [checkpoint EXCEPT ![threadOf[s]] = session'[s].state]
    BY Progress DEF Starts, RunsNode, RunsOn, Reads, GoesOn
  <2>2. terminal' = terminal
          \/ terminal' = [terminal EXCEPT ![threadOf[s]] = TerminalOf(session[s].state)]
    BY DEF Step, Begin, ReadActive, IntentRouter, DeterministicRuleChecker, Answer,
       InlineEvaluator, BreakOff, FailAfterRouting, GraphEnds, ReadCheckpoint,
       CollectEdges, CommitLogs, LoseCommitReply, FailInsert, UpdateTerminal
  <2> QED
    BY <1>6, <2>1, <2>2
<1>8. CASE threadOf[s] # t
  <2>1. \A c \in Stream : c \in Turns(t)' <=> c \in Turns(t)
    BY <1>1, <1>3, <1>8 DEF Turns
  <2>2. \A c \in Turns(t) : c \in Stream \ {s}
    BY <1>8 DEF Turns
  <2>3. Turns(t)' = Turns(t)
    BY <2>1 DEF Turns
  <2>4. \A c \in Turns(t) : /\ session'[c] = session[c]
                            /\ Ending(c)' <=> Ending(c)
                            /\ Over(c)' <=> Over(c)
    BY <1>1, <2>2 DEF Ending, Over, At
  <2>5. checkpoint'[t] = checkpoint[t] /\ terminal'[t] = terminal[t]
    BY <1>7, <1>8
  <2>6. \A c \in Turns(t)' : Ending(c)' /\ ~ session'[c].recovering =>
                               session'[c].state = checkpoint'[t]
    BY <1>5, <2>3, <2>4, <2>5
  <2>7. Turns(t)' # {} /\ (\A c \in Turns(t)' : Over(c)') =>
          terminal'[t] = TerminalOf(checkpoint'[t])
    BY <1>5, <2>3, <2>4, <2>5
  <2> QED
    BY <2>6, <2>7 DEF Outcome
<1>9. CASE threadOf[s] = t
  <2>1. s \in Turns(t)'
    BY <1>1, <1>2, <1>9 DEF Turns
  <2>2. ASSUME NEW c \in Turns(t), c # s
        PROVE  At(c, "closed")
    <3>1. c \in Stream /\ ~ At(c, "new") /\ c \in Turns(t)'
      BY <1>3, <2>2 DEF Turns
    <3>2. SUFFICES ASSUME Open(c) PROVE FALSE
      BY <3>1 DEF Open, At
    <3>3. CASE Begin(s)
      <4>1. <<s, c>> \in overlaps'
        BY <3>1, <3>2, <3>3 DEF Begin
      <4> QED
        BY <2>1, <3>1, <4>1 DEF Calm, Overlapped
    <3>4. CASE Open(s)
      <4>1. <<s, c>> \in overlaps
        BY <2>2, <3>1, <3>2, <3>4 DEF OpenOverlap
      <4>2. s \in Turns(t)
        BY <1>9, <3>4 DEF Turns, Open, At
      <4> QED
        BY <1>4, <2>2, <4>1, <4>2 DEF Calm, Overlapped
    <3> QED
      BY <1>1, <3>3, <3>4
  <2>3. \A c \in Turns(t)' : c # s => ~ Ending(c)'
    BY <1>1, <1>3, <2>2 DEF Ending, At, Turns
  <2>4. session[s].recovering => terminal[t] = TerminalOf(checkpoint[t])
    <3>1. SUFFICES ASSUME session[s].recovering
                   PROVE  terminal[t] = TerminalOf(checkpoint[t])
      OBVIOUS
    <3>2. session[s].pc \in {"persisting", "inserting"}
      BY <3>1 DEF OutcomeInv
    <3>3. s \in Turns(t)
      BY <1>9, <3>2 DEF Turns, At
    <3>4. \A c \in Turns(t) : Over(c)
      BY <2>2, <3>1 DEF Over
    <3> QED
      BY <1>5, <3>3, <3>4
  <2>5. Ending(s) /\ ~ session[s].recovering => session[s].state = checkpoint[t]
    <3>1. Ending(s) => s \in Turns(t)
      BY <1>9 DEF Ending, Turns, At
    <3> QED
      BY <1>5, <3>1
  <2>6. \A what \in Mishap \ {"not persisted", "reply lost"} : ~ Had(s, what)'
    BY <2>1 DEF Calm
  <2>7. /\ Ending(s)' /\ ~ session'[s].recovering => session'[s].state = checkpoint'[t]
        /\ Over(s)' => terminal'[t] = TerminalOf(checkpoint'[t])
    BY <1>9, <2>4, <2>5, <2>6, OwnOutcome
  <2>8. \A c \in Turns(t)' : Ending(c)' /\ ~ session'[c].recovering =>
                               session'[c].state = checkpoint'[t]
    BY <2>3, <2>7
  <2>9. (\A c \in Turns(t)' : Over(c)') => terminal'[t] = TerminalOf(checkpoint'[t])
    BY <2>1, <2>7
  <2> QED
    BY <2>8, <2>9 DEF Outcome
<1> QED
  BY <1>8, <1>9

\* A client misses its turn's response only if the turn broke off; and when the turns
\* of a thread are over, without having run at the same time and without a mishap
\* other than a lost log, its terminal state is that of its checkpoint.
THEOREM OutcomesAreTold == Spec => []OutcomeIsTold
<1>1. Init => ShownInv /\ OutcomeInv
  <2> SUFFICES ASSUME Init PROVE ShownInv /\ OutcomeInv
    OBVIOUS
  <2>1. \A c \in Stream : session[c].pc = "new" /\ session[c].recovering = FALSE
    BY DEF Init, NewSession
  <2>2. \A t \in Thread : Turns(t) = {}
    BY <2>1 DEF Turns, At
  <2>3. answered = {}
    BY DEF Init
  <2> QED
    BY <2>1, <2>2, <2>3 DEF ShownInv, OutcomeInv, Outcome
<1>2. ASSUME TypeOK, RoutesFromRouted, OpenOverlap, ShownInv, OutcomeInv, [Next]_vars
      PROVE  ShownInv' /\ OutcomeInv'
  <2>1. CASE UNCHANGED vars
    <3>1. ShownInv'
      BY <1>2, <2>1 DEF vars, ShownInv, At, Had
    <3>2. ASSUME NEW t \in Thread
          PROVE  Outcome(t)'
      <4>1. Outcome(t)
        BY <1>2 DEF OutcomeInv
      <4> QED
        BY <2>1, <4>1 DEF vars, Outcome, Calm, Turns, Over, Ending, At, Had, Overlapped,
           TerminalOf
    <3> QED
      BY <1>2, <2>1, <3>1, <3>2 DEF vars, OutcomeInv
  <2>2. ASSUME NEW s \in Stream, Step(s)
        PROVE  ShownInv' /\ OutcomeInv'
    <3>1. ShownInv'
      BY <1>2, <2>2, ShownStep
    <3>2. \A c \in Stream : session'[c].recovering =>
                              session'[c].pc \in {"persisting", "inserting"}
      BY <1>2, <2>2, RecoveringStep DEF OutcomeInv
    <3>3. \A t \in Thread : Outcome(t)'
      BY <1>2, <2>2, OutcomeStep
    <3> QED
      BY <3>1, <3>2, <3>3 DEF OutcomeInv
  <2> QED
    BY <1>2, <2>1, <2>2 DEF Next, Step
<1>3. TypeOK /\ ShownInv /\ OutcomeInv => OutcomeIsTold
  <2> SUFFICES ASSUME TypeOK, ShownInv, OutcomeInv PROVE OutcomeIsTold
    OBVIOUS
  <2>1. \A s \in answered \ shown : At(s, "closed") => Had(s, "broke off")
    BY DEF TypeOK, ShownInv, At
  <2>2. ASSUME NEW t \in Thread, Turns(t) # {},
               \A c \in Turns(t) :
                 /\ At(c, "closed")
                 /\ \A b \in Turns(t) : ~ Overlapped(c, b)
                 /\ \A what \in Mishap \ {"not persisted", "reply lost"} : ~ Had(c, what)
        PROVE  terminal[t] = "COMPLETED"
                 <=> \/ checkpoint[t].route \in {"troubleshoot", "replace_part"}
                     \/ checkpoint[t].override
    <3>1. Calm(t) /\ \A c \in Turns(t) : Over(c)
      BY <2>2 DEF Calm, Over
    <3>2. terminal[t] = TerminalOf(checkpoint[t])
      BY <2>2, <3>1 DEF OutcomeInv, Outcome
    <3> QED
      BY <3>2 DEF TerminalOf
  <2>3. \A t \in Thread :
          /\ Turns(t) # {}
          /\ \A c \in Turns(t) :
               /\ At(c, "closed")
               /\ \A b \in Turns(t) : ~ Overlapped(c, b)
               /\ \A what \in Mishap \ {"not persisted", "reply lost"} : ~ Had(c, what)
          => (terminal[t] = "COMPLETED"
                <=> \/ checkpoint[t].route \in {"troubleshoot", "replace_part"}
                    \/ checkpoint[t].override)
    BY <2>2
  <2> QED
    BY <2>1, <2>3, Zenon DEF OutcomeIsTold, Turns
<1>4. MixInv => OpenOverlap
  BY DEF MixInv
<1> QED
  BY <1>1, <1>2, <1>3, <1>4, MixInvariant, PTL DEF Spec

=============================================================================
