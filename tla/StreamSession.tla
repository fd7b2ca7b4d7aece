--------------------------- MODULE StreamSession ---------------------------
(***************************************************************************)
(* One server process that streams diagnostic turns to its clients:        *)
(* AgentManager.stream_graph of api/agent_manager.py, the edge-decision    *)
(* collector of pipeline/telemetry.py and the writers of the tables it     *)
(* ends in (core/crud.py).                                                 *)
(*                                                                         *)
(* The generator of each request runs in the server's thread pool, so      *)
(* several turns may run at once, of one thread or of several.  Their      *)
(* routing functions find the thread to log for in a global.               *)
(*                                                                         *)
(* A turn is reduced to what the session tells apart: IntentRouter, the    *)
(* rules, the nodes behind them as one ("Answer"), and InlineEvaluator.    *)
(* DiagnosticWorkflow has all twelve.                                      *)
(***************************************************************************)
EXTENDS Integers, Sequences, FiniteSets

CONSTANTS
  Routes,       \* what IntentRouter, or UnsafeMethodGate, may set as the route
  Stream,       \* the requests; each is one turn, with a trace_id of its own
  Thread,       \* diagnostic threads
  NoThread,     \* the initial _active_thread_id
  NoStream,     \* of a response_id or a chain_id that is None
  MaxAttempts,  \* stop_after_attempt(5) of with_db_retry
  MaxMishaps    \* bound on what goes wrong in a behaviour

ASSUME RoutesAssumption ==
  Routes \subseteq {"troubleshoot", "replace_part", "followup", "mismatch",
                    "validate_repair"}

ASSUME StreamAssumption ==
  /\ NoStream \notin Stream
  /\ NoThread \notin Thread
  /\ MaxAttempts \in Nat \ {0}
  /\ MaxMishaps \in Nat

VARIABLES
  threadOf,    \* the thread a request names
  active,      \* _active_thread_id
  store,       \* _edge_telemetry_store; a missing key is << >>
  session,     \* the local variables of each stream_graph
  checkpoint,  \* the latest DiagnosticState saved for each thread
  log,         \* agent_execution_logs: the chain of each trace, by ascending id
  dispatched,  \* <<response_id, stream>>: what dispatch_shadow_eval was given
  terminal,    \* diagnostic_threads.terminal_state
  answered,    \* streams whose graph wrote a response
  shown,       \* streams whose client was sent that response
  mishaps,     \* <<stream, what>>: what went wrong in a stream
  overlaps     \* <<a, b>>: streams that were open at the same time

vars == <<threadOf, active, store, session, checkpoint, log, dispatched,
          terminal, answered, shown, mishaps, overlaps>>

----------------------------------------------------------------------------
(***************************************************************************)
(* Data.                                                                   *)
(***************************************************************************)

\* A response_id is named by the turn that made it.
Response == Stream \cup {NoStream}

State == [route : Routes \cup {""}, override : BOOLEAN, response : Response]

NoState == [route |-> "", override |-> FALSE, response |-> NoStream]

Nodes == {"IntentRouter", "DeterministicRuleChecker", "Answer", "InlineEvaluator"}

\* A telemetry record: by whom, of a node or of the routing behind it.
Record == [by : Stream, of : Nodes, kind : {"node", "edge"}]

Hashes == INSTANCE HashChain WITH Payload <- Record, Tampered <- NoStream

Pcs == {"new", "streaming", "routing", "done", "persisting", "inserting",
        "terminal", "closed"}

Session ==
  [pc : Pcs,
   next : Nodes \cup {"__END__"},  \* the node the graph runs next
   edge : Thread \cup {NoThread},  \* what a routing function read in active
   state : State,                  \* the graph's, then final_state
   records : Seq(Record),          \* telemetry_records
   buffered : BOOLEAN,             \* buffered_plan_event is not None
   attempt : 1 .. MaxAttempts,     \* of bulk_insert_execution_logs
   persisted : BOOLEAN,            \* batch_persisted
   recovering : BOOLEAN]           \* the finally block persists

NewSession ==
  [pc |-> "new", next |-> "IntentRouter", edge |-> NoThread, state |-> NoState,
   records |-> << >>, buffered |-> FALSE, attempt |-> 1, persisted |-> FALSE,
   recovering |-> FALSE]

\* A row of trace s; its thread_id is threadOf[s].
LogRow ==
  [id : Nat, response_id : Response, data : Record, record_hash : Seq(Record)]

Mishap == {"broke off", "reply lost", "not persisted", "no checkpoint",
           "no terminal state"}

TypeOK ==
  /\ threadOf \in [Stream -> Thread]
  /\ active \in Thread \cup {NoThread}
  /\ store \in [Thread -> Seq(Record)]
  /\ session \in [Stream -> Session]
  /\ checkpoint \in [Thread -> State]
  /\ log \in [Stream -> Seq(LogRow)]
  /\ dispatched \subseteq Stream \X Stream
  /\ terminal \in [Thread -> {"IN_PROGRESS", "COMPLETED"}]
  /\ answered \subseteq Stream
  /\ shown \subseteq Stream
  /\ mishaps \subseteq Stream \X Mishap
  /\ overlaps \subseteq Stream \X Stream

Init ==
  /\ threadOf \in [Stream -> Thread]
  /\ active = NoThread
  /\ store = [t \in Thread |-> << >>]
  /\ session = [s \in Stream |-> NewSession]
  /\ checkpoint = [t \in Thread |-> NoState]
  /\ log = [s \in Stream |-> << >>]
  /\ dispatched = {}
  /\ terminal = [t \in Thread |-> "IN_PROGRESS"]
  /\ answered = {} /\ shown = {} /\ mishaps = {} /\ overlaps = {}

----------------------------------------------------------------------------
(***************************************************************************)
(* Helpers.                                                                *)
(***************************************************************************)

At(s, pc) == session[s].pc = pc

Open(s) == session[s].pc \notin {"new", "closed"}

\* The graph has ended a node and stands before node n: a yield of the
\* generator, or the start of the node.
Before(s, n) == At(s, "streaming") /\ session[s].next = n

Rec(s, n, kind) == [by |-> s, of |-> n, kind |-> kind]

\* Nodes with a conditional edge behind them.
Routed == {"IntentRouter", "DeterministicRuleChecker"}

AppendEdge(s, n) ==
  store' = [store EXCEPT ![session[s].edge] = Append(@, Rec(s, n, "edge"))]

\* The update of node n: the graph saves the checkpoint, the generator collects
\* the node's telemetry.
Update(s, n, state, to, buffered, records) ==
  /\ session' = [session EXCEPT
                   ![s].pc = "streaming", ![s].next = to, ![s].state = state,
                   ![s].edge = NoThread, ![s].buffered = buffered,
                   ![s].records = @ \o records]
  /\ checkpoint' = [checkpoint EXCEPT ![threadOf[s]] = state]

Respond(s, state) == [state EXCEPT !.response = s]

\* Mutant of TailHash: every batch starts a chain.
NoTailHash(s) == Hashes!Genesis

\* The hash of the chain's last row, by id.
TailHash(s) ==
  IF log[s] = << >> THEN Hashes!Genesis ELSE log[s][Len(log[s])].record_hash

\* The rows bulk_insert_execution_logs adds for a turn's records.
LogRows(s) ==
  LET records  == session[s].records
      previous == TailHash(s)
  IN  [i \in DOMAIN records |->
         [id          |-> Len(log[s]) + i,
          response_id |-> IF session[s].recovering THEN NoStream
                          ELSE session[s].state.response,
          data        |-> records[i],
          record_hash |-> previous \o SubSeq(records, 1, i)]]

\* A generator that has ended; what it collected is kept for the properties.
Closed(local) == [NewSession EXCEPT !.pc = "closed", !.next = "__END__",
                                    !.records = local.records]

\* Mutant of Unwind: no crash recovery.
UnwindSilently(local) == Closed(local)

\* The finally block, on the local variables of a session whose batch is not
\* persisted: what was collected is persisted without a response_id.
Unwind(local) ==
  IF local.records = << >> THEN Closed(local)
  ELSE [Closed(local) EXCEPT !.pc = "persisting", !.recovering = TRUE]

GoesWrong(s, what) ==
  /\ Cardinality(mishaps) < MaxMishaps
  /\ mishaps' = mishaps \cup {<<s, what>>}

\* Where the insert leaves the session, with its result or its exception.
AfterInsert(local, ok) ==
  IF local.recovering THEN Closed(local)
  ELSE [local EXCEPT !.pc = "terminal", !.persisted = ok, !.attempt = 1]

----------------------------------------------------------------------------
(***************************************************************************)
(* The graph runs.                                                         *)
(***************************************************************************)

\* Mutant of Begin: set_edge_telemetry_thread_id leaves the store alone.
BeginKeepingEdges(s) ==
  /\ At(s, "new")
  /\ active' = threadOf[s]
  /\ session' = [session EXCEPT ![s].pc = "streaming",
                                ![s].state = checkpoint[threadOf[s]]]
  /\ overlaps' = overlaps \cup UNION {{<<s, b>>, <<b, s>>} : b \in {b \in Stream : Open(b)}}
  /\ UNCHANGED <<threadOf, store, checkpoint, log, dispatched, terminal, answered,
                 shown, mishaps>>

\* set_edge_telemetry_thread_id; the graph loads the thread's checkpoint.
Begin(s) ==
  /\ At(s, "new")
  /\ active' = threadOf[s]
  /\ store' = [store EXCEPT ![threadOf[s]] = << >>]
  /\ session' = [session EXCEPT ![s].pc = "streaming",
                                ![s].state = checkpoint[threadOf[s]]]
  /\ overlaps' = overlaps \cup UNION {{<<s, b>>, <<b, s>>} : b \in {b \in Stream : Open(b)}}
  /\ UNCHANGED <<threadOf, checkpoint, log, dispatched, terminal, answered,
                 shown, mishaps>>

\* record_edge_decision reads the global, and takes the lock later.
ReadActive(s) ==
  /\ At(s, "streaming") /\ session[s].next \in Routed
  /\ session' = [session EXCEPT ![s].pc = "routing", ![s].edge = active]
  /\ UNCHANGED <<threadOf, active, store, checkpoint, log, dispatched, terminal,
                 answered, shown, mishaps, overlaps>>

IntentRouter(s) ==
  /\ At(s, "routing") /\ session[s].next = "IntentRouter"
  /\ AppendEdge(s, "IntentRouter")
  /\ \E route \in Routes :
       Update(s, "IntentRouter", [session[s].state EXCEPT !.route = route],
              IF route = "followup" THEN "Answer" ELSE "DeterministicRuleChecker",
              FALSE, <<Rec(s, "IntentRouter", "node")>>)
  /\ UNCHANGED <<threadOf, active, log, dispatched, terminal, answered, shown,
                 mishaps, overlaps>>

\* A rule answers, and its event is sent at once; or none matches.
DeterministicRuleChecker(s) ==
  /\ At(s, "routing") /\ session[s].next = "DeterministicRuleChecker"
  /\ AppendEdge(s, "DeterministicRuleChecker")
  /\ LET rec == <<Rec(s, "DeterministicRuleChecker", "node")>>
     IN  \/ /\ Update(s, "DeterministicRuleChecker",
                      [Respond(s, session[s].state) EXCEPT !.override = TRUE],
                      "__END__", FALSE, rec)
            /\ answered' = answered \cup {s}
            /\ shown' = shown \cup {s}
         \/ /\ Update(s, "DeterministicRuleChecker",
                      [session[s].state EXCEPT !.override = FALSE],
                      "Answer", FALSE, rec)
            /\ UNCHANGED <<answered, shown>>
  /\ UNCHANGED <<threadOf, active, log, dispatched, terminal, mishaps, overlaps>>

\* Mutant of Answer: the answer is given the id of the one before.
AnswerUnderOldId(s) ==
  /\ Before(s, "Answer")
  /\ Update(s, "Answer", session[s].state, "InlineEvaluator",
            session[s].state.route # "followup", <<Rec(s, "Answer", "node")>>)
  /\ answered' = answered \cup {s}
  /\ shown' = IF session[s].state.route = "followup" THEN shown \cup {s} ELSE shown
  /\ UNCHANGED <<threadOf, active, store, log, dispatched, terminal, mishaps,
                 overlaps>>

\* A plan is buffered until it is evaluated, a follow-up is sent at once.  A
\* follow-up may time out and leave the response, a diagnosis may end early.
Answer(s) ==
  /\ Before(s, "Answer")
  /\ LET state    == session[s].state
         followUp == state.route = "followup"
         rec      == <<Rec(s, "Answer", "node")>>
     IN  \/ /\ Update(s, "Answer", Respond(s, state), "InlineEvaluator",
                      ~ followUp, rec)
            /\ answered' = answered \cup {s}
            /\ shown' = IF followUp THEN shown \cup {s} ELSE shown
         \/ /\ Update(s, "Answer", state,
                      IF followUp THEN "InlineEvaluator" ELSE "__END__", FALSE, rec)
            /\ UNCHANGED <<answered, shown>>
  /\ UNCHANGED <<threadOf, active, store, log, dispatched, terminal, mishaps,
                 overlaps>>

\* The event of a passed evaluation flushes the plan; so does a skipped one,
\* which has no inline_eval_passed.  Its record goes with those of Answer.
InlineEvaluator(s) ==
  /\ Before(s, "InlineEvaluator")
  /\ \E passed \in BOOLEAN :
       /\ Update(s, "InlineEvaluator", session[s].state, "__END__",
                 session[s].buffered /\ ~ passed, << >>)
       /\ shown' = IF session[s].buffered /\ passed THEN shown \cup {s} ELSE shown
  /\ UNCHANGED <<threadOf, active, store, log, dispatched, terminal, answered,
                 mishaps, overlaps>>

\* A node raises, or the client disconnects at a yield: the finally block runs.
BreakOff(s) ==
  /\ At(s, "streaming") \/ At(s, "done")
  /\ session' = [session EXCEPT ![s] = Unwind(@)]
  /\ GoesWrong(s, "broke off")
  /\ UNCHANGED <<threadOf, active, store, checkpoint, log, dispatched, terminal,
                 answered, shown, overlaps>>

\* The graph raises after a routing decision, before the node's update (the
\* checkpoint cannot be written).
FailAfterRouting(s) ==
  /\ At(s, "routing")
  /\ AppendEdge(s, session[s].next)
  /\ session' = [session EXCEPT ![s] = Unwind(@)]
  /\ GoesWrong(s, "broke off")
  /\ UNCHANGED <<threadOf, active, checkpoint, log, dispatched, terminal,
                 answered, shown, overlaps>>

\* The defensive flush, and AGENT_DONE.  The record of the alignment of safety
\* rules to steps, made between them, is taken with those of Answer.
GraphEnds(s) ==
  /\ Before(s, "__END__")
  /\ session' = [session EXCEPT ![s].pc = "done", ![s].buffered = FALSE]
  /\ shown' = IF session[s].buffered THEN shown \cup {s} ELSE shown
  /\ UNCHANGED <<threadOf, active, store, checkpoint, log, dispatched, terminal,
                 answered, mishaps, overlaps>>

----------------------------------------------------------------------------
(***************************************************************************)
(* The session after AGENT_DONE.                                           *)
(***************************************************************************)

\* dispatch_shadow_eval skips a state without a response_id.  What it does
\* with the others, its log record of no chain included, is left out.
ReadCheckpoint(s) ==
  /\ At(s, "done")
  /\ \/ /\ session' = [session EXCEPT ![s].pc = "persisting",
                                      ![s].state = checkpoint[threadOf[s]]]
        /\ dispatched' = dispatched \cup
             ({checkpoint[threadOf[s]].response} \ {NoStream}) \X {s}
        /\ UNCHANGED mishaps
     \/ /\ session' = [session EXCEPT ![s].pc = "persisting", ![s].state = NoState]
        /\ GoesWrong(s, "no checkpoint")
        /\ UNCHANGED dispatched
  /\ UNCHANGED <<threadOf, active, store, checkpoint, log, terminal, answered,
                 shown, overlaps>>

\* collect_edge_telemetry pops the thread's edge records.
CollectEdges(s) ==
  /\ At(s, "persisting")
  /\ session' = [session EXCEPT ![s].pc = "inserting", ![s].attempt = 1,
                                ![s].records = @ \o store[threadOf[s]]]
  /\ store' = [store EXCEPT ![threadOf[s]] = << >>]
  /\ UNCHANGED <<threadOf, active, checkpoint, log, dispatched, terminal, answered,
                 shown, mishaps, overlaps>>

CommitLogs(s) ==
  /\ At(s, "inserting")
  /\ log' = [log EXCEPT ![s] = @ \o LogRows(s)]
  /\ session' = [session EXCEPT ![s] = AfterInsert(@, TRUE)]
  /\ UNCHANGED <<threadOf, active, store, checkpoint, dispatched, terminal, answered,
                 shown, mishaps, overlaps>>

\* with_db_retry repeats the insert after a connection error; at last, or after
\* any other exception, the exception is logged and the session goes on.
RetryOrGiveUp(s, what) ==
  LET failed == what \cup {<<s, "not persisted">>}
  IN  \/ /\ session[s].attempt < MaxAttempts
         /\ Cardinality(mishaps \cup what) <= MaxMishaps
         /\ session' = [session EXCEPT ![s].attempt = @ + 1]
         /\ mishaps' = mishaps \cup what
      \/ /\ Cardinality(mishaps \cup failed) <= MaxMishaps
         /\ session' = [session EXCEPT ![s] = AfterInsert(@, FALSE)]
         /\ mishaps' = mishaps \cup failed

\* The batch is committed and the client of the database does not hear of it.
LoseCommitReply(s) ==
  /\ At(s, "inserting")
  /\ log' = [log EXCEPT ![s] = @ \o LogRows(s)]
  /\ RetryOrGiveUp(s, {<<s, "reply lost">>})
  /\ UNCHANGED <<threadOf, active, store, checkpoint, dispatched, terminal, answered,
                 shown, overlaps>>

FailInsert(s) ==
  /\ At(s, "inserting")
  /\ RetryOrGiveUp(s, {})
  /\ UNCHANGED <<threadOf, active, store, checkpoint, log, dispatched, terminal,
                 answered, shown, overlaps>>

TerminalOf(state) ==
  IF state.route \in {"troubleshoot", "replace_part"} \/ state.override
  THEN "COMPLETED" ELSE "IN_PROGRESS"

\* Mutant of UpdateTerminal: the state is only kept with its log.
UpdateTerminalIfPersisted(s) ==
  /\ At(s, "terminal")
  /\ session' = [session EXCEPT ![s] = IF @.persisted THEN Closed(@) ELSE Unwind(@)]
  /\ terminal' = IF session[s].persisted
                 THEN [terminal EXCEPT ![threadOf[s]] = TerminalOf(session[s].state)]
                 ELSE terminal
  /\ UNCHANGED <<threadOf, active, store, checkpoint, log, dispatched, answered,
                 shown, mishaps, overlaps>>

\* From the state read before the dispatch; then COMPLETE is sent.
UpdateTerminal(s) ==
  /\ At(s, "terminal")
  /\ session' = [session EXCEPT ![s] = IF @.persisted THEN Closed(@) ELSE Unwind(@)]
  /\ \/ /\ terminal' = [terminal EXCEPT ![threadOf[s]] = TerminalOf(session[s].state)]
        /\ UNCHANGED mishaps
     \/ /\ GoesWrong(s, "no terminal state")
        /\ UNCHANGED terminal
  /\ UNCHANGED <<threadOf, active, store, checkpoint, log, dispatched, answered,
                 shown, overlaps>>

Next ==
  \E s \in Stream :
    \/ Begin(s)
    \/ ReadActive(s)
    \/ IntentRouter(s)
    \/ DeterministicRuleChecker(s)
    \/ Answer(s)
    \/ InlineEvaluator(s)
    \/ BreakOff(s)
    \/ FailAfterRouting(s)
    \/ GraphEnds(s)
    \/ ReadCheckpoint(s)
    \/ CollectEdges(s)
    \/ CommitLogs(s)
    \/ LoseCommitReply(s)
    \/ FailInsert(s)
    \/ UpdateTerminal(s)

Spec == Init /\ [][Next]_vars

----------------------------------------------------------------------------
(***************************************************************************)
(* Properties.                                                             *)
(***************************************************************************)

Overlapped(a, b) == <<a, b>> \in overlaps

Had(s, what) == <<s, what>> \in mishaps

Logged(s, rec) == \E i \in DOMAIN log[s] : log[s][i].data = rec

\* A trace holds another turn's record only if the two ran at the same time:
\* what a turn leaves in the edge store never reaches a later one.
OnlyOverlapMixes ==
  \A s \in Stream : \A i \in DOMAIN log[s] :
    log[s][i].data.by # s => Overlapped(s, log[s][i].data.by)

\* Whatever is retried, persisted again by the finally block or interleaved,
\* every trace is a chain the verifier accepts.
ChainsVerify == \A s \in Stream : Hashes!VerifyChain(log[s]).valid

\* Every record a session collected reaches the log unless an insert failed for
\* good, also when the turn broke off; and so does the routing behind each
\* node, unless another turn ran meanwhile.  It is stored twice only if the reply
\* to a commit of its trace was lost.
RecordsLoggedOnce ==
  \A s \in Stream :
    /\ At(s, "closed") /\ ~ Had(s, "not persisted") =>
         \A i \in DOMAIN session[s].records :
           LET rec == session[s].records[i]
           IN  /\ Logged(s, rec)
               /\ rec.kind = "node" /\ rec.of \in Routed
                  /\ (\A b \in Stream : ~ Overlapped(s, b))
                  => Logged(s, Rec(s, rec.of, "edge"))
    /\ \A i, j \in DOMAIN log[s] :
         i # j /\ log[s][i].data = log[s][j].data => Had(s, "reply lost")

\* Turn s is alone in its thread as long as no other turn of it runs meanwhile.
Alone(s) ==
  \A b \in Stream : threadOf[b] = threadOf[s] => ~ Overlapped(s, b)

\* A response of another turn, in the name of s.
Justified(s, response) ==
  response \notin {NoStream, s} =>
    /\ threadOf[response] = threadOf[s]
    /\ s \notin answered \/ ~ Alone(s)

\* Logs and shadow evaluations name another turn's response only if it is of
\* the same thread and their own turn wrote none or shared the thread with a
\* turn that ran meanwhile.  The response need not be that turn's: its checkpoint
\* brings back the response it found when it began.
AttributedToOwn ==
  /\ \A s \in Stream : \A i \in DOMAIN log[s] :
       Justified(s, log[s][i].response_id)
  /\ \A d \in dispatched : Justified(d[2], d[1])

\* What the client learns is what happened.  It misses the answer its turn wrote
\* only if the turn broke off.  And once the turns of a thread are over, its
\* terminal state is that of its checkpoint, unless two of them ran at the same
\* time, one broke off or the state could not be read or written.
OutcomeIsTold ==
  /\ \A s \in answered \ shown : At(s, "closed") => Had(s, "broke off")
  /\ \A t \in Thread :
       LET turns == {s \in Stream : threadOf[s] = t /\ ~ At(s, "new")}
       IN  /\ turns # {}
           /\ \A s \in turns :
                /\ At(s, "closed")
                /\ \A b \in turns : ~ Overlapped(s, b)
                /\ \A what \in Mishap \ {"not persisted", "reply lost"} : ~ Had(s, what)
           => (terminal[t] = "COMPLETED"
                 <=> \/ checkpoint[t].route \in {"troubleshoot", "replace_part"}
                     \/ checkpoint[t].override)

============================================================================
