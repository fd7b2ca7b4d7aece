# Verification of the Logging-Audit service

TLA+ models, TLC runs and TLAPS proofs about the audit trail and the diagnostic
workflow of this repository. Paths below are relative to `src/`.

The service answers technicians' questions about equipment. A question is one
turn of a thread: a LangGraph of twelve nodes retrieves manual chunks, asks an
LLM for root causes, safety protocols and a repair plan, and scores the answer.
Every step is logged in a hash chain, ingested documents are registered in
another, an auditor replays the log against a reference process model, and an
offline experiment injects failures to see whether the audit notices.

## 1. Inventory

| Part | State | Operations | Correct when |
|---|---|---|---|
| Ingestion manifest (`audit/manifest.py`, `core/database.py` retry) | `ingestion_manifest` rows: `entry_sequence`, `previous_hash`, `entry_hash` | `append_manifest_entry` under `with_db_retry`; `verify_manifest_integrity`, whole or for one document | entries form one chain; a change is found where it was made; every call ends; delivery at least once |
| Execution log chain (`core/hash_chain.py`, `core/crud.py`) | `agent_execution_logs.record_hash`, one chain per trace | `bulk_insert_execution_logs`, `verify_chain_integrity` | a change or a gap is found |
| Failure injection (`eval/scripts`) | `backups.json`, the mutated tables | dealing failures and targets; apply, pause, revert, verify | a revert restores what the audit said before, or says that it did not |
| Diagnostic workflow (`pipeline/workflow.py`, `nodes.py`, `safety_judge_gate.py`, `state.py`) | `DiagnosticState`, kept from turn to turn by the checkpointer | twelve nodes with timeouts and fallbacks, six routing functions | plans rest on this turn's context and protocols; mismatches and unsafe methods are stopped or warned of; a plan without its safety protocols is sent back |
| Process-mining auditor and its readers (`audit/process_mining.py`, `api/routers/trace.py`, `eval/scripts/run_diagnostics.py`) | none; they read the log | token replay, variant matching, precision, decision mining, chi-squared | the replay accepts what the graph does; a turn's records name its variant; no transition is credited that nobody took |
| Stream session (`api/agent_manager.py`, `api/routers/diagnostics.py`, `pipeline/telemetry.py`) | the global `_active_thread_id`, edge records per thread, `batch_persisted` | `stream_graph`, `_persist_execution_logs`, edge records, terminal state, shadow dispatch | records are stored once, under the thread and response they belong to |
| Review task queue (`core/crud.py`) | `escalation_flags`, `review_verdicts`, the review columns of `diagnostic_threads` | create, claim, snooze, mark in review, resolve, verdict, bulk approval, flags | one owner, one closer, no task hidden for ever, no status nobody asked for |
| Shadow evaluation and metrics (`api/routers/evaluation.py`, `pipeline/custom_ragas.py`, `InlineEvaluator`, endpoints of `api/routers/diagnostics.py`) | `evaluation_metrics`, the task queue, review tasks | inline judge, dispatch by Cloud Tasks or a thread, webhook, patches, evaluate, escalate | badges only worsen, with a task and by the same thresholds; results arrive, on the row that is shown |
| Chunk links and feedback (`core/crud.py`) | `response_chunk_link`, `response_feedback`, `step_feedback`, `chunk_feedback_cache`, the blacklist | save and attribute links, vote, retract, recompute the score | a verdict is stored as asked; a score equals what the rows say; what was shown stays linked |
| Retrieval (`pipeline/tools.py`, `KnowledgeRetriever`) | none; reads documents and chunks query by query | selection, three modes of search, parent tables, neighbours, overview | hidden chunks stay hidden; one manual; reading order |
| Chunk grouping (`modules/chunk_grouping.py`) | none | groups, representatives, allocation | the context fits, and shows every section |
| Evaluation thresholds (`core/eval_config.py`) | a 300 s cache per process | `get_thresholds`, `invalidate` | one response is judged by one version |
| Badges and artifact classification (`pipeline/eval_logic.py`, `modules/review_priority.py`) | none | pure functions | equal to their definitions at the boundaries |
| Documents, rules, amendments, retractions (`core/crud.py`) | their tables | create, activate, retract, review | a document and its manifest entry agree |
| Audit metrics (`audit/*_metrics.py`, `eval/scripts`) | none | SQL aggregates, statistics | out of scope |
| Schemas, prompts, read-only routers, offline scripts, seed data | none that the others share | parsing, text, views | out of scope |

**Interactions.** `api/routers/diagnostics.py` starts `stream_graph`, which runs
the graph and collects each node's telemetry. The routing functions record edge
decisions in a process-wide dictionary. When the graph is done the records are
persisted in one chain, nodes first and edges last, the terminal state is
derived from the checkpoint, and a shadow evaluation is dispatched.
`InlineEvaluator` writes the metric row that the shadow evaluation patches and
that may open a review task; a verdict resolves the task. Ingestion and
document handling append to the manifest. The auditor and the metrics read the
tables afterwards.

**What is hard.** Concurrent appends to one chain; row locks taken after the
snapshot; retries of a commit whose reply was lost; state fields that survive a
turn; fallbacks that write fewer fields than the node they stand for; threads of
timed-out nodes that go on writing; a log whose order of insertion is not the
order of time; globals shared by concurrent streams; at-least-once delivery of
evaluations, patches that go to whichever row is the latest; rows that are loaded
without a lock and written later; scores summed up over several queries;
readers who know a turn by its records only;
curators who hide what a retriever is reading; campaigns killed between two
transactions. `PROJECT.json` lists each at its
line under `hazards`.

## 2. Plan

| Order | Module | About | State |
|---|---|---|---|
| 1 | `HashChain` | both chains and both verifiers as operators | done, proved |
| 2 | `ManifestChain` | the append transactions, interleaved, with retries | done, proved |
| 3 | `TamperEvidence` (uses `HashChain`) | what the verifiers say of a changed chain | done, proved |
| 4 | `ProcessGraph`, `WorkflowRouting`, `ProcessModel`, `DiagnosticWorkflow` | the auditor's model as abstract specification; the graph implements it | done, proved; the safety gate refuted |
| 5 | `StreamSession` (uses `HashChain`) | concurrent streams, edge records by global thread id, double persist, disconnects, terminal state | done, proved |
| 6 | `ReviewContract`, `ReviewTaskQueue` | the life of a task as abstract specification; the queue's transactions implement it but for stale writes | done, proved |
| 7 | `EvaluationBadges`, `ShadowEvaluation` | badges as operators; inline judge, dispatch, deliveries, patches, the threshold cache | done, proved, liveness checked |
| 8 | `FeedbackLedger` | verdicts with toggles and retries, links, the recomputed score | done, proved |
| 9 | `ManualRetrieval` | the retriever's queries against curators, chunk grouping | done, proved |
| 10 | `FailureInjection` (uses `HashChain`) | the campaign's commands with their kill points, reverts, their verification | done, proved |
| 11 | `TraceConformance` (uses `WorkflowRouting`, `ProcessGraph`) | what auditor, trace page and diagnostic procedure make of a thread's records | done, proved |
| 12 | documents, rules, amendments, source reports, anti-examples | life cycles; the manifest entry that a failed append leaves out | |
| 13 | MMR | against a reference definition over bounded inputs | |

Also planned: liveness of a stream session on a smaller instance, for which the
reads of the client and the scheduling of its generator have to be told apart.

## 3. The modules

**`HashChain`.** A digest is the sequence of the payloads it commits to: SHA-256
without collisions, and with no extension equal to the genesis value. That is
the only idealisation. `Hash` is `compute_record_hash` and the manifest's
`sha256(prev_hash + data_json)`; `VerifyManifest` is `verify_manifest_integrity`
with its `check_chain_linkage` flag (off when one document is read);
`VerifyChain` is `verify_chain_integrity`, which walks from the genesis hash
with its own recomputed hash, so everything behind a change is reported too,
where a comment (`core/crud.py:1536`) speaks of isolating the tamper point.

**`ManifestChain`.** `call[w]` is the transaction of writer `w`: `begin` before
the `SELECT ... ORDER BY entry_sequence DESC LIMIT 1 FOR UPDATE`, `waiting`
after its snapshot, `locked` once it owns the row. PostgreSQL's READ COMMITTED
rechecks a row it waited for only if the row was updated, and manifest rows never
are, so the call goes on with its snapshot's row. With an empty table there is
nothing to lock. `RetryOrRaise` is `with_db_retry`: connection errors repeat the
whole function, `LoseCommitReply` being the case where the commit took effect.
Other exceptions are raised at once without a trace and are left out, and so is
the waiting time between attempts.

**`TamperEvidence`.** The chains start as the writers leave them
(`ManifestOf`, `LogOf`; the edge records of a turn come after its node records
by id). One change is made: the two injections of `apply_injection.py` that
touch a chain, or a deletion or modification of a row; an ingestion may append
meanwhile. What is reverted, and in which order, is
`FailureInjection`'s. A database trigger blocks updates and deletes of manifest
rows (`schemas/ddl_dump.sql:103`, `core/models.py:875`); the injection disables it,
and the other changes are made without it, too: the chain is what finds them.

**`ProcessGraph`, `ProcessModel`.** `_ALLOWED_TRANSITIONS`, then as a
specification of its own, and `compute_process_fitness`' replay as an operator,
one record at a time.

**`WorkflowRouting`.** The edges of `pipeline/workflow.py` and the routing
functions behind the conditional ones, as operators over the state. Two modules
run them: `DiagnosticWorkflow`, whose nodes compute, and `TraceConformance`,
whose nodes only log.

**`DiagnosticWorkflow`.** One action per node, its timeout included:

| Node (`pipeline/nodes.py`) | Timeout | What the timeout leaves |
|---|---|---|
| `intent_router` | 120 s | route `troubleshoot` |
| `unsafe_method_gate` | 10 s | route `troubleshoot`, no warning |
| `knowledge_retriever` | 90 s | manuals and image map empty; chunk ids, scores, groups and context of an earlier turn |
| `root_cause_analyzer` | 120 s | a root cause saying so |
| `repair_planner` | 600 s | a response with the id `timeout`; the retry counter is not written |
| `followup_responder` | 60 s | nothing: an earlier turn's response |
| `inline_evaluator` | 200 s | nothing |

`state` holds each field by the turn that wrote it and what the routing tells
apart; without chunks, `retrieved_manuals` may still hold a manual's overview. A timed-out node's thread is not cancelled: `late` holds what it will
still write to `response_chunk_link` and `evaluation_metrics`. LLM answers and
retrieval results are nondeterministic. `DeterministicRuleChecker`, the
analyzers and `SafetyExtractor` catch their own failures and have no timeout.
`Abandon` is a raise or a disconnect between two nodes. The turns of one thread
are sequential; concurrent streams belong to `StreamSession`. A planner's
response id `timeout` exists in this module only.

**`StreamSession`.** One server process. FastAPI runs the generator of each
request in its thread pool, so a step of a turn may interleave with any step of
another, of the same thread or not. `session[s]` holds the local variables of
`stream_graph` for request `s`; `active` is the global `_active_thread_id`,
`store` the dictionary of edge records, `checkpoint` what the graph saved of each
thread, `log[s]` the rows whose `chain_id` is the trace of `s`, with the hashes
of `HashChain`.

| Action | Code |
|---|---|
| `Begin` | `set_edge_telemetry_thread_id`; the graph loads the checkpoint |
| `ReadActive`, then the routing in `IntentRouter`, `DeterministicRuleChecker` or `FailAfterRouting` | `record_edge_decision` reads the global before it takes the lock |
| `Answer`, `InlineEvaluator`, `GraphEnds` | the update events, the buffered plan, its flush and the defensive flush |
| `BreakOff`, `FailAfterRouting` | a node or the checkpointer raises, or the client disconnects at a `yield`: the `finally` block |
| `ReadCheckpoint` | `get_state` and `dispatch_shadow_eval` |
| `CollectEdges`, `CommitLogs`, `LoseCommitReply`, `FailInsert` | the persist, in the session and in its `finally` block, under `with_db_retry` |
| `UpdateTerminal` | the terminal state, `COMPLETE`, and the `finally` block that follows |

The turn is reduced to four steps: `IntentRouter`, the rules, the nodes that
answer as one, `InlineEvaluator`; a response is named by the turn that made it.
`mishaps` and `overlaps` record what went wrong and which turns ran at the same
time, for the properties only. Logging is taken to be enabled
(`AUDIT_LOGGING_ENABLED`) and a timestamp to be read back as it was hashed. The
record that the dispatch itself logs, outside of every chain, is left out.

**`ReviewContract`, `ReviewTaskQueue`.** `ReviewContract` is the life of one task
as the docstrings of `core/crud.py` tell it: created, claimed by one expert,
snoozed with a date, started, closed once. In `ReviewTaskQueue` the functions
run as they are written. `claim_review_task` and `resolve_review_task` lock the
row they read, so they are one step; so are the single `UPDATE` and `INSERT`
statements. The others load a row, set attributes and commit, with any call
between: `SnoozeReviewTask`, `MarkInReview`, `CreateTask`, `SetThreadFlag` and
`UpdateThreadReviewStatus` open a `call` that holds what was loaded and what is
wanted, and `CommitTask`, `CommitThread`, `CommitInsert` write it. `Merge` is
SQLAlchemy's `UPDATE`, which has only the columns whose value differs from the
one loaded. `raced` and `overruled` mark rows on which a commit went over a
change it had not read; `holder` and `closer` are what the callers were told, or
not told when a reply is lost (`heard`). They are read by the properties only.

**`EvaluationBadges`, `ShadowEvaluation`.** `EvaluationBadges` has
`classify_artifact`, `is_plan_failure`, `compute_quality_badge`, the step
agreement and the priorities as operators over percentages.
`ShadowEvaluation` follows one response:

| Actions | Code |
|---|---|
| `JudgeResponse`, `SkipResponse`, `InsertRow`, `SetThreadFlag`, `FileInline`, `Return`, `TimeOut` | `InlineEvaluator`, whose thread goes on after the timeout |
| `Dispatch`, `Deliver` | `dispatch_shadow_eval`: the task queue, which delivers at least once, or a thread when it cannot be reached |
| `ScoreRun`, `FileEscalation`, `CompareSteps`, `PatchRow`, `Reply`, `Die` | `_execute_shadow_eval` in the webhook or in the thread |
| `EvaluateThread`, `InsertEvaluation`, `PatchEvaluation`, `Escalate` | the endpoints of `api/routers/diagnostics.py` |
| `UpdateEvaluationConfig`, `Expire`, `GetThresholds` | `core/eval_config.py` and its cache per process |

Inserts append a row to `evaluation_metrics`; patches go to the row with the
highest id, whichever that is by then. What goes wrong is one of eleven kinds of
`Mishap`, each with its own effect. The shadow evaluation gets the repair steps
only, so an answer or a root cause yields no scores (`HasText`).

**`FeedbackLedger`.** One response, its links, the verdicts on it and its steps,
and the scores of its chunks. `Begin`, `Read`, `Return`, `Fail`, `Drop` and
`LoseReply` are `create_response_feedback` and `create_step_feedback` under
`with_db_retry`; the same thumb or flag given again withdraws it, so running such
a call twice is not the same as once. `meant[k]` is what the calls on item `k` would leave if
each ran once, one after the other; `disturbed` are the items on which two calls
overlapped or a toggle ran again after its reply was lost.
`recompute_chunk_feedback_cache` is a step per query and one to store
(`ReadLinks`, `ReadUp`, `ReadDown`, `ReadSteps`, `LoadScore`, `Store`); rows may
change between them, and `Tally` is the sum over the tables at one moment.
`fresh` are the chunks whose score nothing has made stale since. Every verdict
has the weight one; sums are in hundredths.

**`ManualRetrieval`.** `KnowledgeRetriever` in its three modes, query by query:
`SelectDocument`; `SearchChunks`, `RankChunks` and `ExpandTables` of every query,
which run in threads and may fail; `ExpandNeighbours` of a scoped search;
`WalkThrough`; `PrependOverview`; `GroupChunks` with the groups, representatives
and allocations of `modules/chunk_grouping.py`. `Curators` blacklist chunks and
withdraw or delete documents in between. Which chunks are nearest is
nondeterministic. `hidden` and `withdrawn` are what has been out of sight ever
since the retrieval began. What a query may return is any list of its rows that
agrees with its `ORDER BY` (`Orderings`); where the code sorts or picks out of a
list, `Listing` puts each member at the place given by the number of those before
it. The node's timeout is in `DiagnosticWorkflow`. Its initial states, steps and
variables have names of their own (`RetrievalInit`, `RetrievalSpec`), because
`DocumentProofs` extends this module and `ManifestChain`.

**`FailureInjection`.** The campaign of `eval/scripts`. `Assignments` are the
deals of `randomize_failures`; a command applies the mutations one transaction at
a time (`ApplyNext`), aborts on an error (`Abort`), writes `backups.json`
(`SaveBackups`), ends there with `--apply-only` or waits, and reverts
(`RevertNext`, `EndRevert`). `Kill` may fall between any two transactions; a
transaction may fail; an ingestion may append (`AppendEntry`). `AllReverted` is
`verify_reverts`. `muddled` says that an apply phase was cut before its backups
were written, or took its backups of a database that was mutated already.

**`TraceConformance`.** The turns of a thread as walks through the graph of
`WorkflowRouting`, the records they leave, and three readers of these records.

| Definition | Code |
|---|---|
| `Run`, `TimeOut`, `SkipEvaluation`, `Abandon` | a node logs under its name, under its function's name, not at all, or the turn ends before it |
| `EdgeRow`, `DispatchShadowEval` | `record_edge_decision`; the record a dispatch logs after its turn, or into the next |
| `PageRows` | `get_trace`: the names of the whole thread, each once |
| `ScriptRows` | `_step1_overview`: every name but those of edges |
| `TraceRows`, `ProcessFitness`, `ProcessPrecision` | the auditor, trace by trace |
| `Hops`, `Step` | the transitions of such a sequence from `__START__` to `__END__`, repeats dropped |
| `MatchTraceVariant` | `match_trace_variant`, and its copy in `run_diagnostics.py` |

`walk` holds what each turn ran and `mishaps` what went wrong; only the properties
read them. The walks have no retry by the safety judge, whose gate passes every
plan (`NeverSentBack`). `FunctionName` are the seven nodes with a timeout.
What a reader extracts is a set of positions in `records`, and a transition is a
pair of them with no other between: a list in the order of time is decided by its
positions, and neither a fold nor a recursion is needed to replay it. The initial
states, the steps and the log have names of their own (`ConformanceInit`,
`ConformanceSpec`, `records`), because `AuditProofs` extends this module and
`TamperEvidence`.

`PROJECT.json` maps every definition to its lines. Definitions that begin with
"Mutant of" in their comment are plausible errors of the definition after them;
putting one in its place makes the property named there fail in its run.

## 4. What the runs show

| Run | Shows | States |
|---|---|---|
| `manifest_concurrent` | two writers, two events, two attempts, drops and lost replies anywhere: the manifest stays a tree; only overlapping calls fork it; each call ends | 1.6 k |
| `manifest_fork` | **violated**: two appends without any failure fork the manifest | |
| `tamper_evidence` | each single change to up to four entries or two turns, with an append meanwhile: where each verifier reports it, read whole or by document, but for the removal of an end, which none reports | 2.7 k |
| `failure_injection` | every deal of failures to five sessions, up to three commands killed between any two transactions, one failing transaction, one append: a revert that reports no error restores tables and verdicts; an abort undoes what it applied; `backups.json` holds every original; `verify_reverts` tells the truth; each with the exceptions it names | 2.0 M |
| `workflow_safety` | two turns, every route, timeout, abandoned turn and late thread: what a plan rests on, mismatches and unsafe methods, what is stored, and that the graph implements the auditor's process model | 2.0 M |
| `safety_gate` | **violated**: a plan that covers none of its safety protocols passes the safety judge | |
| `stream_sessions` | two requests in every interleaving with up to two mishaps: turns mix only when they overlap; every trace verifies; records reach the log also when a turn breaks off, and twice only after a lost reply; logs and evaluations name another turn's response only if the turn wrote none or shared the thread with a turn that ran meanwhile; the client misses an answer only of a turn that broke off, and the terminal state follows the checkpoint | 1.4 M |
| `review_queue` | two experts and a task, reads and writes apart, connections that drop: one owner and one closer always, and a row that names the owner; the life of the contract, the return of snoozed tasks and the reviewer's status, unless an unlocked call committed over a change it had not read | 2.1 M |
| `shadow_evaluation` | a response through inline judge, dispatch, executions, endpoints, an override and a change of thresholds, with one mishap of eleven kinds: badges only worsen, agree with their row's scores, and cost a review task; one version of thresholds; results are on the row that is shown, and arrive | 589 k |
| `feedback_ledger` | one user at two requests, retractions, retries, links saved and attributed, a score recomputed query by query: the verdict asked for is stored; retractions stay; links stay; an undisturbed score is exact | 1.7 M |
| `retrieval` | the three modes over two manuals while curators edit between the queries: nothing of a withdrawn document is handed on, and nothing blacklisted but as a neighbour or as a summary in the overview; the context fits and shows every section; one manual; reading order, but for the first leaf | 268 k |
| `trace_conformance` | two turns of a thread, up to two timeouts or abandoned turns, silent evaluators, late dispatch records: the page of a first turn conforms if and only if the auditor's replay does, and names the variant the evaluation's queries expect, with the exceptions it names; a later turn's page does as long as it went the way of those before; the auditor counts what undisturbed turns did and credits what nobody took only at a gap in the records | 499 k |

The type invariant of a module is checked by the proof where there is a theorem
`TypeCorrect`, and is the written type of the variables in the others. Properties state their exceptions in the formula (a
timeout, an overlap, a lost reply), never in the model, and each exception is
one that the runs reach.

**Bounds.** *Manifest*: two writers (a third waits as the second does), two
events with two attempts: forks at genesis and behind it, a fork of a fork, a
repeated entry beside a fork. The code has five attempts; the second is the first
that follows a failure. *Tampering*: `MaxEntries` 4 gives the first, the last and
two interior rows; `MCHistories` are logs whose last record in time is, and is
not, the last by id. *Campaign*: five sessions, so that one failure type is
dealt twice; two of them share a document, two a thread, and one has nothing to
inject into. Three commands are an apply, a second one over it, and a
revert. *Workflow*: `MaxTurns` 2, because a field is of this turn or of an
earlier one; one instruction gives the four combinations of extracted and
covered; `safety_gate` needs one turn. *Streams*: two requests, of one thread or of two, because state is
shared pairwise; `MaxMishaps` 2, so that a mishap meets the recovery from
another; `MaxAttempts` 2, a retry and giving up. `Routes` has one route that
ends `COMPLETED` and buffers its plan and one that does neither. *Review*: two
experts, one task (tasks share only the thread's row), `MaxTime` 1, so a date
has come or has not, and `MaxEdits` 2 calls that change the thread. *Shadow*: two
steps, two versions, `MaxMishaps` 1, so two executions; one process, whose cache
can be stale against the table. *Ledger*: one user, two requests, one worker,
two chunks of which one is scored, one step; `Asked` leaves out `ACCEPT`,
`INCORRECT` and `SKIP`, which behave as `MODIFY` does but for their polarity; two
attempts, two calls, one drop. *Retrieval*: one query, three candidates, two
kept, groups of two, a context of three, two edits; the larger manual has two
leaves, a table of two rows and a summary, so that a table is found through
either row and neighbours exist on both sides. *Traces*: two turns, because
readers merge a turn with those before it; `MaxMishaps` 2 counts timeouts and
abandoned turns, one in each turn or two in one, while silent evaluators are
unbounded; `MinSessions` 1, so that every log is reported on.

Symmetry is used in `stream_sessions`, `review_queue` and `feedback_ledger`,
which check safety only. `review_queue` and `feedback_ledger` check for deadlock;
the other runs say `CHECK_DEADLOCK FALSE`, because their events, turns, sessions
and commands are bounded: when all are used, the system rests.

**Fairness.** `ManifestChain!FairSpec`: a thread inside a call goes on
(`Proceed(w)` weakly fair); nothing makes a caller start one, and dropped
connections are never required. `ShadowEvaluation!Fairness`: the inline thread, the dispatch after
the graph, the queue's delivery and each execution go on (`Evaluator`,
`Dispatch`, `Deliver`, `Shadow(r)` weakly fair); endpoints, admins, the expiry of
a cache and everything that goes wrong are not. The other modules state no
fairness: their properties are safety, and where something has to have happened
they say it of a session that is closed or a command that has ended.

## 5. What is proved

All theorems hold for every value of the constants under the named assumptions:
`AttemptsAssumption` (at least one attempt), `TamperedAssumption` (no payload
looks like the tamper mark), `TurnsAssumption` (at least one turn),
`NoTextAssumption` (the missing text is no instruction), `ProtocolsAssumption`
(finitely many instructions), `StreamAssumption` and `RoutesAssumption` (at least
one attempt; no request or thread is the missing one; routes are those of the
graph), `QueueAssumption` (no expert is the missing one), `EvaluationAssumption`
(finitely many steps; thresholds and scores are percentages) and
`LedgerAssumption` (the marks for a whole response and for a missing label are
none), `PayloadAssumption` (payloads are told apart by numbers; at least one
entry), `HistoriesAssumption` (one or two turns of node and edge records, in any
number and order) and `CampaignAssumption` (payloads are numbers; at least as many
sessions as failure types, each with a document that has an entry and a thread with
three rows or more; a missing file is no list of backups), `ConformanceAssumption` (at
least one turn; the bounds on mishaps and sessions are numbers) and `RetrievalAssumption`
(finitely many chunks; a table is of the document of its rows; the limits of search
and grouping are positive, and a group shows no more than it holds; ids and indices
are numbers, and what is missing is none).

*`DocumentProofs`.* Of the manifest: `TypeCorrect` is inductive with the fact that a call's
tail is a row that exists. `Descends`: rows are only appended and a call's tail
is an earlier row, so the manifest is a tree under any interleaving.
`SerialLinear`, for which there is no run: the manifest alone is not inductive;
`SerialInv` adds that a single writer's tail is still the last row.
`OverlapForks`: `UnoverlappedIsLast` says that a call nobody committed past still
holds a row with the highest number; the action property follows.

Of the retriever: `RetrievalTypeCorrect` is inductive with `Phases`, what there is
at each stage. `HiddenChunksStayHidden` and `RetrievalKeepsToOneManual` are one
invariant, `Provenance`: what has been hidden all the time is hidden now
(`Withheld`), so that no later query shows it; what a search holds was shown, and of
the selected manual, when it was found (`Found`); and what is handed on keeps this
through the swap of rows for tables (`MergedKeeps`), the neighbours
(`NeighboursKeep`), the walkthrough and the overview, where each exception of the
properties enters. The overview needs that a selected document is not among the
withdrawn: it was READY when it was selected. `ScopedSearchReadsInOrder`: sorting is by rank, and `ListingProperties` says
that the ranks of a strict order on a finite set are the numbers up to its size, each
once, a pigeonhole again; the keys of what is sorted then never decrease
(`SortedProperties`, `KeysInOrder`), but for the missing index and the 0 that is taken
for one. `GroupedContextFits` is about rounding. The portions are cut off and what is
left of the context is given to the first buckets, one each. `SharesFit` needs no sum
over buckets for it: further entries shown, times the size of all groups, are mapped
injectively into the groups' entries, times what is left, and cardinalities compared. Every bucket gets one entry at least, and an
overfull context has one entry per bucket and no more (`GroupsFit`).

*`AuditProofs`.* Of the verifiers: `LinearVerifies`, `InteriorDeletionSeen`, `TruncationUnseen`
and `GapReported`: what the verifiers say of chains of any length, without
induction, because digests are sequences whose length is the position.
`TruncationUnseen` is why `ChangesLocated` says nothing of a removed end: neither
table keeps a count or a tail hash. `LocatesChanges`: `ChangeInv` says that a
manifest nobody changed is linear and that a changed one is linear up to the change
(`LinearUpTo`) and mismatches there, whichever way it is read. Entries appended later
cannot disturb that (`PrefixDecides`), although the first of them may be chained to
the tampered hash; the verifier names the least mismatch (`BreakLocated`). The log is
a `SoundThread` before its one change: each trace is a run of consecutive ids whose
records commit to those before. The writers' order of insertion has to be shown to be
one: nodes first and edges last is a permutation of the turn (`OrderIsPermutation`), by
`NthProperties`, a pigeonhole over ranks, and the gap's target, the middle record in
time, exists (`MiddleExists`). `GapLocated` and `ChangeLocated` then follow trace by
trace.

Of the readers: `RecordsTellNames`, `GapsMislead` (`OnlyGapsMislead`) and
`PageTellsTurn` (`PageTellsTheTurn`), for any number of turns and of mishaps. Without
a retry every walk climbs through the graph, so each name has a `Level`.
`ConformanceInv` has three parts. `WalkInv`: the walks climb; each turn kept to the
ways of the graph (`Course`), is complete if it ended (`Complete`), and can go on from
where it stands (`Ahead`). `LogInv`: the records of a turn bear the names it should
have left, no others, in rising levels, and those of a later turn come after, while
dispatch records may fall anywhere. The types are the third. What a reader replays is
then decided by the set of names alone: the transitions between positions are those
between neighbours in level (`LadderOfRows`), and a walk is the ladder of its nodes
(`LadderOfWalk`). The properties become statements about sets of names: a name that is
missing lets through one of three transitions (`GapsHide`), a timeout elsewhere is seen
(`TimeoutsConform`), a complete turn conforms (`CompleteConforms`). Readers that find
the same names say the same (`NamesDecide`), which gives the page of a later turn that
went the way of those before (`PageTold`) and the script (`ScriptTold`); `LabelTold`,
`FirstLabelled` and `FirstConforms` are about the page of a first turn, whose label is
the variant or that of the one turn in which code and expectation disagree (`Names`).
The attempt corrected the model twice: guards of a `CASE` overlapped in
`LabelByHeuristics` and `Variant`, where TLA+ leaves the choice open and the code takes
the first, and a turn cut short was said to have taken a transition to `__END__`.

*`DiagnosticWorkflowProofs`.* `WorkflowFollowsProcessModel`: initial states map
to initial states and each node's routing function chooses an allowed
transition, whatever the state. `MismatchStopped`: `MismatchInv` keeps the route
`mismatch` along the only path a mismatch can be on. `UnsafeWarned`: `UnsafeInv`
says that an unsafe turn is warned, timed out at the gate, or unanswered and
still at the gate. `RiskHeeded` is both. `NeverSentBack`: `OnceInv`, with the lemma that the gate passes
every plan because a protocol has no `text`; so no turn plans twice, the retry edge
is dead, and `SafetyBlindSentBack` fails for any instruction that a plan may leave
out. `PlanGrounded`: `GroundInv` says what is prepared
before each of the nodes on the way to a plan; it needs `OnceInv`, as a plan sent
back would reach the planner without its chunks. `UndisturbedConform`:
`ConformInv` says that the node to run next is one the reference model allows
after the last record replayed, until a timeout leaves a node out of the log.
`RowsAreTraced`: `TracedInv` puts the condition on the rows that threads of
timed-out nodes have yet to write, and `AnswerInv` says what `InlineEvaluator` is
handed: this turn's answer, or this turn's plan with the manuals of this turn.

*`StreamSessionProofs`.* `TypeCorrect` needs `RoutesFromRouted`: a routing
function that has read the global stands before a node that routes.
`TurnsStayApart` is `OnlyOverlapMixes` for any number of requests. The log alone
is not inductive: `MixInv` adds that running turns have met (`OpenOverlap`), and
that what a running turn will find in the edge store, and what it has collected,
is its own or of turns it met (`StoreKnown`, `RecordsKnown`). It rests on `Begin`
clearing its thread's entry and on every append being by a running turn.
`TracesVerify`: `SoundLogs`, every row of a trace commits to the rows before it,
because a batch is hashed from the tail the same transaction read.
`RecordsAreLogged`: `RecordInv` adds that a record is made once and is in one place
at a time (`Unique`), that a trace with rows belongs to a session that inserts no
other batch unless a reply was lost (`LogOnce`), that a session which takes its
batch as persisted has it in the log (`Kept`), and where the routing of a turn that
runs alone is until it is collected (`OwnEdges`). `ResponsesAreOwn`:
`AttributionInv` follows a response from the checkpoint a turn began with to the
log and the dispatch. An earlier form of `AttributedToOwn` asked that the two turns
themselves overlap; two requests satisfy it, but the induction failed, because
with three the checkpoint of an overlapping turn brings back the response of one
that ended before both (`Justified` says so now). `OutcomesAreTold`: `ShownInv`, a
response that is not shown is buffered or its turn broke off, and `OutcomeInv`, the
checkpoint a running turn of a calm thread holds is the thread's.

*`ReviewTaskQueueProofs`.* `QueueInv` is the types, `CallsKnown` (what an open
call loaded and wants is of one kind) and `TaskInv` (`CloserClosed`: a task somebody
was told to have closed is resolved; `SnoozedDated`: a snoozed one has a date
unless it was raced; and what they add to `OneWinner` and `HolderIsOwner`). From it follow
`AtMostOneWinner` and `ClaimIsRecorded`, together `OwnerIsSure`, `HiddenTasksReturn`, `StatusIsAskedFor`, and `LifeOfATask`: each
step of the queue is a step of `ReviewContract`, a stutter, or a commit over a
change. The last is the refinement with its one exception, for any experts and
tasks.

*`ShadowEvaluationProofs`.* `InlineInv` relates the inline thread to the rows it
inserted, to the payload and to the executions: they carry one badge and one
version, or the inline evaluation timed out. `ShadowOnlyWorsens` and
`JudgedAlike` follow from it. `EscalationAsksFirst` adds `TaskInv`: an
execution that is past its filing has a task or a failed one. `BadgesCoherent`
needs `CoherentInv`: rows nobody has patched are as they were inserted, so that
the first patch is coherent and another one is a second. `LatestShown` needs
`ResultsInv`: unless the inline evaluator timed out or the endpoint inserted a
row, there are no results before the inline thread has made its last insert.

*`FeedbackLedgerProofs`.* `StoredAsAsked`: `VerdictInv` adds to the property that
on an undisturbed item at most one call is open, and that what it loaded is what
is stored, but for a retraction. `RetractionHolds` and `LinksKept` are about
single steps, from the statements a call may commit and from the branches of an
attribution. `ScoresAreExact`: `ScoreInv` says of every job that nothing was written
behind (`clean`) that its partial sum is what the tables give for the queries it has
made; a write clears the flag of every job (`ChangesForget`), and where no write falls
the tables, and so their sums, are the same (`TablesKept`, `SumsKept`).

*`FailureInjectionProofs`.* What a failure may change is an item, and `Snapshot`
gives every item a value (`At`). `Covers(db, first, backups)` says that the backups
hold the first value of each item that differs. `CoverInv` has it of an apply phase,
against the database it found, and of `backups.json`, against the database before
the campaign; it holds through a shared entry, where the second backup is of a
mutated value, because the first is still there. `OriginalsCovered` follows.
`TrueInv` needs `NoSharedEntry`: no item is written twice in a phase
(`FirstWrite`), so every backup is of the first value, and what a revert has not
brought back is ahead of it. `EndInv` carries this to the end of a command:
`AbortUndone` and `Restored`. The second also needs `ManifestInv`: entries appended
meanwhile are sound, and marked only if the first of them was chained to a tampered
hash. `VerdictHolds` is `CoverInv` in one direction and `TrueInv` in the other.

**Only model-checked.** The proof system proves no liveness under fairness, no
`ENABLED`, no induction over data and nothing in a module with recursive
operators. `CallsEnd` and `ResultsArrive`, the two liveness properties,
therefore stay with TLC. That every turn of the workflow ends is not stated: with the
retry edge dead, the graph that can be walked has no cycle. Every other property of
a passing run is stated by a theorem.

## 6. Findings and observations

Two runs show a disagreement between the code and its own words. Overlapping
appends fork the manifest, and the verifier then calls it broken without tampering
(`audit/manifest.py:40`; `manifest_fork`). The safety judge reads `text` where
protocols have `instruction` (`pipeline/safety_judge_gate.py:43`), so it passes every
plan, "safety-blind" ones too, and the retry edge is dead (`safety_gate`,
`NeverSentBack`). Reading that field is not enough of a repair: a planner that times
out leaves the retry counter as it is, so nothing would bound the retries of a gate
that fails.

What follows was met while modelling. The models do what the code does, and the
exceptions in the properties are these cases.

*Workflow.* The fallback of `knowledge_retriever` leaves chunks of
an earlier turn, which the quality gate accepts (`pipeline/nodes.py:367`).
`replace_part` skips the root cause analysis, and the planner quotes
`root_causes[0]` of an earlier turn (`pipeline/nodes.py:1084`). Follow-ups whose
evaluation is skipped log no evaluator, so the replay rejects them
(`pipeline/nodes.py:1765`). The chunks a step cites are never put on it
(`pipeline/nodes.py:1461`): by then the image sidecar has made every step a record.

*Readers of the log.* The trace page lists each node of the whole thread once, so
`InlineEvaluator` keeps its place in the first turn and a follow-up seems to end
before it: a deviating edge and no variant (`api/routers/trace.py:306`), where
`audit/process_mining.py:51` has follow-ups "always" end at `InlineEvaluator`. A
corrected unsafe request that runs the replacement analyzer fits the signature
`replace_part`, which is tried first (`audit/process_mining.py:109`);
`eval/scripts/run_diagnostics.py:63` and query #7 of
`eval/generation/eval_queries_coverage.md` expect `unsafe_method_redirect`. `Variant`
takes their side, and `Names` lets the code's label pass in this one case. The same
script leaves out edges but not the record of the shadow evaluation's dispatch, so
a dispatched session deviates and is `unknown` (line 199). Decision mining asks for
three edges the graph does not have and misses `route_from_unsafe` and
`route_from_knowledge` (`audit/process_mining.py:360`), where its docstring speaks
of each conditional edge.

*Logs.* Edge decisions are recorded under the thread of the latest request
(`pipeline/telemetry.py:51`). A thread is `COMPLETED` by its route, so an answered
follow-up is left in progress (`api/agent_manager.py:465`). A gap at the end of a
chain is not seen (`TruncationUnseen`), although `core/hash_chain.py:5` speaks of
"any tampering or gap": the gap experiment itself makes one when the middle record in
time is the last by id, as in a follow-up without an evaluation, whose one edge record
is inserted last. Nor is the removal of the manifest's first or last entry, where
`audit/manifest.py:5` has "any deletion or modification" break the chain.

*Review.* `resolve_review_task` is documented to prevent concurrent verdicts
(`core/crud.py:3414`), but the verdict is written by another transaction before
it: two experts may each write one, and one of them closes the task.
`claim_review_task` also takes a snoozed task, from its owner too. A snooze reopens
a resolved task.

*Evaluation.* The shadow evaluation gets the repair steps only and scores the
error text of a failed plan; for an answer or a root cause it has no scores at
all, the keys fall back to all of them and the badge is gray, where a comment
(`api/routers/evaluation.py:372`) means to avoid just that.
`async_safety_coverage` is always null. `evaluate_thread` treats a failed lookup
as no rows and inserts one.

*Feedback.* A lost reply makes a thumb, or a flag, withdraw the verdict it had
stored. A retraction does not survive withdrawing the verdict and giving it anew.
A link stored twice counts a step's verdict twice.

*Retrieval.* The first leaf of a manual, whose `sequence_index` is 0, is sorted
behind all others by `or 9999` where reading order is meant
(`pipeline/nodes.py:572`). Neighbours are fetched without looking at the blacklist
(`get_chunks_by_sequence_indices`, `core/crud.py:727`), and so are the summaries of the
overview (`get_document_summaries`, `core/crud.py:815`), which the planner is given
when there is no grouped context (`pipeline/nodes.py:1109`), where
`api/schemas.py:636` speaks of chunks flagged out of retrieval. The selection of the
document does not look at the blacklist either. Results are told apart by the first 80 characters
of their text (`pipeline/nodes.py:469`), much of which may be a common header. A
row that is replaced by its table keeps the row's id.

*Campaign.* Two sessions that tamper with the first entry of one document leave
the tampered hash after a revert in forward order; `verify_reverts` then never
passes. An abort in that case leaves it without a `backups.json`. A command killed
while it applies loses the originals; run again, it may store mutated scores as
originals, with which `verify_reverts` is content. A second session on a thread
whose middle record is gone fails and aborts the campaign. An ingestion during
the campaign may chain to a tampered hash and is invalid after the revert.

## 7. Not modelled

*Left out of modelled parts.* The node timeout of the retriever is in
`DiagnosticWorkflow` and not in `ManualRetrieval`. `ShadowEvaluation` takes a
thread of one response and each patch as atomic. `FeedbackLedger` leaves out
source reports, blacklist candidates and the reads for the dashboard, and takes
every weight as one. `StreamSession` leaves out the `GET` path over pending
inputs, thread lists and history, which read only. `FailureInjection` leaves out
the selection of sessions and the scoring, which read and write files.

*Without callers in `src/`.* The notifications of `core/crud.py`,
`compute_safety_badge`, `composite_badge` and the SLA hours. Several functions of
the review queue and of the ledger are called by no router yet; they are
modelled as the interface they are.

*Planned.* Documents, rules, amendments, source reports and anti-examples; decision
mining, which is a chi-squared test over the edge records of all sessions; MMR and
`safety_augmented_search`.

*Data.* Scores, embeddings, prompts, image binding and the wording of answers are
chosen nondeterministically or reduced to what the properties tell apart.

*Out of scope.* SQL aggregates and one-off scripts without shared state; request
schemas and read-only routers but for the node sequence of the trace page; generated and seed data; connection pools and the
waiting times of retries; the checkpointer's own storage, assumed to return what
the nodes wrote; the trigger of `schemas/ddl_dump.sql:103`.
