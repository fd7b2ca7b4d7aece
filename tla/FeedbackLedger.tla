-------------------------- MODULE FeedbackLedger ---------------------------
(***************************************************************************)
(* What core/crud.py keeps about one response: the chunks it drew from     *)
(* (response_chunk_link), the verdicts of its users on the whole and on    *)
(* its steps (response_feedback, step_feedback), and the score of every    *)
(* chunk summed up from both (chunk_feedback_cache).                       *)
(*                                                                         *)
(* The functions read, decide and commit with other calls in between, and  *)
(* with_db_retry runs a function again when the connection drops, whether  *)
(* or not the commit had arrived.                                          *)
(***************************************************************************)
EXTENDS Integers, FiniteSets, Bags, Functions

CONSTANTS
  User,
  Client,       \* requests that run side by side; any of them may be any user's
  Worker,       \* runs of recompute_chunk_feedback_cache
  Chunk,        \* every one of a document of its own
  Scored,       \* bound: the chunks recompute_chunk_feedback_cache is called for
  Step,         \* step_index
  Whole,        \* the item a response_feedback row is about
  Label,        \* the grounding labels
  Bare,         \* step_index or grounding_label is NULL
  Weighs,       \* _GROUNDING_WEIGHT, in tenths
  Asked,        \* bound: the verdicts users send
  MaxRefs,      \* bound on how often one verdict of the judge names a chunk
  MaxAttempts,  \* stop_after_attempt
  MaxCalls,     \* bound on the calls of the clients
  MaxDrops      \* bound on the dropped connections

ASSUME LedgerAssumption ==
  /\ Whole \notin Step /\ Bare \notin Step /\ Bare \notin Label
  /\ Scored \subseteq Chunk
  /\ Weighs \in [Label -> 1 .. 10]
  /\ MaxRefs \in Nat /\ MaxCalls \in Nat /\ MaxDrops \in Nat
  /\ MaxAttempts \in Nat \ {0}

VARIABLES
  present,  \* the chunks that exist
  links,    \* response_chunk_link, a bag
  saves,    \* what may be saved yet: the plan's chunks, the judge's verdict
  row,      \* response_feedback and step_feedback
  cache,    \* chunk_feedback_cache
  call,     \* what every client is doing
  job,      \* what every worker is doing
  serial,   \* ids given out
  calls, drops,
  \* What has happened; no code reads these.
  meant,      \* every item's verdict, had its calls run once and one by one
  disturbed,  \* the items whose calls did not
  fresh       \* chunks whose score nothing has made stale since

vars == <<present, links, saves, row, cache, call, job, serial, calls, drops,
          meant, disturbed, fresh>>

----------------------------------------------------------------------------
(***************************************************************************)
(* Data.                                                                   *)
(***************************************************************************)

Key == User \X (Step \cup {Whole})

FeedbackType == {"THUMBS_UP", "THUMBS_DOWN"}

StepFeedbackAction == {"ACCEPT", "MODIFY", "INCORRECT", "SKIP"}

\* action is None: the toggle of the older frontend.
Toggle == "flag"

None == "none"

Asks(k) ==
  IF k[2] = Whole THEN FeedbackType ELSE StepFeedbackAction \cup {Toggle}

Verdict == FeedbackType \cup StepFeedbackAction \cup {Toggle}

NoRow == [id |-> 0, is |-> None, retracted |-> FALSE]

Row == [id : Nat, is : Verdict \cup {None}, retracted : BOOLEAN]

Link == [chunk : Chunk, step : Step \cup {Bare}, label : Label \cup {Bare}]

BareLink(c) == [chunk |-> c, step |-> Bare, label |-> Bare]

Linked(c) == \E l \in BagToSet(links) : l.chunk = c

\* One verdict of the judge: a step, its label, and how often it names each
\* chunk; the sources it cites in free text resolve to any chunk, or to none.
Attribution ==
  [step : Step, label : Label \cup {Bare}, refs : [Chunk -> 0 .. MaxRefs]]

Score == [positive : Nat, negative : Nat, for : Nat, against : Nat]

NoScore == [positive |-> 0, negative |-> 0, for |-> 0, against |-> 0]

Uncached == [positive |-> 0, negative |-> 0, for |-> 0, against |-> -1]

Idle == [at |-> "idle"]

Call ==
  {Idle}
  \cup [at : {"read"}, key : Key, asks : Verdict, attempt : 1 .. MaxAttempts]
  \cup [at : {"commit"}, key : Key, asks : Verdict, attempt : 1 .. MaxAttempts,
        loaded : Row]

Job ==
  {Idle}
  \cup [at : {"links", "up", "down", "steps", "load"}, chunk : Chunk, sum : Score,
        clean : BOOLEAN]
  \cup [at : {"store"}, chunk : Chunk, sum : Score, clean : BOOLEAN,
        loaded : Score \cup {Uncached}]

TypeOK ==
  /\ present \subseteq Chunk /\ fresh \subseteq Chunk
  /\ IsABag(links) /\ BagToSet(links) \subseteq Link
  /\ saves.plan \subseteq SUBSET Chunk /\ saves.verdicts \subseteq Attribution
  /\ row \in [Key -> Row]
  /\ cache \in [Chunk -> Score \cup {Uncached}]
  /\ call \in [Client -> Call]
  /\ job \in [Worker -> Job]
  /\ serial \in Nat /\ calls \in 0 .. MaxCalls /\ drops \in 0 .. MaxDrops
  /\ meant \in [Key -> Verdict \cup {None}]
  /\ disturbed \subseteq Key

Init ==
  /\ present = Chunk /\ fresh = {}
  /\ links = EmptyBag
  /\ saves = [plan |-> SUBSET Chunk, verdicts |-> Attribution]
  /\ row = [k \in Key |-> NoRow]
  /\ cache = [c \in Chunk |-> Uncached]
  /\ call = [x \in Client |-> Idle]
  /\ job = [w \in Worker |-> Idle]
  /\ serial = 0 /\ calls = 0 /\ drops = 0
  /\ meant = [k \in Key |-> None]
  /\ disturbed = {}

\* The tables a score is made of change: no score is known to be exact.
Changes ==
  /\ fresh' = {}
  /\ job' = [w \in Worker |->
              IF job[w] = Idle THEN Idle ELSE [job[w] EXCEPT !.clean = FALSE]]

Dropped == drops < MaxDrops /\ drops' = drops + 1

----------------------------------------------------------------------------
(***************************************************************************)
(* save_response_chunk_links, called by RepairPlanner and InlineEvaluator, *)
(* which both only log a failure.                                          *)
(***************************************************************************)

\* The transaction: a link to a chunk that is gone fails it.
Adds(new) ==
  \A l \in BagToSet(new) : l.chunk \in present

\* The call returns, or its reply is lost and it runs again.
Saved(which, args, stored) ==
  /\ links' = stored
  /\ \/ saves' = [saves EXCEPT ![which] = {}] /\ UNCHANGED drops
     \/ saves' = [saves EXCEPT ![which] = {args}] /\ Dropped
  /\ Changes

\* Nothing was stored, and that is only logged.
NotSaved(which) ==
  saves' = [saves EXCEPT ![which] = {}] /\ UNCHANGED <<links, job, fresh, drops>>

SaveRetrieved ==
  /\ \E retrieved \in saves.plan :
       LET new == SetToBag({BareLink(c) : c \in retrieved}) IN
       \/ Adds(new) /\ Saved("plan", retrieved, links (+) new)
       \/ NotSaved("plan")
  /\ UNCHANGED <<present, row, cache, call, serial, calls, meant, disturbed>>

\* Mutant of Replaced: the filter on the chunks is left out.
ReplacedAll(attributed) == {BareLink(c) : c \in Chunk}

\* The bare rows that step-attributed rows replace.
Replaced(attributed) == {BareLink(c) : c \in attributed}

Without(bag, rows) ==
  [l \in BagToSet(bag) \ rows |-> bag[l]]

SaveAttribution ==
  /\ saves.plan = {}
  /\ \E v \in saves.verdicts :
       LET attributed == {c \in Chunk : v.refs[c] > 0}
           new == [l \in {[chunk |-> c, step |-> v.step, label |-> v.label] :
                             c \in attributed} |-> v.refs[l.chunk]]
       IN
       \/ /\ Adds(new)
          /\ Saved("verdicts", v, Without(links, Replaced(attributed)) (+) new)
       \/ NotSaved("verdicts")
  /\ UNCHANGED <<present, row, cache, call, serial, calls, meant, disturbed>>

\* delete_document: the links and the score of its chunk go with it.
DeleteDocument(c) ==
  /\ c \in present
  /\ present' = present \ {c}
  /\ links' = Without(links, {l \in BagToSet(links) : l.chunk = c})
  /\ cache' = [cache EXCEPT ![c] = Uncached]
  /\ Changes
  /\ UNCHANGED <<saves, row, call, serial, calls, drops, meant, disturbed>>

----------------------------------------------------------------------------
(***************************************************************************)
(* create_response_feedback and create_step_feedback.                      *)
(***************************************************************************)

\* The verdict a call leaves, of the one it found.
Becomes(asks, is) ==
  CASE asks \in FeedbackType -> IF is = asks THEN None ELSE asks
    [] asks = Toggle         -> IF is = None THEN Toggle ELSE None
    [] OTHER                 -> asks

OnKey(k) == {x \in Client : call[x] # Idle /\ call[x].key = k}

\* The plan is shown, and can be judged, once RepairPlanner has returned.
Begin(x, k, asks) ==
  /\ saves.plan = {}
  /\ call[x] = Idle /\ calls < MaxCalls
  /\ call' = [call EXCEPT ![x] =
       [at |-> "read", key |-> k, asks |-> asks, attempt |-> 1]]
  /\ calls' = calls + 1
  /\ disturbed' = IF OnKey(k) = {} THEN disturbed ELSE disturbed \cup {k}
  /\ UNCHANGED <<present, links, saves, row, cache, job, serial, drops, meant, fresh>>

Read(x) ==
  /\ call[x].at = "read"
  /\ call' = [call EXCEPT ![x] =
       [at |-> "commit", key |-> @.key, asks |-> @.asks, attempt |-> @.attempt,
        loaded |-> row[@.key]]]
  /\ UNCHANGED <<present, links, saves, row, cache, job, serial, calls, drops, meant,
                 disturbed, fresh>>

\* Mutant of Updated: every column as it was loaded.
UpdatedAll(now, loaded, is) == [loaded EXCEPT !.is = is]

\* UPDATE of the columns that changed, in the row as it is now.
Updated(now, loaded, is) == IF is = loaded.is THEN now ELSE [now EXCEPT !.is = is]

\* Mutant of Statement: a different verdict takes the old one away, too.
StatementWithdraws(loaded, asks) == IF loaded = NoRow THEN "insert" ELSE "delete"

\* The statement the call commits on the row it loaded.
Statement(loaded, asks) ==
  CASE loaded = NoRow               -> "insert"
    [] Becomes(asks, loaded.is) = None -> "delete"
    [] OTHER                        -> "update"

\* An INSERT breaks the unique constraint when the row exists by now; an UPDATE
\* of a row that is gone fails, a DELETE of one only warns.
Commits(c) ==
  LET now == row[c.key] IN
  CASE Statement(c.loaded, c.asks) = "insert" -> now = NoRow
    [] Statement(c.loaded, c.asks) = "update" -> now.id = c.loaded.id
    [] OTHER -> TRUE

Stored(c) ==
  LET now == row[c.key]
      is == Becomes(c.asks, c.loaded.is) IN
  CASE Statement(c.loaded, c.asks) = "insert" ->
         [id |-> serial + 1, is |-> is, retracted |-> FALSE]
    [] Statement(c.loaded, c.asks) = "update" -> Updated(now, c.loaded, is)
    [] OTHER -> IF now.id = c.loaded.id THEN NoRow ELSE now

Write(c) ==
  /\ row' = [row EXCEPT ![c.key] = Stored(c)]
  /\ serial' = IF Statement(c.loaded, c.asks) = "insert" THEN serial + 1 ELSE serial
  /\ Changes

Return(x) ==
  /\ call[x].at = "commit" /\ Commits(call[x])
  /\ Write(call[x])
  /\ call' = [call EXCEPT ![x] = Idle]
  /\ meant' = [meant EXCEPT ![call[x].key] = Becomes(call[x].asks, @)]
  /\ UNCHANGED <<present, links, saves, cache, calls, drops, disturbed>>

Fail(x) ==
  /\ call[x].at = "commit" /\ ~ Commits(call[x])
  /\ call' = [call EXCEPT ![x] = Idle]
  /\ UNCHANGED <<present, links, saves, row, cache, job, serial, calls, drops, meant,
                 disturbed, fresh>>

\* with_db_retry: the whole function again, or the error once too often.
Retried(c) ==
  IF c.attempt = MaxAttempts THEN Idle
  ELSE [at |-> "read", key |-> c.key, asks |-> c.asks, attempt |-> c.attempt + 1]

\* The connection drops before the commit arrives.
Drop(x) ==
  /\ call[x] # Idle
  /\ Dropped
  /\ call' = [call EXCEPT ![x] = Retried(@)]
  /\ UNCHANGED <<present, links, saves, row, cache, job, serial, calls, meant,
                 disturbed, fresh>>

\* The connection drops after the commit, before the refresh of the row.
LoseReply(x) ==
  /\ call[x].at = "commit" /\ Commits(call[x])
  /\ Dropped
  /\ Write(call[x])
  /\ call' = [call EXCEPT ![x] = Retried(@)]
  /\ meant' = [meant EXCEPT ![call[x].key] = Becomes(call[x].asks, @)]
  /\ disturbed' =
       IF call[x].asks \in StepFeedbackAction \/ call[x].attempt = MaxAttempts
         THEN disturbed ELSE disturbed \cup {call[x].key}
  /\ UNCHANGED <<present, links, saves, cache, calls>>

\* retract_response_feedback, retract_step_feedback.
Retract(k) ==
  /\ row[k] # NoRow
  /\ row' = [row EXCEPT ![k].retracted = TRUE]
  /\ Changes
  /\ UNCHANGED <<present, links, saves, cache, call, serial, calls, drops, meant, disturbed>>

----------------------------------------------------------------------------
(***************************************************************************)
(* recompute_chunk_feedback_cache: a turn of its loop, with a transaction  *)
(* of its own.  A list of chunks is so many turns; a dropped connection    *)
(* ends a turn and the retry starts turns again.                           *)
(***************************************************************************)

\* _ACTION_POLARITY, in tenths; 0 is left out of the sums.
Polarity(is) ==
  CASE is = "ACCEPT" -> 10 [] is = "INCORRECT" -> -10 [] is = "MODIFY" -> -5
    [] OTHER -> 0

\* Legacy rows have no label: _GROUNDING_DEFAULT_WEIGHT.
Weight(label) == IF label = Bare THEN 5 ELSE Weighs[label]

Counts(k) == row[k] # NoRow /\ ~ row[k].retracted

\* The plan-level rows of one type, every one of weight 1, in hundredths.
Votes(type) ==
  Cardinality({k \in Key : k[2] = Whole /\ Counts(k) /\ row[k].is = type})

WithUp(sum) == [sum EXCEPT !.positive = Votes("THUMBS_UP"),
                           !.for = 100 * Votes("THUMBS_UP")]

WithDown(sum) == [sum EXCEPT !.negative = Votes("THUMBS_DOWN"),
                             !.against = 100 * Votes("THUMBS_DOWN")]

\* The join of the step rows with the links of the chunk: a link stored twice
\* counts a step's verdict twice.
Joined(c) ==
  {kl \in Key \X BagToSet(links) :
    /\ Counts(kl[1])
    /\ kl[2].chunk = c /\ kl[2].step = kl[1][2]
    /\ Polarity(row[kl[1]].is) # 0}

Signal(kl) == Polarity(row[kl[1]].is) * Weight(kl[2].label)

\* abs
Magnitude(n) == IF n < 0 THEN - n ELSE n

WithSteps(sum, c) ==
  LET likes == {kl \in Joined(c) : Signal(kl) > 0}
      dislikes == Joined(c) \ likes
      rows == [kl \in Joined(c) |-> links[kl[2]]]
      sizes == [kl \in Joined(c) |-> links[kl[2]] * Magnitude(Signal(kl))]
  IN
  [positive |-> sum.positive + SumFunctionOnSet(rows, likes),
   negative |-> sum.negative + SumFunctionOnSet(rows, dislikes),
   for |-> sum.for + SumFunctionOnSet(sizes, likes),
   against |-> sum.against + SumFunctionOnSet(sizes, dislikes)]

\* The score the tables give the chunk when read at once.
Tally(c) ==
  IF Linked(c) THEN WithSteps(WithDown(WithUp(NoScore)), c) ELSE NoScore

Becoming(w, j) ==
  /\ job' = [job EXCEPT ![w] = j]
  /\ UNCHANGED <<present, links, saves, row, cache, call, serial, calls, drops, meant,
                 disturbed, fresh>>

Recompute(w, c) ==
  /\ job[w] = Idle
  /\ Becoming(w, [at |-> "links", chunk |-> c, sum |-> NoScore, clean |-> FALSE])

ReadLinks(w) ==
  /\ job[w].at = "links"
  /\ Becoming(w, [job[w] EXCEPT !.at = IF Linked(job[w].chunk) THEN "up" ELSE "load",
                              !.clean = TRUE])

ReadUp(w) ==
  /\ job[w].at = "up"
  /\ Becoming(w, [job[w] EXCEPT !.at = "down", !.sum = WithUp(@)])

\* Mutant of ReadDown: the verdicts on steps are not read.
ReadDownLast(w) ==
  /\ job[w].at = "down"
  /\ Becoming(w, [job[w] EXCEPT !.at = "load", !.sum = WithDown(@)])

ReadDown(w) ==
  /\ job[w].at = "down"
  /\ Becoming(w, [job[w] EXCEPT !.at = "steps", !.sum = WithDown(@)])

ReadSteps(w) ==
  /\ job[w].at = "steps"
  /\ Becoming(w, [job[w] EXCEPT !.at = "load", !.sum = WithSteps(@, job[w].chunk)])

LoadScore(w) ==
  LET j == job[w] IN
  /\ j.at = "load"
  /\ Becoming(w, [at |-> "store", chunk |-> j.chunk, sum |-> j.sum, clean |-> j.clean,
                  loaded |-> cache[j.chunk]])

\* INSERT of a row that is not there yet, of a chunk that is; UPDATE of one that is.
Storable(j) ==
  IF j.loaded = Uncached
    THEN cache[j.chunk] = Uncached /\ j.chunk \in present
    ELSE cache[j.chunk] # Uncached

\* Of a row that was loaded, the columns that changed.
Columns(now, loaded, sum) ==
  IF loaded = Uncached THEN sum
  ELSE [col \in DOMAIN sum |-> IF sum[col] # loaded[col] THEN sum[col] ELSE now[col]]

Store(w) ==
  LET j == job[w] IN
  /\ j.at = "store" /\ Storable(j)
  /\ cache' = [cache EXCEPT ![j.chunk] = Columns(@, j.loaded, j.sum)]
  /\ fresh' = IF j.clean THEN fresh \cup {j.chunk} ELSE fresh \ {j.chunk}
  /\ job' = [v \in Worker |->
              IF v = w THEN Idle
              ELSE IF job[v] # Idle /\ job[v].chunk = j.chunk
                THEN [job[v] EXCEPT !.clean = FALSE] ELSE job[v]]
  /\ UNCHANGED <<present, links, saves, row, call, serial, calls, drops, meant, disturbed>>

\* The INSERT or the UPDATE fails, or the connection drops.
Abandon(w) == job[w] # Idle /\ Becoming(w, Idle)

----------------------------------------------------------------------------
Next ==
  \/ SaveRetrieved \/ SaveAttribution
  \/ \E c \in Chunk : DeleteDocument(c)
  \/ \E x \in Client :
       \/ \E k \in Key : \E asks \in Asks(k) \cap Asked : Begin(x, k, asks)
       \/ Read(x) \/ Return(x) \/ Fail(x) \/ Drop(x) \/ LoseReply(x)
  \/ \E k \in Key : Retract(k)
  \/ \E w \in Worker :
       \/ \E c \in Scored : Recompute(w, c)
       \/ ReadLinks(w) \/ ReadUp(w) \/ ReadDown(w) \/ ReadSteps(w)
       \/ LoadScore(w) \/ Store(w) \/ Abandon(w)

Spec == Init /\ [][Next]_vars

----------------------------------------------------------------------------
(***************************************************************************)
(* Properties.                                                             *)
(***************************************************************************)

(***************************************************************************)
(* What is stored of a user's verdict is what the user's calls ask for one *)
(* after the other, unless two of them overlapped or one that toggles ran  *)
(* again after its reply was lost: a second run withdraws the verdict the  *)
(* first one stored.  A verdict with an action survives even that          *)
(* (create_response_feedback, create_step_feedback, with_db_retry).        *)
(***************************************************************************)
VerdictAsAsked ==
  \A k \in Key \ disturbed : row[k].is = meant[k]

(***************************************************************************)
(* A retracted verdict does not count again, whatever its user sends, until*)
(* the row is gone (retract_response_feedback, retract_step_feedback).     *)
(***************************************************************************)
RetractedStays ==
  [][\A k \in Key : row[k].retracted => row'[k].retracted \/ row'[k] = NoRow]_row

(***************************************************************************)
(* The score of a chunk is the sum over the tables, though it was read in  *)
(* four queries and stored column by column, as long as nothing was written*)
(* meanwhile or since (recompute_chunk_feedback_cache).                    *)
(***************************************************************************)
ScoreIsExact ==
  \A c \in fresh \cap present : cache[c] = Tally(c)

(***************************************************************************)
(* "every retrieved chunk retains at least a bare row": a chunk once linked*)
(* to the response stays linked as long as it exists, whatever the judge   *)
(* attributes (save_response_chunk_links).                                 *)
(***************************************************************************)
LinkedStayLinked ==
  [][\A c \in Chunk : Linked(c) /\ c \in present' => Linked(c)']_vars

=============================================================================
