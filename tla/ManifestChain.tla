--------------------------- MODULE ManifestChain ---------------------------
(***************************************************************************)
(* The ingestion manifest (layer L1): append_manifest_entry as the         *)
(* transactions it runs, under PostgreSQL's READ COMMITTED isolation and   *)
(* the with_db_retry decorator.                                            *)
(*                                                                         *)
(* One call selects the last row FOR UPDATE, computes the next sequence    *)
(* number and hash from it, inserts and commits.  The SELECT takes its     *)
(* snapshot before it waits for the row lock, and the row it waits for is  *)
(* never modified, so the row it returns after the wait is the one of the  *)
(* snapshot.  On an empty table there is no row to lock.                   *)
(***************************************************************************)
EXTENDS HashChain, FiniteSets, FiniteSetsExt, Functions

CONSTANTS
  Writer,      \* processes that ingest documents
  MaxAttempts  \* stop_after_attempt(5) of with_db_retry

ASSUME AttemptsAssumption == MaxAttempts \in Nat \ {0}

\* An ingestion event is appended by one call, and its entry_data names it.
Event == Payload

VARIABLES
  manifest,  \* the committed rows of ingestion_manifest, in commit order
  call,      \* the call each writer is executing
  outcome    \* of each event's call

vars == <<manifest, call, outcome>>

Idle == [pc |-> "idle"]

\* `tail' is the position in manifest of the row the SELECT returned, 0 if the
\* table was empty; `overlapped' says another call committed since the SELECT.
Call == [pc : {"begin", "waiting", "locked"}, event : Event,
         attempt : 1 .. MaxAttempts, tail : Nat, overlapped : BOOLEAN]

Row == [entry_sequence : Nat, previous_hash : Digest, entry_hash : Digest,
        data : Payload]

Outcome == {"new", "open", "returned", "raised"}

TypeOK ==
  /\ manifest \in Seq(Row)
  /\ call \in [Writer -> Call \cup {Idle}]
  /\ \A w \in Writer : call[w] # Idle => call[w].tail \in 0 .. Len(manifest)
  /\ outcome \in [Event -> Outcome]

Init ==
  /\ manifest = << >>
  /\ call = [w \in Writer |-> Idle]
  /\ outcome = [e \in Event |-> "new"]

----------------------------------------------------------------------------
At(w, pc) == call[w].pc = pc

\* Mutant of LastRows: ORDER BY entry_sequence without DESC.
FirstRows ==
  {i \in DOMAIN manifest :
     \A j \in DOMAIN manifest :
       manifest[j].entry_sequence >= manifest[i].entry_sequence}

\* ORDER BY entry_sequence DESC LIMIT 1: any of the rows that tie for it.
LastRows ==
  {i \in DOMAIN manifest :
     \A j \in DOMAIN manifest :
       manifest[j].entry_sequence <= manifest[i].entry_sequence}

\* Mutant of RowLocked: a call that waits for the row keeps others off it.
RowLockedOrAwaited(i) ==
  /\ i # 0
  /\ \E v \in Writer : call[v].pc \in {"waiting", "locked"} /\ call[v].tail = i

\* The row lock of FOR UPDATE lasts until the transaction ends.
RowLocked(i) ==
  /\ i # 0
  /\ \E v \in Writer : At(v, "locked") /\ call[v].tail = i

\* Mutant of NewRow: chained to what the last row is chained to.
NewRowBesideLast(event, tail) ==
  LET previous == IF tail = 0 THEN Genesis ELSE manifest[tail].previous_hash
  IN  [entry_sequence |-> IF tail = 0 THEN 1
                          ELSE manifest[tail].entry_sequence + 1,
       previous_hash  |-> previous,
       entry_hash     |-> Hash(previous, event),
       data           |-> event]

\* The row a call inserts, from the row its SELECT returned.
NewRow(event, tail) ==
  LET previous == IF tail = 0 THEN Genesis ELSE manifest[tail].entry_hash
  IN  [entry_sequence |-> IF tail = 0 THEN 1
                          ELSE manifest[tail].entry_sequence + 1,
       previous_hash  |-> previous,
       entry_hash     |-> Hash(previous, event),
       data           |-> event]

\* The n-th run of the function with_db_retry wraps, before its SELECT.
Attempt(event, n) ==
  [pc |-> "begin", event |-> event, attempt |-> n, tail |-> 0,
   overlapped |-> FALSE]

\* An exception that is_connection_error accepts ends the attempt: the next
\* one starts from the SELECT, and after the last one the exception is raised.
RetryOrRaise(w, newCall) ==
  IF call[w].attempt < MaxAttempts
  THEN /\ call' = [newCall EXCEPT ![w] =
                     Attempt(call[w].event, call[w].attempt + 1)]
       /\ UNCHANGED outcome
  ELSE /\ call' = [newCall EXCEPT ![w] = Idle]
       /\ outcome' = [outcome EXCEPT ![call[w].event] = "raised"]

\* Every call whose SELECT has run learns nothing of a later commit.
CallsAfterCommit(w) ==
  [v \in Writer |->
     IF v # w /\ call[v].pc \in {"waiting", "locked"}
     THEN [call[v] EXCEPT !.overlapped = TRUE]
     ELSE call[v]]

----------------------------------------------------------------------------
StartAppend(w, e) ==
  /\ call[w] = Idle
  /\ outcome[e] = "new"
  /\ call' = [call EXCEPT ![w] = Attempt(e, 1)]
  /\ outcome' = [outcome EXCEPT ![e] = "open"]
  /\ UNCHANGED manifest

\* The SELECT takes its snapshot and finds the row to lock.
SelectLast(w) ==
  /\ At(w, "begin")
  /\ \E i \in IF manifest = << >> THEN {0} ELSE LastRows :
       call' = [call EXCEPT ![w].pc = "waiting", ![w].tail = i]
  /\ UNCHANGED <<manifest, outcome>>

\* The SELECT returns, once the transaction that holds the row has ended.
LockLast(w) ==
  /\ At(w, "waiting")
  /\ ~ RowLocked(call[w].tail)
  /\ call' = [call EXCEPT ![w].pc = "locked"]
  /\ UNCHANGED <<manifest, outcome>>

CommitEntry(w) ==
  /\ At(w, "locked")
  /\ manifest' = Append(manifest, NewRow(call[w].event, call[w].tail))
  /\ call' = [CallsAfterCommit(w) EXCEPT ![w] = Idle]
  /\ outcome' = [outcome EXCEPT ![call[w].event] = "returned"]

\* The server commits and the connection drops before the client hears of it.
LoseCommitReply(w) ==
  /\ At(w, "locked")
  /\ manifest' = Append(manifest, NewRow(call[w].event, call[w].tail))
  /\ RetryOrRaise(w, CallsAfterCommit(w))

\* The connection drops earlier: the server rolls the transaction back.
DropConnection(w) ==
  /\ call[w] # Idle
  /\ RetryOrRaise(w, call)
  /\ UNCHANGED manifest

Proceed(w) == SelectLast(w) \/ LockLast(w) \/ CommitEntry(w)

Next ==
  \E w \in Writer :
    \/ \E e \in Event : StartAppend(w, e)
    \/ SelectLast(w)
    \/ LockLast(w)
    \/ CommitEntry(w)
    \/ LoseCommitReply(w)
    \/ DropConnection(w)

Spec == Init /\ [][Next]_vars

\* A thread that is inside a call goes on with it; nothing makes a caller
\* start one, and nothing makes a connection drop.
FairSpec == Spec /\ \A w \in Writer : WF_vars(Proceed(w))

----------------------------------------------------------------------------
(***************************************************************************)
(* Properties.                                                             *)
(***************************************************************************)

Serial == \A v, w \in Writer : v = w

\* No entry dangles, however the calls of append_manifest_entry interleave: an
\* entry is the first, or an entry committed before it has the number before
\* its own and the hash it chains to.  The manifest can fork but it is a tree.
EveryEntryDescends ==
  \A i \in DOMAIN manifest :
    \/ /\ manifest[i].entry_sequence = 1
       /\ manifest[i].previous_hash = Genesis
    \/ \E j \in 1 .. i - 1 :
         /\ manifest[i].entry_sequence = manifest[j].entry_sequence + 1
         /\ manifest[i].previous_hash = manifest[j].entry_hash

\* With one ingesting process the manifest is one chain, whatever connections
\* drop and whatever with_db_retry repeats: the second copy of an entry whose
\* commit reply was lost is chained to the first.
SerialManifestIsLinear == Serial => LinearManifest(manifest)

\* Only overlapping calls fork the manifest: an entry that is committed when no
\* other was since its SELECT has a number of its own, above all the others.
OnlyOverlapForks ==
  [][\A w \in Writer :
       /\ At(w, "locked") /\ ~ At(w, "locked")'
       /\ ~ call[w].overlapped
       /\ manifest' # manifest
       => \A i \in DOMAIN manifest :
            manifest[i].entry_sequence < manifest'[Len(manifest')].entry_sequence]_vars

\* Every call ends: the row locks of concurrent calls never block one another
\* for good, and the retries are bounded.
CallsEnd ==
  \A e \in Event : outcome[e] = "open" ~> outcome[e] \in {"returned", "raised"}

\* The claim of the code's documentation, for any number of writers: each entry
\* carries a hash chaining it to the previous entry.
EachEntryChainsToPrevious == LinearManifest(manifest)
============================================================================
