--------------------------- MODULE TamperEvidence --------------------------
(***************************************************************************)
(* What the two verifiers say of a chain somebody changed: the mutations   *)
(* of eval/scripts/apply_injection.py (manifest_tamper, log_gap), and the  *)
(* deletions and modifications the documentation of both chains speaks of. *)
(* The chains start as the writers leave them, one change is made to one   *)
(* of them, and an ingestion may append to the manifest afterwards.        *)
(***************************************************************************)
EXTENDS HashChain, FiniteSets, FiniteSetsExt

CONSTANTS
  MaxEntries,  \* entries of the manifest
  Histories    \* a thread's turns, two at most; a turn is the kinds of its records in
               \* time order, "node" (telemetry of a node) or "edge" (of a routing)

ASSUME PayloadAssumption == Payload = Nat /\ MaxEntries \in Nat \ {0}

ASSUME HistoriesAssumption ==
  \A h \in Histories : Len(h) \in 1 .. 2 /\ h \in Seq(Seq({"node", "edge"}))

VARIABLES
  manifest,  \* ingestion_manifest, by ascending entry_sequence
  log,       \* a thread's rows of agent_execution_logs, by ascending id
  edit       \* the change: what was done, at which position, and what was there

vars == <<manifest, log, edit>>

NoEdit == [kind |-> "none", at |-> 0, was |-> << >>]

----------------------------------------------------------------------------
\* Payloads are distinct, as entry_data names its event and a record's hashed
\* fields hold its start time: entry i has payload i, and a record has its
\* place in time within its turn.
ManifestOf(n) ==
  [i \in 1 .. n |->
     [entry_sequence |-> i, data |-> i,
      previous_hash |-> [j \in 1 .. i - 1 |-> j],
      entry_hash    |-> [j \in 1 .. i |-> j]]]

\* The k-th of a set of places or positions.
Nth(S, k) == CHOOSE p \in S : Cardinality({q \in S : q <= p}) = k

\* stream_graph collects the records of the nodes as they end and adds the edge
\* decisions when the graph is done: in id order the edges come last.
Places(turn, kind) == {p \in DOMAIN turn : turn[p] = kind}

InsertOrder(turn) ==
  LET nodes == Places(turn, "node")
      count == Cardinality(nodes)
  IN  [i \in DOMAIN turn |->
         IF i <= count THEN Nth(nodes, i) ELSE Nth(Places(turn, "edge"), i - count)]

\* How many rows the turns before left.
Before(history, c) == IF c = 1 THEN 0 ELSE Len(history[1])

\* A thread's rows: each turn is one chain (its trace_id).  response_id is a
\* column compute_record_hash does not read.
RowsOfTurn(history, c) ==
  LET order == InsertOrder(history[c])
  IN  [i \in DOMAIN order |->
         [id          |-> Before(history, c) + i,
          chain_id    |-> c,
          started_at  |-> Before(history, c) + order[i],
          response_id |-> c,
          data        |-> order[i],
          record_hash |-> [j \in 1 .. i |-> order[j]]]]

LogOf(history) ==
  IF Len(history) = 1 THEN RowsOfTurn(history, 1)
  ELSE RowsOfTurn(history, 1) \o RowsOfTurn(history, 2)

\* The positions of a chain's rows, and the rows by ascending id.
ChainPositions(rows, chain) == {i \in DOMAIN rows : rows[i].chain_id = chain}

ChainRows(rows, chain) ==
  LET positions == ChainPositions(rows, chain)
  IN  [k \in 1 .. Cardinality(positions) |-> rows[Nth(positions, k)]]

Init ==
  /\ manifest \in {ManifestOf(n) : n \in 1 .. MaxEntries}
  /\ log \in {LogOf(h) : h \in Histories}
  /\ edit = NoEdit

----------------------------------------------------------------------------
InjectManifestTamper ==
  /\ edit = NoEdit
  /\ \E i \in DOMAIN manifest :
       /\ manifest' = [manifest EXCEPT ![i].entry_hash = TamperedHash(@)]
       /\ edit' = [kind |-> "manifest_tamper", at |-> i, was |-> << >>]
  /\ UNCHANGED log

\* The row in the middle of the thread's rows by started_at.
LogGapTarget ==
  CHOOSE i \in DOMAIN log :
    Cardinality({j \in DOMAIN log : log[j].started_at < log[i].started_at})
      = Len(log) \div 2

InjectLogGap ==
  /\ edit = NoEdit
  /\ Len(log) >= 3
  /\ log' = WithoutRow(log, LogGapTarget)
  /\ edit' = [kind |-> "log_gap", at |-> LogGapTarget, was |-> log[LogGapTarget]]
  /\ UNCHANGED manifest

\* append_manifest_entry, from an ingestion that runs meanwhile.
AppendEntry ==
  /\ Len(manifest) \in 1 .. MaxEntries - 1
  /\ LET last == manifest[Len(manifest)]
         data == MaxEntries + Len(manifest)
     IN  manifest' = Append(manifest,
           [entry_sequence |-> last.entry_sequence + 1, data |-> data,
            previous_hash |-> last.entry_hash,
            entry_hash |-> Hash(last.entry_hash, data)])
  /\ UNCHANGED <<log, edit>>

\* Any other change to the tables, which no code of the repository makes.
ModifyEntry ==
  /\ edit = NoEdit
  /\ \E i \in DOMAIN manifest :
       /\ \/ manifest' = [manifest EXCEPT ![i].data = 0]
          \/ manifest' = [manifest EXCEPT ![i].previous_hash = TamperedHash(@)]
       /\ edit' = [kind |-> "entry_modified", at |-> i, was |-> << >>]
  /\ UNCHANGED log

DeleteEntry ==
  /\ edit = NoEdit
  /\ \E i \in DOMAIN manifest :
       /\ manifest' = WithoutRow(manifest, i)
       /\ edit' = [kind |-> "entry_deleted", at |-> i, was |-> Len(manifest)]
  /\ UNCHANGED log

ModifyRecord ==
  /\ edit = NoEdit
  /\ \E i \in DOMAIN log :
       \/ /\ log' = [log EXCEPT ![i].data = 0]
          /\ edit' = [kind |-> "record_modified", at |-> i, was |-> << >>]
       \/ /\ log' = [log EXCEPT ![i].record_hash = TamperedHash(@)]
          /\ edit' = [kind |-> "hash_modified", at |-> i, was |-> << >>]
       \/ /\ log' = [log EXCEPT ![i].response_id = 0]
          /\ edit' = [kind |-> "link_modified", at |-> i, was |-> << >>]
  /\ UNCHANGED manifest

Next ==
  \/ InjectManifestTamper
  \/ InjectLogGap
  \/ AppendEntry
  \/ ModifyEntry
  \/ DeleteEntry
  \/ ModifyRecord

Spec == Init /\ [][Next]_vars

----------------------------------------------------------------------------
(***************************************************************************)
(* Properties.                                                             *)
(***************************************************************************)

\* verify_manifest_integrity reports a change to any hashed or hashing column of an
\* entry at the entry, read with the whole chain or with its document only, and the
\* deletion of an entry between two others at the entry after.
EntriesLocated ==
  /\ edit.kind \in {"entry_modified", "manifest_tamper"} =>
       \A linkage \in BOOLEAN :
         VerifyManifest(manifest, linkage).first_broken_at = edit.at
  /\ edit.kind = "entry_deleted" /\ edit.at \in 2 .. edit.was - 1 =>
       VerifyManifest(manifest, TRUE).first_broken_at = edit.at + 1

\* The records of a chain that come after one of them by id.
LaterRecords(rows, id, chain) ==
  {rows[i].id : i \in {j \in ChainPositions(rows, chain) : rows[j].id > id}}

\* After a gap verify_chain_integrity reports exactly the later records of the chain,
\* if there are any.  If there are none it reports nothing, although core/hash_chain.py:5
\* has it "detecting any tampering or gap": of that case nothing is asked here.  After a
\* change it reports the changed record first, and no other chain of the thread.
RecordsLocated ==
  /\ edit.kind = "log_gap" =>
       LET later == LaterRecords(log, edit.was.id, edit.was.chain_id)
       IN  later # {} => VerifyChain(ChainRows(log, edit.was.chain_id)).broken = later
  /\ edit.kind \in {"record_modified", "hash_modified"} =>
       LET changed == log[edit.at]
       IN  /\ Min(VerifyChain(ChainRows(log, changed.chain_id)).broken) = changed.id
           /\ \A i \in DOMAIN log : log[i].chain_id # changed.chain_id =>
                VerifyChain(ChainRows(log, log[i].chain_id)).valid

\* The verifiers locate what was done, in the manifest and in the log.
ChangesLocated == EntriesLocated /\ RecordsLocated

============================================================================
