-------------------------- MODULE ManualRetrieval --------------------------
(***************************************************************************)
(* KnowledgeRetriever of pipeline/nodes.py over the chunks of the manuals: *)
(* the document it selects, the searches of Technical_Manual_Search        *)
(* (pipeline/tools.py), which run in threads, the neighbours and the       *)
(* overview it adds, and the groups of modules/chunk_grouping.py.  Every   *)
(* query to the database is a step of its own, so that curators may        *)
(* blacklist chunks, and withdraw or delete documents, in between          *)
(* (core/crud.py).                                                         *)
(***************************************************************************)
EXTENDS Integers, FiniteSetsExt, Functions, Sequences

CONSTANTS
  Chunk,
  Document,     \* ids
  DocOf,        \* document_id of a chunk
  Level,        \* 0: a leaf of the manual; above: a summary
  Seq0,         \* sequence_index, or NoIndex
  Page,         \* page_start
  Parent,       \* the table of a table row, or NoChunk
  Header,       \* section_header
  NoIndex, NoChunk, NoDocument,
  Query,        \* at most three search_queries
  Candidates,   \* SEARCH_VECTOR_CANDIDATES
  TopK,         \* rerank_top_k
  MaxGroup,     \* max_group_size
  MaxReps,      \* max_representatives
  MaxContext,   \* max_total_chunks
  MaxEdits      \* bound on the curators' changes

ASSUME RetrievalAssumption ==
  /\ Document \subseteq Nat
  /\ IsFiniteSet(Chunk)
  /\ DocOf \in [Chunk -> Document] /\ NoDocument \notin Document
  /\ Level \in [Chunk -> Nat]
  /\ NoIndex \notin Nat /\ Seq0 \in [Chunk -> Nat \cup {NoIndex}]
  /\ Page \in [Chunk -> Nat]
  /\ NoChunk \notin Chunk /\ Parent \in [Chunk -> Chunk \cup {NoChunk}]
  /\ \A c \in Chunk : Parent[c] # NoChunk => DocOf[Parent[c]] = DocOf[c]
  /\ \A n \in {Candidates, TopK, MaxGroup, MaxReps, MaxContext} : n \in Nat \ {0}
  /\ MaxReps <= MaxGroup
  /\ MaxEdits \in Nat

VARIABLES
  status,       \* of the documents
  blacklisted,  \* the chunks with blacklisted set
  edits,        \* curators' changes so far
  mode,         \* of the retrieval
  pc,
  selected,     \* selected_document_id
  search,       \* the search for each query
  ordered,      \* what it hands on
  overview,     \* summaries prepended to it
  context,      \* the entries that grouped_context shows
  hidden,       \* chunks that have been blacklisted ever since it began,
  withdrawn     \* and documents that have not been READY

library == <<status, blacklisted, edits>>
retrievalVars ==
  <<library, mode, pc, selected, search, ordered, overview, context, hidden, withdrawn>>

----------------------------------------------------------------------------
(***************************************************************************)
(* Data.                                                                   *)
(***************************************************************************)

\* DocumentStatus; "PENDING" stands for the two stages of parsing, too.
Status == {"PENDING", "READY", "FAILED", "deleted"}

Mode == {"walkthrough", "scoped", "semantic"}

\* A chunk handed on: whose id, whose text.
Entry == [id : Chunk, text : Chunk, via : {"search", "walkthrough", "neighbour"}]

Searching == [pc : {"searching", "ranking", "expanding", "over"}, found : SUBSET Chunk,
              ranked : Seq(Chunk)]

NoSearch == [pc |-> "searching", found |-> {}, ranked |-> << >>]

RetrievalTypeOK ==
  /\ status \in [Document -> Status]
  /\ blacklisted \subseteq Chunk
  /\ edits \in 0 .. MaxEdits
  /\ mode \in Mode
  /\ pc \in {"away", "selecting", "searching", "expanding", "walking", "overview",
             "grouping", "over"}
  /\ selected \in Document \cup {NoDocument}
  /\ search \in [Query -> Searching]
  /\ ordered \in Seq(Entry)
  /\ overview \subseteq Chunk
  /\ context \subseteq DOMAIN ordered
  /\ hidden \subseteq Chunk
  /\ withdrawn \subseteq Document

RetrievalInit ==
  /\ status \in [Document -> {"PENDING", "READY"}]
  /\ blacklisted = {}
  /\ edits = 0
  /\ mode \in Mode
  /\ pc = "away"
  /\ selected = NoDocument
  /\ search = [q \in Query |-> NoSearch]
  /\ ordered = << >>
  /\ overview = {}
  /\ context = {}
  /\ hidden = {}
  /\ withdrawn = {}

----------------------------------------------------------------------------
(***************************************************************************)
(* The curators.                                                           *)
(***************************************************************************)

Edit ==
  /\ edits < MaxEdits
  /\ edits' = edits + 1
  /\ UNCHANGED <<mode, pc, selected, search, ordered, overview, context>>

Rows(d) == {c \in Chunk : DocOf[c] = d /\ status[d] # "deleted"}

Present == {c \in Chunk : status[DocOf[c]] # "deleted"}

\* blacklist_chunk, blacklist_chunks
BlacklistChunks ==
  /\ Edit
  /\ \E c \in Present \ blacklisted : blacklisted' = blacklisted \cup {c}
  /\ UNCHANGED <<status, hidden, withdrawn>>

\* unblacklist_chunk; clear_blacklist_for_document
Unblacklist ==
  /\ Edit
  /\ \E back \in {{c} : c \in blacklisted} \cup {Rows(d) \cap blacklisted : d \in Document} :
       /\ back # {}
       /\ blacklisted' = blacklisted \ back
       /\ hidden' = hidden \ back
  /\ UNCHANGED <<status, withdrawn>>

\* update_document_status
UpdateDocumentStatus ==
  /\ Edit
  /\ \E d \in Document, s \in Status \ {"deleted"} :
       /\ status[d] \notin {s, "deleted"}
       /\ status' = [status EXCEPT ![d] = s]
       /\ withdrawn' = IF s = "READY" THEN withdrawn \ {d} ELSE withdrawn
  /\ UNCHANGED <<blacklisted, hidden>>

\* delete_document, delete_failed_document_by_hash: the chunks go with it.
DeleteDocument ==
  /\ Edit
  /\ \E d \in Document :
       /\ status[d] # "deleted"
       /\ status' = [status EXCEPT ![d] = "deleted"]
       /\ blacklisted' = blacklisted \ Rows(d)
  /\ UNCHANGED <<hidden, withdrawn>>

Curators ==
  BlacklistChunks \/ Unblacklist \/ UpdateDocumentStatus \/ DeleteDocument

----------------------------------------------------------------------------
(***************************************************************************)
(* The queries.                                                            *)
(***************************************************************************)

Ready == {d \in Document : status[d] = "READY"}

Shown == {c \in Chunk : DocOf[c] \in Ready /\ c \notin blacklisted}

\* select_best_document
Selectable == {d \in Ready : \E c \in Rows(d) : Level[c] >= 1}

\* Mutant of Searchable: the document is not selected by.
SearchAnywhere == Shown

\* multimodal_semantic_search
Searchable ==
  {c \in Shown : selected # NoDocument => DocOf[c] = selected}

\* get_manual_walkthrough
Leaves == {c \in Shown : Level[c] = 0 /\ Parent[c] = NoChunk}

\* Mutant of ParentsOf: whether or not they are blacklisted.
AllParentsOf(chunks) == {Parent[c] : c \in chunks} \ {NoChunk}

\* fetch_parent_chunks
ParentsOf(chunks) == ({Parent[c] : c \in chunks} \cap Present) \ blacklisted

\* get_chunks_by_sequence_indices of the neighbours
Neighbours ==
  LET retrieved == {Seq0[ordered[i].id] : i \in DOMAIN ordered} \ {NoIndex}
      needed == {s \in Nat \cap (UNION {{r - 1, r + 1} : r \in retrieved}) :
                   s \notin retrieved}
  IN  {c \in Rows(selected) : Level[c] = 0 /\ Seq0[c] \in needed}

\* get_document_summaries
Summaries == {c \in Rows(selected) : Level[c] \in 1 .. 2}

\* ORDER BY the document, the index and the page; a chunk without an index is last.
Precedes(c, d) ==
  \/ DocOf[c] < DocOf[d]
  \/ DocOf[c] = DocOf[d] /\ Seq0[c] # NoIndex /\ (Seq0[d] = NoIndex \/ Seq0[c] < Seq0[d])
  \/ DocOf[c] = DocOf[d] /\ Seq0[c] = Seq0[d] /\ Page[c] < Page[d]

\* The lists in which a query may return these chunks.
Orderings(chunks) ==
  {s \in [1 .. Cardinality(chunks) -> chunks] :
     \A i, j \in DOMAIN s : i < j => s[i] # s[j] /\ ~ Precedes(s[j], s[i])}

\* The members of a set in an order, which is a set of pairs.
Listing(S, order) ==
  [n \in 1 .. Cardinality(S) |->
     CHOOSE i \in S : Cardinality({j \in S : <<j, i>> \in order}) = n - 1]

Pick(list, positions) == [n \in DOMAIN positions |-> list[positions[n]]]

Entries(chunks, via) ==
  [i \in DOMAIN chunks |-> [id |-> chunks[i], text |-> chunks[i], via |-> via]]

----------------------------------------------------------------------------
(***************************************************************************)
(* knowledge_retriever.                                                    *)
(***************************************************************************)

Goto(from, to) == pc = from /\ pc' = to

Begin ==
  /\ Goto("away", IF mode = "walkthrough" THEN "walking" ELSE "selecting")
  /\ hidden' = blacklisted
  /\ withdrawn' = Document \ Ready
  /\ UNCHANGED <<library, mode, selected, search, ordered, overview, context>>

\* Without summaries, or if the query cannot be embedded, no document is selected.
SelectDocument ==
  /\ Goto("selecting", "searching")
  /\ selected' \in Selectable \cup {NoDocument}
  /\ UNCHANGED <<library, mode, search, ordered, overview, context, hidden, withdrawn>>

Smaller(m, n) == IF m < n THEN m ELSE n

\* Each query in a thread of its own: the nearest chunks,
SearchChunks(q) ==
  /\ pc = "searching" /\ search[q].pc = "searching"
  /\ \E found \in SUBSET Searchable :
       /\ Cardinality(found) = Smaller(Candidates, Cardinality(Searchable))
       /\ search' = [search EXCEPT ![q].pc = IF found = {} THEN "over" ELSE "ranking",
                                   ![q].found = found]
  /\ UNCHANGED <<library, mode, pc, selected, ordered, overview, context, hidden,
                 withdrawn>>

\* boosted and ranked: by the boost if there are at most two, by the model
\* otherwise, which in scoped mode drops low scores but keeps two;
Ranks(found) ==
  LET size == Cardinality(found)
      most == Smaller(TopK, size)
      kept == IF size <= 2 THEN {size}
              ELSE IF mode = "scoped" THEN Smaller(2, most) .. most
              ELSE {most}
  IN  UNION {{s \in [1 .. n -> found] : \A i, j \in 1 .. n : s[i] = s[j] => i = j} :
             n \in kept}

RankChunks(q) ==
  /\ search[q].pc = "ranking"
  /\ \E ranked \in Ranks(search[q].found) :
       search' = [search EXCEPT ![q].pc = "expanding", ![q].found = {},
                                ![q].ranked = ranked]
  /\ UNCHANGED <<library, mode, pc, selected, ordered, overview, context, hidden,
                 withdrawn>>

\* table rows make way for their table, once, if it can be read;
Swapped(ranked) ==
  LET parents == ParentsOf(Range(ranked))
      keeps(i) ==
        \/ Parent[ranked[i]] = NoChunk
        \/ /\ Parent[ranked[i]] \in parents
           /\ \A j \in 1 .. i - 1 : Parent[ranked[j]] # Parent[ranked[i]]
      entry(c) == [id |-> c, text |-> IF Parent[c] = NoChunk THEN c ELSE Parent[c],
                   via |-> "search"]
  IN  [i \in {i \in DOMAIN ranked : keeps(i)} |-> entry(ranked[i])]

\* and merged in the order of completion, in scoped mode each once.
ExpandTables(q) ==
  /\ search[q].pc = "expanding"
  /\ search' = [search EXCEPT ![q] = [NoSearch EXCEPT !.pc = "over"]]
  /\ LET swapped == Swapped(search[q].ranked)
         new == {i \in DOMAIN swapped : mode = "scoped" => swapped[i] \notin Range(ordered)}
         byRank == {p \in new \X new : p[1] < p[2]}
     IN  ordered' = ordered \o Pick(swapped, Listing(new, byRank))
  /\ UNCHANGED <<library, mode, pc, selected, overview, context, hidden, withdrawn>>

\* A search that raises, or cannot embed the query.
SearchFails(q) ==
  /\ pc = "searching" /\ search[q].pc # "over"
  /\ search' = [search EXCEPT ![q] = [NoSearch EXCEPT !.pc = "over"]]
  /\ UNCHANGED <<library, mode, pc, selected, ordered, overview, context, hidden,
                 withdrawn>>

SearchesOver ==
  /\ \A q \in Query : search[q].pc = "over"
  /\ Goto("searching", IF mode = "scoped" THEN "expanding" ELSE "overview")
  /\ UNCHANGED <<library, mode, selected, search, ordered, overview, context, hidden,
                 withdrawn>>

\* c.get("sequence_index") or 9999: the first leaf of a manual has the index 0.
SortKey(c) == IF Seq0[c] \in {NoIndex, 0} THEN 9999 ELSE Seq0[c]

\* Mutant of Sorted: the entries stay in the order of their relevance.
Unsorted(entries) == entries

Sorted(entries) ==
  LET before(i, j) ==
        LET c == entries[i].id
            d == entries[j].id
        IN  \/ SortKey(c) < SortKey(d)
            \/ SortKey(c) = SortKey(d) /\ Page[c] < Page[d]
            \/ SortKey(c) = SortKey(d) /\ Page[c] = Page[d] /\ i < j
      places == DOMAIN entries
  IN  Pick(entries, Listing(places, {p \in places \X places : before(p[1], p[2])}))

\* The chunks next to those retrieved are added, all are sorted, and fewer than two
\* make way for a walkthrough.
ExpandNeighbours ==
  /\ pc = "expanding"
  /\ \E more \in Orderings(IF selected = NoDocument \/ ordered = << >> THEN {}
                           ELSE Neighbours) :
       LET all == ordered \o Entries(more, "neighbour")
       IN  IF Len(all) < 2
           THEN pc' = "walking" /\ ordered' = << >>
           ELSE pc' = "grouping" /\ ordered' = Sorted(all)
  /\ UNCHANGED <<library, mode, selected, search, overview, context, hidden, withdrawn>>

\* The leaves whose section matches a search term, less what is cut off, or all of
\* them.
WalkThrough ==
  /\ Goto("walking", "grouping")
  /\ \E S \in SUBSET Leaves :
       /\ S = {} => Leaves = {}
       /\ \E list \in Orderings(S) : ordered' = Entries(list, "walkthrough")
  /\ UNCHANGED <<library, mode, selected, search, overview, context, hidden, withdrawn>>

PrependOverview ==
  /\ Goto("overview", "grouping")
  /\ overview' = IF selected = NoDocument THEN {} ELSE Summaries
  /\ UNCHANGED <<library, mode, selected, search, ordered, context, hidden, withdrawn>>

----------------------------------------------------------------------------
(***************************************************************************)
(* group_chunks and build_grouped_context.                                 *)
(***************************************************************************)

Buckets == {{i \in DOMAIN ordered : Header[ordered[i].id] = h} :
              h \in {Header[ordered[i].id] : i \in DOMAIN ordered}}

Scored(i) == ordered[i].via = "search"

\* The best n of a group: what has a score first, in whatever order, then the rest
\* as they come.
Best(group, n) ==
  {S \in SUBSET group :
     /\ Cardinality(S) = Smaller(n, Cardinality(group))
     /\ \A i \in group \ S, j \in S :
          \/ Scored(j)
          \/ ~Scored(i) /\ j < i}

\* One option for each bucket.
Picks(buckets, Options(_)) ==
  {f \in [buckets -> UNION {Options(b) : b \in buckets}] :
     \A b \in buckets : f[b] \in Options(b)}

\* sum(len(g.chunks) for g in groups): no chunk is in two of them.
Total(groups) == Cardinality(UNION Range(groups))

\* Mutant of Allocation: the share is rounded up.
GenerousAllocation(group, b) ==
  LET rest == MaxContext - Cardinality(DOMAIN group)
  IN  1 + (rest * Cardinality(group[b]) + Total(group) - 1) \div Total(group)

\* Every group has one, and a share of the remainder by its size.
Allocation(group, b) ==
  LET rest == MaxContext - Cardinality(DOMAIN group)
  IN  1 + (rest * Cardinality(group[b])) \div Total(group)

\* The first n of a bucket's representatives: as they were found, if there was no
\* reason to rank them.
First(b, reps, n) ==
  IF Cardinality(b) <= MaxReps
  THEN {{i \in b : Cardinality({j \in b : j < i}) < n}}
  ELSE Best(reps, n)

\* What may be shown of the groups, given their representatives: all, the first of
\* each as allocated, or one of as many groups as there is room for.
Shows(group, reps) ==
  IF Total(reps) <= MaxContext THEN {reps}
  ELSE IF Cardinality(Buckets) <= MaxContext
       THEN Picks(Buckets, LAMBDA b : First(b, reps[b], Allocation(group, b)))
  ELSE UNION {Picks(some, LAMBDA b : First(b, reps[b], 1)) :
                some \in kSubset(MaxContext, Buckets)}

\* Groups are trimmed to their best MaxGroup, of which MaxReps represent them.
GroupChunks ==
  /\ Goto("grouping", "over")
  /\ \E group \in Picks(Buckets, LAMBDA b : Best(b, MaxGroup)) :
       \E reps \in Picks(Buckets, LAMBDA b : Best(group[b], MaxReps)) :
         \E shown \in Shows(group, reps) : context' = UNION Range(shown)
  /\ UNCHANGED <<library, mode, selected, search, ordered, overview, hidden, withdrawn>>

Retriever ==
  \/ Begin \/ SelectDocument
  \/ \E q \in Query :
       SearchChunks(q) \/ RankChunks(q) \/ ExpandTables(q) \/ SearchFails(q)
  \/ SearchesOver \/ ExpandNeighbours \/ WalkThrough \/ PrependOverview \/ GroupChunks

RetrievalNext == Retriever \/ Curators

RetrievalSpec == RetrievalInit /\ [][RetrievalNext]_retrievalVars

----------------------------------------------------------------------------
(***************************************************************************)
(* Properties.                                                             *)
(***************************************************************************)

\* Nothing of a document that has not been READY all the time is handed on, in the
\* entries or in the overview, and a chunk that has been blacklisted all the time is
\* handed on, under its own id or as the table of another, only as a neighbour of
\* what was found or as a summary in the overview: multimodal_semantic_search,
\* get_manual_walkthrough and fetch_parent_chunks look at the blacklist,
\* get_chunks_by_sequence_indices and get_document_summaries do not.
HiddenStaysHidden ==
  /\ \A i \in DOMAIN ordered :
       /\ DocOf[ordered[i].id] \notin withdrawn
       /\ ordered[i].via # "neighbour" => {ordered[i].id, ordered[i].text} \cap hidden = {}
  /\ \A c \in overview : DocOf[c] \notin withdrawn

\* The context never shows more than max_total_chunks, and no section that was
\* retrieved is missing unless there are more sections than that
\* (build_grouped_context).
ContextFits ==
  pc = "over" =>
    /\ Cardinality(context) <= MaxContext
    /\ Cardinality(Buckets) <= MaxContext =>
         \A b \in Buckets : b \cap context # {}

\* All that is retrieved once a document was selected comes from it, unless the
\* scoped search has fallen back on the walkthrough, and the overview does, even
\* if the document was withdrawn or deleted meanwhile.
OneManual ==
  selected # NoDocument =>
    /\ \A i \in DOMAIN ordered :
         \/ DocOf[ordered[i].id] = selected /\ DocOf[ordered[i].text] = selected
         \/ ordered[i].via = "walkthrough"
    /\ \A c \in overview : DocOf[c] = selected

\* "Re-sort by reading order (semantic search returns by relevance)"
\* (pipeline/nodes.py): the chunks of a manual that a scoped search hands on are in
\* the order of the manual, but for its first leaf, whose index 0 is taken for a
\* missing one.
ReadingOrder ==
  mode = "scoped" /\ pc \in {"grouping", "over"} =>
    \A i, j \in DOMAIN ordered :
      LET c == ordered[i].id
          d == ordered[j].id
      IN  (i < j /\ DocOf[c] = DocOf[d] /\ NoIndex \notin {Seq0[c], Seq0[d]})
            => Seq0[c] <= Seq0[d] \/ Seq0[d] = 0
=============================================================================
