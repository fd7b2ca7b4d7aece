--------------------------- MODULE DocumentProofs --------------------------
(***************************************************************************)
(* Theorems about what becomes of the documents: their ingestion, as the   *)
(* manifest records it, for any number of writers, events and attempts     *)
(* (ManifestChain), and the retrieval of their chunks, for any corpus,     *)
(* searches, curators and limits (ManualRetrieval).                        *)
(***************************************************************************)
EXTENDS ManifestChain, ManualRetrieval, FunctionTheorems, FiniteSetTheorems,
        SequenceTheorems, TLAPS

\* Every entry a call inserts is a row, and hashes are digests.
LEMMA NewRowType ==
  ASSUME manifest \in Seq(Row), NEW e \in Event, NEW tail \in 0 .. Len(manifest)
  PROVE  NewRow(e, tail) \in Row
<1>1. CASE tail = 0
  <2>1. NewRow(e, tail) = [entry_sequence |-> 1, previous_hash |-> Genesis,
                           entry_hash |-> Hash(Genesis, e), data |-> e]
    BY <1>1 DEF NewRow
  <2>2. Genesis \in Digest
    BY DEF Genesis, Digest
  <2>3. Hash(Genesis, e) \in Digest
    BY <2>2 DEF Hash, Digest, Event
  <2> QED
    BY <2>1, <2>2, <2>3 DEF Row, Event
<1>2. CASE tail # 0
  <2>1. manifest[tail] \in Row
    BY <1>2, ElementOfSeq
  <2>2. manifest[tail].entry_hash \in Digest /\ manifest[tail].entry_sequence \in Nat
    BY <2>1 DEF Row
  <2>3. Hash(manifest[tail].entry_hash, e) \in Digest
    BY <2>2 DEF Hash, Digest, Event
  <2>4. NewRow(e, tail) =
          [entry_sequence |-> manifest[tail].entry_sequence + 1,
           previous_hash  |-> manifest[tail].entry_hash,
           entry_hash     |-> Hash(manifest[tail].entry_hash, e), data |-> e]
    BY <1>2 DEF NewRow
  <2> QED
    BY <2>2, <2>3, <2>4 DEF Row, Event
<1> QED
  BY <1>1, <1>2

\* A retry or a raised exception keeps the calls and outcomes well typed, given
\* that the other calls are.
LEMMA RetryOrRaiseType ==
  ASSUME TypeOK, NEW w \in Writer, call[w] # Idle,
         NEW STATE newCall, newCall \in [Writer -> Call \cup {Idle}],
         newCall[w] = call[w],
         \A v \in Writer : newCall[v] # Idle =>
                             newCall[v].tail \in 0 .. Len(manifest'),
         manifest' \in Seq(Row),
         RetryOrRaise(w, newCall)
  PROVE  TypeOK'
<1>1. call[w] \in Call
  BY DEF TypeOK
<1>2. CASE call[w].attempt < MaxAttempts
  <2> DEFINE again == Attempt(call[w].event, call[w].attempt + 1)
  <2>1. again \in Call
    BY <1>1, <1>2, AttemptsAssumption DEF Call, Attempt
  <2>2. call' = [newCall EXCEPT ![w] = again]
    BY <1>2 DEF RetryOrRaise
  <2>3. call' \in [Writer -> Call \cup {Idle}]
    BY <2>1, <2>2
  <2>4. again.tail = 0
    BY DEF Attempt
  <2>5. \A v \in Writer : call'[v] # Idle => call'[v].tail \in 0 .. Len(manifest')
    BY <2>2, <2>4, LenProperties
  <2> QED
    BY <1>2, <2>3, <2>5 DEF RetryOrRaise, TypeOK
<1>3. CASE ~ (call[w].attempt < MaxAttempts)
  <2>1. call' = [newCall EXCEPT ![w] = Idle]
    BY <1>3 DEF RetryOrRaise
  <2>2. outcome' \in [Event -> Outcome]
    BY <1>3 DEF RetryOrRaise, TypeOK, Outcome
  <2> QED
    BY <2>1, <2>2 DEF TypeOK
<1> QED
  BY <1>2, <1>3

\* The writers' view after a commit is well typed: the manifest only grew.
LEMMA CallsAfterCommitType ==
  ASSUME TypeOK, NEW w \in Writer, NEW row \in Row,
         manifest' = Append(manifest, row)
  PROVE  /\ CallsAfterCommit(w) \in [Writer -> Call \cup {Idle}]
         /\ CallsAfterCommit(w)[w] = call[w]
         /\ manifest' \in Seq(Row)
         /\ Len(manifest') = Len(manifest) + 1
         /\ \A v \in Writer : CallsAfterCommit(w)[v] # Idle =>
              CallsAfterCommit(w)[v].tail \in 0 .. Len(manifest')
<1>1. manifest' \in Seq(Row) /\ Len(manifest') = Len(manifest) + 1
  BY AppendProperties DEF TypeOK
<1>2. ASSUME NEW v \in Writer
      PROVE  /\ CallsAfterCommit(w)[v] \in Call \cup {Idle}
             /\ CallsAfterCommit(w)[v] # Idle =>
                  CallsAfterCommit(w)[v].tail \in 0 .. Len(manifest')
  <2>1. call[v] \in Call \cup {Idle}
    BY DEF TypeOK
  <2>2. Len(manifest) \in Nat
    BY LenProperties DEF TypeOK
  <2>3. CASE v # w /\ call[v].pc \in {"waiting", "locked"}
    <3>1. CallsAfterCommit(w)[v] = [call[v] EXCEPT !.overlapped = TRUE]
      BY <2>3 DEF CallsAfterCommit
    <3>2. call[v] # Idle
      BY <2>3 DEF Idle
    <3>3. call[v] \in Call /\ call[v].tail \in 0 .. Len(manifest)
      BY <2>1, <3>2 DEF TypeOK
    <3>4. /\ [call[v] EXCEPT !.overlapped = TRUE] \in Call
          /\ [call[v] EXCEPT !.overlapped = TRUE].tail = call[v].tail
      BY <3>3 DEF Call
    <3> QED
      BY <1>1, <2>2, <3>1, <3>3, <3>4
  <2>4. CASE ~ (v # w /\ call[v].pc \in {"waiting", "locked"})
    <3>1. CallsAfterCommit(w)[v] = call[v]
      BY <2>4 DEF CallsAfterCommit
    <3> QED
      BY <1>1, <2>1, <2>2, <3>1 DEF TypeOK
  <2> QED
    BY <2>3, <2>4
<1>3. CallsAfterCommit(w)[w] = call[w]
  BY DEF CallsAfterCommit
<1>4. CallsAfterCommit(w) \in [Writer -> Call \cup {Idle}]
  BY <1>2 DEF CallsAfterCommit
<1> QED
  BY <1>1, <1>2, <1>3, <1>4

\* The SELECT returns a row that exists, or none.
LEMMA LastRowsInManifest ==
  ASSUME TypeOK
  PROVE  \A i \in IF manifest = << >> THEN {0} ELSE LastRows : i \in 0 .. Len(manifest)
  BY LenProperties DEF TypeOK, LastRows

\* Every step of every writer keeps the types.
LEMMA TypeStep ==
  ASSUME TypeOK, [Next]_vars
  PROVE  TypeOK'
<1>1. CASE UNCHANGED vars
  BY <1>1 DEF vars, TypeOK
<1>2. ASSUME NEW w \in Writer, NEW e \in Event, StartAppend(w, e)
      PROVE  TypeOK'
  <2>1. Attempt(e, 1) \in Call /\ Attempt(e, 1).tail = 0
    BY AttemptsAssumption DEF Attempt, Call
  <2>2. Len(manifest) \in Nat
    BY LenProperties DEF TypeOK
  <2> QED
    BY <1>2, <2>1, <2>2 DEF StartAppend, TypeOK, Outcome
<1>3. ASSUME NEW w \in Writer, SelectLast(w)
      PROVE  TypeOK'
  <2>1. call[w] \in Call
    BY <1>3 DEF SelectLast, At, TypeOK, Idle
  <2>2. PICK i \in 0 .. Len(manifest) :
          call' = [call EXCEPT ![w].pc = "waiting", ![w].tail = i]
    BY <1>3, LastRowsInManifest DEF SelectLast
  <2>3. Len(manifest) \in Nat
    BY LenProperties DEF TypeOK
  <2>4. [call[w] EXCEPT !.pc = "waiting", !.tail = i] \in Call
    <3> DEFINE waiting == [call[w] EXCEPT !.pc = "waiting"]
    <3>1. waiting \in Call
      BY <2>1 DEF Call
    <3> HIDE DEF waiting
    <3>2. [waiting EXCEPT !.tail = i] \in Call
      BY <2>2, <2>3, <3>1 DEF Call
    <3> QED
      BY <3>2 DEF waiting
  <2>5. call'[w].tail = i
    BY <2>1, <2>2 DEF TypeOK, Call
  <2> QED
    BY <1>3, <2>2, <2>4, <2>5 DEF SelectLast, TypeOK
<1>4. ASSUME NEW w \in Writer, LockLast(w)
      PROVE  TypeOK'
  <2>1. call[w] \in Call
    BY <1>4 DEF LockLast, At, TypeOK, Idle
  <2>2. [call[w] EXCEPT !.pc = "locked"] \in Call
    BY <2>1 DEF Call
  <2>3. call' = [call EXCEPT ![w] = [call[w] EXCEPT !.pc = "locked"]]
    BY <1>4 DEF LockLast
  <2>4. [call[w] EXCEPT !.pc = "locked"].tail = call[w].tail /\ call[w] # Idle
    BY <1>4, <2>1 DEF Call, LockLast, At, Idle
  <2> QED
    BY <1>4, <2>2, <2>3, <2>4 DEF LockLast, TypeOK
<1>5. ASSUME NEW w \in Writer, CommitEntry(w) \/ LoseCommitReply(w)
      PROVE  TypeOK'
  <2>1. call[w] \in Call /\ call[w] # Idle
    BY <1>5 DEF CommitEntry, LoseCommitReply, At, TypeOK, Idle
  <2>2. NewRow(call[w].event, call[w].tail) \in Row
    BY <2>1, NewRowType DEF TypeOK, Call
  <2>3. manifest' = Append(manifest, NewRow(call[w].event, call[w].tail))
    BY <1>5 DEF CommitEntry, LoseCommitReply
  <2>4. /\ CallsAfterCommit(w) \in [Writer -> Call \cup {Idle}]
        /\ CallsAfterCommit(w)[w] = call[w]
        /\ manifest' \in Seq(Row)
        /\ \A v \in Writer : CallsAfterCommit(w)[v] # Idle =>
             CallsAfterCommit(w)[v].tail \in 0 .. Len(manifest')
    BY <2>2, <2>3, CallsAfterCommitType
  <2>5. CASE CommitEntry(w)
    <3>1. /\ call' = [CallsAfterCommit(w) EXCEPT ![w] = Idle]
          /\ outcome' = [outcome EXCEPT ![call[w].event] = "returned"]
      BY <2>5 DEF CommitEntry
    <3>2. outcome' \in [Event -> Outcome]
      BY <3>1 DEF TypeOK, Outcome
    <3> QED
      BY <2>4, <3>1, <3>2 DEF TypeOK
  <2>6. CASE LoseCommitReply(w)
    <3>1. RetryOrRaise(w, CallsAfterCommit(w))
      BY <2>6 DEF LoseCommitReply
    <3> QED
      BY <2>1, <2>4, <3>1, RetryOrRaiseType
  <2> QED
    BY <1>5, <2>5, <2>6
<1>6. ASSUME NEW w \in Writer, DropConnection(w)
      PROVE  TypeOK'
  BY <1>6, RetryOrRaiseType DEF DropConnection, TypeOK
<1> QED
  BY <1>1, <1>2, <1>3, <1>4, <1>5, <1>6 DEF Next

\* The variables have their types.
THEOREM TypeCorrect == Spec => []TypeOK
<1>1. Init => TypeOK
  BY DEF Init, TypeOK, Outcome, Idle
<1> QED
  BY <1>1, TypeStep, PTL DEF Spec

----------------------------------------------------------------------------
(***************************************************************************)
(* The manifest is a tree.                                                 *)
(***************************************************************************)

\* What a step does to the manifest: nothing, or one call appends its row.
LEMMA ManifestStep ==
  ASSUME TypeOK, [Next]_vars
  PROVE  \/ manifest' = manifest
         \/ \E w \in Writer :
              /\ At(w, "locked") /\ call[w] \in Call
              /\ call[w].tail \in 0 .. Len(manifest)
              /\ manifest' = Append(manifest, NewRow(call[w].event, call[w].tail))
<1>1. ASSUME NEW w \in Writer, CommitEntry(w) \/ LoseCommitReply(w)
      PROVE  /\ At(w, "locked") /\ call[w] \in Call
             /\ call[w].tail \in 0 .. Len(manifest)
             /\ manifest' = Append(manifest, NewRow(call[w].event, call[w].tail))
  BY <1>1 DEF CommitEntry, LoseCommitReply, At, TypeOK, Idle
<1>2. ASSUME NEW w \in Writer,
             \/ \E e \in Event : StartAppend(w, e)
             \/ SelectLast(w) \/ LockLast(w) \/ DropConnection(w)
      PROVE  manifest' = manifest
  BY <1>2 DEF StartAppend, SelectLast, LockLast, DropConnection
<1> QED
  BY <1>1, <1>2 DEF Next, vars

\* An entry that is committed chains to one committed before it.
LEMMA DescendsStep ==
  ASSUME TypeOK, EveryEntryDescends, [Next]_vars
  PROVE  EveryEntryDescends'
<1>1. CASE manifest' = manifest
  BY <1>1 DEF EveryEntryDescends
<1>2. ASSUME NEW w \in Writer, call[w] \in Call, call[w].tail \in 0 .. Len(manifest),
             manifest' = Append(manifest, NewRow(call[w].event, call[w].tail))
      PROVE  EveryEntryDescends'
  <2> DEFINE tail == call[w].tail
             new  == NewRow(call[w].event, tail)
  <2>1. new \in Row
    BY <1>2, NewRowType DEF TypeOK, Call
  <2>2. /\ DOMAIN manifest = 1 .. Len(manifest)
        /\ Len(manifest) \in Nat
        /\ DOMAIN manifest' = 1 .. Len(manifest) + 1
        /\ \A i \in 1 .. Len(manifest) : manifest'[i] = manifest[i]
        /\ manifest'[Len(manifest) + 1] = new
    BY <1>2, <2>1, AppendProperties, LenProperties DEF TypeOK
  <2>3. \/ new.entry_sequence = 1 /\ new.previous_hash = Genesis
        \/ /\ tail \in 1 .. Len(manifest)
           /\ new.entry_sequence = manifest[tail].entry_sequence + 1
           /\ new.previous_hash = manifest[tail].entry_hash
    BY <1>2, <2>2 DEF NewRow
  <2>4. ASSUME NEW i \in 1 .. Len(manifest) + 1
        PROVE  \/ /\ manifest'[i].entry_sequence = 1
                  /\ manifest'[i].previous_hash = Genesis
               \/ \E j \in 1 .. i - 1 :
                    /\ manifest'[i].entry_sequence = manifest'[j].entry_sequence + 1
                    /\ manifest'[i].previous_hash = manifest'[j].entry_hash
    <3>1. CASE i \in 1 .. Len(manifest)
      <4>1. \A j \in 1 .. i - 1 : manifest'[j] = manifest[j]
        BY <2>2, <3>1
      <4> QED
        BY <2>2, <3>1, <4>1 DEF EveryEntryDescends
    <3>2. CASE i = Len(manifest) + 1
      BY <2>2, <2>3, <3>2
    <3> QED
      BY <2>2, <3>1, <3>2
  <2> QED
    BY <2>2, <2>4 DEF EveryEntryDescends
<1> QED
  BY <1>1, <1>2, ManifestStep

\* However the appends of concurrent writers interleave, fail and are retried,
\* every entry is a first entry or extends an earlier one.
THEOREM Descends == Spec => []EveryEntryDescends
<1>1. Init => TypeOK /\ EveryEntryDescends
  BY DEF Init, TypeOK, Outcome, Idle, EveryEntryDescends
<1> QED
  BY <1>1, TypeStep, DescendsStep, PTL DEF Spec

----------------------------------------------------------------------------
(***************************************************************************)
(* One writer: the row a SELECT returned stays the last one until its call *)
(* commits, so the manifest stays linear.                                  *)
(***************************************************************************)

TailIsLast(w) ==
  call[w].pc \in {"waiting", "locked"} => call[w].tail = Len(manifest)

SerialInv ==
  Serial => LinearManifest(manifest) /\ \A w \in Writer : TailIsLast(w)

\* Chaining a row to the last one of a linear manifest keeps it linear.
LEMMA LinearAppend ==
  ASSUME TypeOK, LinearManifest(manifest), NEW e \in Event,
         manifest' = Append(manifest, NewRow(e, Len(manifest)))
  PROVE  LinearManifest(manifest')
<1> DEFINE new == NewRow(e, Len(manifest))
<1>1. Len(manifest) \in Nat /\ DOMAIN manifest = 1 .. Len(manifest)
  BY LenProperties DEF TypeOK
<1>2. new \in Row
  BY <1>1, NewRowType DEF TypeOK
<1>3. /\ DOMAIN manifest' = 1 .. Len(manifest) + 1
      /\ \A i \in 1 .. Len(manifest) : manifest'[i] = manifest[i]
      /\ manifest'[Len(manifest) + 1] = new
  BY <1>1, <1>2, AppendProperties, LenProperties DEF TypeOK
<1>4. /\ new.entry_sequence = Len(manifest) + 1
      /\ new.previous_hash = IF Len(manifest) + 1 = 1 THEN Genesis
                             ELSE manifest[Len(manifest)].entry_hash
      /\ new.entry_hash = Hash(new.previous_hash, new.data)
  BY <1>1 DEF NewRow, LinearManifest
<1>5. ASSUME NEW i \in 1 .. Len(manifest) + 1
      PROVE  /\ manifest'[i].entry_sequence = i
             /\ manifest'[i].previous_hash =
                  IF i = 1 THEN Genesis ELSE manifest'[i - 1].entry_hash
             /\ manifest'[i].entry_hash =
                  Hash(manifest'[i].previous_hash, manifest'[i].data)
  <2>1. CASE i \in 1 .. Len(manifest)
    <3>1. i # 1 => manifest'[i - 1] = manifest[i - 1]
      BY <1>1, <1>3, <2>1
    <3> QED
      BY <1>1, <1>3, <2>1, <3>1 DEF LinearManifest
  <2>2. CASE i = Len(manifest) + 1
    <3>1. manifest'[i] = new
      BY <1>3, <2>2
    <3>2. CASE i = 1
      BY <1>1, <1>4, <2>2, <3>1, <3>2
    <3>3. CASE i # 1
      <4>1. i - 1 = Len(manifest) /\ Len(manifest) \in 1 .. Len(manifest)
        BY <1>1, <2>2, <3>3
      <4>2. manifest'[i - 1] = manifest[Len(manifest)]
        BY <1>3, <4>1
      <4>3. new.previous_hash = manifest[Len(manifest)].entry_hash
        BY <1>1, <1>4, <2>2, <3>3
      <4> QED
        BY <1>4, <2>2, <3>1, <3>3, <4>2, <4>3
    <3> QED
      BY <3>2, <3>3
  <2> QED
    BY <1>1, <2>1, <2>2
<1> QED
  BY <1>3, <1>5 DEF LinearManifest

\* A single writer's call always holds the row that is still the last.
LEMMA SerialStep ==
  ASSUME TypeOK, SerialInv, [Next]_vars
  PROVE  SerialInv'
<1> SUFFICES ASSUME Serial
             PROVE  LinearManifest(manifest') /\ \A w \in Writer : TailIsLast(w)'
  BY DEF SerialInv, Serial
<1>1. LinearManifest(manifest) /\ \A w \in Writer : TailIsLast(w)
  BY DEF SerialInv
<1>2. Len(manifest) \in Nat /\ DOMAIN manifest = 1 .. Len(manifest)
  BY LenProperties DEF TypeOK
<1>3. CASE UNCHANGED vars
  BY <1>1, <1>3 DEF vars, TailIsLast
<1>4. ASSUME NEW w \in Writer, NEW e \in Event, StartAppend(w, e)
      PROVE  LinearManifest(manifest') /\ \A v \in Writer : TailIsLast(v)'
  BY <1>1, <1>4 DEF StartAppend, TailIsLast, Attempt, TypeOK, Serial
<1>5. ASSUME NEW w \in Writer, SelectLast(w)
      PROVE  LinearManifest(manifest') /\ \A v \in Writer : TailIsLast(v)'
  <2>1. PICK i \in IF manifest = << >> THEN {0} ELSE LastRows :
          call' = [call EXCEPT ![w].pc = "waiting", ![w].tail = i]
    BY <1>5 DEF SelectLast
  <2>2. i = Len(manifest)
    <3>1. CASE manifest = << >>
      BY <2>1, <3>1
    <3>2. CASE manifest # << >>
      <4>1. i \in LastRows /\ Len(manifest) \in DOMAIN manifest
        BY <1>2, <2>1, <3>2, EmptySeq DEF TypeOK
      <4>2. manifest[i].entry_sequence = i
            /\ manifest[Len(manifest)].entry_sequence = Len(manifest)
        BY <1>1, <4>1 DEF LinearManifest, LastRows
      <4> QED
        BY <1>2, <4>1, <4>2 DEF LastRows
    <3> QED
      BY <3>1, <3>2
  <2>3. call[w] \in Call
    BY <1>5 DEF SelectLast, At, TypeOK, Idle
  <2>4. call'[w].tail = i
    BY <2>1, <2>3 DEF TypeOK, Call
  <2>5. \A v \in Writer : v = w
    BY DEF Serial
  <2> QED
    BY <1>1, <1>5, <2>2, <2>4, <2>5 DEF SelectLast, TailIsLast
<1>6. ASSUME NEW w \in Writer, LockLast(w)
      PROVE  LinearManifest(manifest') /\ \A v \in Writer : TailIsLast(v)'
  <2>1. call[w] \in Call /\ call[w].pc = "waiting"
    BY <1>6 DEF LockLast, At, TypeOK, Idle
  <2>2. call'[w].tail = call[w].tail
    BY <1>6, <2>1 DEF LockLast, TypeOK, Call
  <2>3. \A v \in Writer : v = w
    BY DEF Serial
  <2> QED
    BY <1>1, <1>6, <2>1, <2>2, <2>3 DEF LockLast, TailIsLast
<1>7. ASSUME NEW w \in Writer, CommitEntry(w) \/ LoseCommitReply(w)
      PROVE  LinearManifest(manifest') /\ \A v \in Writer : TailIsLast(v)'
  <2>1. call[w] \in Call /\ call[w].pc = "locked"
    BY <1>7 DEF CommitEntry, LoseCommitReply, At, TypeOK, Idle
  <2>2. call[w].tail = Len(manifest) /\ call[w].event \in Event
    BY <1>1, <2>1 DEF TailIsLast, Call
  <2>3. LinearManifest(manifest')
    BY <1>1, <1>7, <2>2, LinearAppend DEF CommitEntry, LoseCommitReply
  <2>4. CallsAfterCommit(w) \in [Writer -> {CallsAfterCommit(w)[w]}]
        /\ \A v \in Writer : v = w
    BY DEF Serial, CallsAfterCommit
  <2>5. call'[w].pc \in {"idle", "begin"}
    BY <1>7, <2>4 DEF CommitEntry, LoseCommitReply, RetryOrRaise, Idle, Attempt
  <2> QED
    BY <2>3, <2>4, <2>5 DEF TailIsLast
<1>8. ASSUME NEW w \in Writer, DropConnection(w)
      PROVE  LinearManifest(manifest') /\ \A v \in Writer : TailIsLast(v)'
  <2>1. call'[w].pc \in {"idle", "begin"}
    BY <1>8 DEF DropConnection, RetryOrRaise, Idle, Attempt, TypeOK
  <2>2. \A v \in Writer : v = w
    BY DEF Serial
  <2> QED
    BY <1>1, <1>8, <2>1, <2>2 DEF DropConnection, TailIsLast
<1> QED
  BY <1>3, <1>4, <1>5, <1>6, <1>7, <1>8 DEF Next

\* One ingesting process keeps the manifest linear through every lost
\* connection, lost commit reply and retry.
THEOREM SerialLinear == Spec => []SerialManifestIsLinear
<1>1. Init => TypeOK /\ SerialInv
  BY DEF Init, TypeOK, Outcome, Idle, SerialInv, LinearManifest, TailIsLast
<1>2. SerialInv => SerialManifestIsLinear
  BY DEF SerialInv, SerialManifestIsLinear
<1> QED
  BY <1>1, <1>2, TypeStep, SerialStep, PTL DEF Spec

----------------------------------------------------------------------------
(***************************************************************************)
(* Any number of writers: a call that nobody overlapped holds the last row.*)
(***************************************************************************)

LastOrNone == IF manifest = << >> THEN {0} ELSE LastRows

UnoverlappedIsLast ==
  \A w \in Writer :
    call[w].pc \in {"waiting", "locked"} /\ ~ call[w].overlapped =>
      call[w].tail \in LastOrNone

\* A step of one writer leaves the others where they are.
LEMMA OthersStay ==
  ASSUME TypeOK, NEW w \in Writer, NEW v \in Writer, v # w,
         \/ \E e \in Event : StartAppend(w, e)
         \/ SelectLast(w) \/ LockLast(w) \/ CommitEntry(w)
         \/ LoseCommitReply(w) \/ DropConnection(w)
  PROVE  \/ call'[v] = call[v]
         \/ /\ CommitEntry(w) \/ LoseCommitReply(w)
            /\ call[v].pc \in {"waiting", "locked"}
            /\ call'[v].pc = call[v].pc /\ call'[v].overlapped
<1>1. CASE \/ \E e \in Event : StartAppend(w, e)
           \/ SelectLast(w) \/ LockLast(w) \/ DropConnection(w)
  BY <1>1 DEF StartAppend, SelectLast, LockLast, DropConnection, RetryOrRaise, TypeOK
<1>2. CASE CommitEntry(w) \/ LoseCommitReply(w)
  <2>1. call'[v] = CallsAfterCommit(w)[v]
    BY <1>2 DEF CommitEntry, LoseCommitReply, RetryOrRaise, CallsAfterCommit
  <2>2. CASE call[v].pc \in {"waiting", "locked"}
    <3>1. call[v] \in Call
      BY <2>2 DEF TypeOK, Idle
    <3>2. call'[v] = [call[v] EXCEPT !.overlapped = TRUE]
      BY <2>1, <2>2 DEF CallsAfterCommit
    <3>3. call'[v].pc = call[v].pc /\ call'[v].overlapped
      BY <3>1, <3>2 DEF Call
    <3> QED
      BY <1>2, <2>2, <3>3
  <2>3. CASE call[v].pc \notin {"waiting", "locked"}
    BY <2>1, <2>3 DEF CallsAfterCommit
  <2> QED
    BY <2>2, <2>3
<1> QED
  BY <1>1, <1>2

\* While no other call commits, the row a call's SELECT returned stays one
\* with the highest number.
LEMMA UnoverlappedStep ==
  ASSUME TypeOK, UnoverlappedIsLast, [Next]_vars
  PROVE  UnoverlappedIsLast'
<1>1. CASE UNCHANGED vars
  BY <1>1 DEF vars, UnoverlappedIsLast, LastOrNone, LastRows
<1>2. ASSUME NEW w \in Writer,
             \/ \E e \in Event : StartAppend(w, e)
             \/ SelectLast(w) \/ LockLast(w) \/ DropConnection(w)
      PROVE  UnoverlappedIsLast'
  <2>1. manifest' = manifest /\ LastOrNone' = LastOrNone
    BY <1>2 DEF StartAppend, SelectLast, LockLast, DropConnection, LastOrNone, LastRows
  <2>2. ASSUME call'[w].pc \in {"waiting", "locked"}, ~ call'[w].overlapped
        PROVE  call'[w].tail \in LastOrNone
    <3>1. CASE \/ \E e \in Event : StartAppend(w, e)
               \/ DropConnection(w)
      BY <2>2, <3>1 DEF StartAppend, DropConnection, RetryOrRaise, Attempt, Idle, TypeOK
    <3>2. CASE SelectLast(w)
      <4>1. PICK i \in LastOrNone :
              call' = [call EXCEPT ![w].pc = "waiting", ![w].tail = i]
        BY <3>2 DEF SelectLast, LastOrNone
      <4>2. call[w] \in Call
        BY <3>2 DEF SelectLast, At, TypeOK, Idle
      <4>3. call'[w].tail = i
        BY <4>1, <4>2 DEF TypeOK, Call
      <4> QED
        BY <4>3
    <3>3. CASE LockLast(w)
      <4>1. call[w] \in Call /\ call[w].pc = "waiting"
        BY <3>3 DEF LockLast, At, TypeOK, Idle
      <4>2. call'[w].tail = call[w].tail /\ call'[w].overlapped = call[w].overlapped
        BY <3>3, <4>1 DEF LockLast, TypeOK, Call
      <4> QED
        BY <2>2, <4>1, <4>2 DEF UnoverlappedIsLast
    <3> QED
      BY <1>2, <3>1, <3>2, <3>3
  <2>3. ASSUME NEW v \in Writer, v # w,
               call'[v].pc \in {"waiting", "locked"}, ~ call'[v].overlapped
        PROVE  call'[v].tail \in LastOrNone
    <3>1. call'[v] = call[v]
      BY <1>2, <2>3, OthersStay
    <3> QED
      BY <2>3, <3>1 DEF UnoverlappedIsLast
  <2> QED
    BY <2>1, <2>2, <2>3 DEF UnoverlappedIsLast
<1>3. ASSUME NEW w \in Writer, CommitEntry(w) \/ LoseCommitReply(w)
      PROVE  UnoverlappedIsLast'
  <2>1. call'[w].pc \in {"idle", "begin"}
    <3>1. CallsAfterCommit(w) \in [Writer -> {CallsAfterCommit(w)[v] : v \in Writer}]
      BY DEF CallsAfterCommit
    <3> QED
      BY <1>3, <3>1 DEF CommitEntry, LoseCommitReply, RetryOrRaise, Idle, Attempt
  <2>2. ASSUME NEW v \in Writer, v # w,
               call'[v].pc \in {"waiting", "locked"}, ~ call'[v].overlapped
        PROVE  FALSE
    <3>1. call'[v] = CallsAfterCommit(w)[v]
      BY <1>3, <2>2 DEF CommitEntry, LoseCommitReply, RetryOrRaise, CallsAfterCommit
    <3>2. CASE call[v].pc \in {"waiting", "locked"}
      <4>1. call[v] \in Call
        BY <3>2 DEF TypeOK, Idle
      <4>2. call'[v] = [call[v] EXCEPT !.overlapped = TRUE]
        BY <2>2, <3>1, <3>2 DEF CallsAfterCommit
      <4>3. call'[v].overlapped
        BY <4>1, <4>2 DEF Call
      <4> QED
        BY <2>2, <4>3
    <3>3. CASE call[v].pc \notin {"waiting", "locked"}
      <4>1. call'[v] = call[v]
        BY <3>1, <3>3 DEF CallsAfterCommit
      <4> QED
        BY <2>2, <3>3, <4>1
    <3> QED
      BY <3>2, <3>3
  <2> QED
    BY <2>1, <2>2 DEF UnoverlappedIsLast
<1> QED
  BY <1>1, <1>2, <1>3 DEF Next

\* The step of OnlyOverlapForks.
LEMMA CommitOnTop ==
  ASSUME TypeOK, UnoverlappedIsLast, [Next]_vars, NEW w \in Writer,
         At(w, "locked"), ~ At(w, "locked")', ~ call[w].overlapped,
         manifest' # manifest, NEW i \in DOMAIN manifest
  PROVE  manifest[i].entry_sequence < manifest'[Len(manifest')].entry_sequence
<1>1. PICK v \in Writer : CommitEntry(v) \/ LoseCommitReply(v)
  BY DEF Next, StartAppend, SelectLast, LockLast, DropConnection, vars
<1>2. v = w
  BY <1>1, OthersStay DEF At
<1>3. call[w] \in Call
  BY DEF At, TypeOK, Idle
<1>4. manifest' = Append(manifest, NewRow(call[w].event, call[w].tail))
  BY <1>1, <1>2 DEF CommitEntry, LoseCommitReply
<1>5. manifest # << >> /\ i \in 1 .. Len(manifest) /\ Len(manifest) \in Nat
  BY EmptySeq, LenProperties DEF TypeOK
<1>6. call[w].tail \in LastRows
  BY <1>5 DEF UnoverlappedIsLast, LastOrNone, At
<1>7. call[w].tail \in 1 .. Len(manifest)
      /\ manifest[i].entry_sequence <= manifest[call[w].tail].entry_sequence
  BY <1>5, <1>6, LenProperties DEF LastRows, TypeOK
<1>8. /\ manifest[i] \in Row /\ manifest[call[w].tail] \in Row
      /\ NewRow(call[w].event, call[w].tail) \in Row
  BY <1>3, <1>5, <1>7, ElementOfSeq, NewRowType DEF TypeOK, Call
<1>9. manifest'[Len(manifest')] = NewRow(call[w].event, call[w].tail)
  BY <1>4, <1>5, <1>8, AppendProperties DEF TypeOK
<1>10. NewRow(call[w].event, call[w].tail).entry_sequence
         = manifest[call[w].tail].entry_sequence + 1
  BY <1>7 DEF NewRow
<1> QED
  BY <1>7, <1>8, <1>9, <1>10 DEF Row

\* Only a call that overlapped another's commit can give a number twice.
THEOREM OverlapForks == Spec => OnlyOverlapForks
<1>1. Init => TypeOK /\ UnoverlappedIsLast
  BY DEF Init, TypeOK, Outcome, Idle, UnoverlappedIsLast
<1>2. TypeOK /\ UnoverlappedIsLast /\ [Next]_vars =>
        [\A w \in Writer :
           /\ At(w, "locked") /\ ~ At(w, "locked")'
           /\ ~ call[w].overlapped
           /\ manifest' # manifest
           => \A i \in DOMAIN manifest :
                manifest[i].entry_sequence
                  < manifest'[Len(manifest')].entry_sequence]_vars
  BY CommitOnTop
<1> QED
  BY <1>1, <1>2, TypeStep, UnoverlappedStep, PTL DEF Spec, OnlyOverlapForks

----------------------------------------------------------------------------
(***************************************************************************)
(* The retriever.                                                          *)
(***************************************************************************)

(***************************************************************************)
(* Listings.                                                               *)
(***************************************************************************)

StrictOrder(S, order) ==
  /\ \A i, j \in S : i = j \/ <<i, j>> \in order \/ <<j, i>> \in order
  /\ \A i \in S : <<i, i>> \notin order
  /\ \A i, j, k \in S : <<i, j>> \in order /\ <<j, k>> \in order => <<i, k>> \in order

\* A listing of a finite set has each member once, in order: ranks are a bijection.
LEMMA ListingProperties ==
  ASSUME NEW S, IsFiniteSet(S), NEW order, StrictOrder(S, order)
  PROVE  /\ Cardinality(S) \in Nat
         /\ Listing(S, order) \in [1 .. Cardinality(S) -> S]
         /\ \A m, n \in 1 .. Cardinality(S) :
              m < n => <<Listing(S, order)[m], Listing(S, order)[n]>> \in order
         /\ \A i \in S : \E n \in 1 .. Cardinality(S) : Listing(S, order)[n] = i
         /\ \A n \in 1 .. Cardinality(S) :
              Cardinality({j \in S : <<j, Listing(S, order)[n]>> \in order}) = n - 1
<1> DEFINE size == Cardinality(S)
           Below(p) == {q \in S : <<q, p>> \in order}
           rank == [p \in S |-> Cardinality(Below(p)) + 1]
<1>1. size \in Nat
  BY FS_CardinalityType
<1>2. ASSUME NEW p \in S
      PROVE  /\ IsFiniteSet(Below(p)) /\ Cardinality(Below(p)) \in Nat
             /\ rank[p] = Cardinality(Below(p)) + 1
             /\ rank[p] \in 1 .. size
  <2>1. Below(p) \in SUBSET S /\ p \notin Below(p)
    BY DEF StrictOrder
  <2>2. /\ IsFiniteSet(Below(p)) /\ Cardinality(Below(p)) <= size
        /\ Cardinality(Below(p)) \in Nat
    BY <2>1, FS_Subset, FS_CardinalityType
  <2>3. Cardinality(Below(p)) # size
    BY <2>1, FS_Subset
  <2>4. rank[p] = Cardinality(Below(p)) + 1
    OBVIOUS
  <2> HIDE DEF Below, size, rank
  <2> QED
    BY <1>1, <2>2, <2>3, <2>4
<1>3. ASSUME NEW p \in S, NEW q \in S, <<p, q>> \in order
      PROVE  rank[p] < rank[q]
  <2>1. Below(p) \in SUBSET Below(q) /\ p \in Below(q) /\ p \notin Below(p)
    BY <1>3 DEF StrictOrder
  <2>2. IsFiniteSet(Below(p)) /\ IsFiniteSet(Below(q))
    BY <1>2
  <2>3. /\ Cardinality(Below(p)) \in Nat /\ Cardinality(Below(q)) \in Nat
        /\ rank[p] = Cardinality(Below(p)) + 1 /\ rank[q] = Cardinality(Below(q)) + 1
    BY <1>2
  <2> HIDE DEF Below, rank
  <2>4. /\ Cardinality(Below(p)) <= Cardinality(Below(q))
        /\ Cardinality(Below(p)) # Cardinality(Below(q))
    BY <2>1, <2>2, FS_Subset
  <2> QED
    BY <2>3, <2>4
<1>4. \A p, q \in S : rank[p] < rank[q] => <<p, q>> \in order
  <2> SUFFICES ASSUME NEW p \in S, NEW q \in S, rank[p] < rank[q]
               PROVE  <<p, q>> \in order
    OBVIOUS
  <2>1. rank[p] \in Int /\ rank[q] \in Int
    <3> HIDE DEF rank, Below, size
    <3> QED
      BY <1>1, <1>2
  <2>2. p # q /\ <<q, p>> \notin order
    <3> HIDE DEF rank
    <3> QED
      BY <1>3, <2>1
  <2> QED
    BY <2>2 DEF StrictOrder
<1>5. rank \in Injection(S, 1 .. size)
  <2>1. \A p, q \in S : rank[p] = rank[q] => p = q
    <3> SUFFICES ASSUME NEW p \in S, NEW q \in S, rank[p] = rank[q], p # q
                 PROVE  FALSE
      OBVIOUS
    <3>1. <<p, q>> \in order \/ <<q, p>> \in order
      BY DEF StrictOrder
    <3>2. rank[p] \in Int /\ rank[q] \in Int
      BY <1>2
    <3> HIDE DEF rank
    <3> QED
      BY <1>3, <3>1, <3>2
  <2>2. rank \in [S -> 1 .. size]
    BY <1>2
  <2> HIDE DEF rank
  <2> QED
    BY <2>1, <2>2 DEF Injection, IsInjective
<1>6. IsFiniteSet(1 .. size) /\ Cardinality(1 .. size) = size
  BY <1>1, FS_Interval
<1>7. rank \in Surjection(S, 1 .. size)
  BY <1>5, <1>6, FS_Injection
<1>8. ASSUME NEW n \in 1 .. size
      PROVE  /\ Listing(S, order)[n] \in S
             /\ rank[Listing(S, order)[n]] = n
             /\ Cardinality(Below(Listing(S, order)[n])) = n - 1
  <2>1. PICK p \in S : rank[p] = n
    BY <1>7 DEF Surjection
  <2>2. rank[p] = Cardinality(Below(p)) + 1 /\ Cardinality(Below(p)) \in Nat
    BY <1>2
  <2>3. Cardinality(Below(p)) = n - 1
    <3> HIDE DEF Below, rank
    <3> QED
      BY <2>1, <2>2
  <2>4. Cardinality(Below(p)) = n - 1 /\ n \in 1 .. Cardinality(S)
    BY <2>3
  <2>5. /\ Listing(S, order)[n] \in S
        /\ Cardinality(Below(Listing(S, order)[n])) = n - 1
    BY <2>4 DEF Listing
  <2>6. /\ rank[Listing(S, order)[n]] = Cardinality(Below(Listing(S, order)[n])) + 1
        /\ Cardinality(Below(Listing(S, order)[n])) = n - 1
    BY <1>2, <2>5
  <2> HIDE DEF Below, rank
  <2> QED
    BY <2>5, <2>6
<1>9. Listing(S, order) \in [1 .. size -> S]
  <2>1. Cardinality(S) = size
    OBVIOUS
  <2> DEFINE Nth(n) ==
               CHOOSE i \in S : Cardinality({j \in S : <<j, i>> \in order}) = n - 1
  <2>2. Listing(S, order) = [n \in 1 .. Cardinality(S) |-> Nth(n)]
    BY DEF Listing
  <2> HIDE DEF rank, Nth
  <2> QED
    BY <1>8, <2>1, <2>2
<1>10. \A i \in S : Listing(S, order)[rank[i]] = i /\ rank[i] \in 1 .. size
  <2> TAKE i \in S
  <2>1. rank[i] \in 1 .. size
    BY <1>2
  <2> HIDE DEF rank
  <2> QED
    BY <1>5, <1>8, <2>1 DEF Injection, IsInjective
<1> HIDE DEF rank
<1> QED
  BY <1>1, <1>4, <1>8, <1>9, <1>10

(***************************************************************************)
(* The types of its state.                                                 *)
(***************************************************************************)

LEMMA EntriesType ==
  ASSUME NEW S \in SUBSET Chunk, NEW list \in Orderings(S),
         NEW via \in {"search", "walkthrough", "neighbour"}
  PROVE  /\ Cardinality(S) \in Nat
         /\ Entries(list, via) \in Seq(Entry)
         /\ Len(Entries(list, via)) = Cardinality(S)
         /\ \A i \in 1 .. Cardinality(S) :
              /\ list[i] \in S
              /\ Entries(list, via)[i] = [id |-> list[i], text |-> list[i], via |-> via]
<1>1. IsFiniteSet(S) /\ Cardinality(S) \in Nat
  BY FS_Subset, FS_CardinalityType, RetrievalAssumption
<1>2. list \in [1 .. Cardinality(S) -> S]
  BY DEF Orderings
<1>3. Entries(list, via)
        = [i \in 1 .. Cardinality(S) |-> [id |-> list[i], text |-> list[i], via |-> via]]
  BY <1>2 DEF Entries
<1>4. Entries(list, via) \in [1 .. Cardinality(S) -> Entry]
  BY <1>2, <1>3 DEF Entry
<1>5. Entries(list, via) \in Seq(Entry) /\ Len(Entries(list, via)) = Cardinality(S)
  BY <1>1, <1>4
<1>6. \A i \in 1 .. Cardinality(S) :
        /\ list[i] \in S
        /\ Entries(list, via)[i] = [id |-> list[i], text |-> list[i], via |-> via]
  BY <1>2, <1>3
<1> QED
  BY <1>1, <1>5, <1>6

\* A table row is shown as its table, which has been read.
LEMMA SwappedType ==
  ASSUME NEW ranked \in Seq(Chunk), NEW i \in DOMAIN Swapped(ranked)
  PROVE  LET entry == Swapped(ranked)[i]
         IN  /\ i \in DOMAIN ranked
             /\ entry \in Entry /\ entry.via = "search" /\ entry.id = ranked[i]
             /\ \/ entry.text = ranked[i]
                \/ entry.text = Parent[ranked[i]] /\ entry.text \in Present \ blacklisted
<1> DEFINE parents == ParentsOf(Range(ranked))
           keeps(k) == \/ Parent[ranked[k]] = NoChunk
                       \/ /\ Parent[ranked[k]] \in parents
                          /\ \A j \in 1 .. k - 1 : Parent[ranked[j]] # Parent[ranked[k]]
           entry(c) == [id |-> c, text |-> IF Parent[c] = NoChunk THEN c ELSE Parent[c],
                        via |-> "search"]
<1>1. Swapped(ranked) = [k \in {k \in DOMAIN ranked : keeps(k)} |-> entry(ranked[k])]
  BY DEF Swapped
<1>2. /\ i \in DOMAIN ranked /\ keeps(i) /\ Swapped(ranked)[i] = entry(ranked[i])
  <2> HIDE DEF keeps, entry
  <2> QED
    BY <1>1
<1>3. ranked[i] \in Chunk
  BY <1>2
<1>4. parents \subseteq Present \ blacklisted /\ Present \subseteq Chunk
  BY DEF ParentsOf, Present
<1>5. Parent[ranked[i]] # NoChunk => Parent[ranked[i]] \in Present \ blacklisted
  BY <1>2, <1>4
<1> QED
  BY <1>2, <1>3, <1>4, <1>5 DEF Entry

\* Positions in the order of the list.
LEMMA PositionsInOrder ==
  ASSUME NEW S \in SUBSET Int
  PROVE  StrictOrder(S, {p \in S \X S : p[1] < p[2]})
<1>1. \A i, j \in S : <<i, j>> \in {p \in S \X S : p[1] < p[2]} <=> i < j
  OBVIOUS
<1> QED
  BY <1>1 DEF StrictOrder

\* What ExpandTables hands on of a search.
LEMMA MergedType ==
  ASSUME NEW ranked \in Seq(Chunk), NEW new \in SUBSET DOMAIN Swapped(ranked)
  PROVE  LET merged == Pick(Swapped(ranked),
                              Listing(new, {p \in new \X new : p[1] < p[2]}))
         IN  /\ merged \in Seq(Entry)
             /\ \A m \in DOMAIN merged :
                  \E i \in DOMAIN ranked :
                    /\ merged[m].via = "search" /\ merged[m].id = ranked[i]
                    /\ \/ merged[m].text = ranked[i]
                       \/ /\ merged[m].text = Parent[ranked[i]]
                          /\ merged[m].text \in Present \ blacklisted
<1> DEFINE swapped == Swapped(ranked)
           list == Listing(new, {p \in new \X new : p[1] < p[2]})
<1>1. new \subseteq 1 .. Len(ranked) /\ IsFiniteSet(new) /\ Cardinality(new) \in Nat
  <2>1. new \subseteq 1 .. Len(ranked)
    BY SwappedType
  <2>2. IsFiniteSet(1 .. Len(ranked))
    BY FS_Interval
  <2> QED
    BY <2>1, <2>2, FS_Subset, FS_CardinalityType
<1>2. list \in [1 .. Cardinality(new) -> new]
  <2>1. StrictOrder(new, {p \in new \X new : p[1] < p[2]})
    BY <1>1, PositionsInOrder
  <2> QED
    BY <1>1, <2>1, ListingProperties
<1>3. \A i \in new : swapped[i] \in Entry
  BY SwappedType
<1> HIDE DEF list
<1>4. /\ Pick(swapped, list) \in Seq(Entry)
      /\ Len(Pick(swapped, list)) = Cardinality(new)
      /\ \A m \in 1 .. Cardinality(new) : Pick(swapped, list)[m] = swapped[list[m]]
  <2> HIDE DEF swapped
  <2>1. Pick(swapped, list) = [m \in 1 .. Cardinality(new) |-> swapped[list[m]]]
    BY <1>2 DEF Pick
  <2>2. Pick(swapped, list) \in [1 .. Cardinality(new) -> Entry]
    BY <1>2, <1>3, <2>1
  <2> QED
    BY <1>1, <2>1, <2>2
<1>5. ASSUME NEW m \in DOMAIN Pick(swapped, list)
      PROVE  /\ list[m] \in new
             /\ Pick(swapped, list)[m] = swapped[list[m]]
  <2> HIDE DEF swapped
  <2> QED
    BY <1>1, <1>2, <1>4
<1>6. ASSUME NEW m \in DOMAIN Pick(swapped, list)
      PROVE  LET entry == Pick(swapped, list)[m]
             IN  /\ list[m] \in DOMAIN ranked /\ entry.via = "search"
                 /\ entry.id = ranked[list[m]]
                 /\ \/ entry.text = ranked[list[m]]
                    \/ /\ entry.text = Parent[ranked[list[m]]]
                       /\ entry.text \in Present \ blacklisted
  BY <1>5, SwappedType
<1> HIDE DEF swapped
<1> QED
  BY <1>4, <1>6 DEF list, swapped

(***************************************************************************)
(* Reading order.                                                          *)
(***************************************************************************)

Before(entries, i, j) ==
  LET c == entries[i].id
      d == entries[j].id
  IN  \/ SortKey(c) < SortKey(d)
      \/ SortKey(c) = SortKey(d) /\ Page[c] < Page[d]
      \/ SortKey(c) = SortKey(d) /\ Page[c] = Page[d] /\ i < j

LEMMA SortKeyType ==
  ASSUME NEW c \in Chunk
  PROVE  SortKey(c) \in Nat
BY RetrievalAssumption DEF SortKey

LEMMA SortedProperties ==
  ASSUME NEW entries \in Seq(Entry)
  PROVE  LET sorted == Sorted(entries)
         IN  /\ sorted \in Seq(Entry) /\ Len(sorted) = Len(entries)
             /\ \A m \in DOMAIN sorted : \E i \in DOMAIN entries : sorted[m] = entries[i]
             /\ \A m, n \in DOMAIN sorted :
                  m < n => SortKey(sorted[m].id) <= SortKey(sorted[n].id)
<1> DEFINE places == DOMAIN entries
           order == {p \in places \X places : Before(entries, p[1], p[2])}
           list == Listing(places, order)
<1>1. places = 1 .. Len(entries) /\ Len(entries) \in Nat
  OBVIOUS
<1>2. IsFiniteSet(places) /\ Cardinality(places) = Len(entries)
  BY <1>1, FS_Interval
<1>3. \A i \in places : SortKey(entries[i].id) \in Nat /\ Page[entries[i].id] \in Nat
  <2> TAKE i \in places
  <2>1. entries[i] \in Entry
    OBVIOUS
  <2>2. entries[i].id \in Chunk
    BY <2>1 DEF Entry
  <2> QED
    BY <2>2, SortKeyType, RetrievalAssumption
<1>4. \A i, j \in places : <<i, j>> \in order <=> Before(entries, i, j)
  OBVIOUS
<1>5. StrictOrder(places, order)
  <2> HIDE DEF order, places
  <2>1. places \subseteq Int
    BY <1>1
  <2>2. ASSUME NEW i \in places, NEW j \in places
        PROVE  i = j \/ Before(entries, i, j) \/ Before(entries, j, i)
    BY <1>3, <2>1 DEF Before
  <2>3. ASSUME NEW i \in places
        PROVE  ~ Before(entries, i, i)
    BY <1>3, <2>1 DEF Before
  <2>4. ASSUME NEW i \in places, NEW j \in places, NEW k \in places,
               Before(entries, i, j), Before(entries, j, k)
        PROVE  Before(entries, i, k)
    BY <1>3, <2>1, <2>4 DEF Before
  <2> QED
    BY <1>4, <2>2, <2>3, <2>4 DEF StrictOrder
<1>6. /\ list \in [1 .. Len(entries) -> places]
      /\ \A m, n \in 1 .. Len(entries) : m < n => <<list[m], list[n]>> \in order
  <2> HIDE DEF order
  <2> QED
    BY <1>2, <1>5, ListingProperties
<1>7. Sorted(entries) = Pick(entries, list)
  BY DEF Sorted, Before
<1> HIDE DEF order, list
<1>8. /\ Sorted(entries) \in Seq(Entry) /\ Len(Sorted(entries)) = Len(entries)
      /\ \A m \in 1 .. Len(entries) : Sorted(entries)[m] = entries[list[m]]
  <2>1. \A p \in places : entries[p] \in Entry
    OBVIOUS
  <2> HIDE DEF places
  <2>2. Sorted(entries) = [m \in 1 .. Len(entries) |-> entries[list[m]]]
    BY <1>6, <1>7 DEF Pick
  <2>3. Sorted(entries) \in [1 .. Len(entries) -> Entry]
    BY <1>6, <2>1, <2>2
  <2> QED
    BY <1>1, <2>2, <2>3
<1>9. ASSUME NEW m \in DOMAIN Sorted(entries), NEW n \in DOMAIN Sorted(entries), m < n
      PROVE  SortKey(Sorted(entries)[m].id) <= SortKey(Sorted(entries)[n].id)
  <2>1. m \in 1 .. Len(entries) /\ n \in 1 .. Len(entries)
    BY <1>8
  <2>2. /\ list[m] \in places /\ list[n] \in places /\ Before(entries, list[m], list[n])
        /\ Sorted(entries)[m] = entries[list[m]]
        /\ Sorted(entries)[n] = entries[list[n]]
    <3> HIDE DEF places
    <3> QED
      BY <1>4, <1>6, <1>8, <1>9, <2>1
  <2> HIDE DEF places
  <2> QED
    BY <1>3, <2>2 DEF Before
<1>10. ASSUME NEW m \in DOMAIN Sorted(entries)
       PROVE  \E i \in DOMAIN entries : Sorted(entries)[m] = entries[i]
  <2>1. list[m] \in DOMAIN entries /\ Sorted(entries)[m] = entries[list[m]]
    BY <1>6, <1>8
  <2> QED
    BY <2>1
<1> QED
  BY <1>8, <1>9, <1>10

(***************************************************************************)
(* Groups.                                                                 *)
(***************************************************************************)

\* Functions on the groups.
PerGroup(groups) == [groups -> SUBSET DOMAIN ordered]

Trimmed(group) ==
  group \in PerGroup(Buckets) /\ \A b \in Buckets : group[b] \in Best(b, MaxGroup)

Represented(group, reps) ==
  /\ reps \in PerGroup(Buckets)
  /\ \A b \in Buckets : reps[b] \in Best(group[b], MaxReps)

Shared(group, reps, shown) ==
  /\ shown \in PerGroup(Buckets)
  /\ \A b \in Buckets : shown[b] \in First(b, reps[b], Allocation(group, b))

OneEach(reps, some, shown) ==
  /\ some \in SUBSET Buckets /\ Cardinality(some) = MaxContext
  /\ shown \in PerGroup(some)
  /\ \A b \in some : shown[b] \in First(b, reps[b], 1)

LEMMA BucketsType ==
  \A b \in Buckets : b \subseteq DOMAIN ordered /\ b # {}
BY DEF Buckets

LEMMA BestType ==
  ASSUME NEW b, NEW n, NEW S \in Best(b, n)
  PROVE  S \subseteq b
BY DEF Best

LEMMA FirstType ==
  ASSUME NEW b, NEW reps \in SUBSET b, NEW n, NEW S \in First(b, reps, n)
  PROVE  S \subseteq b
BY BestType DEF First

LEMMA GroupsShown ==
  ASSUME GroupChunks
  PROVE  \E group, reps, shown :
           /\ Trimmed(group) /\ Represented(group, reps)
           /\ \/ Total(reps) <= MaxContext /\ shown = reps
              \/ /\ Cardinality(Buckets) <= MaxContext /\ Shared(group, reps, shown)
              \/ /\ ~(Cardinality(Buckets) <= MaxContext)
                 /\ \E some : OneEach(reps, some, shown)
           /\ context' = UNION Range(shown)
<1>1. PICK group \in Picks(Buckets, LAMBDA b : Best(b, MaxGroup)) :
        \E reps \in Picks(Buckets, LAMBDA b : Best(group[b], MaxReps)) :
          \E shown \in Shows(group, reps) : context' = UNION Range(shown)
  BY DEF GroupChunks
<1>2. PICK reps \in Picks(Buckets, LAMBDA b : Best(group[b], MaxReps)) :
        \E shown \in Shows(group, reps) : context' = UNION Range(shown)
  BY <1>1
<1>3. PICK shown \in Shows(group, reps) : context' = UNION Range(shown)
  BY <1>2
<1>4. Trimmed(group)
  BY BucketsType, BestType DEF Trimmed, PerGroup, Picks
<1>5. Represented(group, reps)
  BY <1>4, BucketsType, BestType DEF Trimmed, Represented, PerGroup, Picks
<1>6. CASE Total(reps) <= MaxContext
  BY <1>3, <1>4, <1>5, <1>6 DEF Shows
<1>7. CASE ~(Total(reps) <= MaxContext) /\ Cardinality(Buckets) <= MaxContext
  <2>1. shown \in Picks(Buckets, LAMBDA b : First(b, reps[b], Allocation(group, b)))
    BY <1>3, <1>7 DEF Shows
  <2>2. Shared(group, reps, shown)
    <3>1. \A b \in Buckets : reps[b] \in SUBSET b
      BY <1>4, <1>5, BestType DEF Trimmed, Represented
    <3> QED
      BY <2>1, <3>1, BucketsType, FirstType DEF Shared, PerGroup, Picks
  <2> QED
    BY <1>3, <1>4, <1>5, <1>7, <2>2
<1>8. CASE ~(Total(reps) <= MaxContext) /\ ~(Cardinality(Buckets) <= MaxContext)
  <2>1. PICK some \in kSubset(MaxContext, Buckets) :
          shown \in Picks(some, LAMBDA b : First(b, reps[b], 1))
    BY <1>3, <1>8 DEF Shows
  <2>2. some \in SUBSET Buckets /\ Cardinality(some) = MaxContext
    BY <2>1 DEF kSubset
  <2>3. \A b \in some : reps[b] \in SUBSET b
    BY <1>4, <1>5, <2>2, BestType DEF Trimmed, Represented
  <2>4. OneEach(reps, some, shown)
    BY <2>1, <2>2, <2>3, BucketsType, FirstType DEF OneEach, PerGroup, Picks
  <2> QED
    BY <1>3, <1>4, <1>5, <1>8, <2>4
<1> QED
  BY <1>6, <1>7, <1>8

LEMMA ContextType ==
  ASSUME GroupChunks
  PROVE  context' \subseteq DOMAIN ordered
<1>1. PICK group, reps, shown :
        /\ Represented(group, reps)
        /\ shown = reps \/ Shared(group, reps, shown) \/ \E some : OneEach(reps, some, shown)
        /\ context' = UNION Range(shown)
  BY GroupsShown
<1>2. \E some : shown \in PerGroup(some)
  BY <1>1 DEF Represented, Shared, OneEach
<1> QED
  BY <1>1, <1>2 DEF PerGroup, Range

(***************************************************************************)
(* The type invariant.                                                     *)
(***************************************************************************)

LEMMA RanksType ==
  ASSUME NEW found \in SUBSET Chunk, NEW ranked \in Ranks(found)
  PROVE  ranked \in Seq(found)
<1>1. Cardinality(found) \in Nat
  BY FS_Subset, FS_CardinalityType, RetrievalAssumption
<1>2. \E n \in Nat : ranked \in [1 .. n -> found]
  <2>1. TopK \in Nat
    BY RetrievalAssumption
  <2> DEFINE size == Cardinality(found)
             most == Smaller(TopK, size)
             kept == IF size <= 2 THEN {size}
                     ELSE IF mode = "scoped" THEN Smaller(2, most) .. most
                     ELSE {most}
  <2>2. PICK n \in kept : ranked \in [1 .. n -> found]
    BY DEF Ranks
  <2>3. most \in Nat /\ Smaller(2, most) \in Nat
    BY <1>1, <2>1 DEF Smaller
  <2>4. n \in Nat
    <3> HIDE DEF size, most
    <3> QED
      BY <1>1, <2>3 DEF size
  <2> QED
    BY <2>2, <2>4
<1> QED
  BY <1>2

\* How far it is, and what there is by then.
Phases ==
  /\ pc = "away" => selected = NoDocument
  /\ pc \in {"away", "selecting"} =>
       ordered = << >> /\ overview = {} /\ search = [q \in Query |-> NoSearch]
  /\ pc \in {"away", "selecting", "searching", "expanding"} => overview = {}
  /\ pc = "overview" => mode # "scoped"
  /\ pc # "over" => context = {}
  /\ \A q \in Query : search[q].pc \in {"ranking", "expanding"} => pc = "searching"

LEMMA RetrievalTypeInit ==
  ASSUME RetrievalInit
  PROVE  RetrievalTypeOK /\ Phases
BY RetrievalAssumption DEF RetrievalInit, RetrievalTypeOK, Phases, Status, Mode, Searching,
   NoSearch

LEMMA EmptySearchType ==
  NoSearch \in Searching /\ [NoSearch EXCEPT !.pc = "over"] \in Searching
<1>1. << >> \in Seq(Chunk)
  OBVIOUS
<1> QED
  BY <1>1 DEF NoSearch, Searching

LEMMA RetrievalTypeStep ==
  ASSUME RetrievalTypeOK, Phases, [RetrievalNext]_retrievalVars
  PROVE  RetrievalTypeOK'
<1> USE DEF RetrievalTypeOK
<1>1. CASE Begin
  BY <1>1 DEF Begin, Goto, library, Ready
<1>2. CASE SelectDocument
  BY <1>2 DEF SelectDocument, Goto, library, Ready, Selectable
<1>3. ASSUME NEW q \in Query, SearchChunks(q)
      PROVE  RetrievalTypeOK'
  <2>1. PICK found \in SUBSET Searchable :
          search' = [search EXCEPT ![q].pc = IF found = {} THEN "over" ELSE "ranking",
                                   ![q].found = found]
    BY <1>3 DEF SearchChunks
  <2>2. found \in SUBSET Chunk
    BY DEF Searchable, Shown
  <2>3. search' \in [Query -> Searching]
    BY <2>1, <2>2 DEF Searching
  <2> QED
    BY <1>3, <2>3 DEF SearchChunks, library
<1>4. ASSUME NEW q \in Query, RankChunks(q)
      PROVE  RetrievalTypeOK'
  <2>1. PICK ranked \in Ranks(search[q].found) :
          search' = [search EXCEPT ![q].pc = "expanding", ![q].found = {},
                                   ![q].ranked = ranked]
    BY <1>4 DEF RankChunks
  <2>2. search[q].found \in SUBSET Chunk
    BY DEF Searching
  <2>3. ranked \in Seq(Chunk)
    BY <2>2, RanksType
  <2>4. search' \in [Query -> Searching]
    BY <2>1, <2>3 DEF Searching
  <2> QED
    BY <1>4, <2>4 DEF RankChunks, library
<1>5. ASSUME NEW q \in Query, ExpandTables(q)
      PROVE  RetrievalTypeOK'
  <2>1. search' \in [Query -> Searching]
    BY <1>5, EmptySearchType DEF ExpandTables
  <2>2. ordered' \in Seq(Entry)
    <3> DEFINE ranked == search[q].ranked
               new == {i \in DOMAIN Swapped(ranked) :
                         mode = "scoped" => Swapped(ranked)[i] \notin Range(ordered)}
    <3>1. ranked \in Seq(Chunk)
      BY DEF Searching
    <3>2. ordered' = ordered \o Pick(Swapped(ranked),
                                       Listing(new, {p \in new \X new : p[1] < p[2]}))
      BY <1>5 DEF ExpandTables
    <3>3. new \in SUBSET DOMAIN Swapped(ranked)
      OBVIOUS
    <3> HIDE DEF ranked, new
    <3> QED
      BY <3>1, <3>2, <3>3, MergedType
  <2>3. pc = "searching" /\ context = {}
    BY <1>5 DEF ExpandTables, Phases
  <2> QED
    BY <1>5, <2>1, <2>2, <2>3 DEF ExpandTables, library
<1>6. ASSUME NEW q \in Query, SearchFails(q)
      PROVE  RetrievalTypeOK'
  BY <1>6, EmptySearchType DEF SearchFails, library
<1>7. CASE SearchesOver
  BY <1>7 DEF SearchesOver, Goto, library
<1>8. CASE ExpandNeighbours
  <2>1. ordered' \in Seq(Entry)
    <3> DEFINE next == IF selected = NoDocument \/ ordered = << >> THEN {} ELSE Neighbours
    <3>1. next \in SUBSET Chunk
      BY DEF Neighbours, Rows
    <3>2. PICK more \in Orderings(next) :
            LET all == ordered \o Entries(more, "neighbour")
            IN  ordered' = << >> \/ ordered' = Sorted(all)
      BY <1>8 DEF ExpandNeighbours
    <3>3. Entries(more, "neighbour") \in Seq(Entry)
      BY <3>1, EntriesType
    <3>4. ordered \o Entries(more, "neighbour") \in Seq(Entry)
      BY <3>3
    <3>5. Sorted(ordered \o Entries(more, "neighbour")) \in Seq(Entry)
      BY <3>4, SortedProperties
    <3>6. << >> \in Seq(Entry)
      OBVIOUS
    <3> QED
      BY <3>2, <3>5, <3>6
  <2> QED
    BY <1>8, <2>1 DEF ExpandNeighbours, library, Phases
<1>9. CASE WalkThrough
  <2>1. PICK S \in SUBSET Leaves :
          \E list \in Orderings(S) : ordered' = Entries(list, "walkthrough")
    BY <1>9 DEF WalkThrough
  <2>2. S \in SUBSET Chunk
    BY DEF Leaves, Shown
  <2>3. ordered' \in Seq(Entry)
    BY <2>1, <2>2, EntriesType
  <2> QED
    BY <1>9, <2>3 DEF WalkThrough, Goto, library, Phases
<1>10. CASE PrependOverview
  BY <1>10 DEF PrependOverview, Goto, library, Summaries, Rows
<1>11. CASE GroupChunks
  BY <1>11, ContextType DEF GroupChunks, Goto, library
<1>12. CASE Curators
  <2>1. edits' \in 0 .. MaxEdits /\ UNCHANGED <<mode, pc, selected, search, ordered, overview,
                                                context>>
    BY <1>12, RetrievalAssumption DEF Curators, BlacklistChunks, Unblacklist,
       UpdateDocumentStatus, DeleteDocument, Edit
  <2>2. CASE BlacklistChunks
    BY <2>1, <2>2 DEF BlacklistChunks, Present
  <2>3. CASE Unblacklist
    BY <2>1, <2>3 DEF Unblacklist
  <2>4. CASE UpdateDocumentStatus
    BY <2>1, <2>4 DEF UpdateDocumentStatus, Status
  <2>5. CASE DeleteDocument
    BY <2>1, <2>5 DEF DeleteDocument, Status
  <2> QED
    BY <1>12, <2>2, <2>3, <2>4, <2>5 DEF Curators
<1>13. CASE UNCHANGED retrievalVars
  BY <1>13 DEF retrievalVars, library
<1> QED
  BY <1>1, <1>2, <1>3, <1>4, <1>5, <1>6, <1>7, <1>8, <1>9, <1>10, <1>11, <1>12, <1>13
     DEF RetrievalNext, Retriever

LEMMA PhasesStep ==
  ASSUME RetrievalTypeOK, Phases, [RetrievalNext]_retrievalVars
  PROVE  Phases'
<1> USE DEF RetrievalTypeOK, Phases
<1>1. CASE Begin
  BY <1>1 DEF Begin, Goto, library, NoSearch
<1>2. CASE SelectDocument
  BY <1>2 DEF SelectDocument, Goto, library, NoSearch
<1>3. ASSUME NEW q \in Query, SearchChunks(q) \/ RankChunks(q) \/ ExpandTables(q)
                              \/ SearchFails(q)
      PROVE  Phases'
  <2>1. pc = "searching" /\ UNCHANGED <<pc, selected, mode, overview, context>>
    BY <1>3 DEF SearchChunks, RankChunks, ExpandTables, SearchFails, library
  <2> QED
    BY <2>1
<1>4. CASE SearchesOver
  BY <1>4 DEF SearchesOver, Goto, library
<1>5. CASE ExpandNeighbours
  BY <1>5 DEF ExpandNeighbours, library
<1>6. CASE WalkThrough
  BY <1>6 DEF WalkThrough, Goto, library
<1>7. CASE PrependOverview
  BY <1>7 DEF PrependOverview, Goto, library
<1>8. CASE GroupChunks
  BY <1>8 DEF GroupChunks, Goto, library
<1>9. CASE Curators
  BY <1>9 DEF Curators, BlacklistChunks, Unblacklist, UpdateDocumentStatus,
     DeleteDocument, Edit
<1>10. CASE UNCHANGED retrievalVars
  BY <1>10 DEF retrievalVars, library
<1> QED
  BY <1>1, <1>2, <1>3, <1>4, <1>5, <1>6, <1>7, <1>8, <1>9, <1>10 DEF RetrievalNext,
     Retriever

\* The state of a retrieval keeps its types, whatever the corpus and the bounds.
THEOREM RetrievalTypeCorrect ==
  RetrievalSpec => [](RetrievalTypeOK /\ Phases)
<1>1. RetrievalInit => RetrievalTypeOK /\ Phases
  BY RetrievalTypeInit
<1>2. RetrievalTypeOK /\ Phases /\ [RetrievalNext]_retrievalVars => (RetrievalTypeOK /\ Phases)'
  BY RetrievalTypeStep, PhasesStep
<1> QED
  BY <1>1, <1>2, PTL DEF RetrievalSpec

(***************************************************************************)
(* Where what is handed on comes from.                                     *)
(***************************************************************************)

\* What has been hidden all the time is hidden now.
Withheld ==
  /\ \A c \in hidden : c \in blacklisted \/ status[DocOf[c]] = "deleted"
  /\ \A d \in withdrawn : status[d] # "READY"

FromManual(c) == selected # NoDocument => DocOf[c] = selected

\* A search has found what was shown then.
Found ==
  \A q \in Query :
    /\ \A c \in search[q].found :
         c \notin hidden /\ DocOf[c] \notin withdrawn /\ FromManual(c)
    /\ \A i \in DOMAIN search[q].ranked :
         LET c == search[q].ranked[i]
         IN  c \notin hidden /\ DocOf[c] \notin withdrawn /\ FromManual(c)

Handed ==
  /\ pc \in {"searching", "expanding"} => \A i \in DOMAIN ordered : ordered[i].via = "search"
  /\ selected # NoDocument => selected \notin withdrawn
  /\ HiddenStaysHidden
  /\ OneManual

Provenance == Withheld /\ Found /\ Handed

LEMMA ProvenanceInit ==
  ASSUME RetrievalInit
  PROVE  Provenance
BY DEF RetrievalInit, Provenance, Withheld, Found, Handed, HiddenStaysHidden, OneManual,
   NoSearch

\* What is shown, or still there and not blacklisted, has not been hidden all the time.
LEMMA NotWithheld ==
  ASSUME RetrievalTypeOK, Withheld
  PROVE  /\ \A c \in Shown : c \notin hidden /\ DocOf[c] \notin withdrawn
         /\ \A c \in Present \ blacklisted : c \notin hidden
BY DEF Withheld, Shown, Ready, Present, RetrievalTypeOK

LEMMA CuratorsWithhold ==
  ASSUME RetrievalTypeOK, Withheld, Curators
  PROVE  /\ Withheld' /\ hidden' \subseteq hidden /\ withdrawn' \subseteq withdrawn
         /\ UNCHANGED <<mode, pc, selected, search, ordered, overview, context>>
<1> USE DEF Withheld, RetrievalTypeOK
<1>1. UNCHANGED <<mode, pc, selected, search, ordered, overview, context>>
  BY DEF Curators, BlacklistChunks, Unblacklist, UpdateDocumentStatus,
     DeleteDocument, Edit
<1>2. CASE BlacklistChunks
  BY <1>1, <1>2 DEF BlacklistChunks
<1>3. CASE Unblacklist
  BY <1>1, <1>3 DEF Unblacklist
<1>4. CASE UpdateDocumentStatus
  BY <1>1, <1>4, RetrievalAssumption DEF UpdateDocumentStatus
<1>5. CASE DeleteDocument
  BY <1>1, <1>5, RetrievalAssumption DEF DeleteDocument, Rows
<1> QED
  BY <1>2, <1>3, <1>4, <1>5 DEF Curators

\* Entries that come of a search.
LEMMA MergedKeeps ==
  ASSUME RetrievalTypeOK, Phases, Provenance, NEW q \in Query, ExpandTables(q)
  PROVE  Handed'
<1> DEFINE ranked == search[q].ranked
           new == {i \in DOMAIN Swapped(ranked) :
                     mode = "scoped" => Swapped(ranked)[i] \notin Range(ordered)}
           merged == Pick(Swapped(ranked),
                            Listing(new, {p \in new \X new : p[1] < p[2]}))
<1>1. ranked \in Seq(Chunk)
  BY DEF RetrievalTypeOK, Searching
<1>2. ordered' = ordered \o merged /\ UNCHANGED <<pc, selected, overview, hidden, withdrawn>>
  BY DEF ExpandTables
<1>3. new \in SUBSET DOMAIN Swapped(ranked)
  OBVIOUS
<1>4. \A i \in DOMAIN ranked : /\ ranked[i] \in Chunk /\ ranked[i] \notin hidden
                               /\ DocOf[ranked[i]] \notin withdrawn /\ FromManual(ranked[i])
  BY <1>1 DEF Provenance, Found
<1> HIDE DEF ranked, new
<1>5. /\ merged \in Seq(Entry)
      /\ \A m \in DOMAIN merged :
           \E i \in DOMAIN ranked :
             /\ merged[m].via = "search" /\ merged[m].id = ranked[i]
             /\ \/ merged[m].text = ranked[i]
                \/ /\ merged[m].text = Parent[ranked[i]]
                   /\ merged[m].text \in Present \ blacklisted
  BY <1>1, <1>3, MergedType
<1> HIDE DEF merged
<1>6. ASSUME NEW m \in DOMAIN merged
      PROVE  /\ merged[m].via = "search"
             /\ DocOf[merged[m].id] \notin withdrawn
             /\ merged[m].id \notin hidden /\ merged[m].text \notin hidden
             /\ FromManual(merged[m].id) /\ FromManual(merged[m].text)
  <2>1. PICK i \in DOMAIN ranked :
          /\ merged[m].via = "search" /\ merged[m].id = ranked[i]
          /\ \/ merged[m].text = ranked[i]
             \/ /\ merged[m].text = Parent[ranked[i]]
                /\ merged[m].text \in Present \ blacklisted
    BY <1>5
  <2>2. merged[m].text \notin hidden
    BY <1>4, <2>1, NotWithheld DEF Provenance
  <2>3. DocOf[merged[m].text] = DocOf[merged[m].id]
    BY <1>4, <2>1, RetrievalAssumption DEF Present
  <2> QED
    BY <1>4, <2>1, <2>2, <2>3 DEF FromManual
<1>7. pc = "searching" /\ overview = {} /\ ordered \in Seq(Entry)
  BY DEF ExpandTables, Phases, RetrievalTypeOK
<1>8. ASSUME NEW i \in DOMAIN ordered'
      PROVE  \/ i \in DOMAIN ordered /\ ordered'[i] = ordered[i]
             \/ \E m \in DOMAIN merged : ordered'[i] = merged[m]
  BY <1>2, <1>5, <1>7
<1>9. ASSUME NEW i \in DOMAIN ordered
      PROVE  /\ ordered[i].via = "search"
             /\ DocOf[ordered[i].id] \notin withdrawn
             /\ ordered[i].id \notin hidden /\ ordered[i].text \notin hidden
             /\ FromManual(ordered[i].id) /\ FromManual(ordered[i].text)
  BY <1>7 DEF Provenance, Handed, HiddenStaysHidden, OneManual, FromManual
<1>10. ASSUME NEW i \in DOMAIN ordered'
       PROVE  /\ ordered'[i].via = "search"
              /\ DocOf[ordered'[i].id] \notin withdrawn
              /\ ordered'[i].id \notin hidden /\ ordered'[i].text \notin hidden
              /\ FromManual(ordered'[i].id) /\ FromManual(ordered'[i].text)
  BY <1>6, <1>8, <1>9
<1> QED
  BY <1>2, <1>7, <1>10 DEF Provenance, Handed, HiddenStaysHidden, OneManual, FromManual

\* The neighbours are of the document that what was found is of.
LEMMA NeighboursKeep ==
  ASSUME RetrievalTypeOK, Phases, Provenance, ExpandNeighbours
  PROVE  Handed'
<1> DEFINE next == IF selected = NoDocument \/ ordered = << >> THEN {} ELSE Neighbours
<1>1. /\ pc = "expanding" /\ pc' \in {"walking", "grouping"}
      /\ UNCHANGED <<selected, overview, hidden, withdrawn>>
      /\ overview = {} /\ ordered \in Seq(Entry)
  BY DEF ExpandNeighbours, Phases, RetrievalTypeOK
<1>2. \A c \in next : /\ c \in Chunk /\ DocOf[c] = selected /\ selected # NoDocument
                      /\ ordered # << >>
  BY DEF Neighbours, Rows
<1>3. ASSUME NEW i \in DOMAIN ordered
      PROVE  /\ ordered[i].via = "search"
             /\ DocOf[ordered[i].id] \notin withdrawn
             /\ ordered[i].id \notin hidden /\ ordered[i].text \notin hidden
             /\ FromManual(ordered[i].id) /\ FromManual(ordered[i].text)
  BY <1>1 DEF Provenance, Handed, HiddenStaysHidden, OneManual, FromManual
<1>4. \A c \in next : DocOf[c] \notin withdrawn
  <2> TAKE c \in next
  <2>1. 1 \in DOMAIN ordered
    BY <1>1, <1>2
  <2> QED
    BY <1>2, <1>3, <2>1 DEF FromManual
<1>5. PICK more \in Orderings(next) :
        LET all == ordered \o Entries(more, "neighbour")
        IN  ordered' = << >> \/ ordered' = Sorted(all)
  BY DEF ExpandNeighbours
<1>6. next \in SUBSET Chunk
  BY <1>2
<1> HIDE DEF next
<1> DEFINE near == Entries(more, "neighbour")
           all == ordered \o near
<1>7. /\ near \in Seq(Entry) /\ Len(near) = Cardinality(next)
      /\ \A i \in 1 .. Cardinality(next) :
           more[i] \in next /\ near[i] = [id |-> more[i], text |-> more[i], via |-> "neighbour"]
  BY <1>6, EntriesType
<1> HIDE DEF near
<1>8. ASSUME NEW i \in DOMAIN near
      PROVE  /\ near[i].via = "neighbour"
             /\ near[i].id \in next /\ near[i].text = near[i].id
  BY <1>7
<1>9. ASSUME NEW i \in DOMAIN all
      PROVE  \/ \E m \in DOMAIN ordered : all[i] = ordered[m]
             \/ \E m \in DOMAIN near : all[i] = near[m]
  BY <1>1, <1>7
<1>10. ASSUME NEW i \in DOMAIN all
       PROVE  /\ DocOf[all[i].id] \notin withdrawn
              /\ all[i].via # "neighbour" =>
                   all[i].id \notin hidden /\ all[i].text \notin hidden
              /\ FromManual(all[i].id) /\ FromManual(all[i].text)
  BY <1>2, <1>3, <1>4, <1>8, <1>9 DEF FromManual
<1>11. all \in Seq(Entry)
  BY <1>1, <1>7
<1> HIDE DEF all
<1>12. \A m \in DOMAIN Sorted(all) : \E i \in DOMAIN all : Sorted(all)[m] = all[i]
  BY <1>11, SortedProperties
<1>13. ASSUME NEW m \in DOMAIN ordered'
       PROVE  \E i \in DOMAIN all : ordered'[m] = all[i]
  BY <1>5, <1>12 DEF all, near
<1>14. ASSUME NEW m \in DOMAIN ordered'
       PROVE  /\ DocOf[ordered'[m].id] \notin withdrawn
              /\ ordered'[m].via # "neighbour" =>
                   ordered'[m].id \notin hidden /\ ordered'[m].text \notin hidden
              /\ FromManual(ordered'[m].id) /\ FromManual(ordered'[m].text)
  BY <1>10, <1>13
<1> QED
  BY <1>1, <1>14 DEF Provenance, Handed, HiddenStaysHidden, OneManual, FromManual

LEMMA WalkThroughKeeps ==
  ASSUME RetrievalTypeOK, Phases, Provenance, WalkThrough
  PROVE  Handed'
<1>1. PICK S \in SUBSET Leaves :
        \E list \in Orderings(S) : ordered' = Entries(list, "walkthrough")
  BY DEF WalkThrough
<1>2. PICK list \in Orderings(S) : ordered' = Entries(list, "walkthrough")
  BY <1>1
<1>3. S \in SUBSET Chunk /\ S \subseteq Shown
  BY DEF Leaves, Shown
<1>4. /\ ordered' \in Seq(Entry) /\ Len(ordered') = Cardinality(S)
      /\ \A i \in 1 .. Cardinality(S) :
           /\ list[i] \in S
           /\ ordered'[i] = [id |-> list[i], text |-> list[i], via |-> "walkthrough"]
  BY <1>2, <1>3, EntriesType
<1>5. ASSUME NEW i \in DOMAIN ordered'
      PROVE  /\ ordered'[i].via = "walkthrough" /\ ordered'[i].id \in Shown
             /\ ordered'[i].text = ordered'[i].id
  BY <1>3, <1>4
<1>6. \A c \in Shown : c \notin hidden /\ DocOf[c] \notin withdrawn
  BY NotWithheld DEF Provenance
<1> QED
  BY <1>5, <1>6 DEF Handed, Provenance, HiddenStaysHidden, OneManual, WalkThrough, Goto

LEMMA ProvenanceStep ==
  ASSUME RetrievalTypeOK, Phases, Provenance, [RetrievalNext]_retrievalVars
  PROVE  Provenance'
<1>1. CASE Begin
  <2>1. Withheld'
    BY <1>1 DEF Begin, Goto, library, Withheld, Ready, RetrievalTypeOK
  <2>2. /\ ordered' = << >> /\ overview' = {} /\ selected' = NoDocument
        /\ \A q \in Query : search'[q] = NoSearch
    BY <1>1 DEF Begin, Goto, Phases
  <2> QED
    BY <2>1, <2>2 DEF Provenance, Found, Handed, HiddenStaysHidden, OneManual, NoSearch
<1>2. CASE SelectDocument
  <2>1. Withheld'
    BY <1>2 DEF SelectDocument, library, Provenance, Withheld
  <2>2. /\ ordered' = << >> /\ overview' = {}
        /\ \A q \in Query : search'[q] = NoSearch
    BY <1>2 DEF SelectDocument, Goto, Phases
  <2>3. selected' # NoDocument => selected' \notin withdrawn'
    BY <1>2 DEF SelectDocument, Selectable, Ready, Provenance, Withheld
  <2> QED
    BY <2>1, <2>2, <2>3 DEF Provenance, Found, Handed, HiddenStaysHidden, OneManual, NoSearch
<1>3. ASSUME NEW q \in Query, SearchChunks(q)
      PROVE  Provenance'
  <2>1. PICK found \in SUBSET Searchable :
          search' = [search EXCEPT ![q].pc = IF found = {} THEN "over" ELSE "ranking",
                                   ![q].found = found]
    BY <1>3 DEF SearchChunks
  <2>2. \A c \in found : c \notin hidden /\ DocOf[c] \notin withdrawn /\ FromManual(c)
    BY NotWithheld DEF Provenance, Searchable, FromManual
  <2>3. UNCHANGED <<status, blacklisted, pc, selected, ordered, overview, hidden, withdrawn>>
    BY <1>3 DEF SearchChunks, library
  <2>4. \A p \in Query : /\ search'[p].found \in {search[p].found, found}
                         /\ search'[p].ranked = search[p].ranked
    BY <2>1 DEF RetrievalTypeOK, Searching
  <2>5. Found'
    BY <2>2, <2>3, <2>4 DEF Provenance, Found, FromManual
  <2> QED
    BY <2>3, <2>5 DEF Provenance, Withheld, Handed, HiddenStaysHidden, OneManual
<1>4. ASSUME NEW q \in Query, RankChunks(q)
      PROVE  Provenance'
  <2>1. PICK ranked \in Ranks(search[q].found) :
          search' = [search EXCEPT ![q].pc = "expanding", ![q].found = {},
                                   ![q].ranked = ranked]
    BY <1>4 DEF RankChunks
  <2>2. search[q].found \in SUBSET Chunk
    BY DEF RetrievalTypeOK, Searching
  <2>3. \A i \in DOMAIN ranked : ranked[i] \in search[q].found
    BY <2>2, RanksType
  <2>4. UNCHANGED <<status, blacklisted, pc, selected, ordered, overview, hidden, withdrawn>>
    BY <1>4 DEF RankChunks, library
  <2>5. \A p \in Query : /\ search'[p].found \in {search[p].found, {}}
                         /\ search'[p].ranked \in {search[p].ranked, ranked}
    BY <2>1 DEF RetrievalTypeOK, Searching
  <2>6. Found'
    BY <2>3, <2>4, <2>5 DEF Provenance, Found, FromManual
  <2> QED
    BY <2>4, <2>6 DEF Provenance, Withheld, Handed, HiddenStaysHidden, OneManual
<1>5. ASSUME NEW q \in Query, ExpandTables(q) \/ SearchFails(q)
      PROVE  Provenance'
  <2>1. UNCHANGED <<status, blacklisted, pc, selected, overview, hidden, withdrawn>>
    BY <1>5 DEF ExpandTables, SearchFails, library
  <2>2. search' = [search EXCEPT ![q] = [NoSearch EXCEPT !.pc = "over"]]
    BY <1>5 DEF ExpandTables, SearchFails
  <2>3. \A p \in Query : \/ search'[p] = search[p]
                         \/ search'[p].found = {} /\ search'[p].ranked = << >>
    BY <2>2 DEF RetrievalTypeOK, NoSearch
  <2>4. Found'
    BY <2>1, <2>3 DEF Provenance, Found, FromManual
  <2>5. Handed'
    <3>1. CASE ExpandTables(q)
      BY <3>1, MergedKeeps
    <3>2. CASE SearchFails(q)
      BY <2>1, <3>2 DEF SearchFails, Provenance, Handed, HiddenStaysHidden, OneManual
    <3> QED
      BY <1>5, <3>1, <3>2
  <2> QED
    BY <2>1, <2>4, <2>5 DEF Provenance, Withheld
<1>6. CASE SearchesOver \/ GroupChunks
  <2>1. /\ UNCHANGED <<status, blacklisted, selected, search, ordered, overview, hidden,
                       withdrawn>>
        /\ pc \in {"searching", "grouping"} /\ pc' = "expanding" => pc = "searching"
        /\ pc' # "searching"
    BY <1>6 DEF SearchesOver, GroupChunks, Goto, library
  <2> QED
    BY <1>6, <2>1 DEF Provenance, Withheld, Found, FromManual, Handed, HiddenStaysHidden,
       OneManual, SearchesOver, GroupChunks, Goto
<1>7. CASE ExpandNeighbours
  BY <1>7, NeighboursKeep DEF ExpandNeighbours, library, Provenance, Withheld, Found,
     FromManual
<1>8. CASE WalkThrough
  BY <1>8, WalkThroughKeeps DEF WalkThrough, library, Provenance, Withheld, Found,
     FromManual
<1>9. CASE PrependOverview
  <2>1. /\ UNCHANGED <<status, blacklisted, selected, search, ordered, hidden, withdrawn>>
        /\ pc' = "grouping"
        /\ \A c \in overview' : selected # NoDocument /\ DocOf[c] = selected
    BY <1>9 DEF PrependOverview, Goto, library, Summaries, Rows
  <2> QED
    BY <2>1 DEF Provenance, Withheld, Found, FromManual, Handed, HiddenStaysHidden,
       OneManual
<1>10. CASE Curators
  <2>1. /\ Withheld' /\ hidden' \subseteq hidden /\ withdrawn' \subseteq withdrawn
        /\ UNCHANGED <<pc, selected, search, ordered, overview>>
    BY <1>10, CuratorsWithhold DEF Provenance
  <2>2. Found'
    BY <2>1 DEF Provenance, Found, FromManual
  <2>3. Handed'
    BY <2>1 DEF Provenance, Handed, HiddenStaysHidden, OneManual
  <2> QED
    BY <2>1, <2>2, <2>3 DEF Provenance
<1>11. CASE UNCHANGED retrievalVars
  BY <1>11 DEF retrievalVars, library, Provenance, Withheld, Found, FromManual, Handed,
     HiddenStaysHidden, OneManual
<1> QED
  BY <1>1, <1>2, <1>3, <1>4, <1>5, <1>6, <1>7, <1>8, <1>9, <1>10, <1>11
     DEF RetrievalNext, Retriever

LEMMA ReadingOrderInit ==
  ASSUME RetrievalInit
  PROVE  ReadingOrder
BY DEF RetrievalInit, ReadingOrder

\* Two indices of a manual, by the key that the entries are sorted by.
LEMMA KeysInOrder ==
  ASSUME NEW c \in Chunk, NEW d \in Chunk, SortKey(c) <= SortKey(d),
         Seq0[c] # NoIndex, Seq0[d] # NoIndex
  PROVE  Seq0[c] <= Seq0[d] \/ Seq0[d] = 0
<1>1. Seq0[c] \in Nat /\ Seq0[d] \in Nat
  BY RetrievalAssumption
<1> QED
  BY <1>1 DEF SortKey

LEMMA ReadingOrderStep ==
  ASSUME RetrievalTypeOK, Phases, ReadingOrder, [RetrievalNext]_retrievalVars
  PROVE  ReadingOrder'
<1>1. CASE ExpandNeighbours
  <2> SUFFICES ASSUME pc' = "grouping"
               PROVE  ReadingOrder'
    BY <1>1 DEF ExpandNeighbours, ReadingOrder
  <2> DEFINE next == IF selected = NoDocument \/ ordered = << >> THEN {} ELSE Neighbours
  <2>1. next \in SUBSET Chunk
    BY DEF Neighbours, Rows
  <2>2. PICK more \in Orderings(next) :
          ordered' = Sorted(ordered \o Entries(more, "neighbour"))
    BY <1>1 DEF ExpandNeighbours
  <2> DEFINE all == ordered \o Entries(more, "neighbour")
  <2>3. all \in Seq(Entry)
    BY <2>1, EntriesType DEF RetrievalTypeOK
  <2>4. ordered' = Sorted(all)
    BY <2>2
  <2> HIDE DEF all
  <2>5. /\ ordered' \in Seq(Entry)
        /\ \A m, n \in DOMAIN ordered' :
             m < n => SortKey(ordered'[m].id) <= SortKey(ordered'[n].id)
    BY <2>3, <2>4, SortedProperties
  <2>6. \A m \in DOMAIN ordered' : ordered'[m].id \in Chunk
    <3> TAKE m \in DOMAIN ordered'
    <3>1. ordered'[m] \in Entry
      BY <2>5
    <3> QED
      BY <3>1 DEF Entry
  <2> QED
    BY <2>5, <2>6, KeysInOrder DEF ReadingOrder
<1>2. CASE WalkThrough
  <2>1. PICK S \in SUBSET Leaves :
          \E list \in Orderings(S) : ordered' = Entries(list, "walkthrough")
    BY <1>2 DEF WalkThrough
  <2>2. PICK list \in Orderings(S) : ordered' = Entries(list, "walkthrough")
    BY <2>1
  <2>3. S \in SUBSET Chunk
    BY DEF Leaves, Shown
  <2>4. /\ Cardinality(S) \in Nat
        /\ ordered' \in Seq(Entry) /\ Len(ordered') = Cardinality(S)
        /\ \A i \in 1 .. Cardinality(S) :
             /\ list[i] \in S
             /\ ordered'[i] = [id |-> list[i], text |-> list[i], via |-> "walkthrough"]
    BY <2>2, <2>3, EntriesType
  <2>5. \A i, j \in 1 .. Cardinality(S) : i < j => ~ Precedes(list[j], list[i])
    BY DEF Orderings
  <2>6. ASSUME NEW i \in DOMAIN ordered', NEW j \in DOMAIN ordered', i < j,
               DocOf[ordered'[i].id] = DocOf[ordered'[j].id],
               NoIndex \notin {Seq0[ordered'[i].id], Seq0[ordered'[j].id]}
        PROVE  Seq0[ordered'[i].id] <= Seq0[ordered'[j].id]
    <3>1. /\ i \in 1 .. Cardinality(S) /\ j \in 1 .. Cardinality(S)
          /\ ordered'[i].id = list[i] /\ ordered'[j].id = list[j]
          /\ list[i] \in Chunk /\ list[j] \in Chunk
      BY <2>3, <2>4
    <3>2. Seq0[list[i]] \in Nat /\ Seq0[list[j]] \in Nat
      BY <2>6, <3>1, RetrievalAssumption
    <3>3. ~ (Seq0[list[j]] < Seq0[list[i]])
      BY <2>5, <2>6, <3>1 DEF Precedes
    <3> QED
      BY <3>1, <3>2, <3>3
  <2> QED
    BY <2>6 DEF ReadingOrder
<1>3. CASE Begin \/ SelectDocument \/ SearchesOver
           \/ \E q \in Query : SearchChunks(q) \/ RankChunks(q) \/ ExpandTables(q)
                               \/ SearchFails(q)
  <2>1. pc' \notin {"grouping", "over"} \/ mode' # "scoped"
    BY <1>3 DEF Begin, SelectDocument, SearchesOver, SearchChunks, RankChunks,
       ExpandTables, SearchFails, Goto, Phases
  <2> QED
    BY <2>1 DEF ReadingOrder
<1>4. CASE PrependOverview
  BY <1>4 DEF PrependOverview, Goto, Phases, ReadingOrder
<1>5. CASE GroupChunks
  BY <1>5 DEF GroupChunks, Goto, ReadingOrder
<1>6. CASE Curators
  BY <1>6 DEF Curators, BlacklistChunks, Unblacklist, UpdateDocumentStatus,
     DeleteDocument, Edit, ReadingOrder
<1>7. CASE UNCHANGED retrievalVars
  BY <1>7 DEF retrievalVars, ReadingOrder
<1> QED
  BY <1>1, <1>2, <1>3, <1>4, <1>5, <1>6, <1>7 DEF RetrievalNext, Retriever

\* Nothing of a document that has not been READY ever since the retrieval began is
\* handed on, and a chunk that has been blacklisted ever since only as a neighbour or as
\* a summary in the overview, for any corpus, number of searches, curators' changes and
\* limits.
THEOREM HiddenChunksStayHidden ==
  RetrievalSpec => []HiddenStaysHidden
<1>1. RetrievalInit => RetrievalTypeOK /\ Phases /\ Provenance
  BY RetrievalTypeInit, ProvenanceInit
<1>2. RetrievalTypeOK /\ Phases /\ Provenance /\ [RetrievalNext]_retrievalVars
        => (RetrievalTypeOK /\ Phases /\ Provenance)'
  BY RetrievalTypeStep, PhasesStep, ProvenanceStep
<1>3. Provenance => HiddenStaysHidden
  BY DEF Provenance, Handed
<1> QED
  BY <1>1, <1>2, <1>3, PTL DEF RetrievalSpec

\* Once a document was selected, what is retrieved comes from it, unless the scoped
\* search falls back on the walkthrough.
THEOREM RetrievalKeepsToOneManual ==
  RetrievalSpec => []OneManual
<1>1. RetrievalInit => RetrievalTypeOK /\ Phases /\ Provenance
  BY RetrievalTypeInit, ProvenanceInit
<1>2. RetrievalTypeOK /\ Phases /\ Provenance /\ [RetrievalNext]_retrievalVars
        => (RetrievalTypeOK /\ Phases /\ Provenance)'
  BY RetrievalTypeStep, PhasesStep, ProvenanceStep
<1>3. Provenance => OneManual
  BY DEF Provenance, Handed
<1> QED
  BY <1>1, <1>2, <1>3, PTL DEF RetrievalSpec

\* What a scoped search hands on is in the order of its manual, but for the first leaf.
THEOREM ScopedSearchReadsInOrder ==
  RetrievalSpec => []ReadingOrder
<1>1. RetrievalInit => RetrievalTypeOK /\ Phases /\ ReadingOrder
  BY RetrievalTypeInit, ReadingOrderInit
<1>2. RetrievalTypeOK /\ Phases /\ ReadingOrder /\ [RetrievalNext]_retrievalVars
        => (RetrievalTypeOK /\ Phases /\ ReadingOrder)'
  BY RetrievalTypeStep, PhasesStep, ReadingOrderStep
<1> QED
  BY <1>1, <1>2, PTL DEF RetrievalSpec

(***************************************************************************)
(* How many are shown.                                                     *)
(***************************************************************************)

\* The first n of a set of positions are at most n, and some if there are any.
LEMMA FirstFew ==
  ASSUME NEW b \in SUBSET Int, IsFiniteSet(b), NEW n \in Nat
  PROVE  LET few == {i \in b : Cardinality({j \in b : j < i}) < n}
         IN  /\ Cardinality(few) <= n
             /\ b # {} /\ n >= 1 => few # {}
<1> DEFINE order == {p \in b \X b : p[1] < p[2]}
           size == Cardinality(b)
           Below(i) == {j \in b : j < i}
           few == {i \in b : Cardinality(Below(i)) < n}
           list == Listing(b, order)
<1>1. StrictOrder(b, order)
  BY PositionsInOrder
<1>2. \A i \in b : {j \in b : <<j, i>> \in order} = Below(i)
  OBVIOUS
<1> HIDE DEF order
<1>3. /\ size \in Nat /\ list \in [1 .. size -> b]
      /\ \A i \in b : \E k \in 1 .. size : list[k] = i
      /\ \A k \in 1 .. size : Cardinality({j \in b : <<j, list[k]>> \in order}) = k - 1
  BY <1>1, ListingProperties
<1> HIDE DEF list
<1>4. \A k \in 1 .. size : Cardinality(Below(list[k])) = k - 1
  BY <1>2, <1>3
<1>5. few \in SUBSET b /\ IsFiniteSet(few)
  BY FS_Subset
<1>6. ASSUME NEW i \in few
      PROVE  \E k \in 1 .. size : k <= n /\ list[k] = i
  <2>1. PICK k \in 1 .. size : list[k] = i
    BY <1>3
  <2>2. Cardinality(Below(i)) = k - 1 /\ Cardinality(Below(i)) < n
    BY <1>4, <2>1
  <2> HIDE DEF Below, size
  <2> QED
    BY <1>3, <2>1, <2>2
<1> HIDE DEF few, size
<1>7. Cardinality(few) <= n
  <2> DEFINE ks == {k \in 1 .. size : k <= n /\ list[k] \in few}
             f == [k \in ks |-> list[k]]
  <2>1. f \in Surjection(ks, few)
    BY <1>6 DEF Surjection
  <2>2. IsFiniteSet(1 .. n) /\ Cardinality(1 .. n) = n
    BY FS_Interval
  <2>3. ks \in SUBSET (1 .. n)
    BY <1>3
  <2>4. IsFiniteSet(ks) /\ Cardinality(ks) <= n /\ Cardinality(ks) \in Nat
    BY <2>2, <2>3, FS_Subset, FS_CardinalityType
  <2>5. Cardinality(few) <= Cardinality(ks) /\ Cardinality(few) \in Nat
    <3> HIDE DEF f, ks
    <3> QED
      BY <1>5, <2>1, <2>4, FS_Surjection, FS_CardinalityType
  <2> HIDE DEF ks
  <2> QED
    BY <2>4, <2>5
<1>8. b # {} /\ n >= 1 => few # {}
  <2> SUFFICES ASSUME b # {}, n >= 1
               PROVE  few # {}
    OBVIOUS
  <2> PICK i \in b : TRUE
    OBVIOUS
  <2> PICK k \in 1 .. size : list[k] = i
    BY <1>3
  <2>1. 1 \in 1 .. size
    BY <1>3
  <2>2. list[1] \in b /\ Cardinality(Below(list[1])) = 0
    BY <1>3, <1>4, <2>1
  <2> HIDE DEF Below
  <2>3. list[1] \in few
    BY <2>2 DEF few
  <2> QED
    BY <2>3
<1> QED
  BY <1>7, <1>8 DEF few

LEMMA InjectionExists ==
  ASSUME NEW S, IsFiniteSet(S), NEW T, IsFiniteSet(T), Cardinality(S) <= Cardinality(T)
  PROVE  Injection(S, T) # {}
<1>1. /\ Cardinality(S) \in Nat /\ ExistsBijection(1 .. Cardinality(S), S)
      /\ Cardinality(T) \in Nat /\ ExistsBijection(1 .. Cardinality(T), T)
  BY FS_CardinalityType
<1>2. ExistsBijection(S, 1 .. Cardinality(S))
  BY <1>1, Fun_ExistsBijSymmetric
<1>3. ExistsInjection(S, 1 .. Cardinality(S)) /\ ExistsInjection(1 .. Cardinality(T), T)
  BY <1>1, <1>2 DEF ExistsBijection, ExistsInjection, Bijection
<1>4. ExistsInjection(1 .. Cardinality(S), 1 .. Cardinality(T))
  BY <1>1, Fun_NatInjLeq
<1>5. ExistsInjection(S, 1 .. Cardinality(T))
  BY <1>3, <1>4, Fun_ExistsInjTransitive
<1>6. ExistsInjection(S, T)
  BY <1>3, <1>5, Fun_ExistsInjTransitive
<1> QED
  BY <1>6 DEF ExistsInjection

LEMMA ShareOfRemainder ==
  ASSUME NEW k \in Nat, NEW part \in Nat, NEW rest \in Nat, NEW total \in Nat, total > 0,
         k >= 1, k <= 1 + (rest * part) \div total
  PROVE  (k - 1) * total <= part * rest
<1>1. rest * part \in Nat /\ rest * part = part * rest
  OBVIOUS
<1> DEFINE x == rest * part
<1>2. x \in Nat /\ k <= 1 + x \div total
  BY <1>1
<1> HIDE DEF x
<1>3. (k - 1) * total <= x
  BY <1>2
<1> QED
  BY <1>1, <1>3 DEF x

LEMMA Cancelled ==
  ASSUME NEW a \in Nat, NEW b \in Nat, NEW t \in Nat, t > 0, a * t <= t * b
  PROVE  a <= b
OBVIOUS

(***************************************************************************)
(* A set of positions for each group, one of them besides at most a share  *)
(* of the remainder by the size of the group's portion: the shares of all  *)
(* come to the remainder at most.  Each further position of a group,       *)
(* counted once for every position of all portions, is matched with a      *)
(* position of its own portion, counted once for every one of the          *)
(* remainder, and no two with the same.                                    *)
(***************************************************************************)

Disjoint(B, f) == \A b, c \in B : b # c => f[b] \cap f[c] = {}

Everything(B, f) == UNION {f[b] : b \in B}

LEMMA UpTo ==
  ASSUME NEW n \in Nat
  PROVE  IsFiniteSet(1 .. n) /\ Cardinality(1 .. n) = n
BY FS_Interval

LEMMA SharesFit ==
  ASSUME NEW B, IsFiniteSet(B), NEW s, NEW g, NEW rest \in Nat,
         \A b \in B : /\ IsFiniteSet(s[b]) /\ s[b] # {}
                      /\ IsFiniteSet(g[b]) /\ g[b] # {},
         Disjoint(B, s), Disjoint(B, g),
         \A b \in B : Cardinality(s[b]) <=
           1 + (rest * Cardinality(g[b])) \div Cardinality(Everything(B, g))
  PROVE  Cardinality(Everything(B, s)) <= Cardinality(B) + rest
<1> DEFINE U == Everything(B, s)
           G == Everything(B, g)
           T == Cardinality(G)
           first == [b \in B |-> CHOOSE i \in s[b] : TRUE]
           Firsts == {first[b] : b \in B}
           Rest == U \ Firsts
           more == [b \in B |-> s[b] \ {first[b]}]
           times == 1 .. T
           units == 1 .. rest
<1> SUFFICES Cardinality(U) <= Cardinality(B) + rest
  OBVIOUS
<1>1. /\ IsFiniteSet(U) /\ Cardinality(U) \in Nat
      /\ IsFiniteSet(G) /\ T \in Nat
      /\ Cardinality(B) \in Nat
  <2>1. IsFiniteSet({s[b] : b \in B}) /\ IsFiniteSet({g[b] : b \in B})
    <3>1. [b \in B |-> s[b]] \in Surjection(B, {s[b] : b \in B})
      BY DEF Surjection
    <3>2. [b \in B |-> g[b]] \in Surjection(B, {g[b] : b \in B})
      BY DEF Surjection
    <3> QED
      BY <3>1, <3>2, FS_Surjection
  <2>2. IsFiniteSet(U) /\ IsFiniteSet(G)
    BY <2>1, FS_UNION DEF Everything
  <2> QED
    BY <2>2, FS_CardinalityType
<1>2. CASE B = {}
  <2>1. U = {}
    BY <1>2 DEF Everything
  <2>2. Cardinality(U) = 0
    BY <2>1, FS_EmptySet
  <2> HIDE DEF U
  <2> QED
    BY <1>1, <2>2
<1>3. CASE B # {}
  <2>1. T > 0
    <3>1. PICK b \in B : TRUE
      BY <1>3
    <3>2. G # {}
      BY <3>1 DEF Everything
    <3> HIDE DEF G
    <3> QED
      BY <1>1, <3>2, FS_EmptySet
  <2>2. \A b \in B : first[b] \in s[b]
    OBVIOUS
  <2>3. IsFiniteSet(Firsts) /\ Cardinality(Firsts) \in Nat /\ Cardinality(Firsts) <= Cardinality(B)
    <3> HIDE DEF first
    <3>1. [b \in B |-> first[b]] \in Surjection(B, Firsts)
      BY DEF Surjection
    <3> QED
      BY <3>1, FS_Surjection, FS_CardinalityType
  <2> HIDE DEF first
  <2>4. ASSUME NEW b \in B
        PROVE  /\ more[b] = s[b] \ {first[b]}
               /\ IsFiniteSet(more[b]) /\ Cardinality(more[b]) \in Nat
               /\ Cardinality(more[b]) * T <= Cardinality(g[b]) * rest
    <3>1. IsFiniteSet(more[b]) /\ Cardinality(more[b]) = Cardinality(s[b]) - 1
      BY <2>2, FS_RemoveElement
    <3>2. Cardinality(s[b]) \in Nat /\ Cardinality(s[b]) >= 1 /\ Cardinality(g[b]) \in Nat
      BY FS_CardinalityType, FS_EmptySet
    <3>3. Cardinality(s[b]) <= 1 + (rest * Cardinality(g[b])) \div T
      OBVIOUS
    <3>4. (Cardinality(s[b]) - 1) * T <= Cardinality(g[b]) * rest
      <4> HIDE DEF T
      <4> QED
        BY <1>1, <2>1, <3>2, <3>3, ShareOfRemainder
    <3> QED
      BY <3>1, <3>2, <3>4
  <2>5. ASSUME NEW b \in B
        PROVE  Injection(more[b] \X times, g[b] \X units) # {}
    <3>1. IsFiniteSet(times) /\ Cardinality(times) = T /\ IsFiniteSet(units)
          /\ Cardinality(units) = rest
      <4> HIDE DEF T
      <4> QED
        BY <1>1, UpTo
    <3> HIDE DEF more, times, units
    <3>2. /\ IsFiniteSet(more[b] \X times)
          /\ Cardinality(more[b] \X times) = Cardinality(more[b]) * T
          /\ IsFiniteSet(g[b] \X units)
          /\ Cardinality(g[b] \X units) = Cardinality(g[b]) * rest
      BY <2>4, <3>1, FS_Product
    <3> QED
      BY <2>4, <3>2, InjectionExists
  <2> DEFINE match == [b \in B |-> CHOOSE f \in Injection(more[b] \X times, g[b] \X units) : TRUE]
             of == [i \in Rest |-> CHOOSE b \in B : i \in s[b]]
             F == [p \in Rest \X times |-> match[of[p[1]]][p]]
  <2>6. \A b \in B : match[b] \in Injection(more[b] \X times, g[b] \X units)
    BY <2>5
  <2>7. \A i \in Rest : of[i] \in B /\ i \in more[of[i]]
    <3> TAKE i \in Rest
    <3>1. of[i] \in B /\ i \in s[of[i]]
      BY DEF Everything
    <3>2. i # first[of[i]]
      BY <3>1
    <3> QED
      BY <3>1, <3>2
  <2> HIDE DEF match, of, more
  <2>8. ASSUME NEW p \in Rest \X times
        PROVE  /\ F[p] = match[of[p[1]]][p]
               /\ F[p] \in g[of[p[1]]] \X units
               /\ p \in more[of[p[1]]] \X times /\ of[p[1]] \in B
    BY <2>6, <2>7 DEF Injection
  <2>9. F \in Injection(Rest \X times, G \X units)
    <3>1. F \in [Rest \X times -> G \X units]
      <4>1. \A p \in Rest \X times : F[p] \in G \X units
        <5> TAKE p \in Rest \X times
        <5> HIDE DEF F, Rest, times, units
        <5>1. F[p] \in g[of[p[1]]] \X units /\ of[p[1]] \in B
          BY <2>8
        <5> QED
          BY <5>1 DEF Everything
      <4> QED
        BY <4>1
    <3>2. ASSUME NEW p \in Rest \X times, NEW r \in Rest \X times, F[p] = F[r]
          PROVE  p = r
      <4>1. of[p[1]] = of[r[1]]
        BY <2>8, <3>2 DEF Disjoint
      <4> DEFINE b == of[p[1]]
      <4>2. /\ b \in B /\ p \in more[b] \X times /\ r \in more[b] \X times
            /\ match[b][p] = match[b][r]
        BY <2>8, <3>2, <4>1
      <4> HIDE DEF b
      <4> QED
        BY <2>6, <4>2 DEF Injection, IsInjective
    <3> HIDE DEF F
    <3> QED
      BY <3>1, <3>2 DEF Injection, IsInjective
  <2>10. /\ IsFiniteSet(Rest) /\ Cardinality(Rest) \in Nat
         /\ IsFiniteSet(times) /\ Cardinality(times) = T
         /\ IsFiniteSet(units) /\ Cardinality(units) = rest
    <3>1. IsFiniteSet(times) /\ Cardinality(times) = T /\ IsFiniteSet(units)
          /\ Cardinality(units) = rest
      <4> HIDE DEF T
      <4> QED
        BY <1>1, UpTo
    <3> QED
      BY <1>1, <3>1, FS_Difference, FS_CardinalityType
  <2>11. Cardinality(Rest) * T <= T * rest
    <3> HIDE DEF Rest, times, units, F, G
    <3>1. IsFiniteSet(G \X units) /\ Cardinality(G \X units) = T * rest
      BY <1>1, <2>10, FS_Product
    <3>2. Cardinality(Rest \X times) = Cardinality(Rest) * T
      <4>1. IsFiniteSet(Rest) /\ IsFiniteSet(times) /\ Cardinality(times) = T
        BY <2>10
      <4>2. Cardinality(Rest \X times) = Cardinality(Rest) * Cardinality(times)
        BY <4>1, FS_Product
      <4> QED
        BY <4>1, <4>2, Zenon
    <3> QED
      BY <2>9, <3>1, <3>2, FS_Injection
  <2>12. Cardinality(Rest) <= rest
    <3> HIDE DEF Rest, T
    <3> QED
      BY <1>1, <2>1, <2>10, <2>11, Cancelled
  <2>13. Cardinality(U) <= Cardinality(Firsts) + Cardinality(Rest)
    <3>1. U \subseteq Firsts \cup Rest
      OBVIOUS
    <3> HIDE DEF U, Firsts, Rest
    <3>2. /\ IsFiniteSet(Firsts \cup Rest)
          /\ Cardinality(Firsts \cup Rest) =
               Cardinality(Firsts) + Cardinality(Rest) - Cardinality(Firsts \cap Rest)
          /\ Cardinality(Firsts \cap Rest) \in Nat
      BY <2>3, <2>10, FS_Union, FS_Intersection, FS_CardinalityType
    <3>3. Cardinality(U) <= Cardinality(Firsts \cup Rest)
      BY <3>1, <3>2, FS_Subset
    <3> QED
      BY <1>1, <2>3, <2>10, <3>2, <3>3
  <2> HIDE DEF U, Firsts, Rest
  <2> QED
    BY <1>1, <2>3, <2>10, <2>12, <2>13
<1> QED
  BY <1>2, <1>3

LEMMA BucketsFinite ==
  ASSUME RetrievalTypeOK
  PROVE  /\ IsFiniteSet(Buckets) /\ Cardinality(Buckets) \in Nat
         /\ \A b \in Buckets : b \in SUBSET Int /\ b # {} /\ IsFiniteSet(b)
         /\ \A b, c \in Buckets : b # c => b \cap c = {}
<1>1. DOMAIN ordered = 1 .. Len(ordered) /\ Len(ordered) \in Nat
  BY DEF RetrievalTypeOK
<1>2. IsFiniteSet(DOMAIN ordered)
  BY <1>1, UpTo
<1>3. IsFiniteSet(SUBSET DOMAIN ordered)
  BY <1>2, FS_SUBSET
<1>4. Buckets \in SUBSET SUBSET DOMAIN ordered
  BY BucketsType
<1>5. IsFiniteSet(Buckets)
  BY <1>3, <1>4, FS_Subset
<1>6. \A b \in Buckets : IsFiniteSet(b)
  BY <1>2, <1>4, FS_Subset
<1>7. \A b, c \in Buckets : b # c => b \cap c = {}
  BY DEF Buckets
<1> QED
  BY <1>1, <1>4, <1>5, <1>6, <1>7, BucketsType, FS_CardinalityType

LEMMA BestSome ==
  ASSUME NEW b, IsFiniteSet(b), b # {}, NEW n \in Nat \ {0}, NEW S \in Best(b, n)
  PROVE  S \subseteq b /\ S # {} /\ IsFiniteSet(S) /\ Cardinality(S) <= n
<1>1. S \in SUBSET b /\ Cardinality(S) = Smaller(n, Cardinality(b))
  BY DEF Best
<1>2. Cardinality(b) \in Nat /\ Cardinality(b) # 0
  BY FS_CardinalityType, FS_EmptySet
<1>3. Cardinality(S) # 0 /\ Cardinality(S) <= n
  BY <1>1, <1>2 DEF Smaller
<1> QED
  BY <1>1, <1>3, FS_Subset, FS_EmptySet

LEMMA FirstSome ==
  ASSUME NEW b \in SUBSET Int, IsFiniteSet(b), b # {}, NEW reps \in SUBSET b, reps # {},
         NEW n \in Nat \ {0}, NEW S \in First(b, reps, n)
  PROVE  S \subseteq b /\ S # {} /\ IsFiniteSet(S) /\ Cardinality(S) <= n
<1>1. CASE Cardinality(b) <= MaxReps
  <2> DEFINE few == {i \in b : Cardinality({j \in b : j < i}) < n}
  <2>1. S = few
    BY <1>1 DEF First
  <2>2. n \in Nat /\ n >= 1
    OBVIOUS
  <2>3. Cardinality(few) <= n /\ few # {}
    BY <2>2, FirstFew
  <2>4. few \subseteq b
    OBVIOUS
  <2> HIDE DEF few
  <2> QED
    BY <2>1, <2>3, <2>4, FS_Subset
<1>2. CASE ~(Cardinality(b) <= MaxReps)
  <2>1. S \in Best(reps, n)
    BY <1>2 DEF First
  <2>2. IsFiniteSet(reps)
    BY FS_Subset
  <2> QED
    BY <2>1, <2>2, BestSome
<1> QED
  BY <1>1, <1>2

\* Groups and their representatives are parts of the buckets.
LEMMA GroupParts ==
  ASSUME RetrievalTypeOK, NEW group, NEW reps, Trimmed(group), Represented(group, reps)
  PROVE  /\ DOMAIN group = Buckets /\ DOMAIN reps = Buckets
         /\ \A b \in Buckets :
              /\ group[b] \in SUBSET b /\ group[b] # {} /\ IsFiniteSet(group[b])
              /\ reps[b] \in SUBSET b /\ reps[b] # {} /\ IsFiniteSet(reps[b])
<1>1. MaxGroup \in Nat \ {0} /\ MaxReps \in Nat \ {0}
  BY RetrievalAssumption
<1>2. ASSUME NEW b \in Buckets
      PROVE  group[b] \in SUBSET b /\ group[b] # {} /\ IsFiniteSet(group[b])
  <2>1. group[b] \in Best(b, MaxGroup)
    BY DEF Trimmed
  <2> QED
    BY <1>1, <2>1, BucketsFinite, BestSome
<1>3. ASSUME NEW b \in Buckets
      PROVE  reps[b] \in SUBSET b /\ reps[b] # {} /\ IsFiniteSet(reps[b])
  <2>1. reps[b] \in Best(group[b], MaxReps)
    BY DEF Represented
  <2>2. reps[b] \subseteq group[b] /\ reps[b] # {} /\ IsFiniteSet(reps[b])
    BY <1>1, <1>2, <2>1, BestSome
  <2> QED
    BY <1>2, <2>2
<1> QED
  BY <1>2, <1>3 DEF Trimmed, Represented, PerGroup

LEMMA RangeIsEverything ==
  ASSUME NEW f, NEW B, DOMAIN f = B
  PROVE  UNION Range(f) = Everything(B, f)
BY DEF Range, Everything

LEMMA GroupsFit ==
  ASSUME RetrievalTypeOK, GroupChunks
  PROVE  /\ Cardinality(context') <= MaxContext
         /\ Cardinality(Buckets) <= MaxContext => \A b \in Buckets : b \cap context' # {}
<1>1. PICK group, reps, shown :
        /\ Trimmed(group) /\ Represented(group, reps)
        /\ \/ Total(reps) <= MaxContext /\ shown = reps
           \/ /\ Cardinality(Buckets) <= MaxContext /\ Shared(group, reps, shown)
           \/ /\ ~(Cardinality(Buckets) <= MaxContext)
              /\ \E some : OneEach(reps, some, shown)
        /\ context' = UNION Range(shown)
  BY GroupsShown
<1>2. /\ DOMAIN group = Buckets /\ DOMAIN reps = Buckets
      /\ \A b \in Buckets :
           /\ group[b] \in SUBSET b /\ group[b] # {} /\ IsFiniteSet(group[b])
           /\ reps[b] \in SUBSET b /\ reps[b] # {} /\ IsFiniteSet(reps[b])
  BY <1>1, GroupParts
<1>3. MaxContext \in Nat \ {0}
  BY RetrievalAssumption
<1>4. CASE Total(reps) <= MaxContext /\ shown = reps
  <2>1. Cardinality(context') <= MaxContext
    BY <1>1, <1>4 DEF Total
  <2>2. context' = Everything(Buckets, reps)
    BY <1>1, <1>2, <1>4, RangeIsEverything
  <2> QED
    BY <1>2, <2>1, <2>2 DEF Everything
<1>5. CASE Cardinality(Buckets) <= MaxContext /\ Shared(group, reps, shown)
  <2> DEFINE rest == MaxContext - Cardinality(Buckets)
             total == Cardinality(Everything(Buckets, group))
  <2>1. rest \in Nat /\ Cardinality(Buckets) \in Nat /\ IsFiniteSet(Buckets)
    BY <1>3, <1>5, BucketsFinite
  <2>2. Total(group) = total
    BY <1>2, RangeIsEverything DEF Total
  <2>3. ASSUME NEW b \in Buckets
        PROVE  Allocation(group, b) = 1 + (rest * Cardinality(group[b])) \div total
    <3>1. /\ Cardinality(DOMAIN group) = Cardinality(Buckets)
          /\ Cardinality(group[b]) = Cardinality(group[b])
      BY <1>2
    <3> HIDE DEF total
    <3> QED
      BY <2>2, <3>1, Zenon DEF Allocation, rest
  <2>4. Buckets # {} => total \in Nat \ {0}
    <3>1. IsFiniteSet(Everything(Buckets, group))
      <4>1. \A b \in Buckets : b \subseteq DOMAIN ordered
        BY BucketsType
      <4>2. Everything(Buckets, group) \in SUBSET DOMAIN ordered
        BY <1>2, <4>1 DEF Everything
      <4>3. IsFiniteSet(DOMAIN ordered)
        BY UpTo DEF RetrievalTypeOK
      <4> QED
        BY <4>2, <4>3, FS_Subset
    <3>2. Buckets # {} => Everything(Buckets, group) # {}
      BY <1>2 DEF Everything
    <3> QED
      BY <3>1, <3>2, FS_CardinalityType, FS_EmptySet
  <2>5. ASSUME NEW b \in Buckets
        PROVE  Allocation(group, b) \in Nat \ {0}
    <3>1. Cardinality(group[b]) \in Nat /\ total \in Nat \ {0}
      BY <1>2, <2>4, FS_CardinalityType
    <3> HIDE DEF total, rest
    <3>2. rest * Cardinality(group[b]) \in Nat
      BY <2>1, <3>1
    <3> DEFINE x == rest * Cardinality(group[b])
    <3> HIDE DEF x
    <3>3. x \div total \in Nat
      BY <3>1, <3>2 DEF x
    <3> QED
      BY <2>3, <3>3 DEF x
  <2>6. ASSUME NEW b \in Buckets
        PROVE  /\ shown[b] \in SUBSET b /\ shown[b] # {} /\ IsFiniteSet(shown[b])
               /\ Cardinality(shown[b]) <= 1 + (rest * Cardinality(group[b])) \div total
    <3>1. shown[b] \in First(b, reps[b], Allocation(group, b))
      BY <1>5 DEF Shared
    <3>2. b \in SUBSET Int /\ b # {} /\ IsFiniteSet(b)
      BY BucketsFinite
    <3>3. /\ shown[b] \subseteq b /\ shown[b] # {} /\ IsFiniteSet(shown[b])
          /\ Cardinality(shown[b]) <= Allocation(group, b)
      BY <1>2, <2>5, <3>1, <3>2, FirstSome
    <3> HIDE DEF total, rest
    <3> QED
      BY <2>3, <3>3
  <2>7. Disjoint(Buckets, shown) /\ Disjoint(Buckets, group)
    <3>1. \A b, c \in Buckets : b # c => b \cap c = {}
      BY BucketsFinite
    <3>2. \A b \in Buckets : shown[b] \subseteq b /\ group[b] \subseteq b
      BY <1>2, <2>6
    <3> QED
      BY <3>1, <3>2 DEF Disjoint
  <2>8. context' = Everything(Buckets, shown)
    BY <1>1, <1>5, RangeIsEverything DEF Shared, PerGroup
  <2>9. \A b \in Buckets : IsFiniteSet(group[b]) /\ group[b] # {}
    BY <1>2
  <2>10. Cardinality(Everything(Buckets, shown)) <= Cardinality(Buckets) + rest
    <3> HIDE DEF rest
    <3> QED
      BY <2>1, <2>6, <2>7, <2>9, SharesFit
  <2>11. \A b \in Buckets : b \cap context' # {}
    <3> TAKE b \in Buckets
    <3>1. shown[b] \in SUBSET b /\ shown[b] # {}
      BY <2>6
    <3>2. shown[b] \subseteq context'
      BY <2>8 DEF Everything
    <3> QED
      BY <3>1, <3>2
  <2> QED
    BY <1>3, <2>1, <2>8, <2>10, <2>11
<1>6. CASE /\ ~(Cardinality(Buckets) <= MaxContext)
           /\ \E some : OneEach(reps, some, shown)
  <2>1. PICK some : OneEach(reps, some, shown)
    BY <1>6
  <2>2. some \in SUBSET Buckets /\ Cardinality(some) = MaxContext /\ IsFiniteSet(some)
    BY <2>1, BucketsFinite, FS_Subset DEF OneEach
  <2>3. ASSUME NEW b \in some
        PROVE  /\ shown[b] \in SUBSET b /\ shown[b] # {} /\ IsFiniteSet(shown[b])
               /\ Cardinality(shown[b]) \in Nat /\ Cardinality(shown[b]) <= 1
    <3>1. shown[b] \in First(b, reps[b], 1)
      BY <2>1 DEF OneEach
    <3>2. b \in SUBSET Int /\ b # {} /\ IsFiniteSet(b) /\ b \in Buckets
      BY <2>2, BucketsFinite
    <3>3. reps[b] \in SUBSET b /\ reps[b] # {} /\ 1 \in Nat \ {0}
      BY <1>2, <3>2
    <3>4. /\ shown[b] \subseteq b /\ shown[b] # {} /\ IsFiniteSet(shown[b])
          /\ Cardinality(shown[b]) <= 1
      BY <3>1, <3>2, <3>3, FirstSome
    <3> QED
      BY <3>4, FS_CardinalityType
  <2>4. Disjoint(some, shown)
    <3>1. \A b, c \in Buckets : b # c => b \cap c = {}
      BY BucketsFinite
    <3> QED
      BY <2>2, <2>3, <3>1 DEF Disjoint
  <2>5. Cardinality(Everything(some, shown)) <= Cardinality(some)
    <3> DEFINE first == [b \in some |-> CHOOSE i \in shown[b] : TRUE]
    <3>1. \A b \in some : shown[b] = {first[b]}
      <4> TAKE b \in some
      <4>1. Cardinality(shown[b]) = 1
        BY <2>3, FS_EmptySet
      <4>2. \E i : shown[b] = {i}
        BY <2>3, <4>1, FS_Singleton
      <4> QED
        BY <4>2
    <3> HIDE DEF first
    <3>2. [b \in some |-> first[b]] \in Surjection(some, Everything(some, shown))
      BY <3>1 DEF Surjection, Everything
    <3> QED
      BY <2>2, <3>2, FS_Surjection
  <2>6. context' = Everything(some, shown)
    BY <1>1, <2>1, RangeIsEverything DEF OneEach, PerGroup
  <2> QED
    BY <1>6, <2>2, <2>5, <2>6
<1> QED
  BY <1>1, <1>4, <1>5, <1>6

LEMMA ContextFitsStep ==
  ASSUME RetrievalTypeOK, Phases, ContextFits, [RetrievalNext]_retrievalVars
  PROVE  ContextFits'
<1>1. CASE GroupChunks
  <2>1. /\ Cardinality(context') <= MaxContext
        /\ Cardinality(Buckets) <= MaxContext => \A b \in Buckets : b \cap context' # {}
    BY <1>1, GroupsFit
  <2>2. ordered' = ordered
    BY <1>1 DEF GroupChunks
  <2>3. Buckets' = Buckets
    BY <2>2 DEF Buckets
  <2> QED
    BY <2>1, <2>3 DEF ContextFits
<1>2. CASE UNCHANGED <<pc, ordered, context>>
  <2>1. pc' = pc /\ ordered' = ordered /\ context' = context
    BY <1>2
  <2>2. Buckets' = Buckets
    BY <2>1 DEF Buckets
  <2> QED
    BY <2>1, <2>2 DEF ContextFits
<1>3. CASE pc' # "over"
  BY <1>3 DEF ContextFits
<1>4. CASE Begin \/ SelectDocument \/ SearchesOver \/ ExpandNeighbours \/ WalkThrough
           \/ PrependOverview
  BY <1>3, <1>4 DEF Begin, SelectDocument, SearchesOver, ExpandNeighbours,
     WalkThrough, PrependOverview, Goto
<1>5. ASSUME NEW q \in Query, SearchChunks(q) \/ RankChunks(q) \/ ExpandTables(q)
                              \/ SearchFails(q)
      PROVE  ContextFits'
  BY <1>3, <1>5 DEF SearchChunks, RankChunks, ExpandTables, SearchFails, Phases
<1>6. CASE Curators
  BY <1>2, <1>6 DEF Curators, BlacklistChunks, Unblacklist, UpdateDocumentStatus,
     DeleteDocument, Edit
<1>7. CASE UNCHANGED retrievalVars
  BY <1>2, <1>7 DEF retrievalVars
<1> QED
  BY <1>1, <1>4, <1>5, <1>6, <1>7 DEF RetrievalNext, Retriever

\* The grouped context never shows more chunks than max_total_chunks, and something of
\* every section unless there are more sections than that, whatever was retrieved and
\* whatever the three limits are.
THEOREM GroupedContextFits ==
  RetrievalSpec => []ContextFits
<1>1. RetrievalInit => RetrievalTypeOK /\ Phases /\ ContextFits
  BY RetrievalTypeInit DEF RetrievalInit, ContextFits
<1>2. RetrievalTypeOK /\ Phases /\ ContextFits /\ [RetrievalNext]_retrievalVars
        => (RetrievalTypeOK /\ Phases /\ ContextFits)'
  BY RetrievalTypeStep, PhasesStep, ContextFitsStep
<1> QED
  BY <1>1, <1>2, PTL DEF RetrievalSpec
============================================================================
