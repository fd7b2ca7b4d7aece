---------------------------- MODULE AuditProofs ----------------------------
(***************************************************************************)
(* Theorems about the audit of the trail: what the two verifiers can and   *)
(* cannot see of chains of any length, and that they locate every change   *)
(* TamperEvidence makes, for manifests of any length and turns of any      *)
(* records; and what the auditor and the trace page make of the records of *)
(* a thread with any number of turns and mishaps (TraceConformance).       *)
(***************************************************************************)
EXTENDS TamperEvidence, TraceConformance, SequenceTheorems, FiniteSetTheorems, TLAPS

\* Rows of the manifest, as far as the verifier reads them.
ManifestRow ==
  [entry_sequence : Nat, previous_hash : Digest, entry_hash : Digest,
   data : Payload]

\* An untouched linear manifest passes, whole or in part.
THEOREM LinearVerifies ==
  ASSUME NEW rows \in Seq(ManifestRow), LinearManifest(rows),
         NEW linkage \in BOOLEAN
  PROVE  VerifyManifest(rows, linkage).valid
<1>1. ASSUME NEW i \in DOMAIN rows
      PROVE  ~ HashMismatch(rows, i) /\ ~ LinkMismatch(rows, i)
  BY LenProperties DEF LinearManifest, HashMismatch, LinkMismatch
<1>2. ManifestBreaks(rows, linkage) = {}
  BY <1>1 DEF ManifestBreaks
<1> QED
  BY <1>2 DEF VerifyManifest

\* Extending a digest changes it.
LEMMA HashExtends ==
  ASSUME NEW d \in Digest, NEW p \in Payload
  PROVE  Hash(d, p) # d
<1>1. d \in Seq(Payload \cup {Tampered}) /\ p \in Payload \cup {Tampered}
  BY DEF Digest
<1>2. Len(Append(d, p)) = Len(d) + 1 /\ Len(d) \in Nat
  BY <1>1, AppendProperties, LenProperties
<1> QED
  BY <1>2 DEF Hash

\* A chain without one row: the rows before it stay, those after it move up.
LEMMA WithoutRowProperties ==
  ASSUME NEW S, NEW rows \in Seq(S), NEW i \in 1 .. Len(rows)
  PROVE  /\ Len(rows) \in Nat
         /\ DOMAIN rows = 1 .. Len(rows)
         /\ DOMAIN WithoutRow(rows, i) = 1 .. Len(rows) - 1
         /\ WithoutRow(rows, i) \in Seq(S)
         /\ \A j \in 1 .. i - 1 : WithoutRow(rows, i)[j] = rows[j]
         /\ \A j \in i .. Len(rows) - 1 : WithoutRow(rows, i)[j] = rows[j + 1]
<1>1. Len(rows) \in Nat /\ DOMAIN rows = 1 .. Len(rows)
  BY LenProperties
<1>2. \A j \in 1 .. Len(rows) - 1 :
        (IF j < i THEN rows[j] ELSE rows[j + 1]) \in S
  BY <1>1, ElementOfSeq
<1>3. WithoutRow(rows, i) \in [1 .. Len(rows) - 1 -> S] /\ Len(rows) - 1 \in Nat
  BY <1>1, <1>2 DEF WithoutRow
<1>4. WithoutRow(rows, i) \in Seq(S)
  BY <1>3, IsASeq
<1> QED
  BY <1>1, <1>3, <1>4 DEF WithoutRow

\* verify_manifest_integrity sees the deletion of any entry between two others.
THEOREM InteriorDeletionSeen ==
  ASSUME NEW rows \in Seq(ManifestRow), LinearManifest(rows),
         NEW i \in 2 .. Len(rows) - 1
  PROVE  ~ VerifyManifest(WithoutRow(rows, i), TRUE).valid
<1> DEFINE left == WithoutRow(rows, i)
<1>1. Len(rows) \in Nat /\ i \in 1 .. Len(rows)
  BY LenProperties
<1>2. /\ DOMAIN rows = 1 .. Len(rows)
      /\ DOMAIN left = 1 .. Len(rows) - 1
      /\ left[i - 1] = rows[i - 1]
      /\ left[i] = rows[i + 1]
  <2>1. /\ DOMAIN rows = 1 .. Len(rows)
        /\ DOMAIN left = 1 .. Len(rows) - 1
        /\ \A j \in 1 .. i - 1 : left[j] = rows[j]
        /\ \A j \in i .. Len(rows) - 1 : left[j] = rows[j + 1]
    BY <1>1, WithoutRowProperties
  <2>2. i - 1 \in 1 .. i - 1 /\ i \in i .. Len(rows) - 1
    BY <1>1
  <2> QED
    BY <2>1, <2>2
<1>3. left[i].previous_hash = rows[i].entry_hash
  BY <1>1, <1>2 DEF LinearManifest
<1>4. rows[i].entry_hash = Hash(rows[i - 1].entry_hash, rows[i].data)
  BY <1>1, <1>2 DEF LinearManifest
<1>5. rows[i - 1] \in ManifestRow /\ rows[i] \in ManifestRow
  BY <1>1, <1>2, ElementOfSeq
<1>6. rows[i].entry_hash # rows[i - 1].entry_hash
  BY <1>4, <1>5, HashExtends DEF ManifestRow
<1>7. LinkMismatch(left, i) /\ i \in DOMAIN left
  BY <1>1, <1>2, <1>3, <1>6 DEF LinkMismatch
<1>8. ManifestBreaks(left, TRUE) # {}
  BY <1>7 DEF ManifestBreaks
<1> QED
  BY <1>8 DEF VerifyManifest

\* It cannot see that the last entry was deleted: what is left is linear.
THEOREM TruncationUnseen ==
  ASSUME NEW rows \in Seq(ManifestRow), LinearManifest(rows), rows # << >>,
         NEW linkage \in BOOLEAN
  PROVE  VerifyManifest(WithoutRow(rows, Len(rows)), linkage).valid
<1> DEFINE left == WithoutRow(rows, Len(rows))
<1>1. Len(rows) \in Nat /\ Len(rows) \in 1 .. Len(rows)
  BY LenProperties, EmptySeq
<1>2. /\ DOMAIN rows = 1 .. Len(rows)
      /\ DOMAIN left = 1 .. Len(rows) - 1
      /\ left \in Seq(ManifestRow)
      /\ \A j \in 1 .. Len(rows) - 1 : left[j] = rows[j]
  BY <1>1, WithoutRowProperties
<1>3. LinearManifest(left)
  BY <1>1, <1>2 DEF LinearManifest
<1> QED
  BY <1>2, <1>3, LinearVerifies

----------------------------------------------------------------------------

\* The hashes after the gap commit to one record more than the walk has seen:
\* of a sound log without record i, exactly the records after i are reported.
THEOREM GapReported ==
  ASSUME NEW S, NEW rows \in Seq(S), SoundLog(rows), NEW i \in 1 .. Len(rows)
  PROVE  BrokenRecords(WithoutRow(rows, i)) = i .. Len(rows) - 1
<1> DEFINE left == WithoutRow(rows, i)
<1>1. /\ Len(rows) \in Nat
      /\ DOMAIN rows = 1 .. Len(rows)
      /\ DOMAIN left = 1 .. Len(rows) - 1
      /\ \A j \in 1 .. i - 1 : left[j] = rows[j]
      /\ \A j \in i .. Len(rows) - 1 : left[j] = rows[j + 1]
  BY WithoutRowProperties
<1> HIDE DEF left
<1>2. ASSUME NEW j \in 1 .. i - 1
      PROVE  left[j].record_hash = Expected(left, j)
  <2>1. \A k \in 1 .. j : left[k] = rows[k]
    BY <1>1
  <2>2. Expected(left, j) = Expected(rows, j)
    BY <2>1 DEF Expected
  <2> QED
    BY <1>1, <2>2 DEF SoundLog
<1>3. ASSUME NEW j \in i .. Len(rows) - 1
      PROVE  left[j].record_hash # Expected(left, j)
  <2>1. left[j].record_hash = Expected(rows, j + 1)
    BY <1>1 DEF SoundLog
  <2>2. j + 1 \in DOMAIN Expected(rows, j + 1) /\ j + 1 \notin DOMAIN Expected(left, j)
    BY <1>1 DEF Expected
  <2> QED
    BY <2>1, <2>2
<1> QED
  BY <1>1, <1>2, <1>3 DEF BrokenRecords, left

\* After a change to what a record hashes, it and those after it are reported.
LEMMA DataChangeReported ==
  ASSUME NEW S, NEW rows \in Seq(S), SoundLog(rows), NEW i \in 1 .. Len(rows),
         NEW new, DOMAIN new = DOMAIN rows,
         \A j \in DOMAIN rows : new[j].record_hash = rows[j].record_hash,
         \A j \in DOMAIN rows : j # i => new[j].data = rows[j].data,
         new[i].data # rows[i].data
  PROVE  BrokenRecords(new) = i .. Len(rows)
<1>1. Len(rows) \in Nat /\ DOMAIN rows = 1 .. Len(rows)
  BY LenProperties
<1>2. ASSUME NEW j \in 1 .. Len(rows), j < i
      PROVE  new[j].record_hash = Expected(new, j)
  <2>1. Expected(new, j) = Expected(rows, j)
    BY <1>1, <1>2 DEF Expected
  <2> QED
    BY <1>1, <2>1 DEF SoundLog
<1>3. ASSUME NEW j \in i .. Len(rows)
      PROVE  new[j].record_hash # Expected(new, j)
  <2>1. i \in 1 .. j /\ j \in DOMAIN rows
    BY <1>1
  <2>2. Expected(new, j)[i] = new[i].data /\ Expected(rows, j)[i] = rows[i].data
    BY <2>1 DEF Expected
  <2> QED
    BY <2>1, <2>2 DEF SoundLog
<1> QED
  BY <1>1, <1>2, <1>3 DEF BrokenRecords

\* A record whose hash was changed is reported alone.
LEMMA HashChangeReported ==
  ASSUME NEW S, NEW rows \in Seq(S), SoundLog(rows), NEW i \in DOMAIN rows,
         NEW new, DOMAIN new = DOMAIN rows,
         \A j \in DOMAIN rows : new[j].data = rows[j].data,
         \A j \in DOMAIN rows : j # i => new[j].record_hash = rows[j].record_hash,
         new[i].record_hash # rows[i].record_hash
  PROVE  BrokenRecords(new) = {i}
<1>1. Len(rows) \in Nat /\ DOMAIN rows = 1 .. Len(rows)
  BY LenProperties
<1>2. \A j \in DOMAIN rows : Expected(new, j) = Expected(rows, j)
  BY <1>1 DEF Expected
<1> QED
  BY <1>1, <1>2 DEF BrokenRecords, SoundLog

(***************************************************************************)
(* The k-th of a set.                                                      *)
(***************************************************************************)

LEMMA NthProperties ==
  ASSUME NEW S \in SUBSET Nat, IsFiniteSet(S), NEW k \in 1 .. Cardinality(S)
  PROVE  /\ Nth(S, k) \in S
         /\ Cardinality({q \in S : q <= Nth(S, k)}) = k
<1> DEFINE n == Cardinality(S)
           UpTo(p) == {q \in S : q <= p}
           rank == [p \in S |-> Cardinality(UpTo(p))]
<1>1. n \in Nat
  BY FS_CardinalityType
<1>2. ASSUME NEW p \in S
      PROVE  /\ IsFiniteSet(UpTo(p)) /\ rank[p] \in 1 .. n
  <2>1. UpTo(p) \in SUBSET S /\ p \in UpTo(p)
    OBVIOUS
  <2>2. /\ IsFiniteSet(UpTo(p)) /\ Cardinality(UpTo(p)) <= n
        /\ Cardinality(UpTo(p)) \in Nat
    BY <2>1, FS_Subset, FS_CardinalityType
  <2>3. Cardinality(UpTo(p)) # 0
    BY <2>1, <2>2, FS_EmptySet
  <2> QED
    BY <1>1, <2>2, <2>3
<1>3. ASSUME NEW p \in S, NEW q \in S, p < q
      PROVE  rank[p] # rank[q]
  <2>0. p \in Nat /\ q \in Nat /\ \A r \in S : r \in Nat
    OBVIOUS
  <2>1. UpTo(p) \in SUBSET UpTo(q) /\ q \in UpTo(q) /\ q \notin UpTo(p)
    <3>1. \A r \in S : r <= p => r <= q
      BY <1>3, <2>0
    <3>2. q <= q /\ ~ (q <= p)
      BY <1>3, <2>0
    <3> QED
      BY <3>1, <3>2
  <2>2. UpTo(p) # UpTo(q) /\ IsFiniteSet(UpTo(q))
    BY <1>2, <2>1
  <2> HIDE DEF UpTo
  <2>3. Cardinality(UpTo(p)) # Cardinality(UpTo(q))
    BY <2>1, <2>2, FS_Subset
  <2> QED
    BY <2>3
<1>4. rank \in Injection(S, 1 .. n)
  <2>1. \A p, q \in S : rank[p] = rank[q] => p = q
    <3>1. \A p, q \in S : p = q \/ p < q \/ q < p
      OBVIOUS
    <3> QED
      BY <1>3, <3>1
  <2>2. rank \in [S -> 1 .. n]
    BY <1>2
  <2> HIDE DEF rank
  <2> QED
    BY <2>1, <2>2 DEF Injection, IsInjective
<1>5. IsFiniteSet(1 .. n) /\ Cardinality(1 .. n) = n
  BY <1>1, FS_Interval
<1>6. rank \in Surjection(S, 1 .. n)
  BY <1>4, <1>5, FS_Injection
<1>7. \E p \in S : rank[p] = k
  BY <1>6 DEF Surjection
<1>8. \E p \in S : Cardinality({q \in S : q <= p}) = k
  BY <1>7
<1> QED
  BY <1>8 DEF Nth

\* A finite set of numbers has a least and a greatest.
LEMMA Extremes ==
  ASSUME NEW S \in SUBSET Nat, IsFiniteSet(S), S # {}
  PROVE  /\ \E p \in S : \A q \in S : p <= q
         /\ \E p \in S : \A q \in S : q <= p
<1> DEFINE n == Cardinality(S)
           UpTo(p) == {q \in S : q <= p}
<1>1. n \in Nat /\ n # 0 /\ 1 \in 1 .. n /\ n \in 1 .. n
  BY FS_CardinalityType, FS_EmptySet
<1>2. \E p \in S : \A q \in S : p <= q
  <2>1. PICK p \in S : Cardinality(UpTo(p)) = 1
    BY <1>1, NthProperties
  <2>2. IsFiniteSet(UpTo(p)) /\ p \in UpTo(p)
    BY FS_Subset
  <2>3. \E x : UpTo(p) = {x}
    BY <2>1, <2>2, FS_Singleton
  <2>4. UpTo(p) = {p}
    BY <2>2, <2>3
  <2>5. \A q \in S : q <= p => q = p
    BY <2>4
  <2>6. \A q \in S : p <= q
    BY <2>5
  <2> QED
    BY <2>6
<1>3. \E p \in S : \A q \in S : q <= p
  <2>1. PICK p \in S : Cardinality(UpTo(p)) = n
    BY <1>1, NthProperties
  <2>2. UpTo(p) = S
    <3>1. UpTo(p) \in SUBSET S
      OBVIOUS
    <3> QED
      BY <2>1, <3>1, FS_Subset
  <2> QED
    BY <2>2
<1> QED
  BY <1>2, <1>3

LEMMA NthIsInjective ==
  ASSUME NEW S \in SUBSET Nat, IsFiniteSet(S),
         NEW k \in 1 .. Cardinality(S), NEW l \in 1 .. Cardinality(S),
         Nth(S, k) = Nth(S, l)
  PROVE  k = l
<1>1. /\ Cardinality({q \in S : q <= Nth(S, k)}) = k
      /\ Cardinality({q \in S : q <= Nth(S, l)}) = l
  BY NthProperties
<1> QED
  BY <1>1

\* The k-th of a run of positions.
LEMMA NthOfInterval ==
  ASSUME NEW a \in Nat, NEW b \in Int, a <= b + 1
  PROVE  /\ IsFiniteSet(a .. b)
         /\ Cardinality(a .. b) = b - a + 1
         /\ \A k \in 1 .. b - a + 1 : Nth(a .. b, k) = a + k - 1
<1>1. IsFiniteSet(a .. b) /\ Cardinality(a .. b) = b - a + 1
  BY FS_Interval
<1>2. ASSUME NEW k \in 1 .. b - a + 1
      PROVE  Nth(a .. b, k) = a + k - 1
  <2>1. a .. b \in SUBSET Nat
    OBVIOUS
  <2>2. PICK p \in a .. b : p = Nth(a .. b, k) /\ Cardinality({q \in a .. b : q <= p}) = k
    BY <1>1, <2>1, NthProperties
  <2>3. {q \in a .. b : q <= p} = a .. p
    OBVIOUS
  <2>4. Cardinality(a .. p) = p - a + 1
    BY FS_Interval
  <2>5. p - a + 1 = k
    BY <2>2, <2>3, <2>4
  <2>6. p = a + k - 1
    BY <2>5
  <2> QED
    BY <2>2, <2>6
<1> QED
  BY <1>1, <1>2

(***************************************************************************)
(* The log.  In a thread as its writer leaves it the rows of a chain stand *)
(* next to each other and every chain is sound.                            *)
(***************************************************************************)

Record ==
  [id : Nat, chain_id : Nat, started_at : Nat, response_id : Nat, data : Nat,
   record_hash : Digest]

Contiguous(rows, chain) ==
  \E a \in Nat, b \in Int : a <= b + 1 /\ ChainPositions(rows, chain) = a .. b

SoundThread(rows) ==
  /\ rows \in Seq(Record)
  /\ \A i \in DOMAIN rows : rows[i].id = i /\ rows[i].data # 0
  /\ \A i, j \in DOMAIN rows : rows[i].started_at = rows[j].started_at => i = j
  /\ \A chain : Contiguous(rows, chain)
  /\ \A chain : SoundLog(ChainRows(rows, chain))

LEMMA ChainOfInterval ==
  ASSUME NEW S, NEW rows \in Seq(S), NEW chain, NEW a \in Nat, NEW b \in Int, a <= b + 1,
         ChainPositions(rows, chain) = a .. b
  PROVE  /\ ChainRows(rows, chain) = [k \in 1 .. b - a + 1 |-> rows[a + k - 1]]
         /\ ChainRows(rows, chain) \in Seq(S)
         /\ Len(ChainRows(rows, chain)) = b - a + 1
         /\ b - a + 1 \in Nat
         /\ \A i \in a .. b : i \in DOMAIN rows
<1>1. /\ Cardinality(a .. b) = b - a + 1 /\ b - a + 1 \in Nat
      /\ \A k \in 1 .. b - a + 1 : Nth(a .. b, k) = a + k - 1
  BY NthOfInterval
<1>2. ChainRows(rows, chain) = [k \in 1 .. b - a + 1 |-> rows[a + k - 1]]
  BY <1>1 DEF ChainRows
<1>3. \A i \in a .. b : i \in DOMAIN rows
  BY DEF ChainPositions
<1>4. \A k \in 1 .. b - a + 1 : rows[a + k - 1] \in S
  <2> TAKE k \in 1 .. b - a + 1
  <2>1. a + k - 1 \in a .. b
    OBVIOUS
  <2> QED
    BY <1>3, <2>1, ElementOfSeq, LenProperties
<1>5. ChainRows(rows, chain) \in [1 .. b - a + 1 -> S]
  BY <1>2, <1>4
<1>6. ChainRows(rows, chain) \in Seq(S)
  BY <1>1, <1>5, IsASeq
<1> QED
  BY <1>1, <1>2, <1>3, <1>5, <1>6, LenProperties

\* After a gap exactly the later records of the chain are reported.
LEMMA GapLocated ==
  ASSUME NEW rows, SoundThread(rows), NEW t \in DOMAIN rows
  PROVE  LET left == WithoutRow(rows, t)
             gone == rows[t]
         IN  VerifyChain(ChainRows(left, gone.chain_id)).broken
               = LaterRecords(left, gone.id, gone.chain_id)
<1> DEFINE left == WithoutRow(rows, t)
           c == rows[t].chain_id
           whole == ChainRows(rows, c)
           rest == ChainRows(left, c)
<1>0. rows \in Seq(Record) /\ \A i \in DOMAIN rows : rows[i].id = i
  BY DEF SoundThread
<1>1. PICK a \in Nat, b \in Int : a <= b + 1 /\ ChainPositions(rows, c) = a .. b
  BY DEF SoundThread, Contiguous
<1>2. /\ Len(rows) \in Nat /\ DOMAIN rows = 1 .. Len(rows) /\ t \in 1 .. Len(rows)
      /\ DOMAIN left = 1 .. Len(rows) - 1
      /\ left \in Seq(Record)
      /\ \A j \in 1 .. t - 1 : left[j] = rows[j]
      /\ \A j \in t .. Len(rows) - 1 : left[j] = rows[j + 1]
  <2>1. Len(rows) \in Nat /\ DOMAIN rows = 1 .. Len(rows) /\ t \in 1 .. Len(rows)
    BY <1>0, LenProperties
  <2> QED
    BY <1>0, <2>1, WithoutRowProperties
<1>3. t \in a .. b /\ a >= 1 /\ b <= Len(rows)
  BY <1>1, <1>2 DEF ChainPositions
<1>4. \A i \in 1 .. Len(rows) : rows[i].chain_id = c <=> i \in a .. b
  BY <1>1, <1>2 DEF ChainPositions
<1> HIDE DEF left, c
<1>5. ChainPositions(left, c) = a .. b - 1
  <2>1. \A j \in 1 .. Len(rows) - 1 : left[j].chain_id = c <=> j \in a .. b - 1
    <3> TAKE j \in 1 .. Len(rows) - 1
    <3>1. CASE j < t
      <4>1. left[j] = rows[j] /\ j \in 1 .. Len(rows)
        BY <1>2, <3>1
      <4> QED
        BY <1>2, <1>3, <1>4, <3>1, <4>1
    <3>2. CASE j >= t
      <4>1. left[j] = rows[j + 1] /\ j + 1 \in 1 .. Len(rows)
        BY <1>2, <3>2
      <4> QED
        BY <1>2, <1>3, <1>4, <3>2, <4>1
    <3> QED
      BY <1>2, <3>1, <3>2
  <2> QED
    BY <1>2, <1>3, <2>1 DEF ChainPositions
<1>6. /\ whole = [k \in 1 .. b - a + 1 |-> rows[a + k - 1]]
      /\ whole \in Seq(Record) /\ Len(whole) = b - a + 1
  BY <1>0, <1>1, ChainOfInterval
<1>7. rest = [k \in 1 .. b - a |-> left[a + k - 1]]
  <2>1. PICK e \in Int : e = b - 1
    OBVIOUS
  <2>2. a <= e + 1 /\ e - a + 1 = b - a /\ ChainPositions(left, c) = a .. e
    BY <1>3, <1>5, <2>1
  <2>3. rest = [k \in 1 .. e - a + 1 |-> left[a + k - 1]]
    BY <1>2, <2>2, ChainOfInterval
  <2> QED
    BY <2>2, <2>3
<1>8. rest = WithoutRow(whole, t - a + 1)
  <2>1. ASSUME NEW k \in 1 .. b - a
        PROVE  left[a + k - 1]
                 = IF k < t - a + 1 THEN rows[a + k - 1] ELSE rows[a + (k + 1) - 1]
    <3>1. CASE k < t - a + 1
      BY <1>2, <1>3, <3>1
    <3>2. CASE ~ (k < t - a + 1)
      <4>1. a + k - 1 \in t .. Len(rows) - 1 /\ (a + k - 1) + 1 = a + (k + 1) - 1
        BY <1>2, <1>3, <3>2
      <4> QED
        BY <1>2, <3>2, <4>1
    <3> QED
      BY <3>1, <3>2
  <2>2. WithoutRow(whole, t - a + 1)
          = [k \in 1 .. b - a |->
               IF k < t - a + 1 THEN rows[a + k - 1] ELSE rows[a + (k + 1) - 1]]
    <3>1. ASSUME NEW k \in 1 .. b - a
          PROVE  /\ whole[k] = rows[a + k - 1]
                 /\ whole[k + 1] = rows[a + (k + 1) - 1]
      <4>1. k \in 1 .. b - a + 1 /\ k + 1 \in 1 .. b - a + 1
        OBVIOUS
      <4> QED
        BY <1>6, <4>1
    <3>2. (b - a + 1) - 1 = b - a
      OBVIOUS
    <3> QED
      BY <1>6, <3>1, <3>2 DEF WithoutRow
  <2> QED
    BY <1>7, <2>1, <2>2
<1>9. BrokenRecords(rest) = t - a + 1 .. b - a
  <2>1. t - a + 1 \in 1 .. Len(whole) /\ (b - a + 1) - 1 = b - a
    BY <1>3, <1>6
  <2>2. SoundLog(whole)
    BY DEF SoundThread
  <2> HIDE DEF whole, rest
  <2> QED
    BY <1>6, <1>8, <2>1, <2>2, GapReported
<1>10. \A k \in t - a + 1 .. b - a : rest[k].id = a + k
  <2> TAKE k \in t - a + 1 .. b - a
  <2>1. a + k - 1 \in t .. Len(rows) - 1 /\ (a + k - 1) + 1 = a + k /\ k \in 1 .. b - a
    BY <1>2, <1>3
  <2>2. rest[k] = rows[a + k] /\ a + k \in DOMAIN rows
    BY <1>2, <1>7, <2>1
  <2> QED
    BY <1>0, <2>2
<1>11. VerifyChain(rest).broken = t + 1 .. b
  <2>1. VerifyChain(rest).broken = {rest[k].id : k \in t - a + 1 .. b - a}
    BY <1>9 DEF VerifyChain
  <2>2. \A n \in t + 1 .. b : n - a \in t - a + 1 .. b - a /\ a + (n - a) = n
    BY <1>2, <1>3
  <2>3. \A k \in t - a + 1 .. b - a : a + k \in t + 1 .. b
    BY <1>2, <1>3
  <2> HIDE DEF rest
  <2> QED
    BY <1>10, <2>1, <2>2, <2>3
<1>12. LaterRecords(left, rows[t].id, c) = t + 1 .. b
  <2>1. \A j \in a .. b - 1 : left[j].id = IF j < t THEN j ELSE j + 1
    <3> TAKE j \in a .. b - 1
    <3>1. CASE j < t
      BY <1>0, <1>2, <1>3, <3>1
    <3>2. CASE ~ (j < t)
      <4>1. j \in t .. Len(rows) - 1 /\ j + 1 \in DOMAIN rows
        BY <1>2, <1>3, <3>2
      <4> QED
        BY <1>0, <1>2, <3>2, <4>1
    <3> QED
      BY <3>1, <3>2
  <2>2. LaterRecords(left, rows[t].id, c)
          = {left[j].id : j \in {i \in a .. b - 1 : left[i].id > t}}
    BY <1>0, <1>5 DEF LaterRecords
  <2>3. {i \in a .. b - 1 : left[i].id > t} = t .. b - 1
    BY <1>2, <1>3, <2>1
  <2>4. \A n \in t + 1 .. b : n - 1 \in t .. b - 1 /\ left[n - 1].id = n
    BY <1>2, <1>3, <2>1
  <2>5. \A j \in t .. b - 1 : left[j].id \in t + 1 .. b
    BY <1>2, <1>3, <2>1
  <2> QED
    BY <2>2, <2>3, <2>4, <2>5
<1> QED
  BY <1>11, <1>12 DEF left, c

\* A change to what a row says, or to its hash, reaches no other row.
LEMMA ChainsOfChanged ==
  ASSUME NEW rows, SoundThread(rows), NEW t \in DOMAIN rows, NEW new \in Seq(Record),
         DOMAIN new = DOMAIN rows,
         \A i \in DOMAIN rows : i # t => new[i] = rows[i],
         new[t].chain_id = rows[t].chain_id
  PROVE  /\ \A chain : ChainPositions(new, chain) = ChainPositions(rows, chain)
         /\ \A chain : chain # rows[t].chain_id =>
              ChainRows(new, chain) = ChainRows(rows, chain)
<1>1. \A i \in DOMAIN rows : new[i].chain_id = rows[i].chain_id
  OBVIOUS
<1>2. ASSUME NEW chain
      PROVE  ChainPositions(new, chain) = ChainPositions(rows, chain)
  BY <1>1 DEF ChainPositions
<1>3. ASSUME NEW chain, chain # rows[t].chain_id
      PROVE  ChainRows(new, chain) = ChainRows(rows, chain)
  <2>1. PICK a \in Nat, b \in Int : a <= b + 1 /\ ChainPositions(rows, chain) = a .. b
    BY DEF SoundThread, Contiguous
  <2>2. /\ ChainRows(rows, chain) = [k \in 1 .. b - a + 1 |-> rows[a + k - 1]]
        /\ \A i \in a .. b : i \in DOMAIN rows
    BY <2>1, ChainOfInterval DEF SoundThread
  <2>3. ChainPositions(new, chain) = a .. b
    BY <1>2, <2>1
  <2>4. ChainRows(new, chain) = [k \in 1 .. b - a + 1 |-> new[a + k - 1]]
    BY <2>1, <2>3, ChainOfInterval
  <2>5. t \notin a .. b
    BY <1>3, <2>1 DEF ChainPositions
  <2>6. \A k \in 1 .. b - a + 1 : new[a + k - 1] = rows[a + k - 1]
    <3> TAKE k \in 1 .. b - a + 1
    <3>1. a + k - 1 \in a .. b
      OBVIOUS
    <3> QED
      BY <2>2, <2>5, <3>1
  <2> QED
    BY <2>2, <2>4, <2>6
<1> QED
  BY <1>2, <1>3

\* A changed record is the first its chain reports, and no other chain reports any.
LEMMA ChangeLocated ==
  ASSUME NEW rows, SoundThread(rows), NEW t \in DOMAIN rows, NEW new \in Seq(Record),
         DOMAIN new = DOMAIN rows,
         \A i \in DOMAIN rows : i # t => new[i] = rows[i],
         new[t].chain_id = rows[t].chain_id, new[t].id = rows[t].id,
         \/ new[t].data # rows[t].data /\ new[t].record_hash = rows[t].record_hash
         \/ new[t].data = rows[t].data /\ new[t].record_hash # rows[t].record_hash
  PROVE  /\ Min(VerifyChain(ChainRows(new, new[t].chain_id)).broken) = new[t].id
         /\ \A chain : chain # new[t].chain_id => VerifyChain(ChainRows(new, chain)).valid
<1> DEFINE c == rows[t].chain_id
           old == ChainRows(rows, c)
           now == ChainRows(new, c)
<1>1. ASSUME NEW chain, chain # c
      PROVE  VerifyChain(ChainRows(new, chain)).valid
  <2>1. SoundLog(ChainRows(new, chain))
    BY <1>1, ChainsOfChanged DEF SoundThread
  <2> QED
    BY <2>1 DEF VerifyChain, BrokenRecords, SoundLog
<1>2. PICK a \in Nat, b \in Int : a <= b + 1 /\ ChainPositions(rows, c) = a .. b
  BY DEF SoundThread, Contiguous
<1>3. t \in a .. b
  BY <1>2 DEF ChainPositions
<1> DEFINE n == b - a + 1
           k == t - a + 1
<1>4. /\ old = [i \in 1 .. n |-> rows[a + i - 1]] /\ old \in Seq(Record) /\ Len(old) = n
      /\ \A i \in a .. b : i \in DOMAIN rows
  <2>1. rows \in Seq(Record)
    BY DEF SoundThread
  <2> HIDE DEF c
  <2> QED
    BY <1>2, <2>1, ChainOfInterval
<1>5. now = [i \in 1 .. n |-> new[a + i - 1]]
  <2>1. ChainPositions(new, c) = a .. b
    BY <1>2, ChainsOfChanged
  <2> QED
    BY <1>2, <2>1, ChainOfInterval
<1>6. k \in 1 .. n /\ a + k - 1 = t /\ n \in Nat
  BY <1>3
<1>7. ASSUME NEW i \in 1 .. n
      PROVE  /\ now[i] = new[a + i - 1] /\ old[i] = rows[a + i - 1]
             /\ a + i - 1 \in DOMAIN rows
             /\ i # k => now[i] = old[i]
             /\ now[i].id = a + i - 1
  <2>1. a + i - 1 \in a .. b /\ (i # k => a + i - 1 # t)
    BY <1>3
  <2>2. a + i - 1 \in DOMAIN rows
    BY <1>4, <2>1
  <2>3. new[a + i - 1].id = rows[a + i - 1].id
    BY <2>2
  <2> QED
    BY <1>4, <1>5, <2>1, <2>2, <2>3 DEF SoundThread
<1>8. /\ SoundLog(old) /\ DOMAIN old = 1 .. n /\ DOMAIN now = 1 .. n
      /\ now[k] = new[t] /\ old[k] = rows[t]
  BY <1>4, <1>5, <1>6 DEF SoundThread
<1> HIDE DEF old, now, k, n
<1>9. k \in BrokenRecords(now) /\ \A i \in BrokenRecords(now) : i \in k .. n
  <2>1. CASE new[t].data # rows[t].data /\ new[t].record_hash = rows[t].record_hash
    <3>1. /\ \A j \in DOMAIN old : now[j].record_hash = old[j].record_hash
          /\ \A j \in DOMAIN old : j # k => now[j].data = old[j].data
          /\ now[k].data # old[k].data
          /\ k \in 1 .. Len(old) /\ DOMAIN now = DOMAIN old
      BY <1>4, <1>6, <1>7, <1>8, <2>1
    <3>2. BrokenRecords(now) = k .. Len(old)
      BY <1>4, <1>8, <3>1, DataChangeReported
    <3> QED
      BY <1>4, <1>6, <3>2
  <2>2. CASE new[t].data = rows[t].data /\ new[t].record_hash # rows[t].record_hash
    <3>1. /\ \A j \in DOMAIN old : now[j].data = old[j].data
          /\ \A j \in DOMAIN old : j # k => now[j].record_hash = old[j].record_hash
          /\ now[k].record_hash # old[k].record_hash
          /\ k \in DOMAIN old /\ DOMAIN now = DOMAIN old
      BY <1>6, <1>7, <1>8, <2>2
    <3>2. old \in Seq(Record) /\ SoundLog(old)
      BY <1>4, <1>8
    <3> HIDE DEF c
    <3>3. BrokenRecords(now) = {k}
      BY <3>1, <3>2, HashChangeReported
    <3> QED
      BY <1>6, <3>3
  <2> QED
    BY <2>1, <2>2
<1>10. VerifyChain(now).broken = {now[i].id : i \in BrokenRecords(now)}
  BY DEF VerifyChain
<1>11. \A i \in BrokenRecords(now) : i \in 1 .. n
  BY <1>6, <1>9
<1> DEFINE ids == VerifyChain(now).broken
<1>12. a + k - 1 \in ids /\ \A id \in ids : id \in Nat /\ a + k - 1 <= id
  BY <1>6, <1>7, <1>9, <1>10, <1>11
<1> HIDE DEF ids
<1>13. Min(ids) = a + k - 1
  BY <1>6, <1>12 DEF Min
<1>14. new[t].id = t
  BY DEF SoundThread
<1> QED
  BY <1>1, <1>6, <1>13, <1>14 DEF ids, now

(***************************************************************************)
(* The log as its writer leaves it.                                        *)
(***************************************************************************)

LEMMA OrderIsPermutation ==
  ASSUME NEW kinds \in Seq({"node", "edge"})
  PROVE  LET order == InsertOrder(kinds)
             n == Len(kinds)
         IN  /\ n \in Nat
             /\ order \in [1 .. n -> 1 .. n]
             /\ \A i, j \in 1 .. n : order[i] = order[j] => i = j
<1> DEFINE n == Len(kinds)
           nodes == Places(kinds, "node")
           edges == Places(kinds, "edge")
           count == Cardinality(nodes)
           order == InsertOrder(kinds)
<1>1. n \in Nat /\ DOMAIN kinds = 1 .. n
  BY LenProperties
<1>2. nodes \subseteq 1 .. n /\ edges \subseteq 1 .. n /\ nodes \cap edges = {}
  BY <1>1 DEF Places
<1>3. nodes \cup edges = 1 .. n
  <2>1. \A p \in 1 .. n : kinds[p] \in {"node", "edge"}
    BY <1>1, ElementOfSeq
  <2> QED
    BY <1>1, <2>1 DEF Places
<1>4. IsFiniteSet(1 .. n) /\ Cardinality(1 .. n) = n
  BY <1>1, FS_Interval
<1>5. IsFiniteSet(nodes) /\ IsFiniteSet(edges) /\ count \in Nat /\ Cardinality(edges) \in Nat
  <2>1. IsFiniteSet(nodes) /\ IsFiniteSet(edges)
    BY <1>2, <1>4, FS_Subset
  <2> QED
    BY <2>1, FS_CardinalityType
<1>6. count + Cardinality(edges) = n
  <2>1. Cardinality(nodes \cup edges)
          = Cardinality(nodes) + Cardinality(edges) - Cardinality(nodes \cap edges)
    BY <1>5, FS_Union
  <2>2. Cardinality(nodes \cap edges) = 0
    BY <1>2, FS_EmptySet
  <2>3. count + Cardinality(edges) = Cardinality(nodes \cup edges)
    BY <1>5, <2>1, <2>2
  <2> QED
    BY <1>3, <1>4, <2>3
<1>7. order = [i \in 1 .. n |->
                IF i <= count THEN Nth(nodes, i) ELSE Nth(edges, i - count)]
  BY <1>1 DEF InsertOrder
<1> HIDE DEF nodes, edges, order
<1>8. nodes \in SUBSET Nat /\ edges \in SUBSET Nat
  BY <1>1, <1>2
<1>9. ASSUME NEW i \in 1 .. n, i <= count
      PROVE  order[i] = Nth(nodes, i) /\ order[i] \in nodes /\ i \in 1 .. Cardinality(nodes)
  <2>1. i \in 1 .. Cardinality(nodes)
    BY <1>9
  <2> QED
    BY <1>5, <1>7, <1>8, <1>9, <2>1, NthProperties
<1>10. ASSUME NEW i \in 1 .. n, ~ (i <= count)
       PROVE  /\ order[i] = Nth(edges, i - count) /\ order[i] \in edges
              /\ i - count \in 1 .. Cardinality(edges)
  <2>1. i - count \in 1 .. Cardinality(edges)
    BY <1>1, <1>5, <1>6, <1>10
  <2> QED
    BY <1>5, <1>7, <1>8, <1>10, <2>1, NthProperties
<1>11. ASSUME NEW i \in 1 .. n, NEW j \in 1 .. n, order[i] = order[j]
       PROVE  i = j
  <2>1. CASE i <= count /\ j <= count
    BY <1>5, <1>8, <1>9, <1>11, <2>1, NthIsInjective
  <2>2. CASE ~ (i <= count) /\ ~ (j <= count)
    <3>1. i - count = j - count
      BY <1>5, <1>8, <1>10, <1>11, <2>2, NthIsInjective
    <3> QED
      BY <1>5, <3>1
  <2>3. CASE i <= count /\ ~ (j <= count)
    BY <1>2, <1>9, <1>10, <1>11, <2>3
  <2>4. CASE ~ (i <= count) /\ j <= count
    BY <1>2, <1>9, <1>10, <1>11, <2>4
  <2> QED
    BY <2>1, <2>2, <2>3, <2>4
<1>12. \A i \in 1 .. n : order[i] \in 1 .. n
  BY <1>2, <1>9, <1>10
<1>13. order \in [1 .. n -> 1 .. n]
  BY <1>7, <1>12
<1> QED
  BY <1>1, <1>11, <1>13 DEF order

\* The rows of one turn.
LEMMA TurnRows ==
  ASSUME NEW h \in Histories, NEW c \in 1 .. Len(h)
  PROVE  LET rows == RowsOfTurn(h, c)
             n == Len(h[c])
             before == Before(h, c)
         IN  /\ n \in Nat /\ before \in Nat
             /\ rows \in Seq(Record) /\ Len(rows) = n
             /\ \A i \in 1 .. n :
                  /\ rows[i].id = before + i /\ rows[i].chain_id = c
                  /\ rows[i].data # 0
                  /\ rows[i].started_at \in before + 1 .. before + n
             /\ \A i, j \in 1 .. n : rows[i].started_at = rows[j].started_at => i = j
             /\ SoundLog(rows)
<1> DEFINE rows == RowsOfTurn(h, c)
           n == Len(h[c])
           before == Before(h, c)
           order == InsertOrder(h[c])
<1>1. /\ h \in Seq(Seq({"node", "edge"})) /\ Len(h) \in 1 .. 2
      /\ DOMAIN h = 1 .. Len(h)
  BY HistoriesAssumption, LenProperties
<1>2. h[c] \in Seq({"node", "edge"}) /\ h[1] \in Seq({"node", "edge"})
  <2>1. 1 \in 1 .. Len(h)
    BY <1>1
  <2> QED
    BY <1>1, <2>1, ElementOfSeq
<1>3. /\ n \in Nat /\ order \in [1 .. n -> 1 .. n]
      /\ \A i, j \in 1 .. n : order[i] = order[j] => i = j
  BY <1>2, OrderIsPermutation
<1>4. before \in Nat
  BY <1>2, LenProperties DEF Before
<1>5. c \in Nat
  BY <1>1
<1>6. rows = [i \in 1 .. n |->
                [id |-> before + i, chain_id |-> c, started_at |-> before + order[i],
                 response_id |-> c, data |-> order[i],
                 record_hash |-> [j \in 1 .. i |-> order[j]]]]
  <2>1. DOMAIN order = 1 .. n
    BY <1>3
  <2> QED
    BY <2>1 DEF RowsOfTurn
<1> HIDE DEF rows, n, before, order
<1>7. ASSUME NEW i \in 1 .. n
      PROVE  /\ rows[i] \in Record /\ order[i] \in 1 .. n
             /\ rows[i].id = before + i /\ rows[i].chain_id = c
             /\ rows[i].data = order[i] /\ rows[i].started_at = before + order[i]
             /\ rows[i].record_hash = [j \in 1 .. i |-> order[j]]
  <2>1. [j \in 1 .. i |-> order[j]] \in Digest
    <3>1. \A j \in 1 .. i : order[j] \in Payload \cup {Tampered}
      <4> TAKE j \in 1 .. i
      <4>1. j \in 1 .. n
        BY <1>3
      <4>2. order[j] \in 1 .. n
        BY <1>3, <4>1
      <4> QED
        BY <1>3, <4>2, PayloadAssumption
    <3>2. [j \in 1 .. i |-> order[j]] \in [1 .. i -> Payload \cup {Tampered}] /\ i \in Nat
      BY <1>3, <3>1
    <3> QED
      BY <3>2, IsASeq DEF Digest
  <2>2. order[i] \in 1 .. n /\ order[i] \in Nat /\ before + i \in Nat /\ before + order[i] \in Nat
    BY <1>3, <1>4
  <2> QED
    BY <1>5, <1>6, <2>1, <2>2 DEF Record
<1>8. rows \in Seq(Record) /\ Len(rows) = n
  <2>1. rows \in [1 .. n -> Record]
    BY <1>6, <1>7
  <2>2. rows \in Seq(Record)
    BY <1>3, <2>1, IsASeq
  <2> QED
    BY <1>3, <2>1, <2>2, LenProperties
<1>9. SoundLog(rows)
  <2>1. ASSUME NEW i \in 1 .. n
        PROVE  rows[i].record_hash = Expected(rows, i)
    <3>0. \A j \in 1 .. i : j \in 1 .. n
      BY <1>3
    <3>1. \A j \in 1 .. i : rows[j].data = order[j]
      BY <1>7, <3>0
    <3> QED
      BY <1>7, <3>1 DEF Expected
  <2> QED
    BY <1>6, <2>1 DEF SoundLog
<1>10. ASSUME NEW i \in 1 .. n
       PROVE  rows[i].data # 0 /\ rows[i].started_at \in before + 1 .. before + n
  <2>1. order[i] \in 1 .. n /\ rows[i].data = order[i]
        /\ rows[i].started_at = before + order[i]
    BY <1>7
  <2>2. order[i] >= 1 /\ order[i] <= n /\ order[i] \in Nat
    BY <1>3, <2>1
  <2>3. before + order[i] \in before + 1 .. before + n
    <3> HIDE DEF n, before, order
    <3>1. n \in Nat /\ before \in Nat
      BY <1>3, <1>4
    <3> QED
      BY <2>2, <3>1
  <2>4. rows[i].started_at \in before + 1 .. before + n
    <3> HIDE DEF n, before, order, rows
    <3> QED
      BY <2>1, <2>3
  <2>5. rows[i].data # 0
    <3> HIDE DEF n, before, order, rows
    <3> QED
      BY <2>1, <2>2
  <2> QED
    BY <2>4, <2>5
<1>11. ASSUME NEW i \in 1 .. n, NEW j \in 1 .. n, rows[i].started_at = rows[j].started_at
       PROVE  i = j
  <2>0. \A k \in 1 .. n : order[k] \in 1 .. n /\ rows[k].started_at = before + order[k]
    BY <1>7
  <2>1. /\ order[i] \in 1 .. n /\ order[j] \in 1 .. n
        /\ before + order[i] = before + order[j]
    BY <1>11, <2>0
  <2>2. order[i] = order[j]
    BY <1>3, <1>4, <2>1
  <2> QED
    BY <1>3, <2>2
<1> QED
  BY <1>3, <1>4, <1>7, <1>8, <1>9, <1>10, <1>11 DEF rows, n, before

LEMMA LogIsSound ==
  ASSUME NEW h \in Histories
  PROVE  SoundThread(LogOf(h))
<1> DEFINE log0 == LogOf(h)
           r(c) == RowsOfTurn(h, c)
           m == Len(h[1])
<1>1. Len(h) \in 1 .. 2 /\ 1 \in 1 .. Len(h)
  BY HistoriesAssumption
<1>2. /\ m \in Nat /\ r(1) \in Seq(Record) /\ Len(r(1)) = m
      /\ \A i \in 1 .. m :
           /\ r(1)[i].id = i /\ r(1)[i].chain_id = 1 /\ r(1)[i].data # 0
           /\ r(1)[i].started_at \in 1 .. m
      /\ \A i, j \in 1 .. m : r(1)[i].started_at = r(1)[j].started_at => i = j
      /\ SoundLog(r(1))
  <2>1. Before(h, 1) = 0
    BY DEF Before
  <2>2. /\ m \in Nat /\ r(1) \in Seq(Record) /\ Len(r(1)) = m
        /\ \A i \in 1 .. m :
             /\ r(1)[i].id = 0 + i /\ r(1)[i].chain_id = 1 /\ r(1)[i].data # 0
             /\ r(1)[i].started_at \in 0 + 1 .. 0 + m
        /\ \A i, j \in 1 .. m : r(1)[i].started_at = r(1)[j].started_at => i = j
        /\ SoundLog(r(1))
    BY <1>1, <2>1, TurnRows
  <2>3. 0 + m = m /\ \A i \in 1 .. m : 0 + i = i
    BY <2>2
  <2> HIDE DEF r, m
  <2> QED
    BY <2>2, <2>3
<1>3. PICK n, second :
        /\ n \in Nat /\ second \in Seq(Record) /\ Len(second) = n
        /\ \A i \in 1 .. n :
             /\ second[i].id = m + i /\ second[i].chain_id = 2 /\ second[i].data # 0
             /\ second[i].started_at \in m + 1 .. m + n
        /\ \A i, j \in 1 .. n : second[i].started_at = second[j].started_at => i = j
        /\ SoundLog(second)
        /\ log0 = r(1) \o second
  <2>1. CASE Len(h) = 1
    <3>1. log0 = r(1) \o << >>
      BY <1>2, <2>1, ConcatEmptySeq DEF LogOf
    <3>2. /\ 0 \in Nat /\ << >> \in Seq(Record) /\ Len(<< >>) = 0 /\ 1 .. 0 = {}
          /\ SoundLog(<< >>)
      BY EmptySeq DEF SoundLog
    <3> HIDE DEF log0, r, m
    <3> QED
      BY <3>1, <3>2
  <2>2. CASE Len(h) = 2
    <3>1. 2 \in 1 .. Len(h) /\ Before(h, 2) = m
      BY <2>2 DEF Before
    <3>2. log0 = r(1) \o r(2)
      BY <2>2 DEF LogOf
    <3> DEFINE before == Before(h, 2)
    <3>a. PICK c \in 1 .. Len(h) : c = 2
      BY <3>1
    <3>b. /\ Len(h[c]) \in Nat /\ r(c) \in Seq(Record) /\ Len(r(c)) = Len(h[c])
          /\ \A i \in 1 .. Len(h[c]) :
               /\ r(c)[i].id = Before(h, c) + i /\ r(c)[i].chain_id = c
               /\ r(c)[i].data # 0
               /\ r(c)[i].started_at \in Before(h, c) + 1 .. Before(h, c) + Len(h[c])
          /\ \A i, j \in 1 .. Len(h[c]) :
               r(c)[i].started_at = r(c)[j].started_at => i = j
          /\ SoundLog(r(c))
      BY TurnRows
    <3>3. /\ Len(h[2]) \in Nat /\ r(2) \in Seq(Record) /\ Len(r(2)) = Len(h[2])
          /\ \A i \in 1 .. Len(h[2]) :
               /\ r(2)[i].id = before + i /\ r(2)[i].chain_id = 2 /\ r(2)[i].data # 0
               /\ r(2)[i].started_at \in before + 1 .. before + Len(h[2])
          /\ \A i, j \in 1 .. Len(h[2]) :
               r(2)[i].started_at = r(2)[j].started_at => i = j
          /\ SoundLog(r(2))
      BY <3>a, <3>b
    <3>4. before = m
      BY <3>1
    <3> HIDE DEF log0, r, m, before
    <3> QED
      BY <3>2, <3>3, <3>4
  <2>3. Len(h) = 1 \/ Len(h) = 2
    BY <1>1
  <2> HIDE DEF log0, r, m
  <2> QED
    BY <2>1, <2>2, <2>3
<1> DEFINE first == r(1)
<1>4. first \in Seq(Record) /\ second \in Seq(Record) /\ Len(first) = m /\ Len(second) = n
      /\ m \in Nat /\ n \in Nat
  BY <1>2, <1>3
<1> HIDE DEF log0, r, m, first
<1>5. /\ log0 \in Seq(Record) /\ DOMAIN log0 = 1 .. m + n
      /\ \A i \in 1 .. m : log0[i] = first[i]
      /\ \A i \in 1 .. n : log0[m + i] = second[i]
  <2>1. log0 = first \o second
    BY <1>3 DEF first
  <2>2. /\ log0 \in Seq(Record) /\ Len(log0) = m + n
        /\ \A i \in 1 .. m + n : log0[i] = IF i <= m THEN first[i] ELSE second[i - m]
    BY <1>4, <2>1, ConcatProperties
  <2>3. DOMAIN log0 = 1 .. m + n
    BY <2>2, LenProperties
  <2>4. ASSUME NEW i \in 1 .. n
        PROVE  log0[m + i] = second[i]
    <3>1. m + i \in 1 .. m + n /\ ~ (m + i <= m) /\ (m + i) - m = i
      BY <1>4
    <3> QED
      BY <2>2, <3>1
  <2>5. \A i \in 1 .. m : i \in 1 .. m + n /\ i <= m
    BY <1>4
  <2> QED
    BY <2>2, <2>3, <2>4, <2>5
\* Every row stands in the first turn or the second.
<1>6. ASSUME NEW p \in 1 .. m + n
      PROVE  p \in 1 .. m \/ \E i \in 1 .. n : p = m + i
  <2>1. CASE p > m
    <3>1. p - m \in 1 .. n /\ p = m + (p - m)
      BY <1>4, <2>1
    <3> QED
      BY <3>1
  <2>2. CASE ~ (p > m)
    BY <1>4, <2>2
  <2> QED
    BY <2>1, <2>2
<1>7. \A p \in 1 .. m :
        /\ log0[p].id = p /\ log0[p].chain_id = 1 /\ log0[p].data # 0
        /\ log0[p].started_at \in 1 .. m
  BY <1>2, <1>5 DEF first
<1>8. \A p \in 1 .. n :
        /\ log0[m + p].id = m + p /\ log0[m + p].chain_id = 2 /\ log0[m + p].data # 0
        /\ log0[m + p].started_at \in m + 1 .. m + n
  BY <1>3, <1>5
<1>9. ASSUME NEW p \in 1 .. m + n
      PROVE  log0[p].id = p /\ log0[p].data # 0
  BY <1>6, <1>7, <1>8
<1>10. ASSUME NEW p \in 1 .. m + n, NEW q \in 1 .. m + n,
              log0[p].started_at = log0[q].started_at
       PROVE  p = q
  <2>1. CASE p \in 1 .. m /\ q \in 1 .. m
    BY <1>2, <1>5, <1>10, <2>1 DEF first
  <2>2. ASSUME NEW i \in 1 .. n, p = m + i, NEW j \in 1 .. n, q = m + j
        PROVE  p = q
    <3>1. second[i].started_at = second[j].started_at
      BY <1>5, <1>10, <2>2
    <3> QED
      BY <1>3, <2>2, <3>1
  <2>3. ASSUME NEW i \in 1 .. n, p = m + i, q \in 1 .. m
        PROVE  FALSE
    <3>1. log0[m + i].started_at \in m + 1 .. m + n /\ log0[q].started_at \in 1 .. m
      BY <1>7, <1>8, <2>3
    <3>2. log0[m + i].started_at = log0[q].started_at
      BY <1>10, <2>3
    <3> QED
      BY <1>4, <3>1, <3>2
  <2>4. ASSUME NEW i \in 1 .. n, q = m + i, p \in 1 .. m
        PROVE  FALSE
    <3>1. log0[m + i].started_at \in m + 1 .. m + n /\ log0[p].started_at \in 1 .. m
      BY <1>7, <1>8, <2>4
    <3>2. log0[m + i].started_at = log0[p].started_at
      BY <1>10, <2>4
    <3> QED
      BY <1>4, <3>1, <3>2
  <2> QED
    BY <1>6, <2>1, <2>2, <2>3, <2>4
<1>11. ChainPositions(log0, 1) = 1 .. m
  <2>1. \A p \in 1 .. m + n : log0[p].chain_id = 1 <=> p \in 1 .. m
    BY <1>6, <1>7, <1>8
  <2>2. \A p \in 1 .. m : p \in 1 .. m + n
    BY <1>4
  <2> QED
    BY <1>5, <2>1, <2>2 DEF ChainPositions
<1>12. ChainPositions(log0, 2) = m + 1 .. m + n
  <2>1. \A p \in 1 .. m + n : log0[p].chain_id = 2 <=> p \in m + 1 .. m + n
    <3> TAKE p \in 1 .. m + n
    <3>1. CASE p \in 1 .. m
      BY <1>4, <1>7, <3>1
    <3>2. ASSUME NEW i \in 1 .. n, p = m + i
          PROVE  log0[p].chain_id = 2 /\ p \in m + 1 .. m + n
      BY <1>4, <1>8, <3>2
    <3> QED
      BY <1>6, <3>1, <3>2
  <2>2. \A p \in m + 1 .. m + n : p \in 1 .. m + n
    BY <1>4
  <2> QED
    BY <1>5, <2>1, <2>2 DEF ChainPositions
<1>13. ASSUME NEW chain, chain # 1, chain # 2
       PROVE  ChainPositions(log0, chain) = 1 .. 0
  <2>1. \A p \in 1 .. m + n : log0[p].chain_id # chain
    BY <1>6, <1>7, <1>8, <1>13
  <2> QED
    BY <1>5, <2>1 DEF ChainPositions
<1>14. ASSUME NEW chain
       PROVE  Contiguous(log0, chain)
  <2>1. 1 \in Nat /\ m \in Int /\ 1 <= m + 1
    BY <1>4
  <2>2. m + 1 \in Nat /\ m + n \in Int /\ m + 1 <= (m + n) + 1
    BY <1>4
  <2>3. 1 \in Nat /\ 0 \in Int /\ 1 <= 0 + 1
    OBVIOUS
  <2>4. CASE chain = 1
    BY <1>11, <2>1, <2>4 DEF Contiguous
  <2>5. CASE chain = 2
    BY <1>12, <2>2, <2>5 DEF Contiguous
  <2>6. CASE chain # 1 /\ chain # 2
    BY <1>13, <2>3, <2>6 DEF Contiguous
  <2> QED
    BY <2>4, <2>5, <2>6
<1>15. ASSUME NEW chain
       PROVE  SoundLog(ChainRows(log0, chain))
  <2>1. CASE chain = 1
    <3>1. PICK a \in Nat : a = 1
      OBVIOUS
    <3>2. ChainRows(log0, 1) = [k \in 1 .. m - a + 1 |-> log0[a + k - 1]]
      BY <1>4, <1>5, <1>11, <3>1, ChainOfInterval
    <3>3. m - a + 1 = m /\ \A k \in 1 .. m : a + k - 1 = k
      BY <1>4, <3>1
    <3>4. ChainRows(log0, 1) = [k \in 1 .. m |-> first[k]]
      BY <1>5, <3>2, <3>3
    <3>5. first = [k \in 1 .. m |-> first[k]]
      BY <1>4, LenProperties
    <3> QED
      BY <1>2, <2>1, <3>4, <3>5 DEF first
  <2>2. CASE chain = 2
    <3>1. PICK a \in Nat, b \in Int : a = m + 1 /\ b = m + n
      BY <1>4
    <3>2. ChainRows(log0, 2) = [k \in 1 .. b - a + 1 |-> log0[a + k - 1]]
      <4>1. a <= b + 1 /\ ChainPositions(log0, 2) = a .. b
        BY <1>4, <1>12, <3>1
      <4> QED
        BY <1>5, <3>1, <4>1, ChainOfInterval
    <3>3. b - a + 1 = n /\ \A k \in 1 .. n : a + k - 1 = m + k
      BY <1>4, <3>1
    <3>4. ChainRows(log0, 2) = [k \in 1 .. n |-> second[k]]
      BY <1>5, <3>2, <3>3
    <3>5. second = [k \in 1 .. n |-> second[k]]
      BY <1>4, LenProperties
    <3> QED
      BY <1>3, <2>2, <3>4, <3>5
  <2>3. CASE chain # 1 /\ chain # 2
    <3>1. PICK a \in Nat, b \in Int : a <= b + 1 /\ b - a + 1 = 0 /\ 1 .. 0 = a .. b
      <4>1. 1 \in Nat /\ 0 \in Int /\ 1 <= 0 + 1 /\ 0 - 1 + 1 = 0
        OBVIOUS
      <4> QED
        BY <4>1
    <3>2. ChainRows(log0, chain) = [k \in 1 .. b - a + 1 |-> log0[a + k - 1]]
      <4>1. ChainPositions(log0, chain) = a .. b
        BY <1>13, <2>3, <3>1
      <4> QED
        BY <1>5, <3>1, <4>1, ChainOfInterval
    <3>3. DOMAIN ChainRows(log0, chain) = {}
      BY <3>1, <3>2
    <3> QED
      BY <3>3 DEF SoundLog
  <2> QED
    BY <2>1, <2>2, <2>3
<1> QED
  BY <1>5, <1>9, <1>10, <1>14, <1>15 DEF SoundThread, log0

\* Distinct start times have a middle.
LEMMA MiddleExists ==
  ASSUME SoundThread(log), Len(log) >= 3
  PROVE  LogGapTarget \in DOMAIN log
<1> DEFINE n == Len(log)
           Earlier(i) == {j \in DOMAIN log : log[j].started_at < log[i].started_at}
           rank == [i \in DOMAIN log |-> Cardinality(Earlier(i))]
<1>1. n \in Nat /\ DOMAIN log = 1 .. n /\ \A i \in 1 .. n : log[i].started_at \in Nat
  <2>1. log \in Seq(Record)
    BY DEF SoundThread
  <2>2. n \in Nat /\ DOMAIN log = 1 .. n /\ \A i \in 1 .. n : log[i] \in Record
    BY <2>1, LenProperties, ElementOfSeq
  <2> QED
    BY <2>2 DEF Record
<1>2. IsFiniteSet(1 .. n) /\ Cardinality(1 .. n) = n
  BY <1>1, FS_Interval
<1>3. ASSUME NEW i \in 1 .. n
      PROVE  IsFiniteSet(Earlier(i)) /\ rank[i] \in 0 .. n - 1
  <2>1. Earlier(i) \in SUBSET (1 .. n) /\ i \notin Earlier(i)
    BY <1>1
  <2>2. IsFiniteSet(Earlier(i)) /\ Cardinality(Earlier(i)) <= n
    BY <1>2, <2>1, FS_Subset
  <2>3. Cardinality(Earlier(i)) \in Nat
    BY <2>2, FS_CardinalityType
  <2>4. Cardinality(Earlier(i)) # n
    <3>1. Earlier(i) # 1 .. n
      BY <2>1
    <3> HIDE DEF Earlier
    <3> QED
      BY <1>2, <2>1, <3>1, FS_Subset
  <2>5. rank[i] = Cardinality(Earlier(i))
    BY <1>1
  <2> HIDE DEF rank, Earlier
  <2> QED
    BY <1>1, <2>2, <2>3, <2>4, <2>5
<1>4. ASSUME NEW i \in 1 .. n, NEW j \in 1 .. n, log[i].started_at < log[j].started_at
      PROVE  rank[i] # rank[j]
  <2>1. i \in Earlier(j) /\ i \notin Earlier(i)
    BY <1>1, <1>4
  <2>2. Earlier(i) \in SUBSET Earlier(j)
    <3>1. \A k \in DOMAIN log : log[k].started_at < log[i].started_at
                                  => log[k].started_at < log[j].started_at
      BY <1>1, <1>4
    <3> QED
      BY <3>1
  <2>3. IsFiniteSet(Earlier(j)) /\ Earlier(i) # Earlier(j)
    BY <1>3, <2>1
  <2>4. rank[i] = Cardinality(Earlier(i)) /\ rank[j] = Cardinality(Earlier(j))
    BY <1>1
  <2> HIDE DEF rank, Earlier
  <2>5. Cardinality(Earlier(i)) # Cardinality(Earlier(j))
    BY <2>2, <2>3, FS_Subset
  <2> QED
    BY <2>4, <2>5
<1>5. rank \in Injection(1 .. n, 0 .. n - 1)
  <2>1. rank \in [1 .. n -> 0 .. n - 1]
    BY <1>1, <1>3
  <2>2. \A i, j \in 1 .. n : rank[i] = rank[j] => i = j
    <3> TAKE i, j \in 1 .. n
    <3>1. CASE log[i].started_at = log[j].started_at
      BY <1>1, <3>1 DEF SoundThread
    <3>2. CASE log[i].started_at < log[j].started_at
      BY <1>4, <3>2
    <3>3. CASE log[j].started_at < log[i].started_at
      BY <1>4, <3>3
    <3>4. log[i].started_at \in Nat /\ log[j].started_at \in Nat
      BY <1>1
    <3> QED
      BY <3>1, <3>2, <3>3, <3>4
  <2> HIDE DEF rank
  <2> QED
    BY <2>1, <2>2 DEF Injection, IsInjective
<1>6. IsFiniteSet(0 .. n - 1) /\ Cardinality(0 .. n - 1) = n
  <2>1. IsFiniteSet(0 .. n - 1)
        /\ Cardinality(0 .. n - 1) = IF 0 > n - 1 THEN 0 ELSE (n - 1) - 0 + 1
    BY <1>1, FS_Interval
  <2> QED
    BY <1>1, <2>1
<1>7. rank \in Surjection(1 .. n, 0 .. n - 1)
  <2> HIDE DEF rank
  <2> QED
    BY <1>2, <1>5, <1>6, FS_Injection
<1>8. n \div 2 \in 0 .. n - 1
  BY <1>1
<1>9. \E i \in 1 .. n : rank[i] = n \div 2
  <2> HIDE DEF rank
  <2> QED
    BY <1>7, <1>8 DEF Surjection
<1>10. \E i \in DOMAIN log : Cardinality(Earlier(i)) = n \div 2
  BY <1>1, <1>9
<1> QED
  BY <1>10 DEF LogGapTarget

(***************************************************************************)
(* The manifest.                                                           *)
(***************************************************************************)

Entry ==
  [entry_sequence : Nat, data : Nat, previous_hash : Digest, entry_hash : Digest]

\* The first n entries are as their writers leave them.
LinearUpTo(rows, n) ==
  \A i \in 1 .. n :
    /\ rows[i].entry_sequence = i
    /\ rows[i].previous_hash = IF i = 1 THEN Genesis ELSE rows[i - 1].entry_hash
    /\ rows[i].entry_hash = Hash(rows[i].previous_hash, rows[i].data)
    /\ rows[i].data # 0

\* The verifier stops at the first entry that is not.
LEMMA BreakLocated ==
  ASSUME NEW rows \in Seq(Entry), NEW linkage \in BOOLEAN, NEW t \in 1 .. Len(rows),
         LinearUpTo(rows, t - 1), t \in ManifestBreaks(rows, linkage)
  PROVE  VerifyManifest(rows, linkage).first_broken_at = rows[t].entry_sequence
<1> DEFINE breaks == ManifestBreaks(rows, linkage)
<1>1. Len(rows) \in Nat /\ DOMAIN rows = 1 .. Len(rows)
  BY LenProperties
<1>2. ASSUME NEW j \in breaks
      PROVE  j \in 1 .. Len(rows) /\ t <= j
  <2>1. j \in 1 .. Len(rows) /\ (HashMismatch(rows, j) \/ LinkMismatch(rows, j))
    BY <1>1, <1>2 DEF ManifestBreaks
  <2>2. CASE j < t
    <3>1. j \in 1 .. t - 1
      BY <1>1, <2>1, <2>2
    <3> QED
      BY <2>1, <3>1 DEF LinearUpTo, HashMismatch, LinkMismatch
  <2> QED
    BY <1>1, <2>1, <2>2
<1> HIDE DEF breaks
<1>3. breaks # {} /\ t \in breaks
  BY DEF breaks
<1>4. FirstBreak(breaks) = t
  <2>1. \A i \in breaks : (\A j \in breaks : i <= j) => i = t
    BY <1>1, <1>2, <1>3
  <2> QED
    BY <1>2, <1>3, <2>1 DEF FirstBreak
<1> QED
  BY <1>3, <1>4 DEF VerifyManifest, breaks

\* A digest that is extended changes, and extensions by different payloads differ.
LEMMA Extensions ==
  ASSUME NEW d \in Digest, NEW p \in Nat, NEW q \in Nat
  PROVE  /\ Hash(d, p) \in Digest /\ Hash(d, p) # d
         /\ TamperedHash(d) \in Digest /\ TamperedHash(d) # d
         /\ p # q => Hash(d, p) # Hash(d, q)
<1>1. d \in Seq(Payload \cup {Tampered}) /\ Len(d) \in Nat
  BY LenProperties DEF Digest
<1>2. \A x \in Payload \cup {Tampered} :
        /\ Append(d, x) \in Seq(Payload \cup {Tampered})
        /\ Len(Append(d, x)) = Len(d) + 1
        /\ Append(d, x)[Len(d) + 1] = x
  BY <1>1, AppendProperties
<1>3. p \in Payload /\ q \in Payload
  BY PayloadAssumption
<1> QED
  BY <1>1, <1>2, <1>3 DEF Hash, TamperedHash, Digest

LEMMA LongerExtension ==
  ASSUME NEW d \in Digest, NEW p \in Nat
  PROVE  Hash(TamperedHash(d), p) # Hash(d, p)
<1>1. TamperedHash(d) \in Digest /\ TamperedHash(d) # d
  BY Extensions
<1>2. d \in Seq(Payload \cup {Tampered}) /\ p \in Payload \cup {Tampered}
  BY PayloadAssumption DEF Digest
<1>3. TamperedHash(d) \in Seq(Payload \cup {Tampered}) /\ Len(TamperedHash(d)) = Len(d) + 1
  BY <1>2, AppendProperties DEF TamperedHash
<1>4. /\ Len(Hash(TamperedHash(d), p)) = Len(TamperedHash(d)) + 1
      /\ Len(Hash(d, p)) = Len(d) + 1
  BY <1>2, <1>3, AppendProperties DEF Hash
<1>5. Len(d) \in Nat
  BY <1>2, LenProperties
<1> QED
  BY <1>3, <1>4, <1>5

(***************************************************************************)
(* The invariant.  What the verifier of the log says is settled by the     *)
(* change; what that of the manifest says has to survive the entries an    *)
(* ingestion appends, which the part before the change decides.            *)
(***************************************************************************)

EntriesBroken ==
  /\ edit.kind \in {"entry_modified", "manifest_tamper"} =>
       /\ edit.at \in 1 .. Len(manifest)
       /\ LinearUpTo(manifest, edit.at - 1)
       /\ HashMismatch(manifest, edit.at)
       /\ manifest[edit.at].entry_sequence = edit.at
  /\ edit.kind = "entry_deleted" /\ edit.at \in 2 .. edit.was - 1 =>
       /\ edit.at \in 1 .. Len(manifest)
       /\ LinearUpTo(manifest, edit.at - 1)
       /\ LinkMismatch(manifest, edit.at)
       /\ manifest[edit.at].entry_sequence = edit.at + 1

ChangeInv ==
  /\ manifest \in Seq(Entry)
  /\ edit = NoEdit => LinearUpTo(manifest, Len(manifest)) /\ SoundThread(log)
  /\ EntriesBroken
  /\ RecordsLocated

LEMMA ChangeInvLocates == ChangeInv => ChangesLocated
<1> SUFFICES ASSUME ChangeInv
             PROVE  EntriesLocated
  BY DEF ChangeInv, ChangesLocated
<1>0. manifest \in Seq(Entry) /\ EntriesBroken
  BY DEF ChangeInv
<1>1. ASSUME edit.kind \in {"entry_modified", "manifest_tamper"}, NEW linkage \in BOOLEAN
      PROVE  VerifyManifest(manifest, linkage).first_broken_at = edit.at
  <2>1. /\ edit.at \in 1 .. Len(manifest)
        /\ LinearUpTo(manifest, edit.at - 1)
        /\ HashMismatch(manifest, edit.at)
        /\ manifest[edit.at].entry_sequence = edit.at
    BY <1>0, <1>1 DEF EntriesBroken
  <2>2. edit.at \in ManifestBreaks(manifest, linkage)
    BY <1>0, <2>1, LenProperties DEF ManifestBreaks
  <2> QED
    BY <1>0, <2>1, <2>2, BreakLocated
<1>2. ASSUME edit.kind = "entry_deleted", edit.at \in 2 .. edit.was - 1
      PROVE  VerifyManifest(manifest, TRUE).first_broken_at = edit.at + 1
  <2>1. /\ edit.at \in 1 .. Len(manifest)
        /\ LinearUpTo(manifest, edit.at - 1)
        /\ LinkMismatch(manifest, edit.at)
        /\ manifest[edit.at].entry_sequence = edit.at + 1
    BY <1>0, <1>2 DEF EntriesBroken
  <2>2. edit.at \in ManifestBreaks(manifest, TRUE)
    BY <1>0, <2>1, LenProperties DEF ManifestBreaks
  <2> QED
    BY <1>0, <2>1, <2>2, BreakLocated
<1> QED
  BY <1>1, <1>2 DEF EntriesLocated

LEMMA ManifestIsLinear ==
  ASSUME NEW n \in 1 .. MaxEntries
  PROVE  /\ ManifestOf(n) \in Seq(Entry)
         /\ LinearUpTo(ManifestOf(n), Len(ManifestOf(n)))
<1> DEFINE rows == ManifestOf(n)
           upTo(i) == [j \in 1 .. i |-> j]
<1>1. n \in Nat
  BY PayloadAssumption
<1>2. ASSUME NEW i \in 0 .. n
      PROVE  upTo(i) \in Digest /\ upTo(i) \in Seq(Nat) /\ Len(upTo(i)) = i
  <2>1. upTo(i) \in [1 .. i -> Nat] /\ i \in Nat
    BY <1>1
  <2>2. upTo(i) \in Seq(Nat) /\ DOMAIN upTo(i) = 1 .. i
    BY <2>1, IsASeq
  <2>3. Len(upTo(i)) = i
    BY <2>1, <2>2, LenProperties
  <2>4. upTo(i) \in [1 .. i -> Payload \cup {Tampered}]
    BY <2>1, PayloadAssumption
  <2>5. upTo(i) \in Digest
    BY <2>1, <2>4, IsASeq DEF Digest
  <2> QED
    BY <2>2, <2>3, <2>5
<1>3. ASSUME NEW i \in 1 .. n
      PROVE  upTo(i) = Hash(upTo(i - 1), i)
  <2> DEFINE d == upTo(i - 1)
  <2>1. i - 1 \in 0 .. n /\ i \in Nat /\ (i - 1) + 1 = i
    BY <1>1
  <2>2. d \in Seq(Nat) /\ Len(d) = i - 1
    BY <1>2, <2>1
  <2>3. \A j \in 1 .. i - 1 : d[j] = j
    OBVIOUS
  <2> HIDE DEF d
  <2>4. /\ Append(d, i) \in Seq(Nat) /\ Len(Append(d, i)) = (i - 1) + 1
        /\ \A j \in 1 .. Len(d) : Append(d, i)[j] = d[j]
        /\ Append(d, i)[Len(d) + 1] = i
    BY <2>1, <2>2, AppendProperties
  <2>5. Append(d, i) \in [1 .. i -> Nat]
    BY <2>1, <2>4, LenProperties
  <2>6. \A j \in 1 .. i : Append(d, i)[j] = j
    BY <2>1, <2>2, <2>3, <2>4
  <2>7. Append(d, i) = [j \in 1 .. i |-> Append(d, i)[j]]
    BY <2>5
  <2>8. Append(d, i) = [j \in 1 .. i |-> j]
    BY <2>6, <2>7
  <2> QED
    BY <2>8 DEF Hash, d
<1>4. upTo(0) = Genesis
  BY <1>2, EmptySeq DEF Genesis
<1>5. rows = [i \in 1 .. n |->
                [entry_sequence |-> i, data |-> i, previous_hash |-> upTo(i - 1),
                 entry_hash |-> upTo(i)]]
  BY DEF ManifestOf
<1> HIDE DEF rows, upTo
<1>6. ASSUME NEW i \in 1 .. n
      PROVE  /\ rows[i] \in Entry
             /\ rows[i].entry_sequence = i /\ rows[i].data = i
             /\ rows[i].previous_hash = upTo(i - 1) /\ rows[i].entry_hash = upTo(i)
  <2>1. i \in Nat /\ i - 1 \in 0 .. n /\ i \in 0 .. n
    BY <1>1
  <2>2. upTo(i - 1) \in Digest /\ upTo(i) \in Digest
    BY <1>2, <2>1
  <2> QED
    BY <1>5, <2>1, <2>2 DEF Entry
<1>7. rows \in Seq(Entry) /\ Len(rows) = n
  <2>1. rows \in [1 .. n -> Entry]
    BY <1>5, <1>6
  <2>2. rows \in Seq(Entry)
    BY <1>1, <2>1, IsASeq
  <2> QED
    BY <1>1, <2>1, <2>2, LenProperties
<1>8. ASSUME NEW i \in 1 .. n
      PROVE  /\ rows[i].entry_sequence = i
             /\ rows[i].previous_hash = IF i = 1 THEN Genesis ELSE rows[i - 1].entry_hash
             /\ rows[i].entry_hash = Hash(rows[i].previous_hash, rows[i].data)
             /\ rows[i].data # 0
  <2>1. CASE i = 1
    <3>1. i - 1 = 0
      BY <2>1
    <3> QED
      BY <1>1, <1>3, <1>4, <1>6, <2>1, <3>1
  <2>2. CASE i # 1
    <3>1. i - 1 \in 1 .. n
      BY <1>1, <2>2
    <3>2. rows[i - 1].entry_hash = upTo(i - 1)
      BY <1>6, <3>1
    <3> QED
      BY <1>1, <1>3, <1>6, <2>2, <3>2
  <2> QED
    BY <2>1, <2>2
<1> QED
  BY <1>7, <1>8 DEF LinearUpTo, rows

LEMMA ChangeInit == Init => ChangeInv
<1> SUFFICES ASSUME Init
             PROVE  ChangeInv
  OBVIOUS
<1>1. manifest \in Seq(Entry) /\ LinearUpTo(manifest, Len(manifest))
  BY ManifestIsLinear DEF Init
<1>2. SoundThread(log)
  BY LogIsSound DEF Init
<1>3. edit.kind = "none"
  BY DEF Init, NoEdit
<1> QED
  BY <1>1, <1>2, <1>3 DEF ChangeInv, EntriesBroken, RecordsLocated

\* What the verifier finds at an entry depends on no later one.
LEMMA PrefixDecides ==
  ASSUME NEW rows, NEW more, NEW t \in Nat, \A i \in 1 .. t : more[i] = rows[i]
  PROVE  /\ LinearUpTo(rows, t) => LinearUpTo(more, t)
         /\ t >= 1 /\ LinearUpTo(rows, t - 1) => LinearUpTo(more, t - 1)
         /\ t >= 1 /\ HashMismatch(rows, t) => HashMismatch(more, t)
         /\ t >= 1 /\ LinkMismatch(rows, t) => LinkMismatch(more, t)
<1>1. ASSUME NEW n \in 0 .. t, LinearUpTo(rows, n)
      PROVE  LinearUpTo(more, n)
  <2>1. \A i \in 1 .. n : more[i] = rows[i] /\ (i # 1 => more[i - 1] = rows[i - 1])
    <3> TAKE i \in 1 .. n
    <3>1. i \in 1 .. t /\ (i # 1 => i - 1 \in 1 .. t)
      OBVIOUS
    <3> QED
      BY <3>1
  <2> QED
    BY <1>1, <2>1 DEF LinearUpTo
<1>2. t \in 0 .. t /\ (t >= 1 => t - 1 \in 0 .. t /\ t \in 1 .. t)
  OBVIOUS
<1>3. t > 1 => t - 1 \in 1 .. t
  OBVIOUS
<1> QED
  BY <1>1, <1>2, <1>3 DEF HashMismatch, LinkMismatch

LEMMA Changed ==
  ASSUME ChangeInv, edit = NoEdit
  PROVE  /\ manifest \in Seq(Entry) /\ LinearUpTo(manifest, Len(manifest))
         /\ Len(manifest) \in Nat /\ DOMAIN manifest = 1 .. Len(manifest)
         /\ \A i \in 1 .. Len(manifest) : manifest[i] \in Entry
         /\ SoundThread(log) /\ log \in Seq(Record)
         /\ Len(log) \in Nat /\ DOMAIN log = 1 .. Len(log)
         /\ \A i \in 1 .. Len(log) : log[i] \in Record
<1>1. manifest \in Seq(Entry) /\ LinearUpTo(manifest, Len(manifest)) /\ SoundThread(log)
  BY DEF ChangeInv
<1>2. log \in Seq(Record)
  BY <1>1 DEF SoundThread
<1> QED
  BY <1>1, <1>2, LenProperties, ElementOfSeq

\* An entry with another column than its writer gave it does not match its hash.
LEMMA EntryChanges ==
  ASSUME ChangeInv, edit = NoEdit, NEW i \in DOMAIN manifest, NEW entry \in Entry,
         manifest' = [manifest EXCEPT ![i] = entry],
         entry.entry_sequence = manifest[i].entry_sequence,
         Hash(entry.previous_hash, entry.data) # entry.entry_hash,
         edit'.kind \in {"entry_modified", "manifest_tamper"}, edit'.at = i,
         UNCHANGED log
  PROVE  ChangeInv'
<1>0. /\ manifest \in Seq(Entry) /\ LinearUpTo(manifest, Len(manifest))
      /\ Len(manifest) \in Nat /\ DOMAIN manifest = 1 .. Len(manifest)
  BY Changed
<1>1. /\ manifest' \in Seq(Entry) /\ Len(manifest') = Len(manifest)
      /\ manifest'[i] = entry /\ \A j \in 1 .. i - 1 : manifest'[j] = manifest[j]
  <2>1. manifest' \in Seq(Entry) /\ Len(manifest') = Len(manifest)
    BY <1>0, ExceptSeq
  <2> QED
    BY <1>0, <2>1
<1>2. LinearUpTo(manifest, i - 1) /\ manifest[i].entry_sequence = i
  BY <1>0 DEF LinearUpTo
<1>3. LinearUpTo(manifest', i - 1)
  <2>1. i - 1 \in Nat
    BY <1>0
  <2> QED
    BY <1>1, <1>2, <2>1, PrefixDecides
<1>4. HashMismatch(manifest', i)
  BY <1>1 DEF HashMismatch
<1>5. edit'.kind # "entry_deleted" /\ edit' # NoEdit
  BY DEF NoEdit
<1>6. EntriesBroken'
  BY <1>0, <1>1, <1>2, <1>3, <1>4, <1>5 DEF EntriesBroken
<1>7. RecordsLocated'
  <2>1. edit'.kind \notin {"log_gap", "record_modified", "hash_modified"}
    OBVIOUS
  <2> QED
    BY <2>1 DEF RecordsLocated
<1> QED
  BY <1>1, <1>5, <1>6, <1>7 DEF ChangeInv

LEMMA EntryStep ==
  ChangeInv /\ (InjectManifestTamper \/ ModifyEntry) => ChangeInv'
<1> SUFFICES ASSUME ChangeInv, InjectManifestTamper \/ ModifyEntry
             PROVE  ChangeInv'
  OBVIOUS
<1>0. edit = NoEdit /\ UNCHANGED log
  BY DEF InjectManifestTamper, ModifyEntry
<1>1. /\ LinearUpTo(manifest, Len(manifest)) /\ DOMAIN manifest = 1 .. Len(manifest)
      /\ \A i \in 1 .. Len(manifest) : manifest[i] \in Entry
  BY <1>0, Changed
<1>2. PICK i \in DOMAIN manifest :
        /\ \/ manifest' = [manifest EXCEPT ![i].entry_hash = TamperedHash(@)]
           \/ manifest' = [manifest EXCEPT ![i].data = 0]
           \/ manifest' = [manifest EXCEPT ![i].previous_hash = TamperedHash(@)]
        /\ edit'.kind \in {"entry_modified", "manifest_tamper"} /\ edit'.at = i
  BY DEF InjectManifestTamper, ModifyEntry
<1> DEFINE e == manifest[i]
<1>3. /\ e \in Entry /\ e.entry_hash = Hash(e.previous_hash, e.data) /\ e.data # 0
      /\ e.previous_hash \in Digest /\ e.entry_hash \in Digest /\ e.data \in Nat
  BY <1>1, <1>2 DEF LinearUpTo, Entry
<1>4. CASE manifest' = [manifest EXCEPT ![i].entry_hash = TamperedHash(@)]
  <2> DEFINE f == [e EXCEPT !.entry_hash = TamperedHash(e.entry_hash)]
  <2>1. TamperedHash(e.entry_hash) \in Digest /\ TamperedHash(e.entry_hash) # e.entry_hash
    BY <1>3, Extensions
  <2>2. /\ f \in Entry /\ f.entry_sequence = e.entry_sequence
        /\ f.previous_hash = e.previous_hash /\ f.data = e.data
        /\ f.entry_hash = TamperedHash(e.entry_hash)
    BY <1>3, <2>1 DEF Entry
  <2>3. manifest' = [manifest EXCEPT ![i] = f]
    BY <1>4
  <2>4. Hash(f.previous_hash, f.data) # f.entry_hash
    BY <1>3, <2>1, <2>2
  <2> HIDE DEF f
  <2> QED
    BY <1>0, <1>2, <2>2, <2>3, <2>4, EntryChanges
<1>5. CASE manifest' = [manifest EXCEPT ![i].data = 0]
  <2> DEFINE f == [e EXCEPT !.data = 0]
  <2>1. Hash(e.previous_hash, 0) # Hash(e.previous_hash, e.data)
    BY <1>3, Extensions
  <2>2. /\ f \in Entry /\ f.entry_sequence = e.entry_sequence
        /\ f.previous_hash = e.previous_hash /\ f.data = 0
        /\ f.entry_hash = e.entry_hash
    BY <1>3 DEF Entry
  <2>3. manifest' = [manifest EXCEPT ![i] = f]
    BY <1>5
  <2>4. Hash(f.previous_hash, f.data) # f.entry_hash
    BY <1>3, <2>1, <2>2
  <2> HIDE DEF f
  <2> QED
    BY <1>0, <1>2, <2>2, <2>3, <2>4, EntryChanges
<1>6. CASE manifest' = [manifest EXCEPT ![i].previous_hash = TamperedHash(@)]
  <2> DEFINE f == [e EXCEPT !.previous_hash = TamperedHash(e.previous_hash)]
  <2>1. /\ TamperedHash(e.previous_hash) \in Digest
        /\ Hash(TamperedHash(e.previous_hash), e.data) # Hash(e.previous_hash, e.data)
    BY <1>3, Extensions, LongerExtension
  <2>2. /\ f \in Entry /\ f.entry_sequence = e.entry_sequence
        /\ f.previous_hash = TamperedHash(e.previous_hash) /\ f.data = e.data
        /\ f.entry_hash = e.entry_hash
    BY <1>3, <2>1 DEF Entry
  <2>3. manifest' = [manifest EXCEPT ![i] = f]
    BY <1>6
  <2>4. Hash(f.previous_hash, f.data) # f.entry_hash
    BY <1>3, <2>1, <2>2
  <2> HIDE DEF f
  <2> QED
    BY <1>0, <1>2, <2>2, <2>3, <2>4, EntryChanges
<1> QED
  BY <1>2, <1>4, <1>5, <1>6

LEMMA DeleteStep == ChangeInv /\ DeleteEntry => ChangeInv'
<1> SUFFICES ASSUME ChangeInv, DeleteEntry
             PROVE  ChangeInv'
  OBVIOUS
<1>0. edit = NoEdit /\ UNCHANGED log
  BY DEF DeleteEntry
<1> DEFINE n == Len(manifest)
<1>1. /\ manifest \in Seq(Entry) /\ LinearUpTo(manifest, n) /\ n \in Nat
      /\ DOMAIN manifest = 1 .. n /\ \A i \in 1 .. n : manifest[i] \in Entry
  BY <1>0, Changed
<1>2. PICK i \in 1 .. n :
        /\ manifest' = WithoutRow(manifest, i)
        /\ edit' = [kind |-> "entry_deleted", at |-> i, was |-> n]
  BY <1>1 DEF DeleteEntry
<1>3. /\ DOMAIN manifest' = 1 .. n - 1 /\ manifest' \in Seq(Entry)
      /\ \A j \in 1 .. i - 1 : manifest'[j] = manifest[j]
      /\ \A j \in i .. n - 1 : manifest'[j] = manifest[j + 1]
  BY <1>1, <1>2, WithoutRowProperties
<1>4. edit'.kind = "entry_deleted" /\ edit'.at = i /\ edit'.was = n /\ edit' # NoEdit
  BY <1>2 DEF NoEdit
<1>5. ASSUME i \in 2 .. n - 1
      PROVE  /\ i \in 1 .. Len(manifest')
             /\ LinearUpTo(manifest', i - 1)
             /\ LinkMismatch(manifest', i)
             /\ manifest'[i].entry_sequence = i + 1
  <2>1. i \in 1 .. Len(manifest')
    <3>1. Len(manifest') \in Nat /\ DOMAIN manifest' = 1 .. Len(manifest')
      BY <1>3, LenProperties
    <3> QED
      BY <1>1, <1>3, <1>5, <3>1
  <2>2. LinearUpTo(manifest, i - 1)
    BY <1>1 DEF LinearUpTo
  <2>3. LinearUpTo(manifest', i - 1)
    <3>1. i - 1 \in Nat
      BY <1>1
    <3> QED
      BY <1>3, <2>2, <3>1, PrefixDecides
  <2>4. manifest'[i] = manifest[i + 1] /\ manifest'[i - 1] = manifest[i - 1]
    <3>1. i \in i .. n - 1 /\ i - 1 \in 1 .. i - 1
      BY <1>1, <1>5
    <3> QED
      BY <1>3, <3>1
  <2>5. i + 1 \in 1 .. n /\ i + 1 # 1 /\ (i + 1) - 1 = i /\ i # 1 /\ i > 1
    BY <1>1, <1>5
  <2>6. /\ manifest[i + 1].entry_sequence = i + 1
        /\ manifest[i + 1].previous_hash = manifest[i].entry_hash
        /\ manifest[i].previous_hash = manifest[i - 1].entry_hash
        /\ manifest[i].entry_hash = Hash(manifest[i].previous_hash, manifest[i].data)
    <3>1. /\ manifest[i + 1].entry_sequence = i + 1
          /\ manifest[i + 1].previous_hash
               = IF i + 1 = 1 THEN Genesis ELSE manifest[(i + 1) - 1].entry_hash
      BY <1>1, <2>5 DEF LinearUpTo
    <3>2. /\ manifest[i].previous_hash
               = IF i = 1 THEN Genesis ELSE manifest[i - 1].entry_hash
          /\ manifest[i].entry_hash = Hash(manifest[i].previous_hash, manifest[i].data)
      BY <1>1, <1>2 DEF LinearUpTo
    <3> QED
      BY <2>5, <3>1, <3>2
  <2>7. manifest[i].entry_hash # manifest[i].previous_hash
    <3>1. manifest[i].previous_hash \in Digest /\ manifest[i].data \in Nat
      BY <1>1, <1>2 DEF Entry
    <3> QED
      BY <2>6, <3>1, Extensions
  <2>8. LinkMismatch(manifest', i)
    BY <2>4, <2>5, <2>6, <2>7 DEF LinkMismatch
  <2> QED
    BY <2>1, <2>3, <2>4, <2>6, <2>8
<1>6. EntriesBroken'
  BY <1>4, <1>5 DEF EntriesBroken
<1>7. RecordsLocated'
  BY <1>4 DEF RecordsLocated
<1> QED
  BY <1>3, <1>4, <1>6, <1>7 DEF ChangeInv

\* An entry appended later changes nothing of what is found before it.
LEMMA AppendStep == ChangeInv /\ AppendEntry => ChangeInv'
<1> SUFFICES ASSUME ChangeInv, AppendEntry
             PROVE  ChangeInv'
  OBVIOUS
<1> DEFINE n == Len(manifest)
           last == manifest[n]
           data == MaxEntries + n
           entry == [entry_sequence |-> last.entry_sequence + 1, data |-> data,
                     previous_hash |-> last.entry_hash,
                     entry_hash |-> Hash(last.entry_hash, data)]
<1>1. manifest \in Seq(Entry) /\ EntriesBroken /\ RecordsLocated
  BY DEF ChangeInv
<1>2. /\ n \in 1 .. MaxEntries - 1 /\ manifest' = Append(manifest, entry)
      /\ UNCHANGED <<log, edit>>
  BY DEF AppendEntry
<1>3. n \in Nat /\ n >= 1 /\ data \in Nat /\ data # 0
  BY <1>1, <1>2, PayloadAssumption, LenProperties
<1>4. last \in Entry
  BY <1>1, <1>3, ElementOfSeq
<1>5. entry \in Entry
  <2>1. last.entry_sequence + 1 \in Nat /\ last.entry_hash \in Digest
    BY <1>4 DEF Entry
  <2>2. Hash(last.entry_hash, data) \in Digest
    BY <1>3, <2>1, Extensions
  <2> QED
    BY <1>3, <2>1, <2>2 DEF Entry
<1> HIDE DEF entry
<1>6. /\ manifest' \in Seq(Entry) /\ Len(manifest') = n + 1
      /\ \A i \in 1 .. n : manifest'[i] = manifest[i]
      /\ manifest'[n + 1] = entry
  BY <1>1, <1>2, <1>5, AppendProperties
<1>7. ASSUME edit = NoEdit
      PROVE  LinearUpTo(manifest', Len(manifest'))
  <2>1. LinearUpTo(manifest, n)
    BY <1>7 DEF ChangeInv
  <2>2. LinearUpTo(manifest', n)
    BY <1>3, <1>6, <2>1, PrefixDecides
  <2>3. last.entry_sequence = n
    BY <1>3, <2>1 DEF LinearUpTo
  <2>4. /\ manifest'[n + 1].entry_sequence = n + 1
        /\ manifest'[n + 1].previous_hash = manifest'[n].entry_hash
        /\ manifest'[n + 1].entry_hash
             = Hash(manifest'[n + 1].previous_hash, manifest'[n + 1].data)
        /\ manifest'[n + 1].data # 0
    BY <1>3, <1>6, <2>3 DEF entry
  <2>5. \A i \in 1 .. n + 1 : i \in 1 .. n \/ i = n + 1
    BY <1>3
  <2>6. n + 1 # 1 /\ (n + 1) - 1 = n
    BY <1>3
  <2> QED
    BY <1>6, <2>2, <2>4, <2>5, <2>6 DEF LinearUpTo
<1>8. EntriesBroken'
  <2>1. ASSUME NEW t \in 1 .. n
        PROVE  /\ t \in 1 .. Len(manifest')
               /\ LinearUpTo(manifest, t - 1) => LinearUpTo(manifest', t - 1)
               /\ HashMismatch(manifest, t) => HashMismatch(manifest', t)
               /\ LinkMismatch(manifest, t) => LinkMismatch(manifest', t)
               /\ manifest'[t].entry_sequence = manifest[t].entry_sequence
    <3>1. t \in Nat /\ t >= 1 /\ \A i \in 1 .. t : manifest'[i] = manifest[i]
      BY <1>3, <1>6
    <3>2. t \in 1 .. Len(manifest')
      BY <1>3, <1>6
    <3> QED
      BY <1>6, <3>1, <3>2, PrefixDecides
  <2> QED
    BY <1>1, <1>2, <2>1 DEF EntriesBroken
<1>9. RecordsLocated'
  BY <1>1, <1>2 DEF RecordsLocated
<1> QED
  BY <1>2, <1>6, <1>7, <1>8, <1>9 DEF ChangeInv

LEMMA GapStep == ChangeInv /\ InjectLogGap => ChangeInv'
<1> SUFFICES ASSUME ChangeInv, InjectLogGap
             PROVE  ChangeInv'
  OBVIOUS
<1>1. /\ edit = NoEdit /\ UNCHANGED manifest /\ Len(log) >= 3
      /\ log' = WithoutRow(log, LogGapTarget)
      /\ edit' = [kind |-> "log_gap", at |-> LogGapTarget, was |-> log[LogGapTarget]]
  BY DEF InjectLogGap
<1>2. SoundThread(log) /\ LogGapTarget \in DOMAIN log /\ manifest \in Seq(Entry)
  BY <1>1, Changed, MiddleExists
<1>3. edit'.kind = "log_gap" /\ edit'.was = log[LogGapTarget] /\ edit' # NoEdit
  BY <1>1 DEF NoEdit
<1>4. VerifyChain(ChainRows(log', edit'.was.chain_id)).broken
        = LaterRecords(log', edit'.was.id, edit'.was.chain_id)
  BY <1>1, <1>2, <1>3, GapLocated
<1>5. RecordsLocated'
  BY <1>3, <1>4 DEF RecordsLocated
<1>6. EntriesBroken'
  BY <1>3 DEF EntriesBroken
<1> QED
  BY <1>1, <1>2, <1>3, <1>5, <1>6 DEF ChangeInv

LEMMA RecordStep == ChangeInv /\ ModifyRecord => ChangeInv'
<1> SUFFICES ASSUME ChangeInv, ModifyRecord
             PROVE  ChangeInv'
  OBVIOUS
<1>0. edit = NoEdit /\ UNCHANGED manifest
  BY DEF ModifyRecord
<1>1. /\ SoundThread(log) /\ log \in Seq(Record) /\ DOMAIN log = 1 .. Len(log)
      /\ \A i \in 1 .. Len(log) : log[i] \in Record
      /\ manifest \in Seq(Entry)
  BY <1>0, Changed
<1>2. PICK i \in DOMAIN log :
        \/ /\ log' = [log EXCEPT ![i].data = 0]
           /\ edit' = [kind |-> "record_modified", at |-> i, was |-> << >>]
        \/ /\ log' = [log EXCEPT ![i].record_hash = TamperedHash(@)]
           /\ edit' = [kind |-> "hash_modified", at |-> i, was |-> << >>]
        \/ edit' = [kind |-> "link_modified", at |-> i, was |-> << >>]
  BY DEF ModifyRecord
<1>3. /\ edit'.kind \in {"record_modified", "hash_modified", "link_modified"}
      /\ edit'.at = i /\ edit' # NoEdit
  BY <1>2 DEF NoEdit
<1> DEFINE r == log[i]
<1>4. r \in Record /\ r.data # 0 /\ r.record_hash \in Digest
  BY <1>1, <1>2 DEF SoundThread, Record
<1>5. ASSUME NEW s \in Record, log' = [log EXCEPT ![i] = s],
             s.chain_id = r.chain_id, s.id = r.id,
             \/ s.data # r.data /\ s.record_hash = r.record_hash
             \/ s.data = r.data /\ s.record_hash # r.record_hash
      PROVE  LET changed == log'[i]
             IN  /\ Min(VerifyChain(ChainRows(log', changed.chain_id)).broken) = changed.id
                 /\ \A j \in DOMAIN log' : log'[j].chain_id # changed.chain_id =>
                      VerifyChain(ChainRows(log', log'[j].chain_id)).valid
  <2>1. /\ log' \in Seq(Record) /\ DOMAIN log' = DOMAIN log /\ log'[i] = s
        /\ \A j \in DOMAIN log : j # i => log'[j] = log[j]
    <3>1. log' \in Seq(Record)
      BY <1>1, <1>5, ExceptSeq
    <3> QED
      BY <1>2, <1>5, <3>1
  <2>2. \/ log'[i].data # r.data /\ log'[i].record_hash = r.record_hash
        \/ log'[i].data = r.data /\ log'[i].record_hash # r.record_hash
    BY <1>5, <2>1
  <2>3. log'[i].chain_id = log[i].chain_id /\ log'[i].id = log[i].id
    BY <1>5, <2>1
  <2>4. PICK new \in Seq(Record) : new = log'
    BY <2>1
  <2>5. /\ DOMAIN new = DOMAIN log /\ i \in DOMAIN log
        /\ \A j \in DOMAIN log : j # i => new[j] = log[j]
        /\ new[i].chain_id = log[i].chain_id /\ new[i].id = log[i].id
        /\ \/ new[i].data # log[i].data /\ new[i].record_hash = log[i].record_hash
           \/ new[i].data = log[i].data /\ new[i].record_hash # log[i].record_hash
    BY <1>2, <2>1, <2>2, <2>3, <2>4
  <2>6. /\ Min(VerifyChain(ChainRows(new, new[i].chain_id)).broken) = new[i].id
        /\ \A c : c # new[i].chain_id => VerifyChain(ChainRows(new, c)).valid
    BY <1>1, <2>5, ChangeLocated
  <2> QED
    BY <2>4, <2>6
<1>6. CASE /\ log' = [log EXCEPT ![i].data = 0]
           /\ edit' = [kind |-> "record_modified", at |-> i, was |-> << >>]
  <2> DEFINE s == [r EXCEPT !.data = 0]
  <2>1. /\ s \in Record /\ s.chain_id = r.chain_id /\ s.id = r.id /\ s.data = 0
        /\ s.record_hash = r.record_hash
    BY <1>4 DEF Record
  <2>2. log' = [log EXCEPT ![i] = s]
    BY <1>6
  <2> HIDE DEF s
  <2>3. RecordsLocated'
    BY <1>3, <1>4, <1>5, <1>6, <2>1, <2>2 DEF RecordsLocated
  <2> QED
    BY <1>0, <1>1, <1>3, <2>3 DEF ChangeInv, EntriesBroken
<1>7. CASE /\ log' = [log EXCEPT ![i].record_hash = TamperedHash(@)]
           /\ edit' = [kind |-> "hash_modified", at |-> i, was |-> << >>]
  <2> DEFINE s == [r EXCEPT !.record_hash = TamperedHash(r.record_hash)]
  <2>0. TamperedHash(r.record_hash) \in Digest /\ TamperedHash(r.record_hash) # r.record_hash
    BY <1>4, Extensions
  <2>1. /\ s \in Record /\ s.chain_id = r.chain_id /\ s.id = r.id /\ s.data = r.data
        /\ s.record_hash # r.record_hash
    BY <1>4, <2>0 DEF Record
  <2>2. log' = [log EXCEPT ![i] = s]
    BY <1>7
  <2> HIDE DEF s
  <2>3. RecordsLocated'
    BY <1>3, <1>5, <1>7, <2>1, <2>2 DEF RecordsLocated
  <2> QED
    BY <1>0, <1>1, <1>3, <2>3 DEF ChangeInv, EntriesBroken
<1>8. CASE edit' = [kind |-> "link_modified", at |-> i, was |-> << >>]
  <2>1. edit'.kind = "link_modified"
    BY <1>8
  <2>2. RecordsLocated' /\ EntriesBroken'
    BY <2>1 DEF RecordsLocated, EntriesBroken
  <2> QED
    BY <1>0, <1>1, <1>3, <2>2 DEF ChangeInv
<1> QED
  BY <1>2, <1>6, <1>7, <1>8

\* Every step keeps the invariant.
LEMMA ChangeStep == ChangeInv /\ [Next]_vars => ChangeInv'
<1> SUFFICES ASSUME ChangeInv, [Next]_vars
             PROVE  ChangeInv'
  OBVIOUS
<1>1. CASE UNCHANGED vars
  BY <1>1 DEF ChangeInv, EntriesBroken, RecordsLocated, vars
<1> QED
  BY <1>1, EntryStep, DeleteStep, AppendStep, GapStep, RecordStep DEF Next

\* Of a manifest of any length and a log of any two turns, the verifiers locate every
\* change that is made, and still do after an ingestion has appended to the manifest.
THEOREM LocatesChanges == Spec => []ChangesLocated
BY ChangeInit, ChangeStep, ChangeInvLocates, PTL DEF Spec

----------------------------------------------------------------------------

(***************************************************************************)
(* Names and their order.                                                  *)
(***************************************************************************)

\* The nodes of the graph are those of the auditor's model.
LEMMA NodeNames ==
  /\ Nodes = {"IntentRouter", "UnsafeMethodGate", "DeterministicRuleChecker",
              "SymptomAnalyzer", "DirectReplacementAnalyzer", "KnowledgeRetriever",
              "RootCauseAnalyzer", "SafetyExtractor", "RepairPlanner", "SafetyJudgeGate",
              "FollowUpResponder", "InlineEvaluator"}
  /\ DOMAIN Allowed = Nodes \cup {"__START__"}
  /\ "__START__" \notin Nodes
BY DEF Nodes, Allowed

\* The seven nodes that with_node_timeout wraps, and the names they then log.
LEMMA TimedNodes ==
  DOMAIN FunctionName = {"IntentRouter", "UnsafeMethodGate", "KnowledgeRetriever",
                         "RootCauseAnalyzer", "RepairPlanner", "FollowUpResponder",
                         "InlineEvaluator"}
BY DEF FunctionName

FunctionNames ==
  {"intent_router", "unsafe_method_gate", "knowledge_retriever", "root_cause_analyzer",
   "repair_planner", "followup_responder", "inline_evaluator"}

LEMMA FunctionNamesAre ==
  /\ FunctionName["IntentRouter"] = "intent_router"
  /\ FunctionName["UnsafeMethodGate"] = "unsafe_method_gate"
  /\ FunctionName["KnowledgeRetriever"] = "knowledge_retriever"
  /\ FunctionName["RootCauseAnalyzer"] = "root_cause_analyzer"
  /\ FunctionName["RepairPlanner"] = "repair_planner"
  /\ FunctionName["FollowUpResponder"] = "followup_responder"
  /\ FunctionName["InlineEvaluator"] = "inline_evaluator"
BY DEF FunctionName

\* _ALLOWED_TRANSITIONS, transition by transition.
LEMMA PermittedSteps ==
  ASSUME NEW a, NEW b
  PROVE  Permitted(<<a, b>>) <=>
           \/ a = "__START__" /\ b = "IntentRouter"
           \/ a = "IntentRouter"
                /\ b \in {"UnsafeMethodGate", "DeterministicRuleChecker", "FollowUpResponder"}
           \/ a = "UnsafeMethodGate" /\ b \in {"DeterministicRuleChecker", "FollowUpResponder"}
           \/ a = "DeterministicRuleChecker"
                /\ b \in {"SymptomAnalyzer", "DirectReplacementAnalyzer", "__END__"}
           \/ a \in {"SymptomAnalyzer", "DirectReplacementAnalyzer"} /\ b = "KnowledgeRetriever"
           \/ a = "KnowledgeRetriever" /\ b \in {"RootCauseAnalyzer", "SafetyExtractor"}
           \/ a = "RootCauseAnalyzer" /\ b \in {"SafetyExtractor", "__END__"}
           \/ a = "SafetyExtractor" /\ b = "RepairPlanner"
           \/ a = "RepairPlanner" /\ b = "SafetyJudgeGate"
           \/ a = "SafetyJudgeGate" /\ b \in {"InlineEvaluator", "RepairPlanner", "__END__"}
           \/ a = "FollowUpResponder" /\ b = "InlineEvaluator"
           \/ a = "InlineEvaluator" /\ b = "__END__"
BY DEF Permitted, Allowed

\* Along every walk the level rises.  A function's name comes after its node's.
Level(n) ==
  CASE n = "__START__"                 -> 0
    [] n = "IntentRouter"              -> 2
    [] n = "intent_router"             -> 3
    [] n = "UnsafeMethodGate"          -> 4
    [] n = "unsafe_method_gate"        -> 5
    [] n = "DeterministicRuleChecker"  -> 6
    [] n = "SymptomAnalyzer"           -> 8
    [] n = "DirectReplacementAnalyzer" -> 10
    [] n = "KnowledgeRetriever"        -> 12
    [] n = "knowledge_retriever"       -> 13
    [] n = "RootCauseAnalyzer"         -> 14
    [] n = "root_cause_analyzer"       -> 15
    [] n = "SafetyExtractor"           -> 16
    [] n = "RepairPlanner"             -> 18
    [] n = "repair_planner"            -> 19
    [] n = "SafetyJudgeGate"           -> 20
    [] n = "FollowUpResponder"         -> 22
    [] n = "followup_responder"        -> 23
    [] n = "InlineEvaluator"           -> 24
    [] n = "inline_evaluator"          -> 25
    [] OTHER                           -> 26

\* The level of each name.
LEMMA Levels ==
  /\ Level("__START__") = 0
  /\ Level("IntentRouter") = 2 /\ Level("intent_router") = 3
  /\ Level("UnsafeMethodGate") = 4 /\ Level("unsafe_method_gate") = 5
  /\ Level("DeterministicRuleChecker") = 6
  /\ Level("SymptomAnalyzer") = 8 /\ Level("DirectReplacementAnalyzer") = 10
  /\ Level("KnowledgeRetriever") = 12 /\ Level("knowledge_retriever") = 13
  /\ Level("RootCauseAnalyzer") = 14 /\ Level("root_cause_analyzer") = 15
  /\ Level("SafetyExtractor") = 16
  /\ Level("RepairPlanner") = 18 /\ Level("repair_planner") = 19
  /\ Level("SafetyJudgeGate") = 20
  /\ Level("FollowUpResponder") = 22 /\ Level("followup_responder") = 23
  /\ Level("InlineEvaluator") = 24 /\ Level("inline_evaluator") = 25
  /\ Level("__END__") = 26
BY DEF Level

Name == Nodes \cup FunctionNames

\* A level belongs to one name.
LEMMA LevelsDiffer ==
  /\ \A n : Level(n) \in Nat /\ Level(n) <= 26
  /\ \A n \in Name : 0 < Level(n) /\ Level(n) < 26
  /\ \A n, m \in Name \cup {"__START__", "__END__"} : Level(n) = Level(m) => n = m
  /\ "__START__" \notin Name /\ "__END__" \notin Name
<1>1. \A n : Level(n) \in Nat /\ Level(n) <= 26
  BY DEF Level
<1>2. \A n \in Name : 0 < Level(n) /\ Level(n) < 26
  BY Levels, NodeNames DEF Name, FunctionNames
<1>3. \A n, m \in Name \cup {"__START__", "__END__"} : Level(n) = Level(m) => n = m
  <2>1. \A n, m \in Name : Level(n) = Level(m) => n = m
    BY Levels, NodeNames DEF Name, FunctionNames
  <2> QED
    BY <1>2, <2>1, Levels
<1>4. "__START__" \notin Name /\ "__END__" \notin Name
  BY NodeNames DEF Name, FunctionNames
<1> QED
  BY <1>1, <1>2, <1>3, <1>4

\* Names in the order of their levels, with the ends, and what follows what.
Ladder(names) ==
  {s \in (names \cup {"__START__"}) \X (names \cup {"__END__"}) :
     /\ Level(s[1]) < Level(s[2])
     /\ \A n \in names : ~ (Level(s[1]) < Level(n) /\ Level(n) < Level(s[2]))}

\* Every rung has one above it.
LEMMA NextRung ==
  ASSUME NEW names \in SUBSET Name, NEW a \in names \cup {"__START__"}
  PROVE  \E b \in names \cup {"__END__"} : <<a, b>> \in Ladder(names)
<1> DEFINE above == {n \in names \cup {"__END__"} : Level(a) < Level(n)}
           levels == {Level(n) : n \in above}
<1>1. Level(a) < 26 /\ \A n : Level(n) \in Nat
  BY LevelsDiffer, Levels
<1>2. "__END__" \in above
  BY <1>1, Levels
<1>3. levels \in (SUBSET Nat) \ {{}}
  BY <1>1, <1>2
<1>4. PICK l \in levels : \A m \in levels : l <= m
  <2>1. levels \subseteq 0 .. 26
    BY LevelsDiffer
  <2> DEFINE top == 26
  <2>2. IsFiniteSet(0 .. top)
    <3>1. top \in Int
      OBVIOUS
    <3> HIDE DEF top
    <3> QED
      BY <3>1, FS_Interval
  <2> HIDE DEF levels
  <2>3. IsFiniteSet(levels)
    BY <2>1, <2>2, FS_Subset
  <2> QED
    BY <1>3, <2>3, Extremes
<1>5. PICK b \in above : l = Level(b)
  BY <1>4
<1>6. \A n \in names : Level(a) < Level(n) => Level(b) <= Level(n)
  BY <1>4, <1>5
<1>7. \A n \in names : ~ (Level(a) < Level(n) /\ Level(n) < Level(b))
  BY <1>1, <1>6
<1> QED
  BY <1>5, <1>7 DEF Ladder

(***************************************************************************)
(* Rows whose names rise are replayed by their names alone.                *)
(***************************************************************************)

Rising(rows) ==
  \A i, j \in rows : i < j => Level(records[i].base) <= Level(records[j].base)

\* Along rows in rising levels, between the ends of a trace, positions and levels
\* agree.
LEMMA SpotsInOrder ==
  ASSUME NEW n \in Nat, DOMAIN records = 1 .. n, Len(records) = n,
         NEW rows \in SUBSET (1 .. n), \A i \in rows : records[i].base \in Name,
         Rising(rows)
  PROVE  LET spots == rows \cup {0, n + 1}
         IN  /\ \A i \in rows : NameAt(i) = records[i].base
             /\ NameAt(0) = "__START__" /\ NameAt(n + 1) = "__END__"
             /\ \A i \in spots : Level(NameAt(i)) \in Nat
             /\ \A i, j \in spots : i < j => Level(NameAt(i)) <= Level(NameAt(j))
             /\ \A i, j \in spots :
                  Level(NameAt(i)) = Level(NameAt(j)) => NameAt(i) = NameAt(j)
<1> DEFINE spots == rows \cup {0, n + 1}
<1>1. /\ \A i \in rows : NameAt(i) = records[i].base
      /\ NameAt(0) = "__START__" /\ NameAt(n + 1) = "__END__"
  BY DEF NameAt
<1>2. ASSUME NEW i \in spots
      PROVE  \/ i \in rows /\ NameAt(i) \in Name
             \/ i = 0 /\ NameAt(i) = "__START__"
             \/ i = n + 1 /\ NameAt(i) = "__END__"
  <2>1. CASE i \in rows
    BY <1>1, <2>1
  <2>2. CASE i = 0
    BY <1>1, <2>2
  <2>3. CASE i = n + 1
    BY <1>1, <2>3
  <2> QED
    BY <2>1, <2>2, <2>3
<1>3. \A i \in spots : Level(NameAt(i)) \in Nat /\ Level(NameAt(i)) <= 26
  BY LevelsDiffer
<1>4. ASSUME NEW i \in spots, NEW j \in spots, i < j
      PROVE  Level(NameAt(i)) <= Level(NameAt(j))
  <2>1. CASE i \in rows /\ j \in rows
    BY <1>1, <1>4, <2>1 DEF Rising
  <2>2. CASE i = 0
    <3>1. Level(NameAt(i)) = 0
      BY <1>1, <2>2, Levels
    <3> QED
      BY <1>3, <3>1
  <2>3. CASE j = n + 1
    <3>1. Level(NameAt(j)) = 26
      BY <1>1, <2>3, Levels
    <3> QED
      BY <1>3, <3>1
  <2>4. i = 0 \/ i \in rows \/ i = n + 1
    OBVIOUS
  <2>5. j = 0 \/ j \in rows \/ j = n + 1
    OBVIOUS
  <2>6. \A k \in rows : 1 <= k /\ k <= n
    OBVIOUS
  <2>7. i # n + 1 /\ j # 0
    BY <1>4, <2>4, <2>5, <2>6
  <2> QED
    BY <2>1, <2>2, <2>3, <2>4, <2>5, <2>7
<1>5. ASSUME NEW i \in spots, NEW j \in spots, Level(NameAt(i)) = Level(NameAt(j))
      PROVE  NameAt(i) = NameAt(j)
  <2>1. /\ NameAt(i) \in Name \cup {"__START__", "__END__"}
        /\ NameAt(j) \in Name \cup {"__START__", "__END__"}
    BY <1>2
  <2> QED
    BY <1>5, <2>1, LevelsDiffer
<1> HIDE DEF spots
<1> QED
  BY <1>1, <1>3, <1>4, <1>5 DEF spots

\* Between the names of a transition there is none of the rows' names...
LEMMA HopIsRung ==
  ASSUME NEW n \in Nat, DOMAIN records = 1 .. n, Len(records) = n,
         NEW rows \in SUBSET (1 .. n), \A i \in rows : records[i].base \in Name,
         Rising(rows), NEW p \in Hops(rows)
  PROVE  Step(p) \in Ladder(NamesOf(rows))
<1> DEFINE spots == rows \cup {0, n + 1}
           L(i) == Level(NameAt(i))
<1>1. /\ \A i \in spots : L(i) \in Nat
      /\ \A i, j \in spots : i < j => L(i) <= L(j)
      /\ \A i, j \in spots : L(i) = L(j) => NameAt(i) = NameAt(j)
      /\ NameAt(0) = "__START__" /\ NameAt(n + 1) = "__END__"
  BY SpotsInOrder
<1>2. /\ p[1] \in rows \cup {0} /\ p[2] \in rows \cup {n + 1}
      /\ p[1] < p[2] /\ NameAt(p[1]) # NameAt(p[2])
      /\ \A i \in rows : ~ (p[1] < i /\ i < p[2])
  BY DEF Hops
<1>3. L(p[1]) < L(p[2])
  <2>1. L(p[1]) <= L(p[2]) /\ L(p[1]) # L(p[2]) /\ L(p[1]) \in Nat /\ L(p[2]) \in Nat
    BY <1>1, <1>2
  <2> HIDE DEF L
  <2> QED
    BY <2>1
<1>4. ASSUME NEW i \in rows
      PROVE  ~ (L(p[1]) < L(i) /\ L(i) < L(p[2]))
  <2>1. L(i) \in Nat /\ L(p[1]) \in Nat /\ L(p[2]) \in Nat
    BY <1>1, <1>2
  <2>2. /\ i \in spots /\ p[1] \in spots /\ p[2] \in spots
        /\ i \in Nat /\ p[1] \in Nat /\ p[2] \in Nat
    <3>1. \A k \in rows : k \in Nat
      OBVIOUS
    <3>2. 0 \in Nat /\ n + 1 \in Nat
      OBVIOUS
    <3>3. i \in Nat /\ p[1] \in Nat /\ p[2] \in Nat
      BY <1>2, <3>1, <3>2
    <3> QED
      BY <1>2, <3>3
  <2>3. i = p[1] \/ i < p[1] \/ p[2] = i \/ p[2] < i
    BY <1>2, <2>2
  <2>4. L(i) <= L(p[1]) \/ L(p[2]) <= L(i)
    <3> HIDE DEF spots
    <3> QED
      BY <1>1, <2>1, <2>2, <2>3
  <2> HIDE DEF L
  <2> QED
    BY <2>1, <2>4
<1>5. /\ NameAt(p[1]) \in NamesOf(rows) \cup {"__START__"}
      /\ NameAt(p[2]) \in NamesOf(rows) \cup {"__END__"}
  BY <1>1, <1>2 DEF NamesOf
<1> QED
  BY <1>3, <1>4, <1>5 DEF Ladder, Step, NamesOf

\* ... and two names with none between them are those of a transition.
LEMMA RungIsHop ==
  ASSUME NEW n \in Nat, DOMAIN records = 1 .. n, Len(records) = n,
         NEW rows \in SUBSET (1 .. n), \A i \in rows : records[i].base \in Name,
         Rising(rows), NEW s \in Ladder(NamesOf(rows))
  PROVE  \E p \in Hops(rows) : Step(p) = s
<1> DEFINE spots == rows \cup {0, n + 1}
           L(i) == Level(NameAt(i))
           low  == {i \in rows \cup {0} : L(i) <= Level(s[1])}
           high == {i \in rows \cup {n + 1} : Level(s[2]) <= L(i)}
<1>1. /\ \A i \in spots : L(i) \in Nat
      /\ \A i, j \in spots : i < j => L(i) <= L(j)
      /\ \A i, j \in spots : L(i) = L(j) => NameAt(i) = NameAt(j)
      /\ NameAt(0) = "__START__" /\ NameAt(n + 1) = "__END__"
  BY SpotsInOrder
<1>2. /\ s[1] \in NamesOf(rows) \cup {"__START__"}
      /\ s[2] \in NamesOf(rows) \cup {"__END__"}
      /\ s = <<s[1], s[2]>>
      /\ Level(s[1]) < Level(s[2])
      /\ \A m \in NamesOf(rows) : ~ (Level(s[1]) < Level(m) /\ Level(m) < Level(s[2]))
  BY DEF Ladder
<1>3. PICK a \in rows \cup {0} : NameAt(a) = s[1]
  BY <1>1, <1>2 DEF NamesOf
<1>4. PICK b \in rows \cup {n + 1} : NameAt(b) = s[2]
  BY <1>1, <1>2 DEF NamesOf
<1>5. Level(s[1]) \in Nat /\ Level(s[2]) \in Nat
  BY <1>1, <1>3, <1>4
<1>6. /\ low \subseteq 0 .. n + 1 /\ high \subseteq 0 .. n + 1
      /\ low \in SUBSET Nat /\ high \in SUBSET Nat
      /\ a \in low /\ b \in high
  <2>1. Level(s[1]) <= Level(s[1]) /\ Level(s[2]) <= Level(s[2])
    BY <1>5
  <2>2. a \in low /\ b \in high
    BY <1>3, <1>4, <2>1
  <2>3. rows \subseteq 0 .. n + 1 /\ 0 \in 0 .. n + 1 /\ n + 1 \in 0 .. n + 1
    OBVIOUS
  <2>4. low \subseteq 0 .. n + 1 /\ high \subseteq 0 .. n + 1
    BY <2>3
  <2>5. 0 .. n + 1 \subseteq Nat
    OBVIOUS
  <2> HIDE DEF low, high
  <2> QED
    BY <2>2, <2>4, <2>5
<1>7. \A i \in rows : i \in low \/ i \in high
  <2> TAKE i \in rows
  <2>1. L(i) \in Nat /\ ~ (Level(s[1]) < L(i) /\ L(i) < Level(s[2]))
    BY <1>1, <1>2 DEF NamesOf
  <2> QED
    BY <1>5, <2>1
<1>8. \A i \in low, j \in high : i < j
  <2> TAKE i \in low, j \in high
  <2>1. i \in spots /\ j \in spots /\ i \in Nat /\ j \in Nat
    OBVIOUS
  <2>2. L(i) <= Level(s[1]) /\ Level(s[2]) <= L(j) /\ L(i) \in Nat /\ L(j) \in Nat
    BY <1>1, <2>1
  <2>3. L(i) < L(j)
    BY <1>2, <1>5, <2>2
  <2>4. ~ (j < i)
    BY <1>1, <2>1, <2>2, <2>3
  <2>5. i # j
    BY <2>2, <2>3
  <2> QED
    BY <2>1, <2>4, <2>5
<1>9. \A i \in spots : L(i) \in Nat /\ i \in Nat
  BY <1>1
<1> HIDE DEF low, high, spots
<1>10. IsFiniteSet(low) /\ IsFiniteSet(high)
  <2>1. n + 1 \in Int
    OBVIOUS
  <2>2. IsFiniteSet(0 .. n + 1)
    BY <2>1, FS_Interval
  <2> QED
    BY <1>6, <2>2, FS_Subset
<1>11. PICK i \in low : \A k \in low : k <= i
  BY <1>6, <1>10, Extremes
<1>12. PICK j \in high : \A k \in high : j <= k
  BY <1>6, <1>10, Extremes
<1>13. i \in rows \cup {0} /\ j \in rows \cup {n + 1} /\ i < j
  BY <1>8 DEF low, high
<1>14. ~ \E k \in rows : i < k /\ k < j
  <2> SUFFICES ASSUME NEW k \in rows, i < k, k < j PROVE FALSE
    OBVIOUS
  <2>1. k \in Nat /\ i \in Nat /\ j \in Nat
    BY <1>6
  <2>2. k <= i \/ j <= k
    BY <1>7, <1>11, <1>12
  <2> QED
    BY <2>1, <2>2
<1>15. NameAt(i) = s[1]
  <2>1. a <= i /\ a \in spots /\ i \in spots /\ L(i) <= L(a)
    BY <1>3, <1>6, <1>11 DEF low, spots
  <2>2. L(a) <= L(i) /\ L(a) \in Nat /\ L(i) \in Nat
    BY <1>1, <1>9, <2>1
  <2>3. L(a) = L(i)
    BY <2>1, <2>2
  <2> QED
    BY <1>1, <1>3, <2>1, <2>3
<1>16. NameAt(j) = s[2]
  <2>1. j <= b /\ b \in spots /\ j \in spots /\ L(b) <= L(j)
    BY <1>4, <1>6, <1>12 DEF high, spots
  <2>2. L(j) <= L(b) /\ L(b) \in Nat /\ L(j) \in Nat
    BY <1>1, <1>9, <2>1
  <2>3. L(b) = L(j)
    BY <2>1, <2>2
  <2> QED
    BY <1>1, <1>4, <2>1, <2>3
<1>17. s[1] # s[2]
  BY <1>2, <1>5
<1>18. <<i, j>> \in Hops(rows)
  BY <1>13, <1>14, <1>15, <1>16, <1>17 DEF Hops
<1>19. Step(<<i, j>>) = s
  BY <1>2, <1>15, <1>16 DEF Step
<1> QED
  BY <1>18, <1>19

\* What the readers replay is decided by the set of names they found.
LEMMA LadderOfRows ==
  ASSUME NEW n \in Nat, DOMAIN records = 1 .. n, Len(records) = n,
         NEW rows \in SUBSET (1 .. n), \A i \in rows : records[i].base \in Name,
         Rising(rows)
  PROVE  {Step(p) : p \in Hops(rows)} = Ladder(NamesOf(rows))
<1>1. \A p \in Hops(rows) : Step(p) \in Ladder(NamesOf(rows))
  BY HopIsRung
<1>2. \A s \in Ladder(NamesOf(rows)) : \E p \in Hops(rows) : Step(p) = s
  BY RungIsHop
<1> QED
  BY <1>1, <1>2

(***************************************************************************)
(* A walk that climbs is told by the names it passes, too.                 *)
(***************************************************************************)

Walked(t) == {walk[t][k] : k \in DOMAIN walk[t]}

Climbs(w) == \A i, j \in DOMAIN w : i < j => Level(w[i]) < Level(w[j])

Spot(w, i) ==
  IF i = 0 THEN "__START__" ELSE IF i = Len(w) + 1 THEN "__END__" ELSE w[i]

\* A walk that climbs does so from __START__ to __END__.
LEMMA SpotsClimb ==
  ASSUME NEW w \in Seq(Nodes), Climbs(w)
  PROVE  /\ \A i \in 1 .. Len(w) : Spot(w, i) = w[i] /\ w[i] \in Nodes
         /\ Spot(w, 0) = "__START__" /\ Spot(w, Len(w) + 1) = "__END__"
         /\ \A i, j \in 0 .. Len(w) + 1 :
              i < j => Level(Spot(w, i)) < Level(Spot(w, j))
<1>1. Len(w) \in Nat /\ DOMAIN w = 1 .. Len(w)
  BY LenProperties
<1>2. \A i \in 1 .. Len(w) : Spot(w, i) = w[i] /\ w[i] \in Nodes
  BY <1>1, ElementOfSeq DEF Spot
<1>3. Spot(w, 0) = "__START__" /\ Spot(w, Len(w) + 1) = "__END__"
  BY <1>1 DEF Spot
<1>4. ASSUME NEW i \in 0 .. Len(w) + 1, NEW j \in 0 .. Len(w) + 1, i < j
      PROVE  Level(Spot(w, i)) < Level(Spot(w, j))
  <2>1. \A k \in 1 .. Len(w) : 0 < Level(Spot(w, k)) /\ Level(Spot(w, k)) < 26
    BY <1>2, LevelsDiffer DEF Name
  <2>2. i \in 1 .. Len(w) \/ i = 0
    BY <1>1, <1>4
  <2>3. j \in 1 .. Len(w) \/ j = Len(w) + 1
    BY <1>1, <1>4
  <2>4. CASE i \in 1 .. Len(w) /\ j \in 1 .. Len(w)
    BY <1>1, <1>2, <1>4, <2>4 DEF Climbs
  <2>5. CASE i = 0 /\ j \in 1 .. Len(w)
    <3>1. Level(Spot(w, i)) = 0
      BY <1>3, <2>5, Levels
    <3> QED
      BY <2>1, <2>5, <3>1
  <2>6. CASE i \in 1 .. Len(w) /\ j = Len(w) + 1
    <3>1. Level(Spot(w, j)) = 26
      BY <1>3, <2>6, Levels
    <3> QED
      BY <2>1, <2>6, <3>1
  <2>7. CASE i = 0 /\ j = Len(w) + 1
    BY <1>3, <2>7, Levels
  <2> QED
    BY <2>2, <2>3, <2>4, <2>5, <2>6, <2>7
<1> QED
  BY <1>2, <1>3, <1>4

\* The transitions a turn took, by their places in the walk.
LEMMA TookSpots ==
  ASSUME NEW t, walk[t] \in Seq(Nodes)
  PROVE  LET w == walk[t]
             last == IF Cut(t) THEN Len(w) - 1 ELSE Len(w)
         IN  Took(t) = {<<Spot(w, i), Spot(w, i + 1)>> : i \in 0 .. last}
<1> DEFINE w == walk[t]
           m == Len(w)
           last == IF Cut(t) THEN m - 1 ELSE m
           end == IF Cut(t) THEN << >> ELSE <<"__END__">>
           path == <<"__START__">> \o w \o end
<1>1. m \in Nat /\ DOMAIN w = 1 .. m
  BY LenProperties
<1>2. \/ end = << >> /\ last = m - 1
      \/ end = <<"__END__">> /\ last = m
  OBVIOUS
<1> HIDE DEF m
<1>3. Len(path) = last + 2 /\ \A i \in 1 .. last + 2 : path[i] = Spot(w, i - 1)
  <2> DEFINE start == <<"__START__">>
             Place == Nodes \cup {"__START__", "__END__"}
  <2>1. start \in Seq(Place) /\ w \in Seq(Place) /\ end \in Seq(Place)
    <3>1. w \in Seq(Place)
      <4>1. w \in Seq(Nodes) /\ Nodes \subseteq Place
        OBVIOUS
      <4> HIDE DEF w, Place
      <4> QED
        BY <4>1, SeqMonotonic
    <3>2. start \in Seq(Place)
      OBVIOUS
    <3>3. <<"__END__">> \in Seq(Place) /\ << >> \in Seq(Place)
      OBVIOUS
    <3> QED
      BY <1>2, <3>1, <3>2, <3>3
  <2>2. /\ Len(start) = 1 /\ start[1] = "__START__"
        /\ Len(end) = last + 1 - m
        /\ last = m => end[1] = "__END__"
        /\ last \in {m - 1, m} /\ Len(w) = m
    <3>1. CASE end = << >> /\ last = m - 1
      <4> HIDE DEF end, last, w
      <4>1. Len(end) = 0 /\ last + 1 - m = 0 /\ last # m
        BY <1>1, <3>1
      <4> QED
        BY <3>1, <4>1 DEF m
    <3>2. CASE end = <<"__END__">> /\ last = m
      <4> HIDE DEF end, last, w
      <4>1. Len(end) = 1 /\ last + 1 - m = 1 /\ end[1] = "__END__"
        BY <1>1, <3>2
      <4> QED
        BY <3>2, <4>1 DEF m
    <3> QED
      BY <1>2, <3>1, <3>2
  <2> HIDE DEF start, end, last
  <2>3. /\ start \o w \in Seq(Place) /\ Len(start \o w) = 1 + m
        /\ \A i \in 1 .. 1 + m : (start \o w)[i] = IF i <= 1 THEN start[i] ELSE w[i - 1]
    BY <1>1, <2>1, <2>2, ConcatProperties
  <2>4. /\ Len((start \o w) \o end) = last + 2
        /\ \A i \in 1 .. last + 2 :
             ((start \o w) \o end)[i] =
               IF i <= 1 + m THEN (start \o w)[i] ELSE end[i - (1 + m)]
    BY <1>1, <2>1, <2>2, <2>3, ConcatProperties
  <2>5. ASSUME NEW i \in 1 .. last + 2
        PROVE  ((start \o w) \o end)[i] = Spot(w, i - 1)
    <3>1. CASE i = 1
      BY <1>1, <2>2, <2>3, <2>4, <3>1 DEF Spot
    <3>2. CASE i # 1 /\ i <= 1 + m
      <4>1. ((start \o w) \o end)[i] = w[i - 1]
        BY <1>1, <2>2, <2>3, <2>4, <3>2
      <4>2. i - 1 # 0 /\ i - 1 # Len(w) + 1
        BY <1>1, <2>2, <3>2
      <4> QED
        BY <4>1, <4>2 DEF Spot
    <3>3. CASE ~ (i <= 1 + m)
      <4>1. i = m + 2 /\ last = m
        BY <1>1, <2>2, <3>3
      <4>2. ((start \o w) \o end)[i] = "__END__"
        <5>1. i - (1 + m) = 1
          BY <1>1, <4>1
        <5> QED
          BY <2>2, <2>4, <3>3, <4>1, <5>1
      <4>3. i - 1 = Len(w) + 1 /\ i - 1 # 0
        BY <1>1, <2>2, <4>1
      <4> QED
        BY <4>2, <4>3 DEF Spot
    <3> QED
      BY <3>1, <3>2, <3>3
  <2> QED
    BY <2>4, <2>5 DEF start
<1>4. Took(t) = {<<path[i], path[i + 1]>> : i \in 1 .. Len(path) - 1}
  BY DEF Took
<1>5. last \in Int /\ last >= -1
  BY <1>1, <1>2
<1> HIDE DEF path, last
<1>6. ASSUME NEW i \in 1 .. Len(path) - 1
      PROVE  \E k \in 0 .. last : path[i] = Spot(w, k) /\ path[i + 1] = Spot(w, k + 1)
  <2>1. i - 1 \in 0 .. last /\ i \in 1 .. last + 2 /\ i + 1 \in 1 .. last + 2
    BY <1>3, <1>5
  <2>2. (i - 1) + 1 = i /\ (i + 1) - 1 = i
    OBVIOUS
  <2> QED
    BY <1>3, <2>1, <2>2
<1>7. ASSUME NEW k \in 0 .. last
      PROVE  \E i \in 1 .. Len(path) - 1 : path[i] = Spot(w, k) /\ path[i + 1] = Spot(w, k + 1)
  <2>1. k + 1 \in 1 .. Len(path) - 1 /\ k + 1 \in 1 .. last + 2 /\ k + 2 \in 1 .. last + 2
    BY <1>3, <1>5
  <2>2. (k + 1) - 1 = k /\ (k + 2) - 1 = k + 1 /\ (k + 1) + 1 = k + 2
    OBVIOUS
  <2> QED
    BY <1>3, <2>1, <2>2
<1>8. Took(t) = {<<Spot(w, i), Spot(w, i + 1)>> : i \in 0 .. last}
  <2>1. ASSUME NEW s \in Took(t)
        PROVE  s \in {<<Spot(w, i), Spot(w, i + 1)>> : i \in 0 .. last}
    <3>1. PICK i \in 1 .. Len(path) - 1 : s = <<path[i], path[i + 1]>>
      BY <1>4
    <3> QED
      BY <1>6, <3>1
  <2>2. ASSUME NEW s \in {<<Spot(w, i), Spot(w, i + 1)>> : i \in 0 .. last}
        PROVE  s \in Took(t)
    <3>1. PICK k \in 0 .. last : s = <<Spot(w, k), Spot(w, k + 1)>>
      OBVIOUS
    <3> QED
      BY <1>4, <1>7, <3>1
  <2> QED
    BY <2>1, <2>2
<1> QED
  BY <1>8 DEF last, m

\* A walk that climbs took the transitions between neighbouring names, but for the
\* last if it was cut.
LEMMA LadderOfWalk ==
  ASSUME NEW t, walk[t] \in Seq(Nodes), Climbs(walk[t])
  PROVE  Took(t) = {s \in Ladder(Walked(t)) : Cut(t) => s[2] # "__END__"}
<1> DEFINE w == walk[t]
           m == Len(w)
           last == IF Cut(t) THEN m - 1 ELSE m
           L(i) == Level(Spot(w, i))
<1>1. m \in Nat /\ DOMAIN w = 1 .. m
  BY LenProperties
<1>2. /\ \A i \in 1 .. m : Spot(w, i) = w[i] /\ w[i] \in Nodes
      /\ Spot(w, 0) = "__START__" /\ Spot(w, m + 1) = "__END__"
      /\ \A i, j \in 0 .. m + 1 : i < j => L(i) < L(j)
  BY SpotsClimb
<1>3. Walked(t) = {Spot(w, k) : k \in 1 .. m}
  BY <1>1, <1>2 DEF Walked
<1>4. Took(t) = {<<Spot(w, i), Spot(w, i + 1)>> : i \in 0 .. last}
  BY TookSpots
<1>5. last \in {m, m - 1} /\ (Cut(t) <=> last = m - 1)
  BY <1>1
<1>6. \A i : L(i) \in Nat
  BY LevelsDiffer
<1> HIDE DEF w, m, last, L
<1>7. \A i, j \in 0 .. m + 1 : L(i) < L(j) => i < j
  <2> SUFFICES ASSUME NEW i \in 0 .. m + 1, NEW j \in 0 .. m + 1, L(i) < L(j), ~ (i < j)
               PROVE  FALSE
    OBVIOUS
  <2>1. i = j \/ j < i
    BY <1>1
  <2>2. L(i) = L(j) \/ L(j) < L(i)
    BY <1>2, <2>1
  <2> QED
    BY <1>6, <2>2
<1>8. ASSUME NEW i \in 0 .. last
      PROVE  /\ <<Spot(w, i), Spot(w, i + 1)>> \in Ladder(Walked(t))
             /\ Cut(t) => Spot(w, i + 1) # "__END__"
  <2>1. i \in 0 .. m + 1 /\ i + 1 \in 0 .. m + 1 /\ i \in 0 .. m /\ i + 1 \in 1 .. m + 1
    BY <1>1, <1>5
  <2>2. L(i) < L(i + 1)
    <3>1. i < i + 1
      BY <2>1
    <3> QED
      BY <1>2, <2>1, <3>1
  <2>3. ASSUME NEW k \in 1 .. m
        PROVE  ~ (L(i) < L(k) /\ L(k) < L(i + 1))
    <3>1. k \in 0 .. m + 1
      BY <1>1
    <3>2. ~ (i < k /\ k < i + 1)
      BY <1>1, <2>1
    <3> QED
      BY <1>7, <2>1, <3>1, <3>2
  <2>4. /\ Spot(w, i) \in Walked(t) \cup {"__START__"}
        /\ Spot(w, i + 1) \in Walked(t) \cup {"__END__"}
    <3>1. i = 0 \/ i \in 1 .. m
      BY <1>1, <2>1
    <3>2. i + 1 = m + 1 \/ i + 1 \in 1 .. m
      BY <1>1, <2>1
    <3> QED
      BY <1>2, <1>3, <3>1, <3>2
  <2>5. ASSUME Cut(t)
        PROVE  Spot(w, i + 1) # "__END__"
    <3>1. i + 1 \in 1 .. m
      BY <1>1, <1>5, <2>1, <2>5
    <3> QED
      BY <1>2, <3>1, NodeNames
  <2> QED
    BY <1>3, <2>2, <2>3, <2>4, <2>5 DEF Ladder, L
<1>9. ASSUME NEW s \in Ladder(Walked(t)), Cut(t) => s[2] # "__END__"
      PROVE  \E i \in 0 .. last : s = <<Spot(w, i), Spot(w, i + 1)>>
  <2>1. /\ s[1] \in Walked(t) \cup {"__START__"} /\ s[2] \in Walked(t) \cup {"__END__"}
        /\ s = <<s[1], s[2]>> /\ Level(s[1]) < Level(s[2])
        /\ \A n \in Walked(t) : ~ (Level(s[1]) < Level(n) /\ Level(n) < Level(s[2]))
    BY DEF Ladder
  <2>2. PICK i \in 0 .. m : Spot(w, i) = s[1]
    <3>1. 0 \in 0 .. m /\ \A k \in 1 .. m : k \in 0 .. m
      BY <1>1
    <3> QED
      BY <1>2, <1>3, <2>1, <3>1
  <2>3. PICK j \in 1 .. m + 1 : Spot(w, j) = s[2] /\ (j = m + 1 => s[2] = "__END__")
    <3>1. m + 1 \in 1 .. m + 1 /\ \A k \in 1 .. m : k \in 1 .. m + 1 /\ k # m + 1
      BY <1>1
    <3> QED
      BY <1>2, <1>3, <2>1, <3>1
  <2>4. i < j
    <3>1. i \in 0 .. m + 1 /\ j \in 0 .. m + 1 /\ L(i) < L(j)
      BY <1>1, <2>1, <2>2, <2>3 DEF L
    <3> QED
      BY <1>7, <3>1
  <2>5. j = i + 1
    <3> SUFFICES ASSUME j # i + 1 PROVE FALSE
      OBVIOUS
    <3>1. i + 1 < j /\ i + 1 \in 1 .. m /\ i < i + 1
      BY <1>1, <2>4
    <3>2. i \in 0 .. m + 1 /\ j \in 0 .. m + 1 /\ i + 1 \in 0 .. m + 1
      BY <1>1
    <3>3. L(i) < L(i + 1) /\ L(i + 1) < L(j)
      BY <1>2, <3>1, <3>2
    <3>4. Spot(w, i + 1) \in Walked(t)
      BY <1>3, <3>1
    <3> QED
      BY <2>1, <2>2, <2>3, <3>3, <3>4 DEF L
  <2>6. i \in 0 .. last
    BY <1>1, <1>5, <1>9, <2>3, <2>5
  <2> QED
    BY <2>1, <2>2, <2>3, <2>5, <2>6
<1> QED
  BY <1>4, <1>8, <1>9

(***************************************************************************)
(* Where a turn may have been, W, and where it may be going, n; T are the  *)
(* nodes that timed out.                                                   *)
(***************************************************************************)

Course(W, T) ==
  /\ W # {} => "IntentRouter" \in W
  /\ "FollowUpResponder" \in W =>
       /\ W \subseteq {"IntentRouter", "UnsafeMethodGate", "FollowUpResponder",
                       "InlineEvaluator"}
       /\ "UnsafeMethodGate" \notin T
  /\ "SymptomAnalyzer" \in W =>
       "DeterministicRuleChecker" \in W /\ "DirectReplacementAnalyzer" \notin W
  /\ "DirectReplacementAnalyzer" \in W => "DeterministicRuleChecker" \in W
  /\ "KnowledgeRetriever" \in W =>
       "SymptomAnalyzer" \in W \/ "DirectReplacementAnalyzer" \in W
  /\ "RootCauseAnalyzer" \in W => "KnowledgeRetriever" \in W /\ "SymptomAnalyzer" \in W
  /\ "SafetyExtractor" \in W =>
       /\ "KnowledgeRetriever" \in W
       /\ "SymptomAnalyzer" \in W => "RootCauseAnalyzer" \in W
  /\ "RepairPlanner" \in W => "SafetyExtractor" \in W
  /\ "SafetyJudgeGate" \in W => "RepairPlanner" \in W
  /\ "InlineEvaluator" \in W => "SafetyJudgeGate" \in W \/ "FollowUpResponder" \in W

Complete(W) ==
  /\ "IntentRouter" \in W
  /\ "DeterministicRuleChecker" \in W \/ "FollowUpResponder" \in W
  /\ "FollowUpResponder" \in W => "InlineEvaluator" \in W
  /\ "SymptomAnalyzer" \in W => "KnowledgeRetriever" \in W /\ "RootCauseAnalyzer" \in W
  /\ "DirectReplacementAnalyzer" \in W =>
       "KnowledgeRetriever" \in W /\ "SafetyExtractor" \in W
  /\ "SafetyExtractor" \in W => "RepairPlanner" \in W
  /\ "RepairPlanner" \in W => "SafetyJudgeGate" \in W
  /\ "SafetyJudgeGate" \in W => "InlineEvaluator" \in W

Ahead(W, T, n, route) ==
  /\ \A m \in W : Level(m) < Level(n)
  /\ n = "IntentRouter" => W = {}
  /\ n # "IntentRouter" => "IntentRouter" \in W
  /\ n = "FollowUpResponder" =>
       W \subseteq {"IntentRouter", "UnsafeMethodGate"} /\ "UnsafeMethodGate" \notin T
  /\ n = "SymptomAnalyzer" => "DeterministicRuleChecker" \in W /\ route # "replace_part"
  /\ n = "DirectReplacementAnalyzer" =>
       /\ "DeterministicRuleChecker" \in W /\ "SymptomAnalyzer" \notin W
       /\ route = "replace_part"
  /\ n = "KnowledgeRetriever" =>
       \/ "SymptomAnalyzer" \in W /\ route # "replace_part"
       \/ "DirectReplacementAnalyzer" \in W /\ route = "replace_part"
  /\ n = "RootCauseAnalyzer" => "KnowledgeRetriever" \in W /\ "SymptomAnalyzer" \in W
  /\ n = "SafetyExtractor" =>
       /\ "KnowledgeRetriever" \in W
       /\ "SymptomAnalyzer" \in W => "RootCauseAnalyzer" \in W
  /\ n = "RepairPlanner" => "SafetyExtractor" \in W
  /\ n = "SafetyJudgeGate" => "RepairPlanner" \in W
  /\ n = "InlineEvaluator" => "SafetyJudgeGate" \in W \/ "FollowUpResponder" \in W
  /\ n = "__END__" => Complete(W)

State ==
  [route : Intents \cup Corrected, override : BOOLEAN,
   cause : [kind : {"none", "cause", "no_docs", "timeout"}],
   feedback : {FALSE}, retry : {0}]

\* What a node may leave in the state, a fallback included.
LEMMA StatesLeft ==
  ASSUME state \in State, NEW n \in Nodes, NEW s,
         s \in StatesAfter(n) \/ (n \in DOMAIN FunctionName /\ s = Fallback(n))
  PROVE  /\ s \in State
         /\ n \notin {"IntentRouter", "UnsafeMethodGate"} => s.route = state.route
         /\ n = "IntentRouter" => s.route \in Intents
         /\ n = "UnsafeMethodGate" => s.route \in Corrected
<1>1. n \in DOMAIN FunctionName => n # "DeterministicRuleChecker"
  BY TimedNodes
<1>2. "troubleshoot" \in Intents /\ "troubleshoot" \in Corrected
  BY DEF Intents, Corrected
<1>3. ASSUME NEW r \in Intents \cup Corrected
      PROVE  [state EXCEPT !.route = r] \in State /\ [state EXCEPT !.route = r].route = r
  BY DEF State
<1>4. ASSUME NEW o \in BOOLEAN
      PROVE  /\ [state EXCEPT !.override = o] \in State
             /\ [state EXCEPT !.override = o].route = state.route
  BY DEF State
<1>5. ASSUME NEW k \in {"none", "cause", "no_docs", "timeout"}
      PROVE  /\ [state EXCEPT !.cause.kind = k] \in State
             /\ [state EXCEPT !.cause.kind = k].route = state.route
  BY DEF State
<1>6. CASE n = "IntentRouter"
  <2>1. \E r \in Intents : s = [state EXCEPT !.route = r]
    BY <1>1, <1>2, <1>6 DEF StatesAfter, Fallback
  <2> QED
    BY <1>3, <1>6, <2>1
<1>7. CASE n = "UnsafeMethodGate"
  <2>1. \E r \in Corrected : s = [state EXCEPT !.route = r]
    BY <1>1, <1>2, <1>7 DEF StatesAfter, Fallback
  <2> QED
    BY <1>3, <1>7, <2>1
<1>8. CASE n = "DeterministicRuleChecker"
  <2>1. \E o \in BOOLEAN : s = [state EXCEPT !.override = o]
    BY <1>1, <1>8 DEF StatesAfter
  <2> QED
    BY <1>4, <1>8, <2>1
<1>9. CASE n = "RootCauseAnalyzer"
  <2>1. \E k \in {"none", "cause", "no_docs", "timeout"} : s = [state EXCEPT !.cause.kind = k]
    BY <1>9 DEF StatesAfter, Fallback
  <2> QED
    BY <1>5, <1>9, <2>1
<1>10. CASE n \notin {"IntentRouter", "UnsafeMethodGate", "DeterministicRuleChecker",
                      "RootCauseAnalyzer"}
  <2>1. s = state
    BY <1>10 DEF StatesAfter, Fallback
  <2> QED
    BY <1>10, <2>1
<1> QED
  BY <1>6, <1>7, <1>8, <1>9, <1>10

\* Where the edge behind a node leads.
LEMMA EdgesLead ==
  ASSUME NEW n \in Nodes, NEW s \in State
  PROVE  LET to == NextNode(n, s)
         IN  /\ to \in Nodes \cup {"__END__"} /\ Level(n) + 1 < Level(to)
             /\ n = "IntentRouter" =>
                  to \in {"UnsafeMethodGate", "FollowUpResponder", "DeterministicRuleChecker"}
             /\ n = "IntentRouter" /\ s.route = "troubleshoot" =>
                  to = "DeterministicRuleChecker"
             /\ n = "UnsafeMethodGate" =>
                  to \in {"FollowUpResponder", "DeterministicRuleChecker"}
             /\ n = "UnsafeMethodGate" /\ s.route = "troubleshoot" =>
                  to = "DeterministicRuleChecker"
             /\ n = "DeterministicRuleChecker" =>
                  \/ to = "__END__"
                  \/ to = "DirectReplacementAnalyzer" /\ s.route = "replace_part"
                  \/ to = "SymptomAnalyzer" /\ s.route # "replace_part"
             /\ n \in {"SymptomAnalyzer", "DirectReplacementAnalyzer"} =>
                  to = "KnowledgeRetriever"
             /\ n = "KnowledgeRetriever" =>
                  \/ to = "SafetyExtractor" /\ s.route = "replace_part"
                  \/ to = "RootCauseAnalyzer" /\ s.route # "replace_part"
             /\ n = "RootCauseAnalyzer" => to \in {"SafetyExtractor", "__END__"}
             /\ n = "SafetyExtractor" => to = "RepairPlanner"
             /\ n = "RepairPlanner" => to = "SafetyJudgeGate"
             /\ n \in {"SafetyJudgeGate", "FollowUpResponder"} => to = "InlineEvaluator"
             /\ n = "InlineEvaluator" => to = "__END__"
<1>1. CASE n \in {"IntentRouter", "UnsafeMethodGate"}
  BY <1>1, Levels, NodeNames
     DEF NextNode, RouteFromIntent, RouteFromUnsafe, DispatchTarget
<1>2. CASE n \in {"DeterministicRuleChecker", "KnowledgeRetriever", "RootCauseAnalyzer"}
  BY <1>2, Levels, NodeNames
     DEF NextNode, RouteFromDeterministicCheck, RouteFromKnowledge, RouteFromRootCause
<1>3. CASE n \in {"SymptomAnalyzer", "DirectReplacementAnalyzer", "SafetyExtractor",
                  "RepairPlanner", "FollowUpResponder", "InlineEvaluator"}
  BY <1>3, Levels, NodeNames DEF NextNode
<1>4. CASE n = "SafetyJudgeGate"
  <2>1. s.feedback = FALSE
    BY DEF State
  <2> QED
    BY <1>4, <2>1, Levels, NodeNames DEF NextNode, RouteFromSafetyJudge
<1> QED
  BY <1>1, <1>2, <1>3, <1>4, NodeNames

\* One more node keeps a turn on its course and the next node ahead.
LEMMA CourseStep ==
  ASSUME NEW W \in SUBSET Nodes, NEW T \in SUBSET W, NEW U \in SUBSET (W \cup {node}),
         state \in State, node \in Nodes, NEW s \in State,
         U = T \/ (U = T \cup {node} /\ s = Fallback(node)),
         s \in StatesAfter(node) \/ (node \in DOMAIN FunctionName /\ s = Fallback(node)),
         Course(W, T), Ahead(W, T, node, state.route)
  PROVE  /\ Course(W \cup {node}, U)
         /\ Ahead(W \cup {node}, U, NextNode(node, s), s.route)
<1> DEFINE V == W \cup {node}
           to == NextNode(node, s)
<1>1. /\ node \notin {"IntentRouter", "UnsafeMethodGate"} => s.route = state.route
      /\ \A m \in W : Level(m) < Level(node)
      /\ node # "UnsafeMethodGate" => ("UnsafeMethodGate" \in U <=> "UnsafeMethodGate" \in T)
      /\ node = "UnsafeMethodGate" /\ "UnsafeMethodGate" \in U => s.route = "troubleshoot"
  <2>1. \A m \in W : Level(m) < Level(node)
    BY DEF Ahead
  <2>2. \A n : Level(n) \in Nat
    BY LevelsDiffer
  <2>3. node \notin T
    BY <2>1, <2>2
  <2>4. node = "UnsafeMethodGate" /\ U # T => s.route = "troubleshoot"
    BY DEF Fallback, State
  <2> QED
    BY <2>1, <2>3, <2>4, StatesLeft
<1>2. \A m \in V : Level(m) < Level(to)
  BY <1>1, EdgesLead, LevelsDiffer
<1>3. \A m \in W : Level(m) < Level(node)
  BY <1>1
<1> HIDE DEF to
<1>4. CASE node = "IntentRouter"
  <2>1. Course(V, U)
    BY <1>1, <1>4, Levels, NodeNames DEF Course, Ahead
  <2>2. Ahead(V, U, to, s.route)
    BY <1>1, <1>2, <1>4, EdgesLead, Levels, NodeNames DEF Course, Ahead, Complete, to
  <2> QED
    BY <2>1, <2>2 DEF to
<1>5. CASE node = "UnsafeMethodGate"
  <2>1. Course(V, U)
    BY <1>1, <1>5, Levels, NodeNames DEF Course, Ahead
  <2>2. Ahead(V, U, to, s.route)
    BY <1>1, <1>2, <1>5, EdgesLead, Levels, NodeNames DEF Course, Ahead, Complete, to
  <2> QED
    BY <2>1, <2>2 DEF to
<1>6. CASE node = "DeterministicRuleChecker"
  <2>1. Course(V, U)
    BY <1>1, <1>6, Levels, NodeNames DEF Course, Ahead
  <2>2. Ahead(V, U, to, s.route)
    BY <1>1, <1>2, <1>6, EdgesLead, Levels, NodeNames DEF Course, Ahead, Complete, to
  <2> QED
    BY <2>1, <2>2 DEF to
<1>7. CASE node = "SymptomAnalyzer"
  <2>1. Course(V, U)
    BY <1>1, <1>7, Levels, NodeNames DEF Course, Ahead
  <2>2. Ahead(V, U, to, s.route)
    BY <1>1, <1>2, <1>7, EdgesLead, Levels, NodeNames DEF Course, Ahead, Complete, to
  <2> QED
    BY <2>1, <2>2 DEF to
<1>8. CASE node = "DirectReplacementAnalyzer"
  <2>1. Course(V, U)
    BY <1>1, <1>8, Levels, NodeNames DEF Course, Ahead
  <2>2. Ahead(V, U, to, s.route)
    BY <1>1, <1>2, <1>8, EdgesLead, Levels, NodeNames DEF Course, Ahead, Complete, to
  <2> QED
    BY <2>1, <2>2 DEF to
<1>9. CASE node = "KnowledgeRetriever"
  <2>1. Course(V, U)
    BY <1>1, <1>9, Levels, NodeNames DEF Course, Ahead
  <2>2. Ahead(V, U, to, s.route)
    BY <1>1, <1>2, <1>9, EdgesLead, Levels, NodeNames DEF Course, Ahead, Complete, to
  <2> QED
    BY <2>1, <2>2 DEF to
<1>10. CASE node = "RootCauseAnalyzer"
  <2>1. Course(V, U)
    BY <1>1, <1>10, Levels, NodeNames DEF Course, Ahead
  <2>2. Ahead(V, U, to, s.route)
    BY <1>1, <1>2, <1>10, EdgesLead, Levels, NodeNames DEF Course, Ahead, Complete, to
  <2> QED
    BY <2>1, <2>2 DEF to
<1>11. CASE node = "SafetyExtractor"
  <2>1. Course(V, U)
    BY <1>1, <1>11, Levels, NodeNames DEF Course, Ahead
  <2>2. Ahead(V, U, to, s.route)
    BY <1>1, <1>2, <1>11, EdgesLead, Levels, NodeNames DEF Course, Ahead, Complete, to
  <2> QED
    BY <2>1, <2>2 DEF to
<1>12. CASE node = "RepairPlanner"
  <2>1. Course(V, U)
    BY <1>1, <1>12, Levels, NodeNames DEF Course, Ahead
  <2>2. Ahead(V, U, to, s.route)
    BY <1>1, <1>2, <1>12, EdgesLead, Levels, NodeNames DEF Course, Ahead, Complete, to
  <2> QED
    BY <2>1, <2>2 DEF to
<1>13. CASE node = "SafetyJudgeGate"
  <2>1. Course(V, U)
    BY <1>1, <1>13, Levels, NodeNames DEF Course, Ahead
  <2>2. Ahead(V, U, to, s.route)
    BY <1>1, <1>2, <1>13, EdgesLead, Levels, NodeNames DEF Course, Ahead, Complete, to
  <2> QED
    BY <2>1, <2>2 DEF to
<1>14. CASE node = "FollowUpResponder"
  <2>1. Course(V, U)
    BY <1>1, <1>14, Levels, NodeNames DEF Course, Ahead
  <2>2. Ahead(V, U, to, s.route)
    BY <1>1, <1>2, <1>14, EdgesLead, Levels, NodeNames DEF Course, Ahead, Complete, to
  <2> QED
    BY <2>1, <2>2 DEF to
<1>15. CASE node = "InlineEvaluator"
  <2>1. Course(V, U)
    BY <1>1, <1>15, Levels, NodeNames DEF Course, Ahead
  <2>2. Ahead(V, U, to, s.route)
    BY <1>1, <1>2, <1>15, EdgesLead, Levels, NodeNames DEF Course, Ahead, Complete, to
  <2> QED
    BY <2>1, <2>2 DEF to
<1> QED
  BY NodeNames, <1>4, <1>5, <1>6, <1>7, <1>8, <1>9, <1>10, <1>11, <1>12, <1>13, <1>14, <1>15

(***************************************************************************)
(* The inductive invariant: the names a turn left among the records are    *)
(* those of the nodes it walked, but for the mishaps, and in that order.   *)
(***************************************************************************)

Mishap == {"timeout", "silent", "abandoned"}

Row ==
  {r \in [trace : Turn, base : Name \cup {"edge", "ShadowEvaluator_dispatch"},
          suffix : {"", "unified"} \cup {EdgeName[n] : n \in DOMAIN EdgeName},
          op : {"node", "edge_decision", "shadow_dispatch"}] :
     r.op = "node" => r.base \in Name}

ConformanceType ==
  /\ turn \in 0 .. MaxTurns /\ node \in Nodes \cup Ended
  /\ turn = 0 => node = "__END__"
  /\ state \in State
  /\ records \in Seq(Row)
  /\ walk \in [Turn -> Seq(Nodes)]
  /\ mishaps \subseteq (1 .. turn) \X Nodes \X Mishap

NodeRows == {i \in DOMAIN records : records[i].op = "node"}

Seen(t) ==
  {n \in Walked(t) : n \notin TimedOut(t) /\ ~ (n = "InlineEvaluator" /\ Silent(t))}

Left(t) == Seen(t) \cup {FunctionName[n] : n \in TimedOut(t)}

WalkInv ==
  \A t \in Turn :
    /\ Climbs(walk[t]) /\ (t > turn => walk[t] = << >>)
    /\ TimedOut(t) \subseteq Walked(t) \cap DOMAIN FunctionName
    /\ Silent(t) => "InlineEvaluator" \in Walked(t)
    /\ Course(Walked(t), TimedOut(t))
    /\ Closed(t) /\ ~ Cut(t) => Complete(Walked(t))
    /\ t = turn => \A n \in Walked(t) : Level(n) < Level(node)
    /\ t = turn /\ node \in Nodes => Ahead(Walked(t), TimedOut(t), node, state.route)

LogInv ==
  /\ \A i \in DOMAIN records : records[i].trace \in 1 .. turn
  /\ \A i, j \in NodeRows : i < j =>
       /\ records[i].trace <= records[j].trace
       /\ records[i].trace = records[j].trace =>
            Level(records[i].base) <= Level(records[j].base)
  /\ \A i \in NodeRows : records[i].trace = turn => Level(records[i].base) < Level(node)
  /\ \A t \in Turn :
       /\ \A i \in NodeRows : records[i].trace = t => records[i].base \in Left(t)
       /\ \A n \in Left(t) : \E i \in NodeRows : records[i].trace = t /\ records[i].base = n

ConformanceInv == ConformanceType /\ WalkInv /\ LogInv

\* The walks after one more node.
LEMMA WalkedOn ==
  ASSUME walk \in [Turn -> Seq(Nodes)], turn \in Turn, node \in Nodes,
         walk' = [walk EXCEPT ![turn] = Append(@, node)], turn' = turn,
         \A n \in Walked(turn) : Level(n) < Level(node), Climbs(walk[turn])
  PROVE  /\ walk' \in [Turn -> Seq(Nodes)]
         /\ \A t \in Turn \ {turn} : walk'[t] = walk[t] /\ Walked(t)' = Walked(t)
         /\ Walked(turn)' = Walked(turn) \cup {node}
         /\ Climbs(walk'[turn])
<1> DEFINE w == walk[turn]
           v == Append(w, node)
           m == Len(w)
<1>1. /\ w \in Seq(Nodes) /\ m \in Nat /\ DOMAIN w = 1 .. m
      /\ v \in Seq(Nodes) /\ Len(v) = m + 1 /\ DOMAIN v = 1 .. m + 1
      /\ \A i \in 1 .. m : v[i] = w[i]
      /\ v[m + 1] = node
  <2>1. w \in Seq(Nodes)
    OBVIOUS
  <2> QED
    BY <2>1, AppendProperties, LenProperties
<1>2. walk' \in [Turn -> Seq(Nodes)] /\ walk'[turn] = v
  BY <1>1
<1>3. \A t \in Turn \ {turn} : walk'[t] = walk[t] /\ Walked(t)' = Walked(t)
  BY DEF Walked
<1> HIDE DEF v, m
<1>4. Walked(turn)' = Walked(turn) \cup {node}
  <2>1. Walked(turn)' = {v[k] : k \in 1 .. m + 1} /\ Walked(turn) = {w[k] : k \in 1 .. m}
    BY <1>1, <1>2 DEF Walked
  <2>2. \A k \in 1 .. m + 1 : k \in 1 .. m \/ k = m + 1
    BY <1>1
  <2>3. (\A k \in 1 .. m : k \in 1 .. m + 1) /\ m + 1 \in 1 .. m + 1
    BY <1>1
  <2> QED
    BY <1>1, <2>1, <2>2, <2>3
<1>5. Climbs(v)
  <2> SUFFICES ASSUME NEW i \in 1 .. m + 1, NEW j \in 1 .. m + 1, i < j
               PROVE  Level(v[i]) < Level(v[j])
    BY <1>1 DEF Climbs
  <2>1. i \in 1 .. m /\ (j \in 1 .. m \/ j = m + 1)
    BY <1>1
  <2>2. CASE j \in 1 .. m
    BY <1>1, <2>1, <2>2 DEF Climbs
  <2>3. CASE j = m + 1
    <3>1. w[i] \in Walked(turn)
      BY <1>1, <2>1 DEF Walked
    <3> QED
      BY <1>1, <2>1, <2>3, <3>1
  <2> QED
    BY <2>1, <2>2, <2>3
<1> QED
  BY <1>2, <1>3, <1>4, <1>5

\* Rows of one name, the running turn's, behind the others.
LEMMA RowsLogged ==
  ASSUME records \in Seq(Row), turn \in Nat, NEW more \in Seq(Row), NEW b,
         records' = records \o more,
         \A k \in DOMAIN more : more[k].op = "node" => more[k].trace = turn /\ more[k].base = b
  PROVE  /\ records' \in Seq(Row)
         /\ \A i \in DOMAIN records : i \in DOMAIN records' /\ records'[i] = records[i]
         /\ \A i \in DOMAIN records' : i \notin DOMAIN records =>
              /\ \A j \in DOMAIN records : j < i
              /\ \E k \in DOMAIN more : records'[i] = more[k]
         /\ NodeRows \subseteq NodeRows'
         /\ \A i \in NodeRows' \ NodeRows :
              /\ i \notin DOMAIN records
              /\ records'[i].trace = turn /\ records'[i].base = b
         /\ \A k \in DOMAIN more : more[k].op = "node" => \E i \in NodeRows' : records'[i] = more[k]
<1> DEFINE m == Len(records)
           n == Len(more)
<1>1. /\ m \in Nat /\ DOMAIN records = 1 .. m /\ n \in Nat /\ DOMAIN more = 1 .. n
      /\ records' \in Seq(Row) /\ DOMAIN records' = 1 .. m + n
      /\ \A i \in 1 .. m + n :
           records'[i] = IF i <= m THEN records[i] ELSE more[i - m]
  <2>1. records' \in Seq(Row) /\ Len(records') = m + n
    BY ConcatProperties
  <2>2. DOMAIN records' = 1 .. m + n
    BY <2>1, LenProperties
  <2> QED
    BY <2>1, <2>2, LenProperties, ConcatProperties
<1> HIDE DEF m, n
<1>2. \A i \in DOMAIN records : i \in DOMAIN records' /\ records'[i] = records[i]
  BY <1>1
<1>3. ASSUME NEW i \in DOMAIN records', i \notin DOMAIN records
      PROVE  /\ \A j \in DOMAIN records : j < i
             /\ i - m \in DOMAIN more /\ records'[i] = more[i - m]
  BY <1>1, <1>3
<1>4. ASSUME NEW k \in DOMAIN more
      PROVE  \E i \in DOMAIN records' : records'[i] = more[k]
  <2>1. m + k \in 1 .. m + n /\ ~ (m + k <= m) /\ (m + k) - m = k
    BY <1>1
  <2> QED
    BY <1>1, <2>1
<1>5. NodeRows \subseteq NodeRows'
  BY <1>2 DEF NodeRows
<1>6. ASSUME NEW i \in NodeRows' \ NodeRows
      PROVE  /\ i \notin DOMAIN records
             /\ records'[i].trace = turn /\ records'[i].base = b
  <2>1. i \in DOMAIN records' /\ records'[i].op = "node" /\ i \notin DOMAIN records
    BY <1>2 DEF NodeRows
  <2> QED
    BY <1>3, <2>1
<1>7. \A k \in DOMAIN more : more[k].op = "node" => \E i \in NodeRows' : records'[i] = more[k]
  BY <1>4 DEF NodeRows
<1> QED
  BY <1>1, <1>2, <1>3, <1>5, <1>6, <1>7

\* At the beginning there are no turns and no records.
LEMMA StartsClean == ConformanceInit => ConformanceInv
<1> SUFFICES ASSUME ConformanceInit PROVE ConformanceInv
  OBVIOUS
<1>1. ConformanceType
  BY ConformanceAssumption
     DEF ConformanceInit, ConformanceType, Ended, State, Intents, Corrected
<1>2. \A t \in Turn : walk[t] = << >> /\ Walked(t) = {}
  BY DEF ConformanceInit, Walked
<1>3. mishaps = {} /\ turn = 0 /\ records = << >> /\ node \notin Nodes
  BY NodeNames DEF ConformanceInit
<1>4. \A t : TimedOut(t) = {} /\ ~ Silent(t) /\ ~ Closed(t)
  BY <1>3 DEF TimedOut, Silent, Closed
<1>5. WalkInv
  BY <1>2, <1>3, <1>4 DEF WalkInv, Climbs, Course
<1>6. LogInv
  <2>1. NodeRows = {} /\ \A t \in Turn : Left(t) = {}
    BY <1>2, <1>3, <1>4 DEF NodeRows, Left, Seen
  <2> QED
    BY <1>3, <2>1 DEF LogInv
<1> QED
  BY <1>1, <1>5, <1>6 DEF ConformanceInv

\* Turns that ran are turns; one that waits for a node has begun.
LEMMA TypeFacts ==
  ASSUME ConformanceType
  PROVE  /\ turn \in Nat /\ turn <= MaxTurns /\ 1 .. turn \subseteq Turn /\ MaxTurns \in Nat
         /\ turn > 0 => turn \in Turn
         /\ node \in Nodes => node \notin Ended /\ turn \in Turn
         /\ \A t \in Turn : t \in Nat
BY ConformanceAssumption, NodeNames DEF ConformanceType, Turn, Ended

\* A new turn has no walk, no mishap and no record.
LEMMA StartStep ==
  ASSUME ConformanceInv, StartTurn
  PROVE  ConformanceInv'
<1> USE DEF ConformanceInv
<1>1. /\ turn \in Nat /\ turn' = turn + 1 /\ turn' \in 0 .. MaxTurns /\ turn' > turn
      /\ node' = "IntentRouter" /\ node' \in Nodes /\ node' \notin Ended /\ node \in Ended
      /\ state' = state /\ records' = records /\ walk' = walk /\ mishaps' = mishaps
  BY TypeFacts, NodeNames DEF StartTurn, Ended
<1>2. ConformanceType'
  <2>1. mishaps \subseteq (1 .. turn') \X Nodes \X Mishap
    BY <1>1 DEF ConformanceType
  <2>2. turn' # 0
    BY <1>1
  <2> QED
    BY <1>1, <2>1, <2>2 DEF ConformanceType
<1>3. \A t \in Turn : /\ Walked(t)' = Walked(t) /\ TimedOut(t)' = TimedOut(t)
                      /\ Silent(t)' = Silent(t) /\ Cut(t)' = Cut(t) /\ Left(t)' = Left(t)
  BY <1>1 DEF Walked, TimedOut, Silent, Cut, Left, Seen
<1>4. NodeRows' = NodeRows
  BY <1>1 DEF NodeRows
<1>5. WalkInv'
  <2> SUFFICES ASSUME NEW t \in Turn
               PROVE  /\ Climbs(walk'[t]) /\ (t > turn' => walk'[t] = << >>)
                      /\ TimedOut(t)' \subseteq Walked(t)' \cap DOMAIN FunctionName
                      /\ Silent(t)' => "InlineEvaluator" \in Walked(t)'
                      /\ Course(Walked(t)', TimedOut(t)')
                      /\ Closed(t)' /\ ~ Cut(t)' => Complete(Walked(t)')
                      /\ t = turn' => Walked(t)' = {}
    BY <1>1 DEF WalkInv, Ahead
  <2>1. t \in Nat /\ (t > turn' => t > turn) /\ (t = turn' => t > turn)
    BY <1>1, TypeFacts
  <2>2. t = turn' => Walked(t) = {}
    <3>1. t > turn => walk[t] = << >>
      BY DEF WalkInv
    <3> QED
      BY <2>1, <3>1 DEF Walked
  <2>3. Closed(t)' => Closed(t)
    BY <1>1 DEF Closed
  <2> QED
    BY <1>1, <1>3, <2>1, <2>2, <2>3 DEF WalkInv
<1>6. LogInv'
  <2>1. \A i \in DOMAIN records : records[i].trace \in 1 .. turn' /\ records[i].trace # turn'
    BY <1>1 DEF LogInv
  <2>2. NodeRows \subseteq DOMAIN records
    BY DEF NodeRows
  <2> QED
    BY <1>1, <1>3, <1>4, <2>1, <2>2 DEF LogInv
<1> QED
  BY <1>2, <1>5, <1>6

\* A turn that is cut short leaves what it has logged.
LEMMA AbandonStep ==
  ASSUME ConformanceInv, Abandon
  PROVE  ConformanceInv'
<1> USE DEF ConformanceInv
<1>1. /\ node \in Nodes /\ node' = "failed" /\ turn \in Turn
      /\ mishaps' = mishaps \cup {<<turn, node, "abandoned">>}
      /\ turn' = turn /\ state' = state /\ records' = records /\ walk' = walk
  BY TypeFacts DEF Abandon
<1>2. ConformanceType'
  <2>1. <<turn, node, "abandoned">> \in (1 .. turn) \X Nodes \X Mishap
    BY <1>1, TypeFacts DEF Mishap, Turn
  <2>2. node' \in Ended /\ turn # 0
    BY <1>1, TypeFacts DEF Ended, Turn
  <2> QED
    BY <1>1, <2>1, <2>2 DEF ConformanceType
<1>3. \A t \in Turn : /\ Walked(t)' = Walked(t) /\ TimedOut(t)' = TimedOut(t)
                      /\ Silent(t)' = Silent(t) /\ (Cut(t) => Cut(t)') /\ Left(t)' = Left(t)
  <2>1. \A t \in Turn : TimedOut(t)' = TimedOut(t) /\ Silent(t)' = Silent(t) /\ (Cut(t) => Cut(t)')
    BY <1>1 DEF TimedOut, Silent, Cut
  <2> QED
    BY <1>1, <2>1 DEF Walked, Left, Seen
<1>4. NodeRows' = NodeRows
  BY <1>1 DEF NodeRows
<1>5. ASSUME NEW t \in Turn, Closed(t)', ~ Cut(t)'
      PROVE  Closed(t) /\ ~ Cut(t)
  <2>1. t # turn
    <3>1. <<turn, node, "abandoned">> \in mishaps'
      BY <1>1
    <3> QED
      BY <1>5, <3>1 DEF Cut
  <2> QED
    BY <1>1, <1>3, <1>5, <2>1 DEF Closed
<1>6. node' \notin Nodes /\ \A l \in Nat : l < Level(node) => l < Level(node')
  <2>1. Level(node) < 26 /\ Level(node) \in Nat
    BY <1>1, LevelsDiffer DEF Name
  <2>2. Level("failed") = 26 /\ "failed" \notin Nodes
    BY NodeNames DEF Level
  <2> QED
    BY <1>1, <2>1, <2>2
<1>7. WalkInv'
  <2> SUFFICES ASSUME NEW t \in Turn
               PROVE  /\ Climbs(walk'[t]) /\ (t > turn' => walk'[t] = << >>)
                      /\ TimedOut(t)' \subseteq Walked(t)' \cap DOMAIN FunctionName
                      /\ Silent(t)' => "InlineEvaluator" \in Walked(t)'
                      /\ Course(Walked(t)', TimedOut(t)')
                      /\ Closed(t)' /\ ~ Cut(t)' => Complete(Walked(t)')
                      /\ t = turn' => \A n \in Walked(t)' : Level(n) < Level(node')
    BY <1>6 DEF WalkInv
  <2> QED
    BY <1>1, <1>3, <1>5, <1>6, LevelsDiffer DEF WalkInv
<1>8. LogInv'
  BY <1>1, <1>3, <1>4, <1>6, LevelsDiffer DEF LogInv
<1> QED
  BY <1>2, <1>7, <1>8

\* The dispatch record is no node's, at whatever place it comes.
LEMMA DispatchStep ==
  ASSUME ConformanceInv, NEW u \in Turn, DispatchShadowEval(u)
  PROVE  ConformanceInv'
<1> USE DEF ConformanceInv
<1>1. /\ turn \in Nat /\ u \in 1 .. turn
      /\ records' = Append(records, DispatchRow(u))
      /\ turn' = turn /\ node' = node /\ state' = state /\ walk' = walk /\ mishaps' = mishaps
  BY TypeFacts DEF DispatchShadowEval, Closed
<1>2. DispatchRow(u) \in Row /\ DispatchRow(u).trace = u /\ DispatchRow(u).op = "shadow_dispatch"
  BY DEF DispatchRow, NodeRow, Row
<1> DEFINE m == Len(records)
<1>3. /\ records \in Seq(Row) /\ records' \in Seq(Row) /\ m \in Nat /\ DOMAIN records = 1 .. m
      /\ DOMAIN records' = 1 .. m + 1 /\ records'[m + 1] = DispatchRow(u)
      /\ \A i \in 1 .. m : records'[i] = records[i]
  <2>1. records \in Seq(Row)
    BY DEF ConformanceType
  <2> QED
    BY <1>1, <1>2, <2>1, AppendProperties, LenProperties
<1> HIDE DEF m
<1>4. ConformanceType'
  BY <1>1, <1>3 DEF ConformanceType
<1>5. \A t \in Turn : /\ Walked(t)' = Walked(t) /\ TimedOut(t)' = TimedOut(t)
                      /\ Silent(t)' = Silent(t) /\ Cut(t)' = Cut(t) /\ Left(t)' = Left(t)
                      /\ Closed(t)' = Closed(t)
  BY <1>1 DEF Walked, TimedOut, Silent, Cut, Left, Seen, Closed
<1>6. NodeRows' = NodeRows /\ \A i \in NodeRows : records'[i] = records[i]
  <2>1. \A i \in 1 .. m + 1 : i \in 1 .. m \/ i = m + 1
    BY <1>3
  <2>2. \A i \in 1 .. m : i \in 1 .. m + 1
    BY <1>3
  <2> QED
    BY <1>2, <1>3, <2>1, <2>2 DEF NodeRows
<1>7. WalkInv'
  BY <1>1, <1>5 DEF WalkInv
<1>8. LogInv'
  <2>1. \A i \in DOMAIN records' : records'[i].trace \in 1 .. turn'
    <3> TAKE i \in DOMAIN records'
    <3>1. (i \in DOMAIN records /\ records'[i] = records[i]) \/ records'[i] = DispatchRow(u)
      BY <1>3
    <3> QED
      BY <1>1, <1>2, <3>1 DEF LogInv
  <2>2. /\ \A i, j \in NodeRows : i < j =>
             /\ records'[i].trace <= records'[j].trace
             /\ records'[i].trace = records'[j].trace =>
                  Level(records'[i].base) <= Level(records'[j].base)
        /\ \A i \in NodeRows : records'[i].trace = turn => Level(records'[i].base) < Level(node)
    BY <1>6 DEF LogInv
  <2>3. \A t \in Turn :
          /\ \A i \in NodeRows : records'[i].trace = t => records'[i].base \in Left(t)
          /\ \A n \in Left(t) :
               \E i \in NodeRows : records'[i].trace = t /\ records'[i].base = n
    BY <1>6 DEF LogInv
  <2>4. /\ \A i, j \in NodeRows' : i < j =>
             /\ records'[i].trace <= records'[j].trace
             /\ records'[i].trace = records'[j].trace =>
                  Level(records'[i].base) <= Level(records'[j].base)
        /\ \A i \in NodeRows' :
             records'[i].trace = turn' => Level(records'[i].base) < Level(node')
    BY <1>1, <1>6, <2>2
  <2>5. \A t \in Turn :
          /\ \A i \in NodeRows' : records'[i].trace = t => records'[i].base \in Left(t)'
          /\ \A n \in Left(t)' :
               \E i \in NodeRows' : records'[i].trace = t /\ records'[i].base = n
    BY <1>5, <1>6, <2>3
  <2> QED
    BY <2>1, <2>4, <2>5 DEF LogInv
<1> QED
  BY <1>4, <1>7, <1>8

\* How a node may end: it ran, timed out, or was silent.
Ends(s, rows, b, how) ==
  /\ Ran(s, rows)
  /\ \A k \in DOMAIN rows : rows[k].op = "node" /\ rows[k].trace = turn /\ rows[k].base = b
  /\ s \in StatesAfter(node) \/ (node \in DOMAIN FunctionName /\ s = Fallback(node))
  /\ how = "timeout" =>
       node \in DOMAIN FunctionName /\ s = Fallback(node) /\ b = FunctionName[node]
  /\ how # "timeout" => b = node
  /\ how = "silent" => node = "InlineEvaluator"
  /\ rows = << >> <=> how = "silent"
  /\ how = "ran" => mishaps' = mishaps
  /\ how # "ran" => mishaps' = mishaps \cup {<<turn, node, how>>}

\* What changes when a node ends, by its result, its timeout or in silence.
LEMMA EndFacts ==
  ASSUME ConformanceInv, node \in Nodes, NEW s, NEW rows, NEW b,
         NEW how \in {"ran", "timeout", "silent"}, Ends(s, rows, b, how)
  PROVE  /\ turn \in Turn /\ turn \in Nat /\ turn' = turn /\ state' = s /\ s \in State
         /\ node' = NextNode(node, s)
         /\ node' \in Nodes \cup {"__END__"} /\ Level(node) + 1 < Level(node')
         /\ walk' = [walk EXCEPT ![turn] = Append(@, node)]
         /\ \A n \in Walked(turn) : Level(n) < Level(node)
         /\ node \notin Walked(turn)
         /\ \A t \in Turn \ {turn} :
              /\ TimedOut(t)' = TimedOut(t) /\ Silent(t)' = Silent(t) /\ Cut(t)' = Cut(t)
              /\ Walked(t)' = Walked(t) /\ walk'[t] = walk[t] /\ Left(t)' = Left(t)
         /\ TimedOut(turn)' = TimedOut(turn) \cup (IF how = "timeout" THEN {node} ELSE {})
         /\ Silent(turn)' <=> Silent(turn) \/ how = "silent"
         /\ Walked(turn)' = Walked(turn) \cup {node}
         /\ walk' \in [Turn -> Seq(Nodes)] /\ Climbs(walk'[turn])
<1> USE DEF ConformanceInv
<1>1. /\ turn \in Turn /\ turn \in Nat /\ turn' = turn /\ state' = s
      /\ node' = NextNode(node, s) /\ walk' = [walk EXCEPT ![turn] = Append(@, node)]
  BY TypeFacts DEF Ends, Ran
<1>2. s \in State
  BY StatesLeft DEF Ends, ConformanceType
<1>3. node' \in Nodes \cup {"__END__"} /\ Level(node) + 1 < Level(node')
  BY <1>1, <1>2, EdgesLead
<1>4. (\A n \in Walked(turn) : Level(n) < Level(node)) /\ Climbs(walk[turn])
  BY <1>1 DEF WalkInv
<1>5. node \notin Walked(turn)
  BY <1>4, LevelsDiffer
<1>6. /\ walk' \in [Turn -> Seq(Nodes)]
      /\ \A t \in Turn \ {turn} : walk'[t] = walk[t] /\ Walked(t)' = Walked(t)
      /\ Walked(turn)' = Walked(turn) \cup {node}
      /\ Climbs(walk'[turn])
  BY <1>1, <1>4, WalkedOn DEF ConformanceType
<1>7. mishaps' = mishaps \/ (how # "ran" /\ mishaps' = mishaps \cup {<<turn, node, how>>})
  BY DEF Ends
<1>8. \A t \in Turn \ {turn} :
        TimedOut(t)' = TimedOut(t) /\ Silent(t)' = Silent(t) /\ Cut(t)' = Cut(t)
  BY <1>1, <1>7 DEF TimedOut, Silent, Cut
<1>9. \A t \in Turn \ {turn} : Left(t)' = Left(t)
  BY <1>1, <1>6, <1>8 DEF Left, Seen
<1>10. TimedOut(turn)' = TimedOut(turn) \cup (IF how = "timeout" THEN {node} ELSE {})
  <2>1. CASE how = "timeout"
    <3> DEFINE late == <<turn, node, "timeout">>
               of(M) == {m \in M : m[1] = turn /\ m[3] = "timeout"}
    <3>1. mishaps' = mishaps \cup {late}
      BY <2>1 DEF Ends
    <3>2. of(mishaps') = of(mishaps) \cup {late}
      BY <3>1
    <3>3. /\ TimedOut(turn)' = {m[2] : m \in of(mishaps')}
          /\ TimedOut(turn) = {m[2] : m \in of(mishaps)}
      BY <1>1 DEF TimedOut
    <3>4. late[2] = node
      OBVIOUS
    <3> HIDE DEF of, late
    <3> QED
      BY <2>1, <3>2, <3>3, <3>4
  <2>2. CASE how = "silent"
    BY <1>1, <2>2 DEF TimedOut, Ends
  <2>3. CASE how = "ran"
    BY <1>1, <2>3 DEF TimedOut, Ends
  <2> QED
    BY <2>1, <2>2, <2>3
<1>11. Silent(turn)' <=> Silent(turn) \/ how = "silent"
  BY <1>1 DEF Silent, Ends
<1> QED
  BY <1>1, <1>2, <1>3, <1>4, <1>5, <1>6, <1>8, <1>9, <1>10, <1>11

\* The walk of the turn stays on its course when a node ends.
LEMMA EndWalks ==
  ASSUME ConformanceInv, node \in Nodes, NEW s, NEW rows, NEW b,
         NEW how \in {"ran", "timeout", "silent"}, Ends(s, rows, b, how)
  PROVE  WalkInv'
<1> USE DEF ConformanceInv
<1> DEFINE W == Walked(turn)
           T == TimedOut(turn)
           U == TimedOut(turn)'
<1>1. /\ turn \in Turn /\ turn \in Nat /\ turn' = turn /\ state' = s /\ s \in State
      /\ node' = NextNode(node, s)
      /\ node' \in Nodes \cup {"__END__"} /\ Level(node) + 1 < Level(node')
  BY EndFacts
<1>2. /\ \A t \in Turn \ {turn} :
           /\ TimedOut(t)' = TimedOut(t) /\ Silent(t)' = Silent(t) /\ Cut(t)' = Cut(t)
           /\ Walked(t)' = Walked(t) /\ walk'[t] = walk[t]
      /\ U = T \cup (IF how = "timeout" THEN {node} ELSE {})
      /\ Silent(turn)' <=> Silent(turn) \/ how = "silent"
      /\ Walked(turn)' = W \cup {node}
      /\ Climbs(walk'[turn])
  BY EndFacts
<1>3. /\ W \in SUBSET Nodes /\ T \in SUBSET W /\ T \subseteq DOMAIN FunctionName
      /\ Silent(turn) => "InlineEvaluator" \in W
      /\ Course(W, T) /\ Ahead(W, T, node, state.route)
  <2>1. walk[turn] \in Seq(Nodes)
    BY <1>1 DEF ConformanceType
  <2>2. W \in SUBSET Nodes
    BY <2>1, LenProperties, ElementOfSeq DEF Walked
  <2> QED
    BY <1>1, <2>2 DEF WalkInv
<1>4. U = T \/ (U = T \cup {node} /\ s = Fallback(node))
  BY <1>2 DEF Ends
<1>5. state \in State
  BY DEF ConformanceType
<1> HIDE DEF W, T, U
<1>6. /\ Course(W \cup {node}, U)
      /\ Ahead(W \cup {node}, U, node', s.route)
  BY <1>1, <1>3, <1>4, <1>5, CourseStep DEF Ends
<1>7. node' = "__END__" => Complete(W \cup {node})
  BY <1>6 DEF Ahead
<1>8. node' \in Ended => node' = "__END__"
  BY <1>1, NodeNames DEF Ended
<1>9. \A n \in W \cup {node} : Level(n) < Level(node')
  BY <1>6 DEF Ahead
<1> SUFFICES ASSUME NEW t \in Turn
             PROVE  /\ Climbs(walk'[t]) /\ (t > turn' => walk'[t] = << >>)
                    /\ TimedOut(t)' \subseteq Walked(t)' \cap DOMAIN FunctionName
                    /\ Silent(t)' => "InlineEvaluator" \in Walked(t)'
                    /\ Course(Walked(t)', TimedOut(t)')
                    /\ Closed(t)' /\ ~ Cut(t)' => Complete(Walked(t)')
                    /\ t = turn' => \A n \in Walked(t)' : Level(n) < Level(node')
                    /\ t = turn' /\ node' \in Nodes =>
                         Ahead(Walked(t)', TimedOut(t)', node', state'.route)
  BY DEF WalkInv
<1>10. CASE t = turn
  <2>1. TimedOut(t)' = U /\ Walked(t)' = W \cup {node} /\ walk'[t] = walk'[turn]
    BY <1>1, <1>2, <1>10 DEF TimedOut, U, Walked
  <2>2. Silent(t)' => "InlineEvaluator" \in W \cup {node}
    <3>1. Silent(t)' = Silent(turn)'
      BY <1>1, <1>10 DEF Silent
    <3> QED
      BY <1>2, <1>3, <3>1 DEF Ends
  <2>3. U \subseteq (W \cup {node}) \cap DOMAIN FunctionName
    BY <1>2, <1>3 DEF Ends
  <2>4. Closed(t)' => node' = "__END__"
    BY <1>1, <1>8, <1>10 DEF Closed
  <2> QED
    BY <1>1, <1>2, <1>6, <1>7, <1>9, <1>10, <2>1, <2>2, <2>3, <2>4
<1>11. CASE t # turn
  <2>1. Closed(t)' = Closed(t)
    BY <1>1, <1>11 DEF Closed
  <2> QED
    BY <1>1, <1>2, <1>11, <2>1 DEF WalkInv
<1> QED
  BY <1>10, <1>11

\* The rows a node logs bear its name.
LEMMA RowsLeft ==
  ASSUME NEW n \in Nodes, turn \in Turn, NEW rows \in RowsOf(turn, n)
  PROVE  /\ rows \in Seq(Row) /\ rows # << >>
         /\ \A k \in DOMAIN rows :
              rows[k].op = "node" /\ rows[k].trace = turn /\ rows[k].base = n
<1> DEFINE plain == NodeRow(turn, n, "")
           scored == NodeRow(turn, n, "unified")
<1>1. /\ plain \in Row /\ plain.op = "node" /\ plain.trace = turn /\ plain.base = n
      /\ scored \in Row /\ scored.op = "node" /\ scored.trace = turn /\ scored.base = n
  BY DEF NodeRow, Row, Name
<1>2. \A p, q \in Row :
        /\ <<p>> \in Seq(Row) /\ DOMAIN <<p>> = 1 .. 1 /\ <<p>>[1] = p
        /\ <<p, q>> \in Seq(Row) /\ DOMAIN <<p, q>> = 1 .. 2
        /\ <<p, q>>[1] = p /\ <<p, q>>[2] = q
  OBVIOUS
<1>3. /\ <<scored>> \in Seq(Row) /\ <<plain, plain>> \in Seq(Row) /\ <<plain>> \in Seq(Row)
      /\ DOMAIN <<scored>> = 1 .. 1 /\ DOMAIN <<plain, plain>> = 1 .. 2
      /\ DOMAIN <<plain>> = 1 .. 1
      /\ \A k \in 1 .. 1 : <<scored>>[k] = scored /\ <<plain>>[k] = plain
      /\ \A k \in 1 .. 2 : <<plain, plain>>[k] = plain
  <2> HIDE DEF plain, scored
  <2>1. \A k : (k \in 1 .. 1 => k = 1) /\ (k \in 1 .. 2 => k = 1 \/ k = 2)
    OBVIOUS
  <2> QED
    BY <1>1, <1>2, <2>1
<1>4. ASSUME NEW calls \in 1 .. 2
      PROVE  LET r == [i \in 1 .. calls |-> plain]
             IN  r \in Seq(Row) /\ DOMAIN r = 1 .. calls /\ \A k \in 1 .. calls : r[k] = plain
  <2> HIDE DEF plain
  <2>1. [i \in 1 .. calls |-> plain] \in [1 .. calls -> Row] /\ calls \in Nat
    BY <1>1
  <2> QED
    BY <2>1, SeqDef
<1>5. \/ rows \in {<<scored>>, <<plain>>, <<plain, plain>>}
      \/ \E calls \in 1 .. 2 : rows = [i \in 1 .. calls |-> plain]
  <2>1. CASE n = "SymptomAnalyzer"
    BY <2>1 DEF RowsOf
  <2>2. CASE n = "InlineEvaluator"
    BY <2>2 DEF RowsOf
  <2>3. CASE n = "SafetyExtractor"
    BY <2>3 DEF RowsOf
  <2>4. CASE n \notin {"SymptomAnalyzer", "InlineEvaluator", "SafetyExtractor"}
    BY <2>4 DEF RowsOf
  <2> QED
    BY <2>1, <2>2, <2>3, <2>4
<1>6. CASE rows \in {<<scored>>, <<plain>>, <<plain, plain>>}
  <2> HIDE DEF plain, scored
  <2>1. \A k \in DOMAIN rows : rows[k] = plain \/ rows[k] = scored
    BY <1>3, <1>6
  <2>2. rows \in Seq(Row)
    BY <1>3, <1>6
  <2>3. rows # << >>
    BY <1>6
  <2> QED
    BY <1>1, <2>1, <2>2, <2>3
<1>7. CASE \E calls \in 1 .. 2 : rows = [i \in 1 .. calls |-> plain]
  <2> HIDE DEF plain, scored
  <2>1. PICK calls \in 1 .. 2 : rows = [i \in 1 .. calls |-> plain]
    BY <1>7
  <2>2. rows \in Seq(Row) /\ DOMAIN rows = 1 .. calls /\ \A k \in 1 .. calls : rows[k] = plain
    BY <1>4, <2>1
  <2>3. rows # << >>
    BY <2>2
  <2> QED
    BY <1>1, <2>2, <2>3
<1> QED
  BY <1>5, <1>6, <1>7

\* The row of the edge behind a node is no node's.
LEMMA EdgeLeft ==
  ASSUME turn \in Turn
  PROVE  LET edge == IF node \in DOMAIN EdgeName THEN <<EdgeRow(turn, node)>> ELSE << >>
         IN  /\ edge \in Seq(Row)
             /\ \A k \in DOMAIN edge : edge[k].op = "edge_decision" /\ edge[k].trace = turn
<1>1. CASE node \in DOMAIN EdgeName
  <2> DEFINE r == EdgeRow(turn, node)
  <2>1. r \in Row /\ r.op = "edge_decision" /\ r.trace = turn
    BY <1>1 DEF EdgeRow, Row
  <2>2. <<r>> \in Seq(Row) /\ DOMAIN <<r>> = {1} /\ <<r>>[1] = r
    BY <2>1
  <2> QED
    BY <1>1, <2>1, <2>2
<1>2. CASE node \notin DOMAIN EdgeName
  BY <1>2
<1> QED
  BY <1>1, <1>2

\* A node that ends adds one name to those its turn left, or none.
LEMMA EndLeaves ==
  ASSUME ConformanceInv, node \in Nodes, NEW s, NEW rows, NEW b,
         NEW how \in {"ran", "timeout", "silent"}, Ends(s, rows, b, how)
  PROVE  Left(turn)' = Left(turn) \cup (IF how = "silent" THEN {} ELSE {b})
<1> USE DEF ConformanceInv
<1>1. /\ turn \in Turn /\ turn' = turn /\ node \notin Walked(turn)
      /\ TimedOut(turn)' = TimedOut(turn) \cup (IF how = "timeout" THEN {node} ELSE {})
      /\ Silent(turn)' <=> Silent(turn) \/ how = "silent"
      /\ Walked(turn)' = Walked(turn) \cup {node}
  BY EndFacts
<1>2. /\ TimedOut(turn) \subseteq Walked(turn)
      /\ Silent(turn) => "InlineEvaluator" \in Walked(turn)
  BY <1>1 DEF WalkInv
<1>3. Left(turn)' =
        {n \in Walked(turn)' :
           n \notin TimedOut(turn)' /\ ~ (n = "InlineEvaluator" /\ Silent(turn)')}
        \cup {FunctionName[n] : n \in TimedOut(turn)'}
  BY <1>1 DEF Left, Seen
<1>4. CASE how = "ran"
  BY <1>1, <1>2, <1>3, <1>4 DEF Left, Seen, Ends
<1>5. CASE how = "timeout"
  BY <1>1, <1>2, <1>3, <1>5 DEF Left, Seen, Ends
<1>6. CASE how = "silent"
  BY <1>1, <1>2, <1>3, <1>6 DEF Left, Seen, Ends
<1> QED
  BY <1>4, <1>5, <1>6

\* The records still tell the names when a node ends.
LEMMA EndLogs ==
  ASSUME ConformanceInv, node \in Nodes, NEW s, NEW rows \in Seq(Row), NEW b,
         NEW how \in {"ran", "timeout", "silent"}, Ends(s, rows, b, how)
  PROVE  records' \in Seq(Row) /\ LogInv'
<1> USE DEF ConformanceInv
<1> DEFINE edge == IF node \in DOMAIN EdgeName THEN <<EdgeRow(turn, node)>> ELSE << >>
           more == rows \o edge
<1>1. /\ turn \in Turn /\ turn \in Nat /\ turn' = turn /\ Level(node) + 1 < Level(node')
      /\ \A t \in Turn \ {turn} : Left(t)' = Left(t)
      /\ records \in Seq(Row)
  BY EndFacts DEF ConformanceType
<1>2. Left(turn)' = Left(turn) \cup (IF how = "silent" THEN {} ELSE {b})
  BY EndLeaves
<1>3. /\ edge \in Seq(Row)
      /\ \A k \in DOMAIN edge : edge[k].op = "edge_decision" /\ edge[k].trace = turn
  BY <1>1, EdgeLeft
<1>4. records' = (records \o rows) \o edge
  BY DEF Ends, Ran
<1> HIDE DEF edge
<1>5. records' = records \o more
  BY <1>1, <1>3, <1>4, ConcatAssociative
<1>6. /\ more \in Seq(Row)
      /\ \A k \in DOMAIN more :
           more[k].trace = turn /\ (more[k].op = "node" => more[k].base = b)
      /\ how # "silent" => \E k \in DOMAIN more : more[k].op = "node" /\ more[k].base = b
  <2> DEFINE l == Len(rows)
             m == Len(edge)
  <2>1. /\ l \in Nat /\ DOMAIN rows = 1 .. l /\ m \in Nat /\ DOMAIN edge = 1 .. m
        /\ more \in Seq(Row) /\ Len(more) = l + m
        /\ \A k \in 1 .. l + m : more[k] = IF k <= l THEN rows[k] ELSE edge[k - l]
    BY <1>3, LenProperties, ConcatProperties
  <2>2. DOMAIN more = 1 .. l + m
    BY <2>1, LenProperties
  <2>3. how # "silent" => l > 0
    <3>1. how # "silent" => rows # << >>
      BY DEF Ends
    <3>2. rows # << >> => l # 0
      BY EmptySeq
    <3> QED
      BY <2>1, <3>1, <3>2
  <2> HIDE DEF l, m, more
  <2>4. \A k \in 1 .. l : rows[k].op = "node" /\ rows[k].trace = turn /\ rows[k].base = b
    BY <2>1 DEF Ends
  <2>5. ASSUME NEW k \in 1 .. l + m
        PROVE  \/ k \in 1 .. l /\ more[k] = rows[k]
               \/ k - l \in 1 .. m /\ more[k] = edge[k - l]
    BY <2>1
  <2>6. ASSUME how # "silent"
        PROVE  1 \in 1 .. l + m /\ 1 \in 1 .. l /\ more[1] = rows[1]
    BY <2>1, <2>3, <2>6
  <2>7. ASSUME NEW k \in 1 .. l + m
        PROVE  more[k].trace = turn /\ (more[k].op = "node" => more[k].base = b)
    <3>1. CASE k \in 1 .. l /\ more[k] = rows[k]
      BY <2>4, <3>1
    <3>2. CASE k - l \in 1 .. m /\ more[k] = edge[k - l]
      <4>1. edge[k - l].op = "edge_decision" /\ edge[k - l].trace = turn
        BY <1>3, <2>1, <3>2
      <4> QED
        BY <3>2, <4>1
    <3> QED
      BY <2>5, <3>1, <3>2
  <2>8. ASSUME how # "silent"
        PROVE  \E k \in 1 .. l + m : more[k].op = "node" /\ more[k].base = b
    BY <2>4, <2>6, <2>8
  <2> QED
    BY <2>1, <2>2, <2>7, <2>8
<1> HIDE DEF more
<1>7. /\ records' \in Seq(Row)
      /\ \A i \in DOMAIN records : i \in DOMAIN records' /\ records'[i] = records[i]
      /\ \A i \in DOMAIN records' : i \notin DOMAIN records =>
           /\ \A j \in DOMAIN records : j < i
           /\ \E k \in DOMAIN more : records'[i] = more[k]
      /\ NodeRows \subseteq NodeRows'
      /\ \A i \in NodeRows' \ NodeRows :
           /\ i \notin DOMAIN records
           /\ records'[i].trace = turn /\ records'[i].base = b
      /\ \A k \in DOMAIN more : more[k].op = "node" => \E i \in NodeRows' : records'[i] = more[k]
  <2>1. \A k \in DOMAIN more :
          more[k].op = "node" => more[k].trace = turn /\ more[k].base = b
    BY <1>6
  <2>2. more \in Seq(Row) /\ records \in Seq(Row) /\ turn \in Nat
    BY <1>1, <1>6
  <2> QED
    BY <1>5, <2>1, <2>2, RowsLogged
<1>8. NodeRows \subseteq DOMAIN records /\ NodeRows' \subseteq DOMAIN records'
  BY DEF NodeRows
<1>9. /\ Level(node) <= Level(b) /\ Level(b) < Level(node')
      /\ Level(node) \in Nat /\ Level(b) \in Nat /\ Level(node') \in Nat
  <2>1. Level(b) = Level(node) \/ Level(b) = Level(node) + 1
    <3>1. how = "timeout" => node \in DOMAIN FunctionName /\ b = FunctionName[node]
      BY DEF Ends
    <3>2. how # "timeout" => b = node
      BY DEF Ends
    <3>3. node \in DOMAIN FunctionName => Level(FunctionName[node]) = Level(node) + 1
      BY TimedNodes, FunctionNamesAre, Levels
    <3> QED
      BY <3>1, <3>2, <3>3
  <2> QED
    BY <1>1, <2>1, LevelsDiffer
<1>10. \A i \in DOMAIN records' : records'[i].trace \in 1 .. turn'
  <2> TAKE i \in DOMAIN records'
  <2>1. CASE i \in DOMAIN records
    BY <1>1, <1>7, <2>1 DEF LogInv
  <2>2. CASE i \notin DOMAIN records
    BY <1>1, <1>6, <1>7, <2>2 DEF Turn
  <2> QED
    BY <2>1, <2>2
<1>11. ASSUME NEW i \in NodeRows', NEW j \in NodeRows', i < j
       PROVE  /\ records'[i].trace <= records'[j].trace
              /\ records'[i].trace = records'[j].trace =>
                   Level(records'[i].base) <= Level(records'[j].base)
  <2>1. CASE j \in NodeRows
    <3>1. i \in NodeRows
      <4>1. i \in DOMAIN records
        <5>1. i \in Nat /\ j \in Nat
          BY <1>1, <1>7, <1>8, LenProperties
        <5> QED
          BY <1>7, <1>8, <1>11, <2>1, <5>1
      <4> QED
        BY <1>7, <4>1
    <3> QED
      BY <1>7, <1>8, <1>11, <2>1, <3>1 DEF LogInv
  <2>2. CASE j \notin NodeRows
    <3>1. records'[j].trace = turn /\ records'[j].base = b
      BY <1>7, <2>2
    <3>2. CASE i \in NodeRows
      <4>1. /\ records'[i] = records[i] /\ records[i].trace \in 1 .. turn
            /\ records[i].trace = turn => Level(records[i].base) < Level(node)
        BY <1>7, <1>8, <3>2 DEF LogInv
      <4> QED
        BY <1>1, <1>9, <3>1, <4>1, LevelsDiffer
    <3>3. CASE i \notin NodeRows
      <4>1. records'[i].trace = turn /\ records'[i].base = b
        BY <1>7, <3>3
      <4> QED
        BY <1>1, <1>9, <3>1, <4>1
    <3> QED
      BY <3>2, <3>3
  <2> QED
    BY <2>1, <2>2
<1>12. ASSUME NEW i \in NodeRows', records'[i].trace = turn'
       PROVE  Level(records'[i].base) < Level(node')
  <2>1. CASE i \in NodeRows
    <3>1. Level(records'[i].base) < Level(node)
      BY <1>1, <1>7, <1>8, <1>12, <2>1 DEF LogInv
    <3> QED
      BY <1>9, <3>1, LevelsDiffer
  <2>2. CASE i \notin NodeRows
    BY <1>7, <1>9, <2>2
  <2> QED
    BY <2>1, <2>2
<1>13. ASSUME NEW t \in Turn
       PROVE  /\ \A i \in NodeRows' : records'[i].trace = t => records'[i].base \in Left(t)'
              /\ \A n \in Left(t)' :
                   \E i \in NodeRows' : records'[i].trace = t /\ records'[i].base = n
  <2>1. /\ \A i \in NodeRows : records[i].trace = t => records[i].base \in Left(t)
        /\ \A n \in Left(t) : \E i \in NodeRows : records[i].trace = t /\ records[i].base = n
    BY DEF LogInv
  <2>2. \A i \in NodeRows : i \in NodeRows' /\ records'[i] = records[i]
    BY <1>7, <1>8
  <2>3. how = "silent" => NodeRows' = NodeRows
    <3> SUFFICES ASSUME how = "silent", NEW i \in NodeRows', i \notin NodeRows PROVE FALSE
      BY <1>7
    <3>1. PICK k \in DOMAIN more : records'[i] = more[k]
      BY <1>7, <1>8
    <3>2. more = edge
      <4>1. rows = << >>
        BY DEF Ends
      <4> QED
        BY <1>3, <4>1, ConcatEmptySeq DEF more
    <3> QED
      BY <1>3, <3>1, <3>2 DEF NodeRows
  <2>4. CASE t # turn
    <3>1. Left(t)' = Left(t)
      BY <1>1, <2>4
    <3>2. \A i \in NodeRows' : records'[i].trace = t => i \in NodeRows
      BY <1>7, <2>4
    <3> QED
      BY <2>1, <2>2, <3>1, <3>2
  <2>5. CASE t = turn
    <3>1. Left(t)' = Left(t) \cup (IF how = "silent" THEN {} ELSE {b})
      <4>1. Left(t)' = Left(turn)'
        BY <1>1, <2>5 DEF Left, Seen, Walked, TimedOut, Silent
      <4> QED
        BY <1>2, <2>5, <4>1
    <3>2. how # "silent" =>
            \E i \in NodeRows' : records'[i].trace = t /\ records'[i].base = b
      BY <1>6, <1>7, <2>5
    <3>3. CASE how = "silent"
      BY <2>1, <2>2, <2>3, <3>1, <3>3
    <3>4. CASE how # "silent"
      <4>1. Left(t)' = Left(t) \cup {b}
        BY <3>1, <3>4
      <4>2. \A i \in NodeRows' : i \in NodeRows \/ records'[i].base = b
        BY <1>7
      <4> QED
        BY <2>1, <2>2, <3>2, <3>4, <4>1, <4>2
    <3> QED
      BY <3>3, <3>4
  <2> QED
    BY <2>4, <2>5
<1> QED
  BY <1>7, <1>10, <1>11, <1>12, <1>13 DEF LogInv

\* All of the invariant holds when a node ends.
LEMMA EndStep ==
  ASSUME ConformanceInv, node \in Nodes, NEW s, NEW rows \in Seq(Row), NEW b,
         NEW how \in {"ran", "timeout", "silent"}, Ends(s, rows, b, how)
  PROVE  ConformanceInv'
<1>1. /\ turn \in Turn /\ turn \in Nat /\ turn' = turn /\ state' = s /\ s \in State
      /\ node' \in Nodes \cup {"__END__"} /\ walk' \in [Turn -> Seq(Nodes)]
  BY EndFacts
<1>2. records' \in Seq(Row) /\ LogInv'
  BY EndLogs
<1>3. WalkInv'
  BY EndWalks
<1>4. mishaps' \subseteq (1 .. turn') \X Nodes \X Mishap
  <2>1. how # "ran" => <<turn, node, how>> \in (1 .. turn) \X Nodes \X Mishap
    <3>1. turn \in 1 .. turn
      BY <1>1, TypeFacts DEF Turn
    <3>2. how # "ran" => how \in Mishap
      BY DEF Mishap
    <3> QED
      BY <3>1, <3>2
  <2>2. mishaps \subseteq (1 .. turn) \X Nodes \X Mishap
    BY DEF ConformanceInv, ConformanceType
  <2>3. mishaps' = mishaps \/ (how # "ran" /\ mishaps' = mishaps \cup {<<turn, node, how>>})
    BY DEF Ends
  <2> QED
    BY <1>1, <2>1, <2>2, <2>3
<1>5. turn' \in 0 .. MaxTurns /\ turn' # 0 /\ node' \in Nodes \cup Ended
  BY <1>1 DEF ConformanceInv, ConformanceType, Turn, Ended
<1>6. ConformanceType'
  BY <1>1, <1>2, <1>4, <1>5 DEF ConformanceType
<1> QED
  BY <1>2, <1>3, <1>6 DEF ConformanceInv

\* A node that runs ends by its result.
LEMMA RunStep ==
  ASSUME ConformanceInv, Run
  PROVE  ConformanceInv'
<1>1. node \in Nodes /\ turn \in Turn
  BY TypeFacts DEF Run, ConformanceInv
<1>2. PICK s \in StatesAfter(node), rows \in RowsOf(turn, node) : Ran(s, rows)
  BY DEF Run
<1>3. /\ rows \in Seq(Row) /\ rows # << >>
      /\ \A k \in DOMAIN rows :
           rows[k].op = "node" /\ rows[k].trace = turn /\ rows[k].base = node
  BY <1>1, RowsLeft
<1>4. Ends(s, rows, node, "ran")
  BY <1>2, <1>3 DEF Ends, Run
<1> QED
  BY <1>1, <1>3, <1>4, EndStep

\* A node that times out ends under its function's name.
LEMMA TimeOutStep ==
  ASSUME ConformanceInv, TimeOut
  PROVE  ConformanceInv'
<1> DEFINE row == NodeRow(turn, FunctionName[node], "")
<1>1. node \in Nodes /\ node \in DOMAIN FunctionName
  BY TimedNodes, NodeNames DEF TimeOut
<1>2. turn \in Turn
  BY <1>1, TypeFacts DEF ConformanceInv
<1>3. /\ row \in Row /\ row.op = "node" /\ row.trace = turn /\ row.base = FunctionName[node]
  <2>1. FunctionName[node] \in Name
    BY <1>1, TimedNodes, FunctionNamesAre DEF Name, FunctionNames
  <2> QED
    BY <1>2, <2>1 DEF NodeRow, Row
<1>4. Ran(Fallback(node), <<row>>) /\ mishaps' = mishaps \cup {<<turn, node, "timeout">>}
  BY DEF TimeOut
<1> HIDE DEF row
<1>5. <<row>> \in Seq(Row) /\ <<row>> # << >> /\ \A k \in DOMAIN <<row>> : <<row>>[k] = row
  BY <1>3
<1>6. Ends(Fallback(node), <<row>>, FunctionName[node], "timeout")
  BY <1>1, <1>3, <1>4, <1>5 DEF Ends
<1> QED
  BY <1>1, <1>5, <1>6, EndStep

\* An evaluator with nothing to score ends in silence.
LEMMA SkipStep ==
  ASSUME ConformanceInv, SkipEvaluation
  PROVE  ConformanceInv'
<1>1. node = "InlineEvaluator" /\ node \in Nodes
  BY NodeNames DEF SkipEvaluation
<1>2. state \in StatesAfter(node)
  BY <1>1 DEF StatesAfter
<1>3. << >> \in Seq(Row) /\ DOMAIN << >> = {}
  BY EmptySeq
<1>4. Ran(state, << >>) /\ mishaps' = mishaps \cup {<<turn, node, "silent">>}
  BY <1>1 DEF SkipEvaluation
<1>5. Ends(state, << >>, node, "silent")
  BY <1>1, <1>2, <1>3, <1>4 DEF Ends
<1> QED
  BY <1>1, <1>3, <1>5, EndStep

\* Every step keeps the invariant.
LEMMA ConformanceStep == ConformanceInv /\ [ConformanceNext]_conformanceVars => ConformanceInv'
<1> SUFFICES ASSUME ConformanceInv, [ConformanceNext]_conformanceVars
             PROVE  ConformanceInv'
  OBVIOUS
<1>1. CASE UNCHANGED conformanceVars
  <2>1. /\ turn' = turn /\ node' = node /\ state' = state /\ records' = records
        /\ walk' = walk /\ mishaps' = mishaps
    BY <1>1 DEF conformanceVars
  <2>2. ConformanceType'
    BY <2>1 DEF ConformanceInv, ConformanceType
  <2>3. WalkInv'
    <3>1. \A t \in Turn : /\ Walked(t)' = Walked(t) /\ TimedOut(t)' = TimedOut(t)
                          /\ Silent(t)' = Silent(t) /\ Cut(t)' = Cut(t) /\ Closed(t)' = Closed(t)
      BY <2>1 DEF Walked, TimedOut, Silent, Cut, Closed
    <3> QED
      BY <2>1, <3>1 DEF ConformanceInv, WalkInv
  <2>4. LogInv'
    <3>1. NodeRows' = NodeRows /\ \A t \in Turn : Left(t)' = Left(t)
      BY <2>1 DEF NodeRows, Left, Seen, Walked, TimedOut, Silent
    <3> QED
      BY <2>1, <3>1 DEF ConformanceInv, LogInv
  <2> QED
    BY <2>2, <2>3, <2>4 DEF ConformanceInv
<1> QED
  BY <1>1, StartStep, RunStep, TimeOutStep, SkipStep, AbandonStep, DispatchStep
     DEF ConformanceNext

\* Of a thread of any number of turns and mishaps, what each turn left among the records.
THEOREM RecordsTellNames == ConformanceSpec => []ConformanceInv
BY StartsClean, ConformanceStep, PTL DEF ConformanceSpec

(***************************************************************************)
(* What a replay of those names shows.                                     *)
(***************************************************************************)

\* A complete turn that left all its names conforms.
LEMMA CompleteConforms ==
  ASSUME NEW W \in SUBSET Nodes, NEW T, Course(W, T), Complete(W), NEW s \in Ladder(W)
  PROVE  Permitted(s)
<1> DEFINE a == s[1]
           b == s[2]
<1>1. /\ a \in W \cup {"__START__"} /\ b \in W \cup {"__END__"} /\ s = <<a, b>>
      /\ Level(a) < Level(b)
      /\ \A n \in W : ~ (Level(a) < Level(n) /\ Level(n) < Level(b))
  BY DEF Ladder
<1> HIDE DEF a, b
<1>2. b \in Nodes \cup {"__END__"} /\ a \in Nodes \cup {"__START__"}
  BY <1>1
<1>3. \A n \in W : Level(n) <= Level(a) \/ Level(b) <= Level(n)
  BY <1>1, LevelsDiffer
<1>4. CASE a = "__START__"
  BY <1>1, <1>2, <1>3, <1>4, PermittedSteps, Levels, NodeNames DEF Course, Complete
<1>5. CASE a = "IntentRouter"
  BY <1>1, <1>2, <1>3, <1>5, PermittedSteps, Levels, NodeNames DEF Course, Complete
<1>6. CASE a = "UnsafeMethodGate"
  BY <1>1, <1>2, <1>3, <1>6, PermittedSteps, Levels, NodeNames DEF Course, Complete
<1>7. CASE a = "DeterministicRuleChecker"
  BY <1>1, <1>2, <1>3, <1>7, PermittedSteps, Levels, NodeNames DEF Course, Complete
<1>8. CASE a = "SymptomAnalyzer"
  BY <1>1, <1>2, <1>3, <1>8, PermittedSteps, Levels, NodeNames DEF Course, Complete
<1>9. CASE a = "DirectReplacementAnalyzer"
  BY <1>1, <1>2, <1>3, <1>9, PermittedSteps, Levels, NodeNames DEF Course, Complete
<1>10. CASE a = "KnowledgeRetriever"
  BY <1>1, <1>2, <1>3, <1>10, PermittedSteps, Levels, NodeNames DEF Course, Complete
<1>11. CASE a = "RootCauseAnalyzer"
  BY <1>1, <1>2, <1>3, <1>11, PermittedSteps, Levels, NodeNames DEF Course, Complete
<1>12. CASE a = "SafetyExtractor"
  BY <1>1, <1>2, <1>3, <1>12, PermittedSteps, Levels, NodeNames DEF Course, Complete
<1>13. CASE a = "RepairPlanner"
  BY <1>1, <1>2, <1>3, <1>13, PermittedSteps, Levels, NodeNames DEF Course, Complete
<1>14. CASE a = "SafetyJudgeGate"
  BY <1>1, <1>2, <1>3, <1>14, PermittedSteps, Levels, NodeNames DEF Course, Complete
<1>15. CASE a = "FollowUpResponder"
  BY <1>1, <1>2, <1>3, <1>15, PermittedSteps, Levels, NodeNames DEF Course, Complete
<1>16. CASE a = "InlineEvaluator"
  BY <1>1, <1>2, <1>3, <1>16, PermittedSteps, Levels, NodeNames DEF Course, Complete
<1> QED
  BY <1>2, NodeNames, <1>4, <1>5, <1>6, <1>7, <1>8, <1>9, <1>10, <1>11, <1>12, <1>13,
     <1>14, <1>15, <1>16

\* A transition nobody took is credited only over a name that is missing.
LEMMA GapsHide ==
  ASSUME NEW W \in SUBSET Nodes, NEW T \in SUBSET W, NEW S \in SUBSET W, Course(W, T),
         T \subseteq DOMAIN FunctionName,
         \A n \in W \ S : n \in T \/ n = "InlineEvaluator",
         NEW s \in Ladder(S), Permitted(s), s \notin Ladder(W)
  PROVE  \/ s = <<"IntentRouter", "DeterministicRuleChecker">> /\ "UnsafeMethodGate" \in W \ S
         \/ s = <<"KnowledgeRetriever", "SafetyExtractor">> /\ "RootCauseAnalyzer" \in W \ S
         \/ s = <<"SafetyJudgeGate", "__END__">> /\ "InlineEvaluator" \in W \ S
<1> DEFINE a == s[1]
           b == s[2]
<1>1. /\ a \in S \cup {"__START__"} /\ b \in S \cup {"__END__"} /\ s = <<a, b>>
      /\ Level(a) < Level(b)
      /\ \A n \in S : ~ (Level(a) < Level(n) /\ Level(n) < Level(b))
  BY DEF Ladder
<1>2. PICK n \in W : Level(a) < Level(n) /\ Level(n) < Level(b)
  BY <1>1 DEF Ladder
<1> HIDE DEF a, b
<1>3. n \in W \ S /\ n \in Nodes
  BY <1>1, <1>2
<1>4. n \in DOMAIN FunctionName \/ n = "InlineEvaluator"
  BY <1>3
<1>5. \A m \in W : m \notin DOMAIN FunctionName /\ m # "InlineEvaluator" => m \in S
  OBVIOUS
<1>6. \A m \in W : m \notin DOMAIN FunctionName /\ m # "InlineEvaluator" =>
        Level(m) <= Level(a) \/ Level(b) <= Level(m)
  BY <1>1, <1>5, LevelsDiffer
<1>7. Permitted(<<a, b>>)
  BY <1>1
<1>8. a \in W \cup {"__START__"} /\ b \in W \cup {"__END__"}
  BY <1>1
<1>9. CASE a = "__START__"
  BY <1>1, <1>2, <1>3, <1>4, <1>6, <1>7, <1>8, <1>9, PermittedSteps, Levels, NodeNames,
     TimedNodes DEF Course
<1>10. CASE a = "IntentRouter"
  BY <1>1, <1>2, <1>3, <1>4, <1>6, <1>7, <1>8, <1>10, PermittedSteps, Levels, NodeNames,
     TimedNodes DEF Course
<1>11. CASE a = "UnsafeMethodGate"
  BY <1>1, <1>2, <1>3, <1>4, <1>6, <1>7, <1>8, <1>11, PermittedSteps, Levels, NodeNames,
     TimedNodes DEF Course
<1>12. CASE a = "DeterministicRuleChecker"
  BY <1>1, <1>2, <1>3, <1>4, <1>6, <1>7, <1>8, <1>12, PermittedSteps, Levels, NodeNames,
     TimedNodes DEF Course
<1>13. CASE a = "SymptomAnalyzer"
  BY <1>1, <1>2, <1>3, <1>4, <1>6, <1>7, <1>8, <1>13, PermittedSteps, Levels, NodeNames,
     TimedNodes DEF Course
<1>14. CASE a = "DirectReplacementAnalyzer"
  BY <1>1, <1>2, <1>3, <1>4, <1>6, <1>7, <1>8, <1>14, PermittedSteps, Levels, NodeNames,
     TimedNodes DEF Course
<1>15. CASE a = "KnowledgeRetriever"
  BY <1>1, <1>2, <1>3, <1>4, <1>6, <1>7, <1>8, <1>15, PermittedSteps, Levels, NodeNames,
     TimedNodes DEF Course
<1>16. CASE a = "RootCauseAnalyzer"
  BY <1>1, <1>2, <1>3, <1>4, <1>6, <1>7, <1>8, <1>16, PermittedSteps, Levels, NodeNames,
     TimedNodes DEF Course
<1>17. CASE a = "SafetyExtractor"
  BY <1>1, <1>2, <1>3, <1>4, <1>6, <1>7, <1>8, <1>17, PermittedSteps, Levels, NodeNames,
     TimedNodes DEF Course
<1>18. CASE a = "RepairPlanner"
  BY <1>1, <1>2, <1>3, <1>4, <1>6, <1>7, <1>8, <1>18, PermittedSteps, Levels, NodeNames,
     TimedNodes DEF Course
<1>19. CASE a = "SafetyJudgeGate"
  BY <1>1, <1>2, <1>3, <1>4, <1>6, <1>7, <1>8, <1>19, PermittedSteps, Levels, NodeNames,
     TimedNodes DEF Course
<1>20. CASE a = "FollowUpResponder"
  BY <1>1, <1>2, <1>3, <1>4, <1>6, <1>7, <1>8, <1>20, PermittedSteps, Levels, NodeNames,
     TimedNodes DEF Course
<1>21. CASE a = "InlineEvaluator"
  BY <1>1, <1>2, <1>3, <1>4, <1>6, <1>7, <1>8, <1>21, PermittedSteps, Levels, NodeNames,
     TimedNodes DEF Course
<1> QED
  BY <1>8, NodeNames,
     <1>9, <1>10, <1>11, <1>12, <1>13, <1>14, <1>15, <1>16, <1>17, <1>18, <1>19, <1>20, <1>21

\* A turn with a timeout conforms only if it can do without the node.
LEMMA TimeoutsConform ==
  ASSUME NEW W \in SUBSET Nodes, NEW T \in SUBSET W, NEW S \in SUBSET W, Course(W, T),
         T \subseteq DOMAIN FunctionName, T \cap S = {},
         \A n \in W \ S : n \in T \/ n = "InlineEvaluator",
         \A s \in Ladder(S) : Permitted(s)
  PROVE  T \subseteq {"UnsafeMethodGate", "RootCauseAnalyzer", "InlineEvaluator"}
<1>1. S \in SUBSET Name
  BY DEF Name
<1>2. ASSUME NEW a \in S \cup {"__START__"}
      PROVE  /\ a = "__START__" => "IntentRouter" \in S
             /\ a = "IntentRouter" =>
                  \/ "UnsafeMethodGate" \in S \/ "DeterministicRuleChecker" \in S
                  \/ "FollowUpResponder" \in S
             /\ a = "UnsafeMethodGate" =>
                  "DeterministicRuleChecker" \in S \/ "FollowUpResponder" \in S
             /\ a \in {"SymptomAnalyzer", "DirectReplacementAnalyzer"} =>
                  "KnowledgeRetriever" \in S
             /\ a = "SafetyExtractor" => "RepairPlanner" \in S
  <2>1. PICK b \in S \cup {"__END__"} : <<a, b>> \in Ladder(S)
    BY <1>1, NextRung
  <2>2. Permitted(<<a, b>>)
    BY <2>1
  <2> QED
    BY <2>1, <2>2, PermittedSteps, NodeNames
<1>3. ASSUME NEW m \in W, m \notin DOMAIN FunctionName, m # "InlineEvaluator"
      PROVE  m \in S
  BY <1>3
<1>4. "IntentRouter" \notin T
  BY <1>2
<1>5. "KnowledgeRetriever" \notin T
  <2> SUFFICES ASSUME "KnowledgeRetriever" \in T PROVE FALSE
    OBVIOUS
  <2>1. "SymptomAnalyzer" \in S \/ "DirectReplacementAnalyzer" \in S
    BY <1>3, TimedNodes DEF Course
  <2> QED
    BY <1>2, <2>1
<1>6. "RepairPlanner" \notin T
  <2> SUFFICES ASSUME "RepairPlanner" \in T PROVE FALSE
    OBVIOUS
  <2>1. "SafetyExtractor" \in S
    BY <1>3, TimedNodes DEF Course
  <2> QED
    BY <1>2, <2>1
<1>7. "FollowUpResponder" \notin T
  <2> SUFFICES ASSUME "FollowUpResponder" \in T PROVE FALSE
    OBVIOUS
  <2>1. /\ W \subseteq {"IntentRouter", "UnsafeMethodGate", "FollowUpResponder",
                        "InlineEvaluator"}
        /\ "UnsafeMethodGate" \notin T /\ "IntentRouter" \in W
    BY DEF Course
  <2>2. "IntentRouter" \in S /\ S \subseteq {"IntentRouter", "UnsafeMethodGate", "InlineEvaluator"}
    BY <1>4, <2>1
  <2>3. "UnsafeMethodGate" \in S
    BY <1>2, <2>2
  <2> QED
    BY <1>2, <2>2, <2>3
<1> QED
  BY <1>4, <1>5, <1>6, <1>7, TimedNodes

\* A turn: what it walked, what timed out, what the auditor sees of it.
LEMMA TurnFacts ==
  ASSUME ConformanceInv, NEW t \in Turn
  PROVE  /\ Walked(t) \in SUBSET Nodes
         /\ TimedOut(t) \in SUBSET Walked(t) /\ TimedOut(t) \subseteq DOMAIN FunctionName
         /\ Seen(t) \in SUBSET Walked(t) /\ TimedOut(t) \cap Seen(t) = {}
         /\ \A n \in Walked(t) \ Seen(t) :
              n \in TimedOut(t) \/ (n = "InlineEvaluator" /\ Silent(t))
         /\ Course(Walked(t), TimedOut(t))
         /\ Closed(t) /\ ~ Cut(t) => Complete(Walked(t))
         /\ walk[t] \in Seq(Nodes) /\ Climbs(walk[t])
         /\ Took(t) = {s \in Ladder(Walked(t)) : Cut(t) => s[2] # "__END__"}
         /\ Walked(t) # {} => t \in 1 .. turn /\ walk[t] # << >>
<1>1. walk[t] \in Seq(Nodes) /\ Climbs(walk[t]) /\ turn \in Nat
  BY TypeFacts DEF ConformanceInv, ConformanceType, WalkInv
<1>2. Walked(t) \in SUBSET Nodes
  BY <1>1, LenProperties, ElementOfSeq DEF Walked
<1>3. Took(t) = {s \in Ladder(Walked(t)) : Cut(t) => s[2] # "__END__"}
  BY <1>1, LadderOfWalk
<1>4. Walked(t) # {} => t \in 1 .. turn /\ walk[t] # << >>
  <2>1. walk[t] = << >> => Walked(t) = {}
    BY DEF Walked
  <2>2. t > turn => walk[t] = << >>
    BY DEF ConformanceInv, WalkInv
  <2> QED
    BY <1>1, <2>1, <2>2 DEF Turn
<1> QED
  BY <1>1, <1>2, <1>3, <1>4 DEF Seen, ConformanceInv, WalkInv

\* A function's name is not a node's.
LEMMA NodesAreNames == Nodes \subseteq Name /\ FunctionNames \cap Nodes = {}
BY NodeNames DEF Name, FunctionNames

\* The rows a turn left: their names are those left, and rise.
LEMMA RowsFacts ==
  ASSUME ConformanceInv
  PROVE  /\ Len(records) \in Nat /\ DOMAIN records = 1 .. Len(records)
         /\ NodeRows \in SUBSET (1 .. Len(records))
         /\ \A i \in NodeRows : /\ records[i].base \in Name /\ records[i].trace \in 1 .. turn
                                /\ records[i].trace \in Turn
<1>1. records \in Seq(Row)
  BY DEF ConformanceInv, ConformanceType
<1>2. Len(records) \in Nat /\ DOMAIN records = 1 .. Len(records)
  BY <1>1, LenProperties
<1>3. \A i \in DOMAIN records : records[i] \in Row
  BY <1>1, <1>2, ElementOfSeq
<1> QED
  BY <1>2, <1>3 DEF NodeRows, Row, ConformanceInv, LogInv

\* The auditor's replay of a trace is decided by the nodes it sees.
LEMMA TraceTold ==
  ASSUME ConformanceInv, NEW t \in Turn
  PROVE  /\ Replayed(t) = Ladder(Seen(t))
         /\ t \in Traces <=> Seen(t) # {}
<1> DEFINE rows == TraceRows(t)
           n == Len(records)
<1>1. rows = {i \in NodeRows : records[i].trace = t /\ records[i].base \in Nodes}
  BY DEF TraceRows, NodeRows
<1>2. /\ n \in Nat /\ DOMAIN records = 1 .. n /\ rows \in SUBSET (1 .. n)
      /\ \A i \in rows : records[i].base \in Name
  BY <1>1, RowsFacts
<1>3. Rising(rows)
  BY <1>1 DEF Rising, ConformanceInv, LogInv
<1>4. {records[i].base : i \in rows} = Seen(t)
  <2>1. /\ \A i \in NodeRows : records[i].trace = t => records[i].base \in Left(t)
        /\ \A m \in Left(t) : \E i \in NodeRows : records[i].trace = t /\ records[i].base = m
    BY DEF ConformanceInv, LogInv
  <2>2. \A m \in Left(t) : m \in Nodes <=> m \in Seen(t)
    <3>1. \A m \in TimedOut(t) : FunctionName[m] \notin Nodes
      BY TurnFacts, TimedNodes, FunctionNamesAre, NodesAreNames DEF FunctionNames
    <3>2. Seen(t) \subseteq Nodes
      BY TurnFacts
    <3> QED
      BY <3>1, <3>2 DEF Left
  <2>3. Seen(t) \subseteq Left(t) /\ Seen(t) \subseteq Nodes
    BY TurnFacts DEF Left
  <2> QED
    BY <1>1, <2>1, <2>2, <2>3
<1>5. NamesOf(rows) = Seen(t)
  <2>1. \A i \in rows : NameAt(i) = records[i].base
    BY <1>2 DEF NameAt
  <2> QED
    BY <1>4, <2>1 DEF NamesOf
<1>6. Replayed(t) = Ladder(NamesOf(rows))
  BY <1>2, <1>3, LadderOfRows DEF Replayed
<1>7. rows # {} <=> Seen(t) # {}
  BY <1>4
<1> QED
  BY <1>5, <1>6, <1>7 DEF Traces

\* The last node of a walk is the one no other is above.
LEMMA LastTold ==
  ASSUME ConformanceInv, NEW t \in Turn, NEW n \in Walked(t),
         \A m \in Walked(t) : Level(m) <= Level(n)
  PROVE  Last(walk[t]) = n
<1> DEFINE w == walk[t]
           l == Len(w)
<1>1. w \in Seq(Nodes) /\ Climbs(w) /\ l \in Nat /\ DOMAIN w = 1 .. l
  BY TurnFacts, LenProperties
<1>2. PICK k \in 1 .. l : w[k] = n
  BY <1>1 DEF Walked
<1>3. l \in 1 .. l /\ w[l] \in Walked(t)
  BY <1>1, <1>2 DEF Walked
<1>4. k < l => Level(w[k]) < Level(w[l])
  BY <1>1, <1>2, <1>3 DEF Climbs
<1>5. ~ (k < l)
  BY <1>2, <1>3, <1>4, LevelsDiffer
<1>6. k = l
  BY <1>1, <1>5
<1> QED
  BY <1>2, <1>6 DEF Last

\* The property follows from the invariant, turn by turn and step by step.
LEMMA AuditGaps == ConformanceInv => OnlyGapsMislead
<1> SUFFICES ASSUME ConformanceInv, node \in Ended, Cardinality(Traces) >= MinSessions
             PROVE  OnlyGapsMislead
  BY DEF OnlyGapsMislead
<1> DEFINE credited == ProcessPrecision
           conforming == ProcessFitness
           Skipped(n) == \E m \in mishaps : m[2] = n /\ m[3] \in {"timeout", "silent"}
           CutAfter(n) == \E t \in 1 .. turn : Cut(t) /\ walk[t] # << >> /\ Last(walk[t]) = n
<1>1. /\ credited = ModelTransitions \cap UNION {Replayed(t) : t \in Traces}
      /\ conforming = {t \in Traces : Deviations(t) = {}}
      /\ Traces \subseteq Turn
  <2>1. Cardinality(Traces) \in Nat /\ MinSessions \in Nat
    <3>1. 1 \in Int /\ MaxTurns \in Int
      BY ConformanceAssumption
    <3>2. IsFiniteSet(Turn)
      BY <3>1, FS_Interval DEF Turn
    <3>3. Traces \subseteq Turn
      BY DEF Traces
    <3> QED
      BY <3>2, <3>3, FS_Subset, FS_CardinalityType, ConformanceAssumption
  <2>2. ~ (Cardinality(Traces) < MinSessions)
    BY <2>1
  <2>3. Traces \subseteq Turn
    BY DEF Traces
  <2> QED
    BY <2>2, <2>3 DEF ProcessPrecision, ProcessFitness
<1>2. ASSUME NEW s, Permitted(s), s = <<s[1], s[2]>>
      PROVE  s \in ModelTransitions
  BY <1>2 DEF Permitted, ModelTransitions
<1>3. ASSUME NEW s \in ModelTransitions
      PROVE  Permitted(s)
  BY DEF Permitted, ModelTransitions
<1>4. 1 .. turn \subseteq Turn
  BY TypeFacts DEF ConformanceInv
<1> HIDE DEF credited, conforming
<1>5. ASSUME NEW t \in 1 .. turn, Undisturbed(t), ~ Silent(t)
      PROVE  Took(t) \subseteq credited /\ t \in conforming
  <2>1. t \in Turn /\ Closed(t) /\ ~ Cut(t) /\ TimedOut(t) = {}
    BY <1>4, <1>5 DEF Undisturbed
  <2>2. Seen(t) = Walked(t)
    BY <1>5, <2>1 DEF Seen
  <2>3. Complete(Walked(t)) /\ Course(Walked(t), TimedOut(t)) /\ Walked(t) \in SUBSET Nodes
    BY <2>1, TurnFacts
  <2>4. t \in Traces /\ Replayed(t) = Ladder(Walked(t)) /\ Took(t) = Ladder(Walked(t))
    <3>1. Walked(t) # {}
      BY <2>3 DEF Complete
    <3>2. Took(t) = Ladder(Walked(t))
      BY <2>1, TurnFacts
    <3> QED
      BY <2>1, <2>2, <3>1, <3>2, TraceTold
  <2>5. \A s \in Ladder(Walked(t)) : Permitted(s) /\ s = <<s[1], s[2]>>
    BY <2>3, CompleteConforms DEF Ladder
  <2>6. Deviations(t) = {}
    BY <2>4, <2>5 DEF Deviations
  <2>7. Took(t) \subseteq credited
    BY <1>1, <1>2, <2>4, <2>5
  <2> QED
    BY <1>1, <2>4, <2>6, <2>7
<1>6. ASSUME NEW s \in credited \ UNION {Took(t) : t \in 1 .. turn}
      PROVE  \/ s = <<"IntentRouter", "DeterministicRuleChecker">>
                  /\ Skipped("UnsafeMethodGate")
             \/ s = <<"KnowledgeRetriever", "SafetyExtractor">>
                  /\ Skipped("RootCauseAnalyzer")
             \/ s = <<"SafetyJudgeGate", "__END__">> /\ Skipped("InlineEvaluator")
             \/ s[2] = "__END__" /\ CutAfter(s[1])
  <2>1. PICK t \in Traces : s \in Replayed(t)
    BY <1>1
  <2>2. /\ t \in Turn /\ Permitted(s) /\ s \in Ladder(Seen(t)) /\ Seen(t) # {}
    BY <1>1, <1>3, <2>1, TraceTold
  <2>3. t \in 1 .. turn /\ s \notin Took(t) /\ walk[t] # << >>
    BY <1>6, <2>2, TurnFacts
  <2>4. CASE s \notin Ladder(Walked(t))
    <3>1. \A n \in Walked(t) \ Seen(t) : n \in TimedOut(t) \/ n = "InlineEvaluator"
      BY <2>2, TurnFacts
    <3>2. \/ s = <<"IntentRouter", "DeterministicRuleChecker">>
             /\ "UnsafeMethodGate" \in Walked(t) \ Seen(t)
          \/ s = <<"KnowledgeRetriever", "SafetyExtractor">>
             /\ "RootCauseAnalyzer" \in Walked(t) \ Seen(t)
          \/ s = <<"SafetyJudgeGate", "__END__">>
             /\ "InlineEvaluator" \in Walked(t) \ Seen(t)
      BY <2>2, <2>4, <3>1, TurnFacts, GapsHide
    <3>3. ASSUME NEW n \in Walked(t) \ Seen(t)
          PROVE  Skipped(n)
      <4>1. n \in TimedOut(t) \/ (n = "InlineEvaluator" /\ Silent(t))
        BY <2>2, TurnFacts
      <4>2. CASE n \in TimedOut(t)
        <5>1. PICK m \in mishaps : m[3] = "timeout" /\ m[2] = n
          BY <4>2 DEF TimedOut
        <5> QED
          BY <5>1
      <4>3. CASE n = "InlineEvaluator" /\ Silent(t)
        <5> DEFINE m == <<t, "InlineEvaluator", "silent">>
        <5>1. m \in mishaps /\ m[2] = n /\ m[3] = "silent"
          BY <4>3 DEF Silent
        <5> QED
          BY <5>1
      <4> QED
        BY <4>1, <4>2, <4>3
    <3> HIDE DEF Skipped
    <3> QED
      BY <3>2, <3>3
  <2>5. CASE s \in Ladder(Walked(t))
    <3>1. Cut(t) /\ s[2] = "__END__"
      BY <2>2, <2>3, <2>5, TurnFacts
    <3>2. /\ s[1] \in Walked(t)
          /\ \A m \in Walked(t) : ~ (Level(s[1]) < Level(m) /\ Level(m) < 26)
      <4>1. /\ s[1] \in Walked(t) \cup {"__START__"} /\ s = <<s[1], s[2]>>
            /\ \A m \in Walked(t) : ~ (Level(s[1]) < Level(m) /\ Level(m) < Level(s[2]))
        BY <2>5 DEF Ladder
      <4>2. s[1] # "__START__"
        BY <2>2, <3>1, <4>1, PermittedSteps, NodeNames
      <4> QED
        BY <3>1, <4>1, <4>2, Levels
    <3>3. \A m \in Walked(t) : Level(m) <= Level(s[1])
      <4>1. \A m \in Walked(t) : Level(m) < 26
        BY <2>2, TurnFacts, NodesAreNames, LevelsDiffer
      <4> QED
        BY <3>2, <4>1, LevelsDiffer
    <3>4. Last(walk[t]) = s[1]
      BY <2>2, <3>2, <3>3, LastTold
    <3> QED
      BY <2>3, <3>1, <3>4
  <2> QED
    BY <2>4, <2>5
<1>7. ASSUME NEW t \in conforming
      PROVE  TimedOut(t) \subseteq {"UnsafeMethodGate", "RootCauseAnalyzer", "InlineEvaluator"}
  <2>1. t \in Turn /\ Deviations(t) = {}
    BY <1>1
  <2>2. \A s \in Ladder(Seen(t)) : Permitted(s)
    BY <2>1, TraceTold DEF Deviations
  <2>3. \A n \in Walked(t) \ Seen(t) : n \in TimedOut(t) \/ n = "InlineEvaluator"
    BY <2>1, TurnFacts
  <2> QED
    BY <2>1, <2>2, <2>3, TurnFacts, TimeoutsConform
<1> QED
  BY <1>5, <1>6, <1>7 DEF OnlyGapsMislead, credited, conforming

\* Of any number of turns, what the auditor credits or accepts wrongly it does where a
\* record is missing, or behind a turn that was cut short where a turn may end.
THEOREM GapsMislead == ConformanceSpec => []OnlyGapsMislead
BY RecordsTellNames, AuditGaps, PTL

\* What a reader makes of rising rows, their names alone decide.
LEMMA TopTold ==
  ASSUME NEW n \in Nat, DOMAIN records = 1 .. n, Len(records) = n,
         NEW rows \in SUBSET (1 .. n), \A i \in rows : records[i].base \in Name,
         Rising(rows), rows # {}
  PROVE  /\ NameAt(Max(rows)) \in NamesOf(rows) /\ NamesOf(rows) \subseteq Name
         /\ \A m \in NamesOf(rows) : Level(m) <= Level(NameAt(Max(rows)))
<1>1. rows \in (SUBSET Nat) \ {{}} /\ IsFiniteSet(rows)
  <2>1. IsFiniteSet(1 .. n)
    BY FS_Interval
  <2>2. IsFiniteSet(rows)
    BY <2>1, FS_Subset
  <2>3. 1 .. n \subseteq Nat
    OBVIOUS
  <2> QED
    BY <2>2, <2>3
<1>2. \E i \in rows : \A j \in rows : j <= i
  BY <1>1, Extremes
<1>3. Max(rows) \in rows /\ \A j \in rows : j <= Max(rows)
  <2>1. \E i \in rows : \A j \in rows : i >= j
    BY <1>1, <1>2
  <2>2. Max(rows) \in rows /\ \A j \in rows : Max(rows) >= j
    BY <2>1 DEF Max
  <2> QED
    BY <1>1, <2>2
<1>4. /\ \A i \in rows : NameAt(i) = records[i].base
      /\ \A i, j \in rows : i < j => Level(NameAt(i)) <= Level(NameAt(j))
  BY SpotsInOrder
<1> DEFINE top == Max(rows)
<1>5. top \in rows /\ top \in Nat /\ \A j \in rows : j \in Nat /\ j <= top
  BY <1>1, <1>3
<1> HIDE DEF top
<1>6. ASSUME NEW i \in rows
      PROVE  Level(NameAt(i)) <= Level(NameAt(top))
  <2>1. i = top \/ i < top
    BY <1>5
  <2>2. Level(NameAt(i)) \in Nat /\ Level(NameAt(top)) \in Nat
    BY LevelsDiffer
  <2>3. CASE i = top
    BY <2>2, <2>3
  <2>4. CASE i < top
    BY <1>4, <1>5, <2>4
  <2> QED
    BY <2>1, <2>3, <2>4
<1>7. NamesOf(rows) \subseteq Name
  BY <1>4 DEF NamesOf
<1> QED
  BY <1>5, <1>6, <1>7 DEF NamesOf, top

Bad(names) == {s \in Ladder(names) : ~ Permitted(s)}

\* No two rungs lead to the same name.
LEMMA RungsBelow ==
  ASSUME NEW names \in SUBSET Name, NEW r \in Ladder(names), NEW s \in Ladder(names),
         r[2] = s[2]
  PROVE  Level(r[1]) <= Level(s[1])
<1>1. /\ r[1] \in names \cup {"__START__"} /\ Level(r[1]) < Level(r[2])
      /\ \A m \in names : ~ (Level(s[1]) < Level(m) /\ Level(m) < Level(s[2]))
  BY DEF Ladder
<1>2. Level(r[1]) \in Nat /\ Level(s[1]) \in Nat /\ Level(s[2]) \in Nat
  BY LevelsDiffer
<1>3. CASE r[1] = "__START__"
  <2>1. Level(r[1]) = 0
    BY <1>3, Levels
  <2> QED
    BY <1>2, <2>1
<1>4. CASE r[1] \in names
  <2>1. ~ (Level(s[1]) < Level(r[1]))
    BY <1>1, <1>4
  <2> QED
    BY <1>2, <2>1
<1> QED
  BY <1>1, <1>3, <1>4

\* The edge that match_trace_variant names is the first to deviate...
LEMMA FirstDeviation ==
  ASSUME NEW n \in Nat, DOMAIN records = 1 .. n, Len(records) = n,
         NEW rows \in SUBSET (1 .. n), \A i \in rows : records[i].base \in Name,
         Rising(rows), rows # {}, Bad(NamesOf(rows)) # {}
  PROVE  /\ ~ MatchTraceVariant(rows).conforming
         /\ MatchTraceVariant(rows).edge \in Bad(NamesOf(rows))
         /\ \A s \in Bad(NamesOf(rows)) :
              Level(MatchTraceVariant(rows).edge[2]) <= Level(s[2])
<1> DEFINE deviating == {p \in Hops(rows) : ~ Permitted(Step(p))}
           first == CHOOSE p \in deviating : \A q \in deviating : p[2] <= q[2]
           ends == {p[2] : p \in deviating}
<1>1. /\ \A p \in Hops(rows) : Step(p) \in Ladder(NamesOf(rows))
      /\ \A s \in Ladder(NamesOf(rows)) : \E p \in Hops(rows) : Step(p) = s
  BY HopIsRung, RungIsHop
<1>2. deviating # {}
  BY <1>1 DEF Bad
<1>3. \A p \in deviating : p[2] \in rows \cup {n + 1}
  BY DEF Hops
<1>4. ends \in (SUBSET Nat) \ {{}} /\ IsFiniteSet(ends)
  <2>1. IsFiniteSet(1 .. n + 1)
    <3>1. n + 1 \in Int
      OBVIOUS
    <3> QED
      BY <3>1, FS_Interval
  <2>2. rows \cup {n + 1} \subseteq 1 .. n + 1 /\ 1 .. n + 1 \subseteq Nat
    OBVIOUS
  <2>3. ends \subseteq 1 .. n + 1
    BY <1>3, <2>2
  <2>4. ends # {}
    BY <1>2
  <2> HIDE DEF ends
  <2> QED
    BY <2>1, <2>2, <2>3, <2>4, FS_Subset
<1> HIDE DEF deviating
<1>5. first \in deviating /\ \A q \in deviating : first[2] <= q[2]
  <2>1. PICK l \in ends : \A k \in ends : l <= k
    <3> HIDE DEF ends
    <3> QED
      BY <1>4, Extremes
  <2>2. \E p \in deviating : \A q \in deviating : p[2] <= q[2]
    BY <2>1
  <2> QED
    BY <2>2
<1>6. /\ ~ MatchTraceVariant(rows).conforming
      /\ MatchTraceVariant(rows).edge = Step(first)
  BY <1>2 DEF MatchTraceVariant, deviating
<1> HIDE DEF first
<1>7. Step(first) \in Bad(NamesOf(rows))
  BY <1>1, <1>5 DEF Bad, deviating
<1>8. ASSUME NEW s \in Bad(NamesOf(rows))
      PROVE  Level(Step(first)[2]) <= Level(s[2])
  <2>1. PICK q \in deviating : Step(q) = s
    BY <1>1 DEF Bad, deviating
  <2>2. /\ first[2] \in rows \cup {0, n + 1} /\ q[2] \in rows \cup {0, n + 1}
        /\ first[2] \in Nat /\ q[2] \in Nat /\ first[2] <= q[2]
    BY <1>3, <1>4, <1>5
  <2>3. first[2] = q[2] \/ first[2] < q[2]
    BY <2>2
  <2>4. Level(NameAt(first[2])) <= Level(NameAt(q[2]))
    BY <2>2, <2>3, SpotsInOrder
  <2>5. Step(first)[2] = NameAt(first[2]) /\ s[2] = NameAt(q[2])
    BY <2>1 DEF Step
  <2> QED
    BY <2>4, <2>5
<1> QED
  BY <1>6, <1>7, <1>8

\* ... and it calls conforming what has none.
LEMMA NoDeviation ==
  ASSUME NEW n \in Nat, DOMAIN records = 1 .. n, Len(records) = n,
         NEW rows \in SUBSET (1 .. n), \A i \in rows : records[i].base \in Name,
         Rising(rows)
  PROVE  /\ MatchTraceVariant(rows).conforming \in BOOLEAN
         /\ MatchTraceVariant(rows).conforming <=> rows = {} \/ Bad(NamesOf(rows)) = {}
         /\ MatchTraceVariant(rows).conforming => MatchTraceVariant(rows).edge = NoStep
<1> DEFINE deviating == {p \in Hops(rows) : ~ Permitted(Step(p))}
<1>1. /\ \A p \in Hops(rows) : Step(p) \in Ladder(NamesOf(rows))
      /\ \A s \in Ladder(NamesOf(rows)) : \E p \in Hops(rows) : Step(p) = s
  BY HopIsRung, RungIsHop
<1>2. deviating = {} <=> Bad(NamesOf(rows)) = {}
  BY <1>1 DEF Bad
<1>3. CASE rows = {}
  BY <1>3 DEF MatchTraceVariant
<1>4. CASE rows # {}
  <2> HIDE DEF deviating
  <2>1. MatchTraceVariant(rows).conforming = (deviating = {})
    BY <1>4 DEF MatchTraceVariant, deviating
  <2>2. deviating = {} => MatchTraceVariant(rows).edge = NoStep
    BY <1>4 DEF MatchTraceVariant, deviating
  <2> QED
    BY <1>2, <1>4, <2>1, <2>2
<1> QED
  BY <1>3, <1>4

\* Rows with the same names are matched alike.
LEMMA NamesDecide ==
  ASSUME NEW n \in Nat, DOMAIN records = 1 .. n, Len(records) = n,
         NEW rows \in SUBSET (1 .. n), \A i \in rows : records[i].base \in Name, Rising(rows),
         NEW more \in SUBSET (1 .. n), \A i \in more : records[i].base \in Name, Rising(more),
         NamesOf(rows) = NamesOf(more)
  PROVE  MatchTraceVariant(rows) = MatchTraceVariant(more)
<1> DEFINE names == NamesOf(rows)
           a == MatchTraceVariant(rows)
           b == MatchTraceVariant(more)
<1>1. CASE rows = {} \/ more = {}
  <2>1. rows = more
    BY <1>1 DEF NamesOf
  <2> QED
    BY <2>1
<1>2. CASE rows # {} /\ more # {}
  <2>1. NameAt(Max(rows)) = NameAt(Max(more))
    <3>1. /\ NameAt(Max(rows)) \in names /\ NameAt(Max(more)) \in names /\ names \subseteq Name
          /\ Level(NameAt(Max(more))) <= Level(NameAt(Max(rows)))
          /\ Level(NameAt(Max(rows))) <= Level(NameAt(Max(more)))
      BY <1>2, TopTold
    <3> QED
      BY <3>1, LevelsDiffer
  <2>2. {Step(p) : p \in Hops(rows)} = {Step(p) : p \in Hops(more)}
    BY LadderOfRows
  <2>3. a.label = b.label
    <3>1. VariantLabel(rows) = VariantLabel(more)
      BY <2>1, <2>2 DEF VariantLabel, LabelByHeuristics
    <3> QED
      BY <1>2, <3>1 DEF MatchTraceVariant
  <2>4. a.conforming = b.conforming
    BY <1>2, NoDeviation
  <2>5. a.edge = b.edge
    <3>1. CASE Bad(names) = {}
      BY <1>2, <3>1, NoDeviation
    <3>2. CASE Bad(names) # {}
      <4>1. /\ a.edge \in Bad(names) /\ b.edge \in Bad(names)
            /\ Level(a.edge[2]) <= Level(b.edge[2]) /\ Level(b.edge[2]) <= Level(a.edge[2])
        BY <1>2, <3>2, FirstDeviation
      <4> HIDE DEF a, b
      <4>2. names \subseteq Name
        BY <1>2, TopTold
      <4> HIDE DEF names
      <4>3. /\ a.edge = <<a.edge[1], a.edge[2]>> /\ b.edge = <<b.edge[1], b.edge[2]>>
            /\ a.edge[1] \in names \cup {"__START__"} /\ b.edge[1] \in names \cup {"__START__"}
            /\ a.edge[2] \in names \cup {"__END__"} /\ b.edge[2] \in names \cup {"__END__"}
        BY <4>1 DEF Bad, Ladder
      <4>4. a.edge[2] = b.edge[2]
        BY <4>1, <4>2, <4>3, LevelsDiffer
      <4>5. Level(a.edge[1]) <= Level(b.edge[1])
        BY <4>1, <4>2, <4>4, RungsBelow DEF Bad
      <4>6. Level(b.edge[1]) <= Level(a.edge[1])
        BY <4>1, <4>2, <4>4, RungsBelow DEF Bad
      <4>7. a.edge[1] = b.edge[1]
        BY <4>2, <4>3, <4>5, <4>6, LevelsDiffer
      <4> QED
        BY <4>3, <4>4, <4>7
    <3> QED
      BY <3>1, <3>2
  <2>6. /\ a = [conforming |-> a.conforming, label |-> a.label, edge |-> a.edge]
        /\ b = [conforming |-> b.conforming, label |-> b.label, edge |-> b.edge]
    BY <1>2 DEF MatchTraceVariant
  <2> HIDE DEF a, b
  <2>7. a = b
    BY <2>3, <2>4, <2>5, <2>6
  <2> QED
    BY <2>7 DEF a, b
<1> QED
  BY <1>1, <1>2

\* The page lists each name once, at its first row.
LEMMA PageTold ==
  ASSUME ConformanceInv, 1 \in Turn, \A t \in 1 .. turn : Left(t) \subseteq Left(1)
  PROVE  /\ PageRows \in SUBSET (1 .. Len(records))
         /\ \A i \in PageRows : records[i].base \in Name
         /\ Rising(PageRows)
         /\ NamesOf(PageRows) = Left(1)
<1> DEFINE n == Len(records)
<1>1. /\ n \in Nat /\ DOMAIN records = 1 .. n /\ NodeRows \in SUBSET (1 .. n)
      /\ \A i \in NodeRows : /\ records[i].base \in Name /\ records[i].trace \in 1 .. turn
                             /\ records[i].trace \in Turn
  BY RowsFacts
<1>2. \A i \in DOMAIN records : Listed(records[i]) <=> i \in NodeRows
  <2>1. \A i \in DOMAIN records : records[i] \in Row
    BY <1>1, ElementOfSeq DEF ConformanceInv, ConformanceType
  <2> QED
    BY <2>1 DEF Listed, NodeRows, Row
<1> HIDE DEF n
<1>3. ASSUME NEW i \in 1 .. n
      PROVE  i \in PageRows <=>
               /\ i \in NodeRows
               /\ \A j \in NodeRows : j < i => records[j].base # records[i].base
  <2>1. ASSUME i \in NodeRows, \A j \in NodeRows : j < i => records[j].base # records[i].base,
               NEW j \in 1 .. i - 1, records[j].base = records[i].base
        PROVE  ~ Listed(records[j])
    <3>1. j \in 1 .. n /\ j < i
      BY <1>1
    <3> QED
      BY <1>1, <1>2, <2>1, <3>1
  <2>2. ASSUME i \in PageRows, NEW j \in NodeRows, j < i
        PROVE  records[j].base # records[i].base
    <3>1. j \in 1 .. i - 1 /\ Listed(records[j])
      BY <1>1, <1>2, <2>2
    <3> QED
      BY <2>2, <3>1 DEF PageRows
  <2>3. i \in PageRows => i \in NodeRows
    BY <1>1, <1>2 DEF PageRows
  <2>4. ASSUME i \in NodeRows, \A j \in NodeRows : j < i => records[j].base # records[i].base
        PROVE  i \in PageRows
    BY <1>1, <1>2, <2>1, <2>4 DEF PageRows
  <2> QED
    BY <2>2, <2>3, <2>4
<1>4. PageRows \subseteq 1 .. n
  BY <1>1 DEF PageRows
<1>5. /\ \A t \in Turn : \A i \in NodeRows : records[i].trace = t => records[i].base \in Left(t)
      /\ \A m \in Left(1) : \E i \in NodeRows : records[i].trace = 1 /\ records[i].base = m
      /\ \A i, j \in NodeRows : i < j =>
           /\ records[i].trace <= records[j].trace
           /\ records[i].trace = records[j].trace =>
                Level(records[i].base) <= Level(records[j].base)
  BY DEF ConformanceInv, LogInv
<1>6. \A i \in NodeRows : records[i].base \in Left(1)
  BY <1>1, <1>5
<1>7. ASSUME NEW i \in PageRows
      PROVE  records[i].trace = 1
  <2>1. i \in NodeRows /\ \A j \in NodeRows : j < i => records[j].base # records[i].base
    BY <1>3, <1>4
  <2>2. PICK k \in NodeRows : records[k].trace = 1 /\ records[k].base = records[i].base
    BY <1>5, <1>6, <2>1
  <2>3. i = k \/ i < k
    BY <1>1, <2>1, <2>2
  <2>4. records[i].trace <= 1 /\ records[i].trace \in Nat /\ records[i].trace >= 1
    BY <1>1, <1>5, <2>1, <2>2, <2>3
  <2> QED
    BY <2>4
<1>8. Rising(PageRows)
  BY <1>3, <1>4, <1>5, <1>7 DEF Rising
<1>9. ASSUME NEW m \in Left(1)
      PROVE  \E i \in PageRows : records[i].base = m
  <2> DEFINE all == {i \in NodeRows : records[i].base = m}
  <2>1. all # {} /\ all \subseteq 1 .. n
    BY <1>1, <1>5
  <2>2. IsFiniteSet(all) /\ all \in SUBSET Nat
    <3>1. IsFiniteSet(1 .. n) /\ 1 .. n \subseteq Nat
      BY <1>1, FS_Interval
    <3> HIDE DEF all
    <3> QED
      BY <2>1, <3>1, FS_Subset
  <2>3. PICK i \in all : \A j \in all : i <= j
    <3> HIDE DEF all
    <3> QED
      BY <2>1, <2>2, Extremes
  <2>4. \A j \in NodeRows : j < i => records[j].base # records[i].base
    <3> SUFFICES ASSUME NEW j \in NodeRows, j < i, records[j].base = records[i].base
                 PROVE  FALSE
      OBVIOUS
    <3>1. j \in all /\ i \in Nat /\ j \in Nat
      BY <1>1
    <3>2. i <= j
      BY <2>3, <3>1
    <3> QED
      BY <3>1, <3>2
  <2>5. i \in PageRows
    BY <1>3, <2>1, <2>3, <2>4
  <2> QED
    BY <2>5
<1>10. \A i \in PageRows : i \in NodeRows /\ NameAt(i) = records[i].base
  BY <1>1, <1>3, <1>4 DEF NameAt, n
<1>11. NamesOf(PageRows) = Left(1)
  BY <1>6, <1>9, <1>10 DEF NamesOf
<1> QED
  BY <1>1, <1>4, <1>8, <1>10, <1>11 DEF n

\* Of a thread of one turn the script reads what the page shows.
LEMMA ScriptTold ==
  ASSUME ConformanceInv, turn = 1, ~ Dispatched(1)
  PROVE  /\ ScriptRows \in SUBSET (1 .. Len(records))
         /\ \A i \in ScriptRows : records[i].base \in Name
         /\ Rising(ScriptRows)
         /\ NamesOf(ScriptRows) = Left(1)
<1> DEFINE n == Len(records)
<1>1. /\ n \in Nat /\ DOMAIN records = 1 .. n /\ NodeRows \in SUBSET (1 .. n)
      /\ \A i \in NodeRows : /\ records[i].base \in Name /\ records[i].trace \in 1 .. turn
                             /\ records[i].trace \in Turn
  BY RowsFacts
<1>2. \A i \in DOMAIN records : records[i] \in Row /\ records[i].trace = 1
  <2>1. \A i \in DOMAIN records : records[i] \in Row /\ records[i].trace \in 1 .. turn
    BY <1>1, ElementOfSeq DEF ConformanceInv, ConformanceType, LogInv
  <2>2. \A k : k \in 1 .. turn => k = 1
    OBVIOUS
  <2> QED
    BY <2>1, <2>2
<1>3. ScriptRows = NodeRows
  BY <1>2 DEF ScriptRows, NodeRows, Row, Dispatched
<1>4. \A i \in NodeRows : records[i].trace = 1 /\ NameAt(i) = records[i].base
  <2>1. \A i \in NodeRows : i # 0 /\ i # n + 1
    BY <1>1
  <2> QED
    BY <1>1, <1>2, <2>1 DEF NameAt
<1>5. /\ \A i \in NodeRows : records[i].base \in Left(1)
      /\ \A m \in Left(1) : \E i \in NodeRows : records[i].base = m
      /\ \A i, j \in NodeRows : i < j => Level(records[i].base) <= Level(records[j].base)
  <2>1. 1 \in Turn
    BY TypeFacts DEF ConformanceInv
  <2> QED
    BY <1>4, <2>1 DEF ConformanceInv, LogInv
<1>6. NamesOf(NodeRows) = Left(1)
  BY <1>4, <1>5 DEF NamesOf
<1> QED
  BY <1>1, <1>3, <1>5, <1>6 DEF Rising

\* The label, by the names and the last of them.
LEMMA LabelTold ==
  ASSUME NEW n \in Nat, DOMAIN records = 1 .. n, Len(records) = n,
         NEW rows \in SUBSET (1 .. n), \A i \in rows : records[i].base \in Name,
         Rising(rows), rows # {}, NEW top, top = NameAt(Max(rows)),
         NEW names, names = NamesOf(rows)
  PROVE  LET label == MatchTraceVariant(rows).label
         IN  /\ top = "InlineEvaluator" /\ "FollowUpResponder" \in names => label = "followup"
             /\ top = "DeterministicRuleChecker" => label = "troubleshoot_deterministic_exit"
             /\ top = "RootCauseAnalyzer" /\ "SymptomAnalyzer" \in names =>
                  label = "troubleshoot_short_circuit"
             /\ top \notin {"InlineEvaluator", "DeterministicRuleChecker", "RootCauseAnalyzer"} =>
                  label = "none"
             /\ top = "RootCauseAnalyzer" /\ "SymptomAnalyzer" \notin names => label = "none"
             /\ top = "InlineEvaluator" /\ "FollowUpResponder" \notin names =>
                  label = IF "DirectReplacementAnalyzer" \in names THEN "replace_part"
                          ELSE IF "UnsafeMethodGate" \in names THEN "unsafe_method_redirect"
                          ELSE "troubleshoot_full"
<1> DEFINE sigs == VariantSignatures
           fits == {k \in DOMAIN sigs : sigs[k].ran \subseteq names /\ sigs[k].end = top}
<1>1. /\ DOMAIN sigs = {1, 2, 3, 4}
      /\ sigs[1] = Signature("followup", {"FollowUpResponder", "InlineEvaluator"},
                            "InlineEvaluator")
      /\ sigs[2] = Signature("troubleshoot_deterministic_exit", {"DeterministicRuleChecker"},
                             "DeterministicRuleChecker")
      /\ sigs[3] = Signature("replace_part", {"DirectReplacementAnalyzer", "InlineEvaluator"},
                             "InlineEvaluator")
      /\ sigs[4] = Signature("troubleshoot_short_circuit",
                             {"SymptomAnalyzer", "RootCauseAnalyzer"}, "RootCauseAnalyzer")
  <2>1. \A k : k \in 1 .. 4 <=> k \in {1, 2, 3, 4}
    OBVIOUS
  <2> QED
    BY <2>1 DEF VariantSignatures
<1>2. MatchTraceVariant(rows).label =
        IF fits = {} THEN LabelByHeuristics(rows) ELSE sigs[Min(fits)].label
  BY DEF MatchTraceVariant, VariantLabel
<1>3. top \in names
  BY TopTold
<1> HIDE DEF sigs, fits
<1>4. /\ 1 \in fits <=> top = "InlineEvaluator" /\ "FollowUpResponder" \in names
      /\ 2 \in fits <=> top = "DeterministicRuleChecker"
      /\ 3 \in fits <=> top = "InlineEvaluator" /\ "DirectReplacementAnalyzer" \in names
      /\ 4 \in fits <=> top = "RootCauseAnalyzer" /\ "SymptomAnalyzer" \in names
      /\ fits \subseteq {1, 2, 3, 4}
  BY <1>1, <1>3 DEF fits, Signature
<1>5. ASSUME NEW k \in fits, \A j \in fits : k <= j
      PROVE  MatchTraceVariant(rows).label = sigs[k].label
  <2>1. Min(fits) = k
    <3>1. Min(fits) \in fits /\ \A j \in fits : Min(fits) <= j
      BY <1>5 DEF Min
    <3>2. \A j \in {1, 2, 3, 4} : j \in Nat
      OBVIOUS
    <3>3. Min(fits) \in Nat /\ k \in Nat
      BY <1>4, <3>1, <3>2
    <3>4. Min(fits) <= k /\ k <= Min(fits)
      BY <1>5, <3>1
    <3> QED
      BY <3>3, <3>4
  <2> QED
    BY <1>2, <1>5, <2>1
<1>6. CASE 1 \in fits
  <2>1. \A j \in fits : 1 <= j
    BY <1>4
  <2>2. MatchTraceVariant(rows).label = "followup"
    BY <1>1, <1>5, <1>6, <2>1 DEF Signature
  <2> QED
    BY <1>4, <1>6, <2>2
<1>7. CASE 2 \in fits
  <2>1. \A j \in fits : 2 <= j
    BY <1>4, <1>7
  <2>2. MatchTraceVariant(rows).label = "troubleshoot_deterministic_exit"
    BY <1>1, <1>5, <1>7, <2>1 DEF Signature
  <2> QED
    BY <1>4, <1>7, <2>2
<1>8. CASE 3 \in fits /\ 1 \notin fits
  <2>1. \A j \in fits : 3 <= j
    BY <1>4, <1>8
  <2>2. MatchTraceVariant(rows).label = "replace_part"
    BY <1>1, <1>5, <1>8, <2>1 DEF Signature
  <2> QED
    BY <1>4, <1>8, <2>2
<1>9. CASE 4 \in fits
  <2>1. \A j \in fits : 4 <= j
    BY <1>4, <1>9
  <2>2. MatchTraceVariant(rows).label = "troubleshoot_short_circuit"
    BY <1>1, <1>5, <1>9, <2>1 DEF Signature
  <2> QED
    BY <1>4, <1>9, <2>2
<1>10. CASE fits = {}
  <2>1. MatchTraceVariant(rows).label = LabelByHeuristics(rows)
    BY <1>2, <1>10
  <2>2. /\ <<"InlineEvaluator", "RepairPlanner">> \notin {Step(p) : p \in Hops(rows)}
        /\ <<"SafetyJudgeGate", "RepairPlanner">> \notin {Step(p) : p \in Hops(rows)}
    <3>1. {Step(p) : p \in Hops(rows)} = Ladder(names)
      BY LadderOfRows
    <3>2. \A a, b : <<a, b>> \in Ladder(names) => Level(a) < Level(b)
      BY DEF Ladder
    <3>3. ~ (Level("InlineEvaluator") < Level("RepairPlanner"))
          /\ ~ (Level("SafetyJudgeGate") < Level("RepairPlanner"))
      BY Levels
    <3> QED
      BY <3>1, <3>2, <3>3
  <2>3. LabelByHeuristics(rows) =
          IF top # "InlineEvaluator" THEN "none"
          ELSE IF "UnsafeMethodGate" \in names THEN "unsafe_method_redirect"
          ELSE "troubleshoot_full"
    <3> DEFINE steps == {Step(p) : p \in Hops(rows)}
    <3>1. LabelByHeuristics(rows) =
            IF top # "InlineEvaluator" THEN "none"
            ELSE IF "UnsafeMethodGate" \in names THEN "unsafe_method_redirect"
            ELSE IF <<"InlineEvaluator", "RepairPlanner">> \in steps THEN "troubleshoot_eval_retry"
            ELSE IF <<"SafetyJudgeGate", "RepairPlanner">> \in steps
              THEN "troubleshoot_safety_retry"
            ELSE "troubleshoot_full"
      BY DEF LabelByHeuristics
    <3> HIDE DEF steps
    <3> QED
      BY <2>2, <3>1 DEF steps
  <2> QED
    BY <1>4, <1>10, <2>1, <2>3
<1> QED
  BY <1>4, <1>6, <1>7, <1>8, <1>9, <1>10

\* The variant of a turn, by the nodes it walked and the last of them.
LEMMA VariantTold ==
  ASSUME ConformanceInv, NEW t \in Turn, NEW last \in Walked(t),
         \A m \in Walked(t) : Level(m) <= Level(last)
  PROVE  Variant(t) =
           IF "FollowUpResponder" \in Walked(t) THEN "followup"
           ELSE IF last = "DeterministicRuleChecker" THEN "troubleshoot_deterministic_exit"
           ELSE IF last = "RootCauseAnalyzer" THEN "troubleshoot_short_circuit"
           ELSE IF "UnsafeMethodGate" \in Walked(t) THEN "unsafe_method_redirect"
           ELSE IF "DirectReplacementAnalyzer" \in Walked(t) THEN "replace_part"
           ELSE "troubleshoot_full"
<1>1. Last(walk[t]) = last
  BY LastTold
<1>2. ToSet(walk[t]) = Walked(t)
  BY DEF ToSet, Walked
<1> HIDE DEF Walked
<1> QED
  BY <1>1, <1>2 DEF Variant

\* The names a turn left: those the auditor sees, and functions for what timed out.
LEMMA LeftFacts ==
  ASSUME ConformanceInv, NEW t \in Turn
  PROVE  /\ Left(t) \subseteq Name
         /\ \A m \in Nodes : m \in Left(t) <=> m \in Seen(t)
         /\ \A m \in TimedOut(t) : /\ FunctionName[m] \in Left(t) /\ FunctionName[m] \notin Nodes
                                   /\ Level(FunctionName[m]) = Level(m) + 1
<1>1. \A m \in TimedOut(t) : /\ FunctionName[m] \notin Nodes /\ FunctionName[m] \in Name
                             /\ Level(FunctionName[m]) = Level(m) + 1
  BY TurnFacts, TimedNodes, FunctionNamesAre, NodesAreNames, Levels DEF FunctionNames, Name
<1>2. Seen(t) \subseteq Nodes
  BY TurnFacts
<1> QED
  BY <1>1, <1>2, NodesAreNames DEF Left

\* What the page calls a first turn that was not cut short.
LEMMA FirstLabelled ==
  ASSUME ConformanceInv, 1 \in Turn, Closed(1), ~ Cut(1),
         NEW n \in Nat, DOMAIN records = 1 .. n, Len(records) = n,
         NEW rows \in SUBSET (1 .. n), \A i \in rows : records[i].base \in Name,
         Rising(rows), NamesOf(rows) = Left(1)
  PROVE  LET label == MatchTraceVariant(rows).label
         IN  /\ rows # {}
             /\ \/ label = "none" \/ Names(label, 1)
                \/ TimedOut(1) \cap {"UnsafeMethodGate", "FollowUpResponder"} # {}
             /\ TimedOut(1) = {} /\ Silent(1) => label = "none"
             /\ TimedOut(1) = {} /\ ~ Silent(1) => Names(label, 1)
<1> DEFINE W == Walked(1)
           T == TimedOut(1)
           names == Left(1)
           top == NameAt(Max(rows))
           label == MatchTraceVariant(rows).label
<1>1. /\ Course(W, T) /\ Complete(W) /\ W \in SUBSET Nodes
      /\ T \in SUBSET W /\ T \subseteq DOMAIN FunctionName
      /\ \A m \in W : m \in Seen(1) <=> m \notin T /\ ~ (m = "InlineEvaluator" /\ Silent(1))
      /\ Seen(1) \subseteq W
  BY TurnFacts DEF Seen
<1>2. /\ names \subseteq Name
      /\ \A m \in W : m \in names <=> m \notin T /\ ~ (m = "InlineEvaluator" /\ Silent(1))
      /\ \A m \in Nodes : m \in names => m \in W
      /\ \A m \in T : FunctionName[m] \in names /\ Level(FunctionName[m]) = Level(m) + 1
  BY <1>1, LeftFacts
<1>3. rows # {}
  <2>1. "IntentRouter" \in W
    BY <1>1 DEF Complete
  <2>2. names # {}
    BY <1>2, <2>1
  <2> QED
    BY <2>2 DEF NamesOf
<1>4. top \in names /\ \A m \in names : Level(m) <= Level(top)
  BY <1>3, TopTold
<1> HIDE DEF W, T, names, top, label
<1>5. ASSUME NEW m \in W, ~ (m = "InlineEvaluator" /\ Silent(1))
      PROVE  Level(m) <= Level(top)
  <2>1. CASE m \in T
    BY <1>2, <1>4, <2>1, LevelsDiffer
  <2>2. CASE m \notin T
    BY <1>2, <1>4, <1>5, <2>2
  <2> QED
    BY <2>1, <2>2
<1>6. ASSUME top \in {"DeterministicRuleChecker", "RootCauseAnalyzer"}
      PROVE  /\ top \in W /\ "FollowUpResponder" \notin W /\ "InlineEvaluator" \notin W
             /\ \A m \in W : Level(m) <= Level(top)
  <2>1. top \in W /\ "FollowUpResponder" \notin W
    BY <1>1, <1>2, <1>4, <1>6, NodeNames DEF Course
  <2>2. "InlineEvaluator" \notin W
    <3>1. "InlineEvaluator" \in W => "SafetyJudgeGate" \in W
      BY <1>1, <2>1 DEF Course
    <3>2. "SafetyJudgeGate" \notin W
      BY <1>5, <1>6, Levels
    <3> QED
      BY <3>1, <3>2
  <2> QED
    BY <1>5, <2>1, <2>2
<1>7. ASSUME top = "InlineEvaluator"
      PROVE  /\ top \in W /\ ~ Silent(1)
             /\ \A m \in W : Level(m) <= Level(top)
  <2>1. top \in W /\ ~ Silent(1)
    BY <1>2, <1>4, <1>7, NodeNames
  <2> QED
    BY <1>5, <1>7, <2>1
<1>8. /\ top = "InlineEvaluator" /\ "FollowUpResponder" \in names => label = "followup"
      /\ top = "DeterministicRuleChecker" => label = "troubleshoot_deterministic_exit"
      /\ top = "RootCauseAnalyzer" /\ "SymptomAnalyzer" \in names =>
           label = "troubleshoot_short_circuit"
      /\ top \notin {"InlineEvaluator", "DeterministicRuleChecker", "RootCauseAnalyzer"} =>
           label = "none"
      /\ top = "RootCauseAnalyzer" /\ "SymptomAnalyzer" \notin names => label = "none"
      /\ top = "InlineEvaluator" /\ "FollowUpResponder" \notin names =>
           label = IF "DirectReplacementAnalyzer" \in names THEN "replace_part"
                   ELSE IF "UnsafeMethodGate" \in names THEN "unsafe_method_redirect"
                   ELSE "troubleshoot_full"
  BY <1>3, LabelTold DEF label, top, names
<1>9. ASSUME top \in W, \A m \in W : Level(m) <= Level(top)
      PROVE  Variant(1) =
               IF "FollowUpResponder" \in W THEN "followup"
               ELSE IF top = "DeterministicRuleChecker" THEN "troubleshoot_deterministic_exit"
               ELSE IF top = "RootCauseAnalyzer" THEN "troubleshoot_short_circuit"
               ELSE IF "UnsafeMethodGate" \in W THEN "unsafe_method_redirect"
               ELSE IF "DirectReplacementAnalyzer" \in W THEN "replace_part"
               ELSE "troubleshoot_full"
  BY <1>9, VariantTold DEF W
<1>10. ASSUME "UnsafeMethodGate" \in W, "DirectReplacementAnalyzer" \in W,
              label = "replace_part"
       PROVE  Names(label, 1)
  <2>1. ToSet(walk[1]) = W
    BY DEF W, ToSet, Walked
  <2> QED
    BY <1>10, <2>1 DEF Names
<1>11. label = Variant(1) => Names(label, 1)
  BY DEF Names
<1>12. ASSUME "UnsafeMethodGate" \notin T, "FollowUpResponder" \notin T
       PROVE  label = "none" \/ Names(label, 1)
  <2>1. /\ "FollowUpResponder" \in names <=> "FollowUpResponder" \in W
        /\ "UnsafeMethodGate" \in names <=> "UnsafeMethodGate" \in W
        /\ "DirectReplacementAnalyzer" \in names <=> "DirectReplacementAnalyzer" \in W
    BY <1>1, <1>2, <1>12, NodeNames, TimedNodes
  <2>2. CASE top = "InlineEvaluator"
    BY <1>7, <1>8, <1>9, <1>10, <1>11, <2>1, <2>2
  <2>3. CASE top = "DeterministicRuleChecker"
    BY <1>6, <1>8, <1>9, <1>11, <2>3
  <2>4. CASE top = "RootCauseAnalyzer"
    BY <1>6, <1>8, <1>9, <1>11, <2>4
  <2> QED
    BY <1>8, <2>2, <2>3, <2>4
<1>13. ASSUME T = {}, Silent(1)
       PROVE  label = "none"
  <2>1. "InlineEvaluator" \in W
    BY <1>13 DEF ConformanceInv, WalkInv, W
  <2> QED
    BY <1>6, <1>7, <1>8, <1>13, <2>1
<1>14. ASSUME T = {}, ~ Silent(1)
       PROVE  Names(label, 1)
  <2>1. \A m \in W : m \in names
    BY <1>2, <1>14
  <2>2. \/ top = "InlineEvaluator"
        \/ top = "DeterministicRuleChecker"
        \/ top = "RootCauseAnalyzer" /\ "SymptomAnalyzer" \in names
    <3>1. top \in W
      <4>1. names \subseteq Nodes
        BY <1>1, <1>14 DEF names, Left, T, W
      <4> QED
        BY <1>2, <1>4, <4>1
    <3>2. \A m \in W : Level(m) <= Level(top)
      BY <1>5, <1>14
    <3>3. CASE "InlineEvaluator" \in W
      <4>1. Level("InlineEvaluator") <= Level(top)
        BY <3>2, <3>3
      <4> QED
        BY <1>1, <3>1, <4>1, Levels, NodeNames
    <3>4. CASE "InlineEvaluator" \notin W /\ "SymptomAnalyzer" \in W
      BY <1>1, <2>1, <3>1, <3>2, <3>4, Levels, NodeNames DEF Course, Complete
    <3>5. CASE "InlineEvaluator" \notin W /\ "SymptomAnalyzer" \notin W
      BY <1>1, <2>1, <3>1, <3>2, <3>5, Levels, NodeNames DEF Course, Complete
    <3> QED
      BY <3>3, <3>4, <3>5
  <2>3. label # "none"
    BY <1>8, <2>2
  <2> QED
    BY <1>12, <1>14, <2>3
<1> QED
  BY <1>3, <1>12, <1>13, <1>14 DEF label, T

\* Whether the page finds a first turn conforming.
LEMMA FirstConforms ==
  ASSUME ConformanceInv, 1 \in Turn,
         NEW n \in Nat, DOMAIN records = 1 .. n, Len(records) = n,
         NEW rows \in SUBSET (1 .. n), \A i \in rows : records[i].base \in Name,
         Rising(rows), NamesOf(rows) = Left(1)
  PROVE  LET conforming == MatchTraceVariant(rows).conforming
             replayed   == Deviations(1) = {} \/ 1 \notin Traces
         IN  /\ conforming \in BOOLEAN
             /\ conforming => replayed
             /\ TimedOut(1) = {} => (replayed => conforming)
             /\ Complete(Walked(1)) /\ Left(1) = Walked(1) => conforming
<1> DEFINE conforming == MatchTraceVariant(rows).conforming
<1>1. conforming \in BOOLEAN /\ (conforming <=> rows = {} \/ Bad(Left(1)) = {})
  BY NoDeviation
<1>2. rows = {} <=> Left(1) = {}
  BY DEF NamesOf
<1>3. Left(1) \subseteq Name /\ Seen(1) \subseteq Left(1)
  BY LeftFacts DEF Left
<1>4. Replayed(1) = Ladder(Seen(1)) /\ (1 \in Traces <=> Seen(1) # {})
  BY TraceTold
<1> HIDE DEF conforming
<1>5. TimedOut(1) = {} => Left(1) = Seen(1)
  BY DEF Left
<1>6. Bad(Left(1)) = {} => TimedOut(1) = {}
  <2> SUFFICES ASSUME NEW m \in TimedOut(1)
               PROVE  Bad(Left(1)) # {}
    OBVIOUS
  <2>1. FunctionName[m] \in Left(1) /\ FunctionName[m] \notin Nodes /\ FunctionName[m] \in Name
    BY <1>3, LeftFacts
  <2>2. PICK b \in Left(1) \cup {"__END__"} : <<FunctionName[m], b>> \in Ladder(Left(1))
    BY <1>3, <2>1, NextRung
  <2>3. FunctionName[m] \notin DOMAIN Allowed
    BY <2>1, NodeNames, LevelsDiffer
  <2>4. ~ Permitted(<<FunctionName[m], b>>)
    BY <2>3 DEF Permitted
  <2> QED
    BY <2>2, <2>4 DEF Bad
<1>7. Left(1) = Seen(1) => (Bad(Left(1)) = {} <=> Deviations(1) = {})
  BY <1>4 DEF Bad, Deviations
<1>8. conforming => Deviations(1) = {} \/ 1 \notin Traces
  BY <1>1, <1>2, <1>3, <1>4, <1>5, <1>6, <1>7
<1>9. TimedOut(1) = {} => (Deviations(1) = {} \/ 1 \notin Traces => conforming)
  BY <1>1, <1>2, <1>4, <1>5, <1>7
<1>10. Complete(Walked(1)) /\ Left(1) = Walked(1) => conforming
  <2>1. Complete(Walked(1)) => \A s \in Ladder(Walked(1)) : Permitted(s)
    BY TurnFacts, CompleteConforms
  <2> QED
    BY <1>1, <2>1 DEF Bad
<1> QED
  BY <1>1, <1>8, <1>9, <1>10 DEF conforming

\* The property follows from the invariant.
LEMMA PageTells == ConformanceInv => PageTellsTheTurn
<1> SUFFICES ASSUME ConformanceInv, turn > 0, Closed(turn)
             PROVE  PageTellsTheTurn
  BY DEF PageTellsTheTurn
<1> DEFINE page == MatchTraceVariant(PageRows)
           replayed == Deviations(1) = {} \/ 1 \notin Traces
           n == Len(records)
<1>1. /\ turn \in Nat /\ turn \in Turn /\ 1 .. turn \subseteq Turn /\ 1 \in 1 .. turn /\ 1 \in Turn
  BY TypeFacts DEF ConformanceInv
<1>2. n \in Nat /\ DOMAIN records = 1 .. n /\ Len(records) = n
  BY RowsFacts
<1> HIDE DEF n
<1>3. ASSUME \A t \in 1 .. turn : Undisturbed(t) /\ ~ Silent(t) /\ walk[t] = walk[turn]
      PROVE  page.conforming /\ Names(page.label, turn)
  <2>1. \A t \in 1 .. turn : Left(t) = Walked(1) /\ Walked(t) = Walked(1)
    <3>1. \A t \in 1 .. turn : Walked(t) = Walked(1)
      BY <1>1, <1>3 DEF Walked
    <3>2. \A t \in 1 .. turn : TimedOut(t) = {} /\ ~ Silent(t)
      BY <1>3 DEF Undisturbed
    <3>3. \A t \in 1 .. turn : Left(t) = Walked(t)
      BY <3>2 DEF Left, Seen
    <3> QED
      BY <3>1, <3>3
  <2>2. /\ PageRows \in SUBSET (1 .. n) /\ \A i \in PageRows : records[i].base \in Name
        /\ Rising(PageRows) /\ NamesOf(PageRows) = Left(1)
    BY <1>1, <2>1, PageTold DEF n
  <2>3. /\ Closed(1) /\ ~ Cut(1) /\ TimedOut(1) = {} /\ ~ Silent(1)
        /\ Complete(Walked(1)) /\ Left(1) = Walked(1)
    BY <1>1, <1>3, <2>1, TurnFacts DEF Undisturbed
  <2>4. page.conforming
    BY <1>1, <1>2, <2>2, <2>3, FirstConforms
  <2>5. Names(page.label, 1)
    BY <1>1, <1>2, <2>2, <2>3, FirstLabelled
  <2>6. Names(page.label, 1) => Names(page.label, turn)
    <3>1. walk[1] = walk[turn]
      BY <1>1, <1>3
    <3> HIDE DEF page
    <3> QED
      BY <3>1 DEF Names, Variant
  <2> QED
    BY <2>4, <2>5, <2>6
<1>4. ASSUME turn = 1
      PROVE  /\ page.conforming => replayed
             /\ TimedOut(1) = {} => page.conforming = replayed
             /\ Undisturbed(1) /\ Silent(1) => page.label = "none"
             /\ \/ page.label = "none" \/ Names(page.label, 1)
                \/ Cut(1)
                \/ TimedOut(1) \cap {"UnsafeMethodGate", "FollowUpResponder"} # {}
             /\ ~ Dispatched(1) => MatchTraceVariant(ScriptRows) = page
  <2>1. /\ PageRows \in SUBSET (1 .. n) /\ \A i \in PageRows : records[i].base \in Name
        /\ Rising(PageRows) /\ NamesOf(PageRows) = Left(1)
    <3>1. \A t \in 1 .. turn : t = 1
      BY <1>4
    <3>2. \A t \in 1 .. turn : Left(t) \subseteq Left(1)
      BY <3>1
    <3> QED
      BY <1>1, <3>2, PageTold DEF n
  <2>2. /\ page.conforming \in BOOLEAN /\ (page.conforming => replayed)
        /\ TimedOut(1) = {} => (replayed => page.conforming)
    BY <1>1, <1>2, <2>1, FirstConforms
  <2>3. TimedOut(1) = {} => page.conforming = replayed
    <3> HIDE DEF page
    <3> QED
      BY <2>2
  <2>4. ASSUME ~ Cut(1)
        PROVE  /\ \/ page.label = "none" \/ Names(page.label, 1)
                  \/ TimedOut(1) \cap {"UnsafeMethodGate", "FollowUpResponder"} # {}
               /\ TimedOut(1) = {} /\ Silent(1) => page.label = "none"
    BY <1>1, <1>2, <1>4, <2>1, <2>4, FirstLabelled
  <2>5. ASSUME ~ Dispatched(1)
        PROVE  MatchTraceVariant(ScriptRows) = page
    <3>1. /\ ScriptRows \in SUBSET (1 .. n) /\ \A i \in ScriptRows : records[i].base \in Name
          /\ Rising(ScriptRows) /\ NamesOf(ScriptRows) = Left(1)
      BY <1>4, <2>5, ScriptTold DEF n
    <3> QED
      BY <1>2, <2>1, <3>1, NamesDecide
  <2>6. Undisturbed(1) => ~ Cut(1) /\ TimedOut(1) = {}
    BY DEF Undisturbed
  <2> QED
    BY <2>2, <2>3, <2>4, <2>5, <2>6
<1> QED
  BY <1>3, <1>4 DEF PageTellsTheTurn

\* Of a thread with any number of turns and mishaps, the trace page tells what its turn
\* did as far as PageTellsTheTurn says.
THEOREM PageTellsTurn == ConformanceSpec => []PageTellsTheTurn
BY RecordsTellNames, PageTells, PTL
============================================================================
