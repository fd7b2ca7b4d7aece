----------------------- MODULE FailureInjectionProofs ----------------------
(***************************************************************************)
(* What a campaign leaves behind, for any sessions and however many        *)
(* commands are given: backups.json keeps every original, an abort undoes  *)
(* what was applied, a revert restores what there was, and verify_reverts  *)
(* can be believed.                                                        *)
(***************************************************************************)
EXTENDS FailureInjection, SequenceTheorems, FiniteSetTheorems, TLAPS
\* The values a failure may change: <<type, target>>.
Items ==
  ({"chunk_deletion"} \X (Sessions \ Bare))
  \cup ({"log_gap"} \X AllRows)
  \cup ({"score_perturbation"} \X Sessions)
  \cup ({"manifest_tamper"} \X (1 .. Entries))

ItemOf(b) == <<b.type, b.target>>

\* What stands for a row that is not there.
NoRow == CHOOSE v \in {0, 1} : v # NoScore

\* The value of an item in what Snapshot shows of a database.
At(db, x) ==
  CASE x[1] = "chunk_deletion"     -> IF x[2] \in db[1] THEN NoScore ELSE NoRow
    [] x[1] = "score_perturbation" -> db[2][x[2]]
    [] x[1] = "log_gap"            -> IF x[2] \in db[3] THEN NoScore ELSE NoRow
    [] x[1] = "manifest_tamper"    -> db[4][x[2]]

Database ==
  (SUBSET (Sessions \ Bare)) \X [Sessions -> Score] \X (SUBSET AllRows)
    \X [1 .. Entries -> Digest]

Row == [entry_sequence : Nat, data : Nat, previous_hash : Digest, entry_hash : Digest]

Marked(hash) == \E p \in DOMAIN hash : hash[p] = Tampered

\* A command, in memory.
Command ==
  [phase : {"idle", "applying", "paused", "reverting"},
   command : {"none", "run", "apply_only", "revert_only"}, at : Nat,
   backups : Seq(BackupOf), aborting : BOOLEAN, errors : BOOLEAN,
   before : Database \cup {<< >>}]

TypeOK ==
  /\ \A s \in Sessions : /\ config[s].type \in FailureTypes
                         /\ config[s].target = TargetOf(config[s].type, s)
  /\ links \subseteq Sessions \ Bare
  /\ scores \in [Sessions -> Score]
  /\ rows \subseteq AllRows
  /\ manifest \in Seq(Row) /\ Entries <= Len(manifest)
  /\ file \in Seq(BackupOf) \cup {NoFile}
  /\ proc \in Command
  /\ proc.phase # "idle" => proc.before \in Database
  /\ last \in [outcome : {"none", "applied", "aborted", "reverted", "killed"},
               errors : BOOLEAN, before : Database \cup {<< >>}]
  /\ muddled \in BOOLEAN /\ chained \in BOOLEAN
  /\ commands \in Nat /\ faults \in Nat

\* Where a command stands: what it has in memory is what it did, and once it has
\* written it, what backups.json holds.
PhaseInv ==
  /\ proc.phase \in {"idle", "applying", "paused"} => ~ proc.aborting
  /\ proc.phase = "applying" => proc.at \in 1 .. Cardinality(Sessions) + 1
  /\ proc.phase = "reverting" => proc.at \in 1 .. Len(proc.backups) + 1
  /\ proc.phase \in {"paused", "reverting"} /\ ~ proc.aborting => file = proc.backups
  /\ proc.phase = "applying" =>
       \A j \in DOMAIN proc.backups :
         /\ \E s \in Sessions : s < proc.at /\ ItemOf(proc.backups[j]) = ItemOf(config[s])
         /\ proc.backups[j].type = "log_gap" => proc.backups[j].target \notin rows

\* In the manifest, the entries from before the campaign keep all but their hash,
\* which is either untouched or marked; those appended since are sound, and carry a
\* mark only if the first of them was chained to one.
Sound(entries, marked) ==
  /\ \A i \in 1 .. Entries :
       /\ entries[i].data = i
       /\ entries[i].previous_hash = Prefix(i - 1)
       /\ entries[i].entry_hash = Prefix(i) \/ Marked(entries[i].entry_hash)
  /\ \A i \in Entries + 1 .. Len(entries) :
       /\ entries[i].entry_hash = Hash(entries[i].previous_hash, entries[i].data)
       /\ i > Entries + 1 => entries[i].previous_hash = entries[i - 1].entry_hash
       /\ ~ marked => ~ Marked(entries[i].entry_hash)
  /\ Len(entries) = Entries => ~ marked
  /\ Len(entries) > Entries =>
       (marked <=> entries[Entries + 1].previous_hash # Prefix(Entries))

ManifestInv == Sound(manifest, chained)

\* A backup of a hash is the original, or it is marked.
Sane(backups) ==
  \A j \in DOMAIN backups :
    backups[j].type = "manifest_tamper" =>
      backups[j].original = Prefix(backups[j].target) \/ Marked(backups[j].original)

SaneInv == Sane(proc.backups) /\ (file # NoFile => Sane(file))

Kept(backups, x, db) ==
  \E i \in DOMAIN backups : ItemOf(backups[i]) = x /\ backups[i].original = At(db, x)

\* Of what differs between two databases, and of what they were made of, the
\* backups hold the first value.
Covers(db, first, backups) ==
  /\ \A x \in Items : At(db, x) = At(first, x) \/ Kept(backups, x, first)
  /\ \A j \in DOMAIN backups : Kept(backups, ItemOf(backups[j]), first)

\* What a later revert has to undo: an apply phase undoes its own work if it fails.
BaseOf(p, db) == IF p.phase = "applying" \/ p.aborting THEN p.before ELSE db

\* An apply phase keeps the first value of everything it changes, and backups.json
\* that of everything it does not find as it was.
CoverOf(p, db, f, m) ==
  /\ p.phase = "applying" => Covers(db, p.before, p.backups)
  /\ ~ m => IF f = NoFile THEN BaseOf(p, db) = Original
            ELSE Covers(BaseOf(p, db), Original, f)

CoverInv == CoverOf(proc, Snapshot, file, muddled)

Truthful(backups, db) ==
  \A j \in DOMAIN backups : backups[j].original = At(db, ItemOf(backups[j]))

\* What a revert is to bring back, and what it has not reached yet.
GoalOf(p) == IF p.aborting THEN p.before ELSE Original

Ahead(p, db) ==
  \A x \in Items :
    \/ At(db, x) = At(GoalOf(p), x)
    \/ \E j \in DOMAIN p.backups : j >= p.at /\ ItemOf(p.backups[j]) = x

\* Where no entry is shared, every backup is true, and what a revert without an
\* error has not brought back yet is ahead of it.
TrueOf(p, db, f, m) ==
  /\ p.phase = "applying" \/ p.aborting => Truthful(p.backups, p.before)
  /\ ~ m /\ f # NoFile => Truthful(f, Original)
  /\ p.phase = "reverting" /\ ~ p.errors /\ (p.aborting \/ ~ m) => Ahead(p, db)

TrueInv == NoSharedEntry => TrueOf(proc, Snapshot, file, muddled)

\* What the last command ended with.
EndOf(p, db, l, m) ==
  p.phase = "idle" /\ ~ l.errors =>
    /\ l.outcome = "aborted" => db = l.before
    /\ l.outcome = "reverted" /\ ~ m => db = Original

EndInv == NoSharedEntry => EndOf(proc, Snapshot, last, muddled)

----------------------------------------------------------------------------
(***************************************************************************)
(* Constants and digests.                                                  *)
(***************************************************************************)

\* There is a session, its document has an entry, and every thread has a middle row.
LEMMA Campaign ==
  /\ Cardinality(Sessions) \in Nat
  /\ Sessions = 1 .. Cardinality(Sessions)
  /\ Entries \in Nat /\ Entries >= 1
  /\ MiddleRow \in 1 .. ThreadRows
  /\ Payload = Nat /\ Tampered \notin Nat
<1>1. Cardinality(Sessions) \in Nat
  BY CampaignAssumption, FS_CardinalityType
<1>2. IsFiniteSet(FailureTypes)
  <2>1. IsFiniteSet({"chunk_deletion"})
    BY FS_Singleton
  <2>2. IsFiniteSet({"chunk_deletion"} \cup {"score_perturbation"})
    BY <2>1, FS_AddElement
  <2>3. IsFiniteSet(({"chunk_deletion"} \cup {"score_perturbation"}) \cup {"log_gap"})
    BY <2>2, FS_AddElement
  <2>4. IsFiniteSet((({"chunk_deletion"} \cup {"score_perturbation"}) \cup {"log_gap"})
                      \cup {"manifest_tamper"})
    BY <2>3, FS_AddElement
  <2>5. FailureTypes = (({"chunk_deletion"} \cup {"score_perturbation"})
                          \cup {"log_gap"}) \cup {"manifest_tamper"}
    BY DEF FailureTypes
  <2> QED
    BY <2>4, <2>5
<1>3. Cardinality(FailureTypes) \in Nat /\ Cardinality(FailureTypes) # 0
  <2>1. FailureTypes # {}
    BY DEF FailureTypes
  <2> QED
    BY <1>2, <2>1, FS_CardinalityType, FS_EmptySet
<1>4. 1 \in Sessions
  BY <1>1, <1>3, CampaignAssumption
<1>5. MiddleRow \in 1 .. ThreadRows
  BY CampaignAssumption DEF MiddleRow
<1> QED
  BY <1>1, <1>4, <1>5, CampaignAssumption, TamperedAssumption

\* A row that is not there is told from one that is.
LEMMA NoRowDiffers == NoRow # NoScore
<1>1. \E v \in {0, 1} : v # NoScore
  OBVIOUS
<1> QED
  BY <1>1 DEF NoRow

\* Extending a digest, by a payload or by the mark of a tampered one.
LEMMA DigestExtends ==
  ASSUME NEW d \in Digest, NEW p \in Nat \cup {Tampered}
  PROVE  /\ Hash(d, p) \in Digest
         /\ \E n \in Nat : /\ DOMAIN d = 1 .. n
                           /\ DOMAIN Hash(d, p) = 1 .. n + 1
                           /\ \A i \in 1 .. n : Hash(d, p)[i] = d[i]
                           /\ Hash(d, p)[n + 1] = p
<1>1. d \in Seq(Nat \cup {Tampered}) /\ Digest = Seq(Nat \cup {Tampered})
  BY Campaign DEF Digest
<1>2. /\ Hash(d, p) \in Digest
      /\ Len(d) \in Nat
      /\ DOMAIN d = 1 .. Len(d)
      /\ DOMAIN Hash(d, p) = 1 .. Len(d) + 1
      /\ \A i \in 1 .. Len(d) : Hash(d, p)[i] = d[i]
      /\ Hash(d, p)[Len(d) + 1] = p
  BY <1>1, AppendProperties, LenProperties DEF Hash
<1> QED
  BY <1>2

LEMMA PrefixDigest ==
  ASSUME NEW n \in Nat
  PROVE  /\ Prefix(n) \in Digest
         /\ ~ Marked(Prefix(n))
         /\ Len(Prefix(n)) = n
<1>1. Prefix(n) \in [1 .. n -> Nat \cup {Tampered}]
  BY DEF Prefix
<1>2. Prefix(n) \in Seq(Nat \cup {Tampered})
  BY <1>1, IsASeq
<1>3. \A i \in DOMAIN Prefix(n) : Prefix(n)[i] \in Nat
  BY DEF Prefix
<1>4. Len(Prefix(n)) = n
  BY <1>1, <1>2, LenProperties
<1> QED
  BY <1>2, <1>3, <1>4, Campaign DEF Digest, Marked

\* Entry n of the manifest is chained to the one before it.
LEMMA PrefixExtends ==
  ASSUME NEW n \in Nat \ {0}
  PROVE  Hash(Prefix(n - 1), n) = Prefix(n)
<1>1. n - 1 \in Nat
  OBVIOUS
<1>2. Prefix(n - 1) \in Digest /\ DOMAIN Prefix(n - 1) = 1 .. n - 1
  BY <1>1, PrefixDigest DEF Prefix
<1> DEFINE h == Hash(Prefix(n - 1), n)
<1>3. /\ h \in Digest
      /\ DOMAIN h = 1 .. n
      /\ \A i \in 1 .. n - 1 : h[i] = Prefix(n - 1)[i]
      /\ h[n] = n
  <2>1. PICK m \in Nat : /\ DOMAIN Prefix(n - 1) = 1 .. m
                         /\ DOMAIN h = 1 .. m + 1
                         /\ \A i \in 1 .. m : h[i] = Prefix(n - 1)[i]
                         /\ h[m + 1] = n
    BY <1>1, <1>2, DigestExtends
  <2>2. h \in Digest
    BY <1>1, <1>2, DigestExtends
  <2>3. m = n - 1
    BY <1>1, <1>2, <2>1
  <2> QED
    BY <2>1, <2>2, <2>3
<1>4. \A i \in 1 .. n - 1 : Prefix(n - 1)[i] = i
  BY DEF Prefix
<1> HIDE DEF h
<1>5. \A i \in 1 .. n : h[i] = i
  BY <1>3, <1>4
<1>6. h \in Seq(Nat \cup {Tampered})
  BY <1>3, Campaign DEF Digest
<1>7. Prefix(n) \in Seq(Nat \cup {Tampered}) /\ Len(Prefix(n)) = n
  BY PrefixDigest, Campaign DEF Digest
<1>8. Len(h) = n
  BY <1>3, <1>6, LenProperties
<1>9. \A i \in 1 .. n : Prefix(n)[i] = i
  BY DEF Prefix
<1>10. h = Prefix(n)
  BY <1>5, <1>6, <1>7, <1>8, <1>9, SeqEqual
<1> QED
  BY <1>10 DEF h

\* A tampered hash is marked; an extension is if what it extends is.
LEMMA Marks ==
  /\ \A d \in Digest : TamperedHash(d) \in Digest /\ Marked(TamperedHash(d))
  /\ \A d \in Digest, p \in Nat :
       Hash(d, p) \in Digest /\ (Marked(Hash(d, p)) <=> Marked(d))
<1>1. ASSUME NEW d \in Digest
      PROVE  TamperedHash(d) \in Digest /\ Marked(TamperedHash(d))
  <2>1. TamperedHash(d) = Hash(d, Tampered)
    BY DEF TamperedHash, Hash
  <2>2. /\ Hash(d, Tampered) \in Digest
        /\ \E n \in Nat : /\ DOMAIN Hash(d, Tampered) = 1 .. n + 1
                          /\ Hash(d, Tampered)[n + 1] = Tampered
    BY DigestExtends
  <2> QED
    BY <2>1, <2>2 DEF Marked
<1>2. ASSUME NEW d \in Digest, NEW p \in Nat
      PROVE  Hash(d, p) \in Digest /\ (Marked(Hash(d, p)) <=> Marked(d))
  <2>1. p # Tampered
    BY Campaign
  <2>2. Hash(d, p) \in Digest
    BY DigestExtends
  <2>3. PICK n \in Nat : /\ DOMAIN d = 1 .. n
                         /\ DOMAIN Hash(d, p) = 1 .. n + 1
                         /\ \A i \in 1 .. n : Hash(d, p)[i] = d[i]
                         /\ Hash(d, p)[n + 1] = p
    BY DigestExtends
  <2> QED
    BY <2>1, <2>2, <2>3 DEF Marked
<1> QED
  BY <1>1, <1>2

----------------------------------------------------------------------------
(***************************************************************************)
(* Items.                                                                  *)
(***************************************************************************)

\* Two databases that agree on every item are the same.
LEMMA SameDatabase ==
  ASSUME NEW a \in Database, NEW b \in Database,
         \A x \in Items : At(a, x) = At(b, x)
  PROVE  a = b
<1>1. \A l \in Sessions \ Bare : l \in a[1] <=> l \in b[1]
  <2> TAKE l \in Sessions \ Bare
  <2>1. <<"chunk_deletion", l>> \in Items
    BY DEF Items
  <2>2. At(a, <<"chunk_deletion", l>>) = At(b, <<"chunk_deletion", l>>)
    BY <2>1
  <2> QED
    BY <2>2, NoRowDiffers DEF At
<1>2. \A r \in AllRows : r \in a[3] <=> r \in b[3]
  <2> TAKE r \in AllRows
  <2>1. <<"log_gap", r>> \in Items
    BY DEF Items
  <2>2. At(a, <<"log_gap", r>>) = At(b, <<"log_gap", r>>)
    BY <2>1
  <2> QED
    BY <2>2, NoRowDiffers DEF At
<1>3. \A s \in Sessions : a[2][s] = b[2][s]
  <2> TAKE s \in Sessions
  <2>1. <<"score_perturbation", s>> \in Items
    BY DEF Items
  <2>2. At(a, <<"score_perturbation", s>>) = At(b, <<"score_perturbation", s>>)
    BY <2>1
  <2> QED
    BY <2>2 DEF At
<1>4. \A i \in 1 .. Entries : a[4][i] = b[4][i]
  <2> TAKE i \in 1 .. Entries
  <2>1. <<"manifest_tamper", i>> \in Items
    BY DEF Items
  <2>2. At(a, <<"manifest_tamper", i>>) = At(b, <<"manifest_tamper", i>>)
    BY <2>1
  <2> QED
    BY <2>2 DEF At
<1>5. a[1] = b[1]
  BY <1>1 DEF Database
<1>6. a[3] = b[3]
  BY <1>2 DEF Database
<1>7. a[2] = b[2]
  BY <1>3 DEF Database
<1>8. a[4] = b[4]
  <2>1. a[4] \in [1 .. Entries -> Digest] /\ b[4] \in [1 .. Entries -> Digest]
    BY DEF Database
  <2> QED
    BY <1>4, <2>1, Campaign
<1> QED
  BY <1>5, <1>6, <1>7, <1>8 DEF Database

\* The hash of an entry from before the campaign is a digest.
LEMMA EntryHash ==
  TypeOK => \A i \in 1 .. Entries :
              i \in 1 .. Len(manifest) /\ manifest[i].entry_hash \in Digest
<1> SUFFICES ASSUME TypeOK, NEW i \in 1 .. Entries
             PROVE  i \in 1 .. Len(manifest) /\ manifest[i].entry_hash \in Digest
  OBVIOUS
<1>1. i \in 1 .. Len(manifest)
  BY Campaign, LenProperties DEF TypeOK
<1>2. manifest[i] \in Row
  BY <1>1, ElementOfSeq DEF TypeOK
<1> QED
  BY <1>1, <1>2 DEF Row

\* What the campaign may change is a database.
LEMMA SnapshotType == TypeOK => Snapshot \in Database
<1> SUFFICES ASSUME TypeOK PROVE Snapshot \in Database
  OBVIOUS
<1>1. \A i \in 1 .. Entries : manifest[i].entry_hash \in Digest
  BY EntryHash
<1>2. HashesOf(manifest) \in [1 .. Entries -> Digest]
  BY <1>1 DEF HashesOf
<1> QED
  BY <1>2 DEF TypeOK, Snapshot, Database

LEMMA OriginalType == Original \in Database
<1>1. \A i \in 1 .. Entries : LinearEntries[i].entry_hash = Prefix(i)
  BY DEF LinearEntries
<1>2. \A i \in 1 .. Entries : Prefix(i) \in Digest
  BY PrefixDigest, Campaign
<1>3. HashesOf(LinearEntries) \in [1 .. Entries -> Digest]
  BY <1>1, <1>2 DEF HashesOf
<1> QED
  BY <1>3, CampaignAssumption DEF Original, Database
\* An UPDATE of the hash of an entry from before the campaign.
LEMMA HashWritten ==
  ASSUME TypeOK, NEW t \in 1 .. Entries, NEW h \in Digest,
         manifest' = [manifest EXCEPT ![t].entry_hash = h]
  PROVE  /\ manifest' \in Seq(Row)
         /\ Len(manifest') = Len(manifest)
         /\ \A i \in 1 .. Len(manifest) :
              /\ manifest'[i].data = manifest[i].data
              /\ manifest'[i].previous_hash = manifest[i].previous_hash
              /\ manifest'[i].entry_hash = IF i = t THEN h ELSE manifest[i].entry_hash
<1>1. manifest \in Seq(Row) /\ Len(manifest) \in Nat /\ Entries <= Len(manifest)
  BY LenProperties DEF TypeOK
<1>2. t \in 1 .. Len(manifest)
  BY <1>1, Campaign
<1>3. manifest[t] \in Row
  BY <1>1, <1>2, ElementOfSeq
<1> DEFINE row == [manifest[t] EXCEPT !.entry_hash = h]
<1>4. /\ row \in Row
      /\ row.data = manifest[t].data
      /\ row.previous_hash = manifest[t].previous_hash
      /\ row.entry_hash = h
  BY <1>3 DEF Row
<1>5. manifest' = [manifest EXCEPT ![t] = row]
  OBVIOUS
<1> HIDE DEF row
<1>6. /\ [manifest EXCEPT ![t] = row] \in Seq(Row)
      /\ Len([manifest EXCEPT ![t] = row]) = Len(manifest)
      /\ \A i \in 1 .. Len(manifest) :
           [manifest EXCEPT ![t] = row][i] = IF i = t THEN row ELSE manifest[i]
  BY <1>1, <1>2, <1>4, ExceptSeq
<1>7. \A i \in 1 .. Len(manifest) : manifest'[i] = IF i = t THEN row ELSE manifest[i]
  BY <1>5, <1>6
<1>8. manifest' \in Seq(Row) /\ Len(manifest') = Len(manifest)
  BY <1>5, <1>6
<1> QED
  BY <1>4, <1>7, <1>8

\* What a failure is dealt to is an item.
LEMMA ConfigItem ==
  ASSUME TypeOK, NEW s \in Sessions, config[s].target # NoTarget
  PROVE  /\ ItemOf(config[s]) \in Items
         /\ config[s].type \in FailureTypes
         /\ config[s].type \in {"chunk_deletion", "score_perturbation"} =>
              config[s].target = s
         /\ config[s].type = "chunk_deletion" => s \in Sessions \ Bare
         /\ config[s].type = "log_gap" => config[s].target \in AllRows
         /\ config[s].type = "manifest_tamper" => config[s].target \in 1 .. Entries
<1>1. /\ config[s].type \in FailureTypes
      /\ config[s].target = TargetOf(config[s].type, s)
      /\ s \notin Bare
  BY DEF TypeOK, TargetOf
<1>2. CASE config[s].type = "chunk_deletion"
  <2>1. config[s].target = s
    BY <1>1, <1>2 DEF TargetOf
  <2> QED
    BY <1>1, <1>2, <2>1 DEF Items, ItemOf
<1>3. CASE config[s].type = "score_perturbation"
  <2>1. config[s].target = s
    BY <1>1, <1>3 DEF TargetOf
  <2> QED
    BY <1>1, <1>3, <2>1 DEF Items, ItemOf
<1>4. CASE config[s].type = "log_gap"
  <2>1. config[s].target = <<ThreadOf[s], MiddleRow>>
    BY <1>1, <1>4 DEF TargetOf
  <2>2. config[s].target \in AllRows
    BY <2>1, Campaign DEF AllRows
  <2> QED
    BY <1>1, <1>4, <2>2 DEF Items, ItemOf
<1>5. CASE config[s].type = "manifest_tamper"
  <2>1. config[s].target = EntryOf[s]
    BY <1>1, <1>5 DEF TargetOf
  <2>2. config[s].target \in 1 .. Entries
    BY <2>1, CampaignAssumption
  <2> QED
    BY <1>1, <1>5, <2>2 DEF Items, ItemOf
<1> QED
  BY <1>1, <1>2, <1>3, <1>4, <1>5 DEF FailureTypes

\* So is what a backup is of.
LEMMA BackupItem ==
  ASSUME NEW b \in BackupOf
  PROVE  /\ ItemOf(b) \in Items
         /\ b.type \in FailureTypes
         /\ b.type = "chunk_deletion" => b.target \in Sessions \ Bare /\ b.original = NoScore
         /\ b.type = "log_gap" => b.target \in AllRows /\ b.original = NoScore
         /\ b.type = "score_perturbation" => b.target \in Sessions /\ b.original \in Score
         /\ b.type = "manifest_tamper" => b.target \in 1 .. Entries /\ b.original \in Digest
<1>1. CASE b \in [type : {"chunk_deletion"}, target : Sessions \ Bare, original : {NoScore}]
  BY <1>1 DEF Items, ItemOf, FailureTypes
<1>2. CASE b \in [type : {"log_gap"}, target : AllRows, original : {NoScore}]
  BY <1>2 DEF Items, ItemOf, FailureTypes
<1>3. CASE b \in [type : {"score_perturbation"}, target : Sessions, original : Score]
  BY <1>3 DEF Items, ItemOf, FailureTypes
<1>4. CASE b \in [type : {"manifest_tamper"}, target : 1 .. Entries, original : Digest]
  BY <1>4 DEF Items, ItemOf, FailureTypes
<1> QED
  BY <1>1, <1>2, <1>3, <1>4 DEF BackupOf

\* A step that writes item y of the tables and no other.
Wrote(y) ==
  /\ links' \subseteq Sessions \ Bare
  /\ scores' \in [Sessions -> Score]
  /\ rows' \subseteq AllRows
  /\ manifest' \in Seq(Row) /\ Len(manifest') = Len(manifest)
  /\ \A i \in 1 .. Len(manifest) :
       /\ manifest'[i].data = manifest[i].data
       /\ manifest'[i].previous_hash = manifest[i].previous_hash
       /\ i > Entries => manifest'[i].entry_hash = manifest[i].entry_hash
  /\ \A x \in Items : x # y => At(Snapshot', x) = At(Snapshot, x)

\* A write to each of the tables.
LEMMA LinkWritten ==
  ASSUME TypeOK, NEW t \in Sessions \ Bare, links' \subseteq Sessions \ Bare,
         \A l \in Sessions \ Bare : l # t => (l \in links' <=> l \in links),
         UNCHANGED <<scores, rows, manifest>>
  PROVE  Wrote(<<"chunk_deletion", t>>)
<1>1. scores' = scores /\ rows' = rows /\ manifest' = manifest
  OBVIOUS
<1>2. \A x \in Items : x # <<"chunk_deletion", t>> => At(Snapshot', x) = At(Snapshot, x)
  <2> SUFFICES ASSUME NEW x \in Items, x # <<"chunk_deletion", t>>
               PROVE  At(Snapshot', x) = At(Snapshot, x)
    OBVIOUS
  <2>1. CASE x[1] = "chunk_deletion"
    <3>1. x = <<"chunk_deletion", x[2]>> /\ x[2] \in Sessions \ Bare
      BY <2>1 DEF Items
    <3>2. x[2] \in links' <=> x[2] \in links
      BY <3>1
    <3> QED
      BY <2>1, <3>2 DEF At, Snapshot
  <2>2. CASE x[1] # "chunk_deletion"
    <3>1. x[1] \in FailureTypes
      BY DEF Items, FailureTypes
    <3>2. Snapshot'[2] = Snapshot[2] /\ Snapshot'[3] = Snapshot[3] /\ Snapshot'[4] = Snapshot[4]
      BY DEF Snapshot, HashesOf
    <3> QED
      BY <2>2, <3>1, <3>2 DEF At, FailureTypes
  <2> QED
    BY <2>1, <2>2
<1> QED
  BY <1>1, <1>2 DEF Wrote, TypeOK

LEMMA RowWritten ==
  ASSUME TypeOK, NEW t \in AllRows, rows' \subseteq AllRows,
         \A r \in AllRows : r # t => (r \in rows' <=> r \in rows),
         UNCHANGED <<links, scores, manifest>>
  PROVE  Wrote(<<"log_gap", t>>)
<1>1. scores' = scores /\ links' = links /\ manifest' = manifest
  OBVIOUS
<1>2. \A x \in Items : x # <<"log_gap", t>> => At(Snapshot', x) = At(Snapshot, x)
  <2> SUFFICES ASSUME NEW x \in Items, x # <<"log_gap", t>>
               PROVE  At(Snapshot', x) = At(Snapshot, x)
    OBVIOUS
  <2>1. CASE x[1] = "log_gap"
    <3>1. x = <<"log_gap", x[2]>> /\ x[2] \in AllRows
      BY <2>1 DEF Items
    <3>2. x[2] \in rows' <=> x[2] \in rows
      BY <3>1
    <3> QED
      BY <2>1, <3>2 DEF At, Snapshot
  <2>2. CASE x[1] # "log_gap"
    <3>1. x[1] \in FailureTypes
      BY DEF Items, FailureTypes
    <3>2. Snapshot'[1] = Snapshot[1] /\ Snapshot'[2] = Snapshot[2] /\ Snapshot'[4] = Snapshot[4]
      BY DEF Snapshot, HashesOf
    <3> QED
      BY <2>2, <3>1, <3>2 DEF At, FailureTypes
  <2> QED
    BY <2>1, <2>2
<1> QED
  BY <1>1, <1>2 DEF Wrote, TypeOK

LEMMA ScoreWritten ==
  ASSUME TypeOK, NEW t \in Sessions, NEW v \in Score,
         scores' = [scores EXCEPT ![t] = v],
         UNCHANGED <<links, rows, manifest>>
  PROVE  Wrote(<<"score_perturbation", t>>) /\ scores'[t] = v
<1>1. /\ links' = links /\ rows' = rows /\ manifest' = manifest
      /\ scores' \in [Sessions -> Score] /\ scores'[t] = v
  BY DEF TypeOK
<1>2. \A x \in Items : x # <<"score_perturbation", t>> => At(Snapshot', x) = At(Snapshot, x)
  <2> SUFFICES ASSUME NEW x \in Items, x # <<"score_perturbation", t>>
               PROVE  At(Snapshot', x) = At(Snapshot, x)
    OBVIOUS
  <2>1. CASE x[1] = "score_perturbation"
    <3>1. x = <<"score_perturbation", x[2]>> /\ x[2] \in Sessions
      BY <2>1 DEF Items
    <3>2. scores'[x[2]] = scores[x[2]]
      BY <3>1 DEF TypeOK
    <3> QED
      BY <2>1, <3>2 DEF At, Snapshot
  <2>2. CASE x[1] # "score_perturbation"
    <3>1. x[1] \in FailureTypes
      BY DEF Items, FailureTypes
    <3>2. Snapshot'[1] = Snapshot[1] /\ Snapshot'[3] = Snapshot[3] /\ Snapshot'[4] = Snapshot[4]
      BY DEF Snapshot, HashesOf
    <3> QED
      BY <2>2, <3>1, <3>2 DEF At, FailureTypes
  <2> QED
    BY <2>1, <2>2
<1> QED
  BY <1>1, <1>2 DEF Wrote, TypeOK

LEMMA EntryWritten ==
  ASSUME TypeOK, NEW t \in 1 .. Entries, NEW h \in Digest,
         manifest' = [manifest EXCEPT ![t].entry_hash = h],
         UNCHANGED <<links, scores, rows>>
  PROVE  /\ Wrote(<<"manifest_tamper", t>>)
         /\ manifest'[t].entry_hash = h
         /\ \A i \in 1 .. Entries : i # t =>
              manifest'[i].entry_hash = manifest[i].entry_hash
<1>1. /\ links' = links /\ rows' = rows /\ scores' = scores
      /\ Len(manifest) \in Nat /\ Entries \in Nat /\ Entries <= Len(manifest)
  BY Campaign, LenProperties DEF TypeOK
<1>3. /\ manifest' \in Seq(Row)
      /\ Len(manifest') = Len(manifest)
      /\ \A i \in 1 .. Len(manifest) :
           /\ manifest'[i].data = manifest[i].data
           /\ manifest'[i].previous_hash = manifest[i].previous_hash
           /\ manifest'[i].entry_hash = IF i = t THEN h ELSE manifest[i].entry_hash
  BY HashWritten
<1>4. \A i \in 1 .. Entries : i \in 1 .. Len(manifest)
  BY <1>1
<1>2. \A x \in Items : x # <<"manifest_tamper", t>> => At(Snapshot', x) = At(Snapshot, x)
  <2> SUFFICES ASSUME NEW x \in Items, x # <<"manifest_tamper", t>>
               PROVE  At(Snapshot', x) = At(Snapshot, x)
    OBVIOUS
  <2>1. CASE x[1] = "manifest_tamper"
    <3>1. x = <<"manifest_tamper", x[2]>> /\ x[2] \in 1 .. Entries
      BY <2>1 DEF Items
    <3>2. manifest'[x[2]].entry_hash = manifest[x[2]].entry_hash
      BY <1>3, <1>4, <3>1
    <3> QED
      BY <2>1, <3>1, <3>2 DEF At, Snapshot, HashesOf
  <2>2. CASE x[1] # "manifest_tamper"
    <3>1. x[1] \in FailureTypes
      BY DEF Items, FailureTypes
    <3>2. Snapshot'[1] = Snapshot[1] /\ Snapshot'[2] = Snapshot[2] /\ Snapshot'[3] = Snapshot[3]
      BY DEF Snapshot, HashesOf
    <3> QED
      BY <2>2, <3>1, <3>2 DEF At, FailureTypes
  <2> QED
    BY <2>1, <2>2
<1>5. Wrote(<<"manifest_tamper", t>>)
  <2>1. \A i \in 1 .. Len(manifest) : i > Entries => i # t
    BY <1>1
  <2> QED
    BY <1>1, <1>2, <1>3, <2>1 DEF Wrote, TypeOK
<1> QED
  BY <1>3, <1>4, <1>5

\* One injection: its backup holds what it overwrites.
LEMMA InjectWrites ==
  ASSUME TypeOK, NEW s \in Sessions, config[s].target # NoTarget,
         CanInject(config[s]), Inject(config[s])
  PROVE  /\ Wrote(ItemOf(config[s]))
         /\ Backup(config[s]) \in BackupOf
         /\ ItemOf(Backup(config[s])) = ItemOf(config[s])
         /\ Backup(config[s]).original = At(Snapshot, ItemOf(config[s]))
<1> DEFINE c == config[s]
           t == config[s].target
<1>1. /\ c.type \in FailureTypes
      /\ c.type \in {"chunk_deletion", "score_perturbation"} => t = s
      /\ c.type = "chunk_deletion" => s \in Sessions \ Bare
      /\ c.type = "log_gap" => t \in AllRows
      /\ c.type = "manifest_tamper" => t \in 1 .. Entries
  BY ConfigItem
<1>2. Backup(c).type = c.type /\ Backup(c).target = t /\ ItemOf(Backup(c)) = ItemOf(c)
  BY DEF Backup, ItemOf
<1>3. CASE c.type = "chunk_deletion"
  <2>1. /\ links' = links \ {t} /\ t \in links
        /\ UNCHANGED <<scores, rows, manifest>>
    BY <1>3 DEF Inject, CanInject
  <2>2. t \in Sessions \ Bare
    BY <1>1, <1>3
  <2>3. Backup(c).original = NoScore
    BY <1>3 DEF Backup
  <2>4. At(Snapshot, ItemOf(c)) = NoScore
    BY <1>3, <2>1 DEF At, Snapshot, ItemOf
  <2>5. Backup(c) \in BackupOf
    BY <1>1, <1>2, <1>3, <2>3 DEF Backup, BackupOf
  <2>6. links' \subseteq Sessions \ Bare
    BY <2>1 DEF TypeOK
  <2>7. Wrote(<<"chunk_deletion", t>>)
    BY <2>1, <2>2, <2>6, LinkWritten
  <2> QED
    BY <1>2, <1>3, <2>3, <2>4, <2>5, <2>7 DEF ItemOf
<1>4. CASE c.type = "log_gap"
  <2>1. /\ rows' = rows \ {t} /\ t \in rows
        /\ UNCHANGED <<links, scores, manifest>>
    BY <1>4 DEF Inject, CanInject
  <2>2. t \in AllRows
    BY <1>1, <1>4
  <2>3. Backup(c).original = NoScore
    BY <1>4 DEF Backup
  <2>4. At(Snapshot, ItemOf(c)) = NoScore
    BY <1>4, <2>1 DEF At, Snapshot, ItemOf
  <2>5. Backup(c) \in BackupOf
    BY <1>1, <1>2, <1>4, <2>3 DEF Backup, BackupOf
  <2>6. rows' \subseteq AllRows
    BY <2>1 DEF TypeOK
  <2>7. Wrote(<<"log_gap", t>>)
    BY <2>1, <2>2, <2>6, RowWritten
  <2> QED
    BY <1>2, <1>4, <2>3, <2>4, <2>5, <2>7 DEF ItemOf
<1>5. CASE c.type = "score_perturbation"
  <2>1. /\ scores' = [scores EXCEPT ![t] = Flipped(scores[t])]
        /\ UNCHANGED <<links, rows, manifest>>
    BY <1>5 DEF Inject
  <2>2. t \in Sessions /\ scores[t] \in Score
    BY <1>1, <1>5 DEF TypeOK
  <2>3. Flipped(scores[t]) \in Score
    BY <2>2 DEF Flipped, Score
  <2>4. Backup(c).original = scores[t]
    BY <1>5 DEF Backup
  <2>5. At(Snapshot, ItemOf(c)) = scores[t]
    BY <1>5 DEF At, Snapshot, ItemOf
  <2>6. Backup(c) \in BackupOf
    BY <1>1, <1>2, <1>5, <2>2, <2>4 DEF Backup, BackupOf
  <2>7. Wrote(<<"score_perturbation", t>>)
    BY <2>1, <2>2, <2>3, ScoreWritten
  <2> QED
    BY <1>2, <1>5, <2>4, <2>5, <2>6, <2>7 DEF ItemOf
<1>6. CASE c.type = "manifest_tamper"
  <2>1. /\ manifest' = [manifest EXCEPT ![t].entry_hash
                                      = TamperedHash(manifest[t].entry_hash)]
        /\ UNCHANGED <<links, rows, scores>>
    BY <1>6 DEF Inject
  <2>2. t \in 1 .. Entries /\ manifest[t].entry_hash \in Digest
    BY <1>1, <1>6, EntryHash
  <2>3. TamperedHash(manifest[t].entry_hash) \in Digest
    BY <2>2, Marks
  <2>4. Backup(c).original = manifest[t].entry_hash
    BY <1>6 DEF Backup
  <2>5. At(Snapshot, ItemOf(c)) = manifest[t].entry_hash
    BY <1>6, <2>2 DEF At, Snapshot, ItemOf, HashesOf
  <2>6. Backup(c) \in BackupOf
    BY <1>1, <1>2, <1>6, <2>2, <2>4 DEF Backup, BackupOf
  <2>7. Wrote(<<"manifest_tamper", t>>)
    BY <2>1, <2>2, <2>3, EntryWritten
  <2> QED
    BY <1>2, <1>6, <2>4, <2>5, <2>6, <2>7 DEF ItemOf
<1> QED
  BY <1>1, <1>3, <1>4, <1>5, <1>6 DEF FailureTypes

\* One revert: its item has the value the backup holds.
LEMMA RevertWrites ==
  ASSUME TypeOK, NEW b \in BackupOf, CanRevert(b), Revert(b)
  PROVE  /\ Wrote(ItemOf(b))
         /\ At(Snapshot', ItemOf(b)) = b.original
<1>1. /\ b.type \in FailureTypes
      /\ b.type = "chunk_deletion" => b.target \in Sessions \ Bare /\ b.original = NoScore
      /\ b.type = "log_gap" => b.target \in AllRows /\ b.original = NoScore
      /\ b.type = "score_perturbation" => b.target \in Sessions /\ b.original \in Score
      /\ b.type = "manifest_tamper" => b.target \in 1 .. Entries /\ b.original \in Digest
  BY BackupItem
<1>2. CASE b.type = "chunk_deletion"
  <2>1. links' = links \cup {b.target} /\ UNCHANGED <<scores, rows, manifest>>
    BY <1>2 DEF Revert
  <2>2. links' \subseteq Sessions \ Bare
    BY <1>1, <1>2, <2>1 DEF TypeOK
  <2>3. Wrote(<<"chunk_deletion", b.target>>)
    BY <1>1, <1>2, <2>1, <2>2, LinkWritten
  <2>4. At(Snapshot', ItemOf(b)) = NoScore
    BY <1>2, <2>1 DEF At, Snapshot, ItemOf
  <2> QED
    BY <1>1, <1>2, <2>3, <2>4 DEF ItemOf
<1>3. CASE b.type = "log_gap"
  <2>1. rows' = rows \cup {b.target} /\ UNCHANGED <<links, scores, manifest>>
    BY <1>3 DEF Revert
  <2>2. rows' \subseteq AllRows
    BY <1>1, <1>3, <2>1 DEF TypeOK
  <2>3. Wrote(<<"log_gap", b.target>>)
    BY <1>1, <1>3, <2>1, <2>2, RowWritten
  <2>4. At(Snapshot', ItemOf(b)) = NoScore
    BY <1>3, <2>1 DEF At, Snapshot, ItemOf
  <2> QED
    BY <1>1, <1>3, <2>3, <2>4 DEF ItemOf
<1>4. CASE b.type = "score_perturbation"
  <2>1. /\ scores' = [scores EXCEPT ![b.target] = b.original]
        /\ UNCHANGED <<links, rows, manifest>>
    BY <1>4 DEF Revert
  <2>2. b.target \in Sessions /\ b.original \in Score
    BY <1>1, <1>4
  <2>3. Wrote(<<"score_perturbation", b.target>>) /\ scores'[b.target] = b.original
    BY <2>1, <2>2, ScoreWritten
  <2>4. At(Snapshot', ItemOf(b)) = b.original
    BY <1>4, <2>3 DEF At, Snapshot, ItemOf
  <2> QED
    BY <1>4, <2>3, <2>4 DEF ItemOf
<1>5. CASE b.type = "manifest_tamper"
  <2>1. /\ manifest' = [manifest EXCEPT ![b.target].entry_hash = b.original]
        /\ UNCHANGED <<links, rows, scores>>
    BY <1>5 DEF Revert
  <2>2. b.target \in 1 .. Entries /\ b.original \in Digest
    BY <1>1, <1>5
  <2>3. Wrote(<<"manifest_tamper", b.target>>) /\ manifest'[b.target].entry_hash = b.original
    BY <2>1, <2>2, EntryWritten
  <2>4. At(Snapshot', ItemOf(b)) = b.original
    BY <1>5, <2>2, <2>3 DEF At, Snapshot, ItemOf, HashesOf
  <2> QED
    BY <1>5, <2>3, <2>4 DEF ItemOf
<1> QED
  BY <1>1, <1>2, <1>3, <1>4, <1>5 DEF FailureTypes

\* An append changes no item; nor does a step that leaves the tables alone.
LEMMA AppendKeeps ==
  ASSUME TypeOK, AppendEntry
  PROVE  /\ Snapshot' = Snapshot
         /\ manifest' \in Seq(Row)
         /\ Len(manifest') = Len(manifest) + 1
         /\ \A i \in 1 .. Len(manifest) : manifest'[i] = manifest[i]
         /\ manifest'[Len(manifest')].data \in Nat
         /\ manifest'[Len(manifest')].previous_hash = manifest[Len(manifest)].entry_hash
         /\ manifest'[Len(manifest')].entry_hash
              = Hash(manifest[Len(manifest)].entry_hash, manifest'[Len(manifest')].data)
<1> DEFINE n == Len(manifest)
           tail == manifest[n]
           row == [entry_sequence |-> tail.entry_sequence + 1, data |-> n + 1,
                   previous_hash |-> tail.entry_hash,
                   entry_hash |-> Hash(tail.entry_hash, n + 1)]
<1>1. manifest \in Seq(Row) /\ n \in Nat /\ n \in 1 .. n /\ Entries <= n /\ Entries \in Nat
  BY Campaign, LenProperties DEF TypeOK
<1>2. tail \in Row
  BY <1>1, ElementOfSeq
<1>3. tail.entry_hash \in Digest /\ tail.entry_sequence \in Nat
  BY <1>2 DEF Row
<1>4. Hash(tail.entry_hash, n + 1) \in Digest /\ n + 1 \in Nat
  BY <1>1, <1>3, Marks
<1>5. row \in Row
  BY <1>1, <1>3, <1>4 DEF Row
<1>6. manifest' = Append(manifest, row) /\ UNCHANGED <<links, scores, rows>>
  BY DEF AppendEntry
<1> HIDE DEF row
<1>7. /\ manifest' \in Seq(Row) /\ Len(manifest') = n + 1
      /\ \A i \in 1 .. n : manifest'[i] = manifest[i]
      /\ manifest'[n + 1] = row
  BY <1>1, <1>5, <1>6, AppendProperties
<1>8. \A i \in 1 .. Entries : manifest'[i] = manifest[i]
  BY <1>1, <1>7
<1>9. HashesOf(manifest') = HashesOf(manifest)
  BY <1>8 DEF HashesOf
<1>10. HashesOf(manifest)' = HashesOf(manifest')
  BY DEF HashesOf
<1>11. Snapshot' = Snapshot
  BY <1>6, <1>9, <1>10 DEF Snapshot
<1>12. /\ row.data = n + 1 /\ row.previous_hash = tail.entry_hash
       /\ row.entry_hash = Hash(tail.entry_hash, n + 1)
  BY DEF row
<1> QED
  BY <1>1, <1>7, <1>11, <1>12

LEMMA TablesKept == UNCHANGED database => Snapshot' = Snapshot
  BY DEF database, Snapshot, HashesOf
----------------------------------------------------------------------------
(***************************************************************************)
(* The types.                                                              *)
(***************************************************************************)

LEMMA TypeInit == Init => TypeOK
<1> SUFFICES ASSUME Init PROVE TypeOK
  OBVIOUS
<1>1. \A s \in Sessions : /\ config[s].type \in FailureTypes
                          /\ config[s].target = TargetOf(config[s].type, s)
  <2>1. PICK f \in Assignments :
          config = [s \in Sessions |-> [type |-> f[s], target |-> TargetOf(f[s], s)]]
    BY DEF Init
  <2>2. \A s \in Sessions : f[s] \in FailureTypes
    BY DEF Assignments
  <2> QED
    BY <2>1, <2>2
<1>2. LinearEntries \in Seq(Row) /\ Len(LinearEntries) = Entries
  <2>1. \A i \in 1 .. Entries :
          [entry_sequence |-> i, data |-> i, previous_hash |-> Prefix(i - 1),
           entry_hash |-> Prefix(i)] \in Row
    <3> TAKE i \in 1 .. Entries
    <3>1. i \in Nat /\ i - 1 \in Nat
      BY Campaign
    <3>2. Prefix(i) \in Digest /\ Prefix(i - 1) \in Digest
      BY <3>1, PrefixDigest
    <3> QED
      BY <3>1, <3>2 DEF Row
  <2>2. LinearEntries \in [1 .. Entries -> Row]
    BY <2>1 DEF LinearEntries
  <2>3. LinearEntries \in Seq(Row)
    BY <2>2, Campaign
  <2> QED
    BY <2>2, <2>3, LenProperties, Campaign
<1>3. Idle \in Command
  <2>1. << >> \in Seq(BackupOf)
    BY EmptySeq
  <2> QED
    BY <2>1 DEF Idle, Command
<1>4. /\ links \subseteq Sessions \ Bare /\ scores \in [Sessions -> Score]
      /\ rows \subseteq AllRows
  BY CampaignAssumption DEF Init
<1>5. manifest \in Seq(Row) /\ Entries <= Len(manifest)
  BY <1>2, Campaign DEF Init
<1>6. /\ file = NoFile /\ proc = Idle /\ muddled = FALSE /\ chained = FALSE
      /\ commands = 0 /\ faults = 0
      /\ last = [outcome |-> "none", errors |-> FALSE, before |-> << >>]
  BY DEF Init
<1>7. proc.phase = "idle"
  BY <1>6 DEF Idle
<1> QED
  BY <1>1, <1>3, <1>4, <1>5, <1>6, <1>7 DEF TypeOK

\* The tables, after a write, an append, or a step that leaves them alone.
LEMMA TablesTyped ==
  ASSUME TypeOK, (\E y \in Items : Wrote(y)) \/ AppendEntry \/ UNCHANGED database
  PROVE  /\ links' \subseteq Sessions \ Bare
         /\ scores' \in [Sessions -> Score]
         /\ rows' \subseteq AllRows
         /\ manifest' \in Seq(Row) /\ Entries <= Len(manifest')
<1>1. Entries \in Nat /\ Len(manifest) \in Nat /\ Entries <= Len(manifest)
  BY Campaign, LenProperties DEF TypeOK
<1>2. CASE \E y \in Items : Wrote(y)
  BY <1>1, <1>2 DEF Wrote
<1>3. CASE AppendEntry
  <2>1. UNCHANGED <<links, scores, rows>>
    BY <1>3 DEF AppendEntry
  <2>2. manifest' \in Seq(Row) /\ Len(manifest') = Len(manifest) + 1
    BY <1>3, AppendKeeps
  <2> QED
    BY <1>1, <2>1, <2>2 DEF TypeOK
<1>4. CASE UNCHANGED database
  BY <1>4 DEF TypeOK, database
<1> QED
  BY <1>2, <1>3, <1>4

\* What a step writes, if it writes at all.
LEMMA StepWrites ==
  ASSUME TypeOK, [Next]_vars
  PROVE  (\E y \in Items : Wrote(y)) \/ AppendEntry \/ UNCHANGED database
<1>1. CASE ApplyNext
  <2>1. UNCHANGED database
        \/ /\ config[proc.at].target # NoTarget /\ proc.at \in Sessions
           /\ CanInject(config[proc.at]) /\ Inject(config[proc.at])
    BY <1>1 DEF ApplyNext
  <2>2. ASSUME NEW s \in Sessions, config[s].target # NoTarget,
               CanInject(config[s]), Inject(config[s])
        PROVE  \E y \in Items : Wrote(y)
    BY <2>2, InjectWrites, ConfigItem
  <2> QED
    BY <2>1, <2>2
<1>2. CASE RevertNext
  <2>1. UNCHANGED database
        \/ /\ proc.at \in DOMAIN proc.backups
           /\ CanRevert(proc.backups[proc.at]) /\ Revert(proc.backups[proc.at])
    BY <1>2 DEF RevertNext
  <2>2. \A j \in DOMAIN proc.backups : proc.backups[j] \in BackupOf
    BY ElementOfSeq, LenProperties DEF TypeOK, Command
  <2>3. ASSUME NEW b \in BackupOf, CanRevert(b), Revert(b)
        PROVE  \E y \in Items : Wrote(y)
    BY <2>3, RevertWrites, BackupItem
  <2> QED
    BY <2>1, <2>2, <2>3
<1>3. CASE AppendEntry
  BY <1>3
<1>4. CASE \/ \E command \in {"run", "apply_only"} : StartApply(command)
           \/ StartRevert \/ ApplyFails \/ SaveBackups \/ Resume \/ EndRevert \/ Kill
  BY <1>4 DEF StartApply, StartRevert, ApplyFails, SaveBackups, Resume, EndRevert, Kill
<1>5. CASE UNCHANGED vars
  BY <1>5 DEF vars
<1> QED
  BY <1>1, <1>2, <1>3, <1>4, <1>5 DEF Next

\* A command that ends.
LEMMA EndTypes ==
  ASSUME TypeOK, NEW outcome \in {"applied", "aborted", "reverted", "killed"},
         NEW errors \in BOOLEAN, Ends(outcome, errors)
  PROVE  /\ proc' = Idle /\ proc' \in Command
         /\ proc'.phase = "idle" /\ proc'.aborting = FALSE
         /\ proc'.backups = << >>
         /\ last' \in [outcome : {"none", "applied", "aborted", "reverted", "killed"},
                       errors : BOOLEAN, before : Database \cup {<< >>}]
         /\ last'.outcome = outcome /\ last'.errors = errors /\ last'.before = proc.before
<1>1. << >> \in Seq(BackupOf)
  BY EmptySeq
<1>2. Idle \in Command
  BY <1>1 DEF Idle, Command
<1> QED
  BY <1>2 DEF Ends, Idle, TypeOK, Command

\* A command that goes on.
LEMMA CommandMoves ==
  ASSUME NEW p \in Command
  PROVE  /\ [p EXCEPT !.at = @ + 1] \in Command
         /\ [p EXCEPT !.at = @ + 1].before = p.before
         /\ [p EXCEPT !.at = @ + 1, !.errors = TRUE] \in Command
         /\ [p EXCEPT !.at = @ + 1, !.errors = TRUE].before = p.before
         /\ \A kept \in Seq(BackupOf) :
              /\ [p EXCEPT !.at = @ + 1, !.backups = kept] \in Command
              /\ [p EXCEPT !.at = @ + 1, !.backups = kept].before = p.before
<1> DEFINE q == [p EXCEPT !.at = @ + 1]
<1>1. q \in Command /\ q.before = p.before
  BY DEF Command
<1>2. /\ [p EXCEPT !.at = @ + 1, !.errors = TRUE] = [q EXCEPT !.errors = TRUE]
      /\ \A kept \in Seq(BackupOf) :
           [p EXCEPT !.at = @ + 1, !.backups = kept] = [q EXCEPT !.backups = kept]
  OBVIOUS
<1> HIDE DEF q
<1>3. [q EXCEPT !.errors = TRUE] \in Command /\ [q EXCEPT !.errors = TRUE].before = q.before
  BY <1>1 DEF Command
<1>4. ASSUME NEW kept \in Seq(BackupOf)
      PROVE  [q EXCEPT !.backups = kept] \in Command
             /\ [q EXCEPT !.backups = kept].before = q.before
  BY <1>1 DEF Command
<1> QED
  BY <1>1, <1>2, <1>3, <1>4 DEF q

LEMMA TypeStep ==
  ASSUME TypeOK, [Next]_vars
  PROVE  TypeOK'
<1>1. /\ links' \subseteq Sessions \ Bare
      /\ scores' \in [Sessions -> Score]
      /\ rows' \subseteq AllRows
      /\ manifest' \in Seq(Row) /\ Entries <= Len(manifest')
  BY StepWrites, TablesTyped
<1>2. config' = config
  BY DEF Next, vars, StartApply, StartRevert, ApplyNext, ApplyFails, SaveBackups, Resume,
     RevertNext, EndRevert, Kill, AppendEntry
<1> DEFINE Rest == /\ file' \in Seq(BackupOf) \cup {NoFile}
                   /\ proc' \in Command
                   /\ proc'.phase # "idle" => proc'.before \in Database
                   /\ last' \in [outcome : {"none", "applied", "aborted", "reverted", "killed"},
                                 errors : BOOLEAN, before : Database \cup {<< >>}]
                   /\ muddled' \in BOOLEAN /\ chained' \in BOOLEAN
                   /\ commands' \in Nat /\ faults' \in Nat
<1>3. /\ file \in Seq(BackupOf) \cup {NoFile} /\ proc \in Command
      /\ proc.phase # "idle" => proc.before \in Database
      /\ last \in [outcome : {"none", "applied", "aborted", "reverted", "killed"},
                   errors : BOOLEAN, before : Database \cup {<< >>}]
      /\ muddled \in BOOLEAN /\ chained \in BOOLEAN
      /\ commands \in Nat /\ faults \in Nat
  BY DEF TypeOK
<1>4. Idle \in Command
  BY EmptySeq DEF Idle, Command
<1>5. Snapshot \in Database
  BY SnapshotType
<1>6. proc.backups \in Seq(BackupOf)
  BY <1>3 DEF Command
<1>7. ASSUME NEW command \in {"run", "apply_only"}, StartApply(command)
      PROVE  Rest
  <2>1. /\ proc' = [Idle EXCEPT !.phase = "applying", !.command = command, !.at = 1,
                                !.before = Snapshot]
        /\ commands' = commands + 1
        /\ UNCHANGED <<file, last, muddled, chained, faults>>
    BY <1>7 DEF StartApply
  <2>2. proc' \in Command /\ proc'.before = Snapshot
    BY <1>4, <1>5, <2>1 DEF Command
  <2> QED
    BY <1>3, <1>5, <2>1, <2>2
<1>8. ASSUME StartRevert PROVE Rest
  <2>1. /\ proc' = [Idle EXCEPT !.phase = "reverting", !.command = "revert_only",
                                !.at = 1, !.backups = file, !.before = Snapshot]
        /\ commands' = commands + 1 /\ file # NoFile
        /\ UNCHANGED <<file, last, muddled, chained, faults>>
    BY <1>8 DEF StartRevert
  <2>2. proc' \in Command /\ proc'.before = Snapshot
    BY <1>3, <1>4, <1>5, <2>1 DEF Command
  <2> QED
    BY <1>3, <1>5, <2>1, <2>2
<1>9. ASSUME ApplyNext PROVE Rest
  <2>1. /\ UNCHANGED <<file, last, muddled, chained, commands, faults>>
        /\ proc.phase = "applying" /\ proc.at \in Sessions
    BY <1>9 DEF ApplyNext
  <2>2. ASSUME NEW kept \in Seq(BackupOf),
               proc' = [proc EXCEPT !.at = @ + 1, !.backups = kept]
        PROVE  proc' \in Command /\ proc'.before = proc.before
    BY <1>3, <2>2, CommandMoves
  <2>3. CASE proc' = [proc EXCEPT !.at = @ + 1]
    <3>1. proc' \in Command /\ proc'.before = proc.before
      BY <1>3, <2>3 DEF Command
    <3> QED
      BY <1>3, <2>1, <3>1
  <2>4. CASE /\ config[proc.at].target # NoTarget
             /\ CanInject(config[proc.at]) /\ Inject(config[proc.at])
             /\ proc' = [proc EXCEPT !.at = @ + 1,
                                     !.backups = Append(@, Backup(config[proc.at]))]
    <3>1. Backup(config[proc.at]) \in BackupOf
      BY <2>1, <2>4, InjectWrites
    <3>2. Append(proc.backups, Backup(config[proc.at])) \in Seq(BackupOf)
      BY <1>6, <3>1, AppendProperties
    <3>3. proc' \in Command /\ proc'.before = proc.before
      BY <2>2, <2>4, <3>2
    <3> QED
      BY <1>3, <2>1, <3>3
  <2> QED
    BY <1>9, <2>3, <2>4 DEF ApplyNext
<1>10. ASSUME ApplyFails PROVE Rest
  <2>1. /\ proc' = [proc EXCEPT !.phase = "reverting", !.at = 1, !.aborting = TRUE]
        /\ UNCHANGED <<file, last, muddled, chained, commands>>
        /\ proc.phase = "applying"
        /\ faults' \in {faults, faults + 1}
    BY <1>10 DEF ApplyFails, Abort
  <2>2. proc' \in Command /\ proc'.before = proc.before
    BY <1>3, <2>1 DEF Command
  <2> QED
    BY <1>3, <2>1, <2>2
<1>11. ASSUME SaveBackups PROVE Rest
  <2>1. /\ file' = proc.backups /\ UNCHANGED <<chained, commands, faults>>
        /\ muddled' = (muddled \/ proc.before # Original)
        /\ proc.phase = "applying"
    BY <1>11 DEF SaveBackups
  <2>2. CASE Ends("applied", FALSE)
    <3>1. /\ proc' \in Command /\ proc'.phase = "idle"
          /\ last' \in [outcome : {"none", "applied", "aborted", "reverted", "killed"},
                        errors : BOOLEAN, before : Database \cup {<< >>}]
      BY <2>2, EndTypes
    <3> QED
      BY <1>3, <1>6, <2>1, <3>1
  <2>3. CASE proc' = [proc EXCEPT !.phase = "paused"] /\ UNCHANGED last
    <3>1. proc' \in Command /\ proc'.before = proc.before
      BY <1>3, <2>3 DEF Command
    <3> QED
      BY <1>3, <1>6, <2>1, <2>3, <3>1
  <2> QED
    BY <1>11, <2>2, <2>3 DEF SaveBackups
<1>12. ASSUME Resume PROVE Rest
  <2>1. /\ proc' = [proc EXCEPT !.phase = "reverting", !.at = 1] /\ proc.phase = "paused"
        /\ UNCHANGED <<file, last, muddled, chained, commands, faults>>
    BY <1>12 DEF Resume
  <2>2. proc' \in Command /\ proc'.before = proc.before
    BY <1>3, <2>1 DEF Command
  <2> QED
    BY <1>3, <2>1, <2>2
<1>13. ASSUME RevertNext PROVE Rest
  <2>1. /\ UNCHANGED <<file, last, muddled, chained, commands>>
        /\ proc.phase = "reverting"
        /\ faults' \in {faults, faults + 1}
        /\ \/ proc' = [proc EXCEPT !.at = @ + 1]
           \/ proc' = [proc EXCEPT !.at = @ + 1, !.errors = TRUE]
    BY <1>13 DEF RevertNext
  <2>2. ASSUME proc' = [proc EXCEPT !.at = @ + 1]
        PROVE  proc' \in Command /\ proc'.before = proc.before
    BY <1>3, <2>2 DEF Command
  <2>3. ASSUME proc' = [proc EXCEPT !.at = @ + 1, !.errors = TRUE]
        PROVE  proc' \in Command /\ proc'.before = proc.before
    BY <1>3, <2>3, CommandMoves
  <2> QED
    BY <1>3, <2>1, <2>2, <2>3
<1>14. ASSUME EndRevert PROVE Rest
  <2>1. /\ UNCHANGED <<file, chained, commands, faults>> /\ muddled' \in BOOLEAN
        /\ Ends(IF proc.aborting THEN "aborted" ELSE "reverted", proc.errors)
    BY <1>14 DEF EndRevert
  <2>2. proc.errors \in BOOLEAN
        /\ (IF proc.aborting THEN "aborted" ELSE "reverted")
             \in {"applied", "aborted", "reverted", "killed"}
    BY <1>3 DEF Command
  <2>3. /\ proc' \in Command /\ proc'.phase = "idle"
        /\ last' \in [outcome : {"none", "applied", "aborted", "reverted", "killed"},
                      errors : BOOLEAN, before : Database \cup {<< >>}]
    <3>1. CASE proc.aborting = TRUE
      BY <2>1, <2>2, <3>1, EndTypes
    <3>2. CASE proc.aborting = FALSE
      BY <2>1, <2>2, <3>2, EndTypes
    <3> QED
      BY <1>3, <3>1, <3>2 DEF Command
  <2> QED
    BY <1>3, <2>1, <2>3
<1>15. ASSUME Kill PROVE Rest
  <2>1. /\ UNCHANGED <<file, chained, commands, faults>> /\ muddled' \in BOOLEAN
        /\ Ends("killed", FALSE)
    BY <1>15 DEF Kill
  <2>2. /\ proc' \in Command /\ proc'.phase = "idle"
        /\ last' \in [outcome : {"none", "applied", "aborted", "reverted", "killed"},
                      errors : BOOLEAN, before : Database \cup {<< >>}]
    BY <2>1, EndTypes
  <2> QED
    BY <1>3, <2>1, <2>2
<1>16. ASSUME AppendEntry PROVE Rest
  <2>1. /\ UNCHANGED <<file, proc, last, muddled, commands, faults>>
        /\ chained' \in BOOLEAN
    BY <1>16 DEF AppendEntry
  <2> QED
    BY <1>3, <2>1
<1>17. ASSUME UNCHANGED vars PROVE Rest
  BY <1>3, <1>17 DEF vars
<1>18. Rest
  BY <1>7, <1>8, <1>9, <1>10, <1>11, <1>12, <1>13, <1>14, <1>15, <1>16, <1>17 DEF Next
<1> QED
  BY <1>1, <1>2, <1>18 DEF TypeOK
----------------------------------------------------------------------------
(***************************************************************************)
(* The steps, by what they do to the items and to the command.             *)
(***************************************************************************)

\* A transaction of an apply phase that commits.
LEMMA Applies ==
  ASSUME TypeOK, proc.phase = "applying", proc.at \in Sessions,
         config[proc.at].target # NoTarget,
         CanInject(config[proc.at]), Inject(config[proc.at]),
         proc' = [proc EXCEPT !.at = @ + 1, !.backups = Append(@, Backup(config[proc.at]))]
  PROVE  /\ proc'.phase = "applying" /\ proc'.at = proc.at + 1
         /\ proc'.aborting = proc.aborting /\ proc'.errors = proc.errors
         /\ proc'.before = proc.before
         /\ Len(proc.backups) \in Nat
         /\ DOMAIN proc.backups = 1 .. Len(proc.backups)
         /\ DOMAIN proc'.backups = 1 .. Len(proc.backups) + 1
         /\ \A j \in 1 .. Len(proc.backups) : proc'.backups[j] = proc.backups[j]
         /\ proc'.backups[Len(proc.backups) + 1] = Backup(config[proc.at])
<1> DEFINE b == Backup(config[proc.at])
           old == proc.backups
<1>1. proc \in Command /\ old \in Seq(BackupOf)
  BY DEF TypeOK, Command
<1>2. b \in BackupOf
  BY InjectWrites
<1> HIDE DEF b
<1>3. /\ Append(old, b) \in Seq(BackupOf)
      /\ Len(old) \in Nat /\ DOMAIN old = 1 .. Len(old)
      /\ DOMAIN Append(old, b) = 1 .. Len(old) + 1
      /\ \A j \in 1 .. Len(old) : Append(old, b)[j] = old[j]
      /\ Append(old, b)[Len(old) + 1] = b
  BY <1>1, <1>2, AppendProperties, LenProperties
<1>4. ASSUME NEW new, proc' = [proc EXCEPT !.at = @ + 1, !.backups = new]
      PROVE  /\ proc'.phase = proc.phase /\ proc'.at = proc.at + 1
             /\ proc'.aborting = proc.aborting /\ proc'.errors = proc.errors
             /\ proc'.before = proc.before /\ proc'.backups = new
  BY <1>1, <1>4 DEF Command
<1>5. proc' = [proc EXCEPT !.at = @ + 1, !.backups = Append(old, b)]
  BY DEF b
<1>6. /\ proc'.phase = proc.phase /\ proc'.at = proc.at + 1
      /\ proc'.aborting = proc.aborting /\ proc'.errors = proc.errors
      /\ proc'.before = proc.before /\ proc'.backups = Append(old, b)
  BY <1>4, <1>5
<1> QED
  BY <1>3, <1>6 DEF b

\* What the steps do to the command in memory.
LEMMA CommandSteps ==
  ASSUME TypeOK
  PROVE  /\ \A command \in {"run", "apply_only"} :
              StartApply(command) =>
                /\ proc'.phase = "applying" /\ proc'.at = 1 /\ proc'.backups = << >>
                /\ proc'.aborting = FALSE /\ proc'.errors = FALSE /\ proc'.before = Snapshot
         /\ StartRevert =>
              /\ proc'.phase = "reverting" /\ proc'.at = 1 /\ proc'.backups = file
              /\ proc'.aborting = FALSE /\ proc'.errors = FALSE /\ proc'.before = Snapshot
         /\ proc' = [proc EXCEPT !.at = @ + 1] =>
              /\ proc'.phase = proc.phase /\ proc'.at = proc.at + 1
              /\ proc'.backups = proc.backups /\ proc'.aborting = proc.aborting
              /\ proc'.errors = proc.errors /\ proc'.before = proc.before
         /\ proc' = [proc EXCEPT !.at = @ + 1, !.errors = TRUE] =>
              /\ proc'.phase = proc.phase /\ proc'.at = proc.at + 1
              /\ proc'.backups = proc.backups /\ proc'.aborting = proc.aborting
              /\ proc'.errors = TRUE /\ proc'.before = proc.before
         /\ Abort =>
              /\ proc'.phase = "reverting" /\ proc'.at = 1
              /\ proc'.backups = proc.backups /\ proc'.aborting = TRUE
              /\ proc'.errors = proc.errors /\ proc'.before = proc.before
         /\ proc' = [proc EXCEPT !.phase = "paused"] =>
              /\ proc'.phase = "paused" /\ proc'.at = proc.at
              /\ proc'.backups = proc.backups /\ proc'.aborting = proc.aborting
              /\ proc'.errors = proc.errors /\ proc'.before = proc.before
         /\ Resume =>
              /\ proc'.phase = "reverting" /\ proc'.at = 1
              /\ proc'.backups = proc.backups /\ proc'.aborting = proc.aborting
              /\ proc'.errors = proc.errors /\ proc'.before = proc.before
<1>1. proc \in Command
  BY DEF TypeOK
<1>2. ASSUME NEW command \in {"run", "apply_only"}, StartApply(command)
      PROVE  /\ proc'.phase = "applying" /\ proc'.at = 1 /\ proc'.backups = << >>
             /\ proc'.aborting = FALSE /\ proc'.errors = FALSE /\ proc'.before = Snapshot
  BY <1>2 DEF StartApply, Idle
<1>3. ASSUME StartRevert
      PROVE  /\ proc'.phase = "reverting" /\ proc'.at = 1 /\ proc'.backups = file
             /\ proc'.aborting = FALSE /\ proc'.errors = FALSE /\ proc'.before = Snapshot
  BY <1>3 DEF StartRevert, Idle
<1>4. ASSUME proc' = [proc EXCEPT !.at = @ + 1]
      PROVE  /\ proc'.phase = proc.phase /\ proc'.at = proc.at + 1
             /\ proc'.backups = proc.backups /\ proc'.aborting = proc.aborting
             /\ proc'.errors = proc.errors /\ proc'.before = proc.before
  BY <1>1, <1>4 DEF Command
<1>5. ASSUME proc' = [proc EXCEPT !.at = @ + 1, !.errors = TRUE]
      PROVE  /\ proc'.phase = proc.phase /\ proc'.at = proc.at + 1
             /\ proc'.backups = proc.backups /\ proc'.aborting = proc.aborting
             /\ proc'.errors = TRUE /\ proc'.before = proc.before
  BY <1>1, <1>5 DEF Command
<1>6. ASSUME Abort
      PROVE  /\ proc'.phase = "reverting" /\ proc'.at = 1
             /\ proc'.backups = proc.backups /\ proc'.aborting = TRUE
             /\ proc'.errors = proc.errors /\ proc'.before = proc.before
  BY <1>1, <1>6 DEF Command, Abort
<1>7. ASSUME proc' = [proc EXCEPT !.phase = "paused"]
      PROVE  /\ proc'.phase = "paused" /\ proc'.at = proc.at
             /\ proc'.backups = proc.backups /\ proc'.aborting = proc.aborting
             /\ proc'.errors = proc.errors /\ proc'.before = proc.before
  BY <1>1, <1>7 DEF Command
<1>8. ASSUME Resume
      PROVE  /\ proc'.phase = "reverting" /\ proc'.at = 1
             /\ proc'.backups = proc.backups /\ proc'.aborting = proc.aborting
             /\ proc'.errors = proc.errors /\ proc'.before = proc.before
  BY <1>1, <1>8 DEF Command, Resume
<1> QED
  BY <1>2, <1>3, <1>4, <1>5, <1>6, <1>7, <1>8
----------------------------------------------------------------------------
(***************************************************************************)
(* Where a command stands.                                                 *)
(***************************************************************************)

LEMMA PhaseStep ==
  ASSUME TypeOK, PhaseInv, [Next]_vars
  PROVE  PhaseInv'
<1> DEFINE N == Cardinality(Sessions)
<1>1. /\ N \in Nat /\ Sessions = 1 .. N
      /\ proc \in Command /\ proc.at \in Nat /\ proc.backups \in Seq(BackupOf)
      /\ Len(proc.backups) \in Nat /\ DOMAIN proc.backups = 1 .. Len(proc.backups)
  BY Campaign, LenProperties DEF TypeOK, Command
<1>2. /\ proc.phase \in {"idle", "applying", "paused"} => ~ proc.aborting
      /\ proc.phase = "applying" => proc.at \in 1 .. N + 1
      /\ proc.phase = "reverting" => proc.at \in 1 .. Len(proc.backups) + 1
      /\ proc.phase \in {"paused", "reverting"} /\ ~ proc.aborting => file = proc.backups
      /\ proc.phase = "applying" =>
           \A j \in DOMAIN proc.backups :
             /\ \E s \in Sessions :
                  s < proc.at /\ ItemOf(proc.backups[j]) = ItemOf(config[s])
             /\ proc.backups[j].type = "log_gap" => proc.backups[j].target \notin rows
  BY DEF PhaseInv
<1>3. ASSUME NEW command \in {"run", "apply_only"}, StartApply(command)
      PROVE  PhaseInv'
  <2>1. /\ proc'.phase = "applying" /\ proc'.at = 1 /\ proc'.backups = << >>
        /\ proc'.aborting = FALSE
    BY <1>3, CommandSteps
  <2>2. DOMAIN proc'.backups = {}
    BY <2>1
  <2> QED
    BY <1>1, <2>1, <2>2 DEF PhaseInv
<1>4. ASSUME StartRevert PROVE PhaseInv'
  <2>1. /\ proc'.phase = "reverting" /\ proc'.at = 1 /\ proc'.backups = file
        /\ proc'.aborting = FALSE
    BY <1>4, CommandSteps
  <2>2. file' = file /\ file \in Seq(BackupOf)
    BY <1>4 DEF StartRevert, TypeOK
  <2>3. Len(file) \in Nat
    BY <2>2, LenProperties
  <2> QED
    BY <2>1, <2>2, <2>3 DEF PhaseInv
<1>5. ASSUME ApplyNext PROVE PhaseInv'
  <2>1. /\ proc.phase = "applying" /\ proc.at \in Sessions
        /\ file' = file /\ config' = config
    BY <1>5 DEF ApplyNext
  <2>2. ASSUME proc' = [proc EXCEPT !.at = @ + 1], UNCHANGED database
        PROVE  PhaseInv'
    <3>1. /\ proc'.phase = "applying" /\ proc'.at = proc.at + 1
          /\ proc'.backups = proc.backups /\ proc'.aborting = proc.aborting
      BY <2>1, <2>2, CommandSteps
    <3>2. rows' = rows
      BY <2>2 DEF database
    <3>3. \A j \in DOMAIN proc'.backups :
            /\ \E s \in Sessions :
                 s < proc'.at /\ ItemOf(proc'.backups[j]) = ItemOf(config'[s])
            /\ proc'.backups[j].type = "log_gap" => proc'.backups[j].target \notin rows'
      <4> SUFFICES ASSUME NEW j \in DOMAIN proc.backups
                   PROVE  /\ \E s \in Sessions :
                               /\ s < proc.at + 1
                               /\ ItemOf(proc.backups[j]) = ItemOf(config[s])
                          /\ proc.backups[j].type = "log_gap" =>
                               proc.backups[j].target \notin rows
        BY <2>1, <3>1, <3>2
      <4>1. PICK s \in Sessions : s < proc.at /\ ItemOf(proc.backups[j]) = ItemOf(config[s])
        BY <1>2, <2>1
      <4>2. s < proc.at + 1
        BY <1>1, <4>1
      <4> QED
        BY <1>2, <2>1, <4>1, <4>2
    <3> QED
      BY <1>1, <1>2, <2>1, <3>1, <3>3 DEF PhaseInv, ItemOf
  <2>3. ASSUME config[proc.at].target # NoTarget,
               CanInject(config[proc.at]), Inject(config[proc.at]),
               proc' = [proc EXCEPT !.at = @ + 1,
                                    !.backups = Append(@, Backup(config[proc.at]))]
        PROVE  PhaseInv'
    <3> DEFINE n == Len(proc.backups)
    <3>1. /\ proc'.phase = "applying" /\ proc'.at = proc.at + 1
          /\ proc'.aborting = proc.aborting
          /\ DOMAIN proc'.backups = 1 .. n + 1
          /\ \A j \in 1 .. n : proc'.backups[j] = proc.backups[j]
          /\ proc'.backups[n + 1] = Backup(config[proc.at])
      BY <2>1, <2>3, Applies
    <3>2. /\ \A r \in rows' : r \in rows
          /\ config[proc.at].type = "log_gap" => config[proc.at].target \notin rows'
      BY <2>3 DEF Inject
    <3>3. /\ ItemOf(Backup(config[proc.at])) = ItemOf(config[proc.at])
          /\ Backup(config[proc.at]).type = config[proc.at].type
          /\ Backup(config[proc.at]).target = config[proc.at].target
      BY DEF Backup, ItemOf
    <3>4. ASSUME NEW j \in 1 .. n
          PROVE  /\ \E s \in Sessions :
                      s < proc'.at /\ ItemOf(proc'.backups[j]) = ItemOf(config[s])
                 /\ proc'.backups[j].type = "log_gap" => proc'.backups[j].target \notin rows'
      <4>1. PICK s \in Sessions : s < proc.at /\ ItemOf(proc.backups[j]) = ItemOf(config[s])
        BY <1>1, <1>2, <2>1
      <4>2. s < proc.at + 1
        BY <1>1, <4>1
      <4> QED
        BY <1>1, <1>2, <2>1, <3>1, <3>2, <4>1, <4>2
    <3>5. /\ \E s \in Sessions :
               s < proc'.at /\ ItemOf(proc'.backups[n + 1]) = ItemOf(config[s])
          /\ proc'.backups[n + 1].type = "log_gap" => proc'.backups[n + 1].target \notin rows'
      BY <1>1, <2>1, <3>1, <3>2, <3>3
    <3>6. \A j \in DOMAIN proc'.backups :
            /\ \E s \in Sessions :
                 s < proc'.at /\ ItemOf(proc'.backups[j]) = ItemOf(config'[s])
            /\ proc'.backups[j].type = "log_gap" => proc'.backups[j].target \notin rows'
      <4>1. \A j \in DOMAIN proc'.backups : j \in 1 .. n \/ j = n + 1
        BY <1>1, <3>1
      <4> QED
        BY <2>1, <3>4, <3>5, <4>1
    <3> QED
      BY <1>1, <1>2, <2>1, <3>1, <3>6 DEF PhaseInv, ItemOf
  <2> QED
    BY <1>5, <2>2, <2>3 DEF ApplyNext
<1>6. ASSUME ApplyFails PROVE PhaseInv'
  <2>1. Abort /\ file' = file /\ proc.phase = "applying"
    BY <1>6 DEF ApplyFails
  <2>2. /\ proc'.phase = "reverting" /\ proc'.at = 1 /\ proc'.backups = proc.backups
        /\ proc'.aborting = TRUE
    BY <2>1, CommandSteps
  <2> QED
    BY <1>1, <2>1, <2>2 DEF PhaseInv
<1>7. ASSUME SaveBackups PROVE PhaseInv'
  <2>1. proc.phase = "applying" /\ file' = proc.backups
    BY <1>7 DEF SaveBackups
  <2>2. ASSUME Ends("applied", FALSE) PROVE PhaseInv'
    <3>1. proc'.phase = "idle" /\ proc'.aborting = FALSE
      BY <2>2, EndTypes
    <3> QED
      BY <3>1 DEF PhaseInv
  <2>3. ASSUME proc' = [proc EXCEPT !.phase = "paused"] PROVE PhaseInv'
    <3>1. proc'.phase = "paused" /\ proc'.backups = proc.backups
          /\ proc'.aborting = proc.aborting
      BY <2>3, CommandSteps
    <3> QED
      BY <1>2, <2>1, <3>1 DEF PhaseInv
  <2> QED
    BY <1>7, <2>2, <2>3 DEF SaveBackups
<1>8. ASSUME Resume PROVE PhaseInv'
  <2>1. /\ proc'.phase = "reverting" /\ proc'.at = 1 /\ proc'.backups = proc.backups
        /\ proc'.aborting = proc.aborting
    BY <1>8, CommandSteps
  <2>2. file' = file /\ proc.phase = "paused"
    BY <1>8 DEF Resume
  <2> QED
    BY <1>1, <1>2, <2>1, <2>2 DEF PhaseInv
<1>9. ASSUME RevertNext PROVE PhaseInv'
  <2>1. /\ proc.phase = "reverting" /\ proc.at \in DOMAIN proc.backups /\ file' = file
        /\ \/ proc' = [proc EXCEPT !.at = @ + 1]
           \/ proc' = [proc EXCEPT !.at = @ + 1, !.errors = TRUE]
    BY <1>9 DEF RevertNext
  <2>2. /\ proc'.phase = "reverting" /\ proc'.at = proc.at + 1
        /\ proc'.backups = proc.backups /\ proc'.aborting = proc.aborting
    BY <2>1, CommandSteps
  <2> QED
    BY <1>1, <1>2, <2>1, <2>2 DEF PhaseInv
<1>10. ASSUME EndRevert \/ Kill PROVE PhaseInv'
  <2>1. proc' = Idle
    BY <1>10 DEF EndRevert, Kill, Ends
  <2>2. proc'.phase = "idle" /\ proc'.aborting = FALSE
    BY <2>1 DEF Idle
  <2> QED
    BY <2>2 DEF PhaseInv
<1>11. ASSUME AppendEntry \/ UNCHANGED vars PROVE PhaseInv'
  <2>1. UNCHANGED <<config, rows, file, proc>>
    BY <1>11 DEF AppendEntry, vars, database
  <2> QED
    BY <2>1 DEF PhaseInv, ItemOf
<1> QED
  BY <1>3, <1>4, <1>5, <1>6, <1>7, <1>8, <1>9, <1>10, <1>11 DEF Next
----------------------------------------------------------------------------
(***************************************************************************)
(* The manifest.                                                           *)
(***************************************************************************)

\* A state whose manifest is sound.
LEMMA ManifestPrimed ==
  ASSUME NEW m, NEW k \in BOOLEAN, m = manifest', k = chained', Sound(m, k)
  PROVE  ManifestInv'
BY DEF ManifestInv, Sound, Hash, Prefix, Marked

LEMMA ManifestInit == Init => ManifestInv
<1> SUFFICES ASSUME Init PROVE Sound(manifest, chained)
  BY DEF ManifestInv
<1>1. manifest = LinearEntries /\ chained = FALSE
  BY DEF Init
<1>2. \A i \in 1 .. Entries :
        /\ manifest[i].data = i
        /\ manifest[i].previous_hash = Prefix(i - 1)
        /\ manifest[i].entry_hash = Prefix(i)
  BY <1>1 DEF LinearEntries
<1>3. Len(manifest) = Entries
  <2>1. DOMAIN manifest = 1 .. Entries
    BY <1>1 DEF LinearEntries
  <2>2. manifest \in Seq(Row)
    BY TypeInit DEF TypeOK
  <2> QED
    BY <2>1, <2>2, LenProperties, Campaign
<1> QED
  BY <1>1, <1>2, <1>3, Campaign DEF Sound

LEMMA ManifestWritten ==
  ASSUME TypeOK, ManifestInv, NEW t \in 1 .. Entries, NEW h \in Digest,
         h = Prefix(t) \/ Marked(h),
         manifest' = [manifest EXCEPT ![t].entry_hash = h], chained' = chained
  PROVE  ManifestInv'
<1> PICK m, k : m = manifest' /\ k = chained'
  OBVIOUS
<1>1. /\ Entries \in Nat /\ Len(manifest) \in Nat /\ Entries <= Len(manifest)
      /\ k \in BOOLEAN /\ k = chained
  BY Campaign, LenProperties DEF TypeOK
<1>2. /\ Len(m) = Len(manifest)
      /\ \A i \in 1 .. Len(manifest) :
           /\ m[i].data = manifest[i].data
           /\ m[i].previous_hash = manifest[i].previous_hash
           /\ m[i].entry_hash = IF i = t THEN h ELSE manifest[i].entry_hash
  BY HashWritten
<1>3. Sound(manifest, chained)
  BY DEF ManifestInv
<1>4. \A i \in 1 .. Entries :
        /\ m[i].data = i
        /\ m[i].previous_hash = Prefix(i - 1)
        /\ m[i].entry_hash = Prefix(i) \/ Marked(m[i].entry_hash)
  <2> SUFFICES ASSUME NEW i \in 1 .. Entries
               PROVE  /\ m[i].data = i
                      /\ m[i].previous_hash = Prefix(i - 1)
                      /\ m[i].entry_hash = Prefix(i) \/ Marked(m[i].entry_hash)
    OBVIOUS
  <2>1. i \in 1 .. Len(manifest)
    BY <1>1
  <2>2. /\ manifest[i].data = i /\ manifest[i].previous_hash = Prefix(i - 1)
        /\ manifest[i].entry_hash = Prefix(i) \/ Marked(manifest[i].entry_hash)
    BY <1>3 DEF Sound
  <2>3. CASE i = t
    <3>1. m[i].entry_hash = h
      BY <1>2, <2>1, <2>3
    <3> QED
      BY <1>2, <2>1, <2>2, <2>3, <3>1
  <2>4. CASE i # t
    <3>1. m[i].entry_hash = manifest[i].entry_hash
      BY <1>2, <2>1, <2>4
    <3> QED
      BY <1>2, <2>1, <2>2, <3>1
  <2> QED
    BY <2>3, <2>4
<1>5. \A i \in Entries + 1 .. Len(manifest) :
        /\ m[i].entry_hash = manifest[i].entry_hash
        /\ m[i].previous_hash = manifest[i].previous_hash
        /\ m[i].data = manifest[i].data
        /\ i > Entries + 1 => m[i - 1].entry_hash = manifest[i - 1].entry_hash
  <2> TAKE i \in Entries + 1 .. Len(manifest)
  <2>1. /\ i \in 1 .. Len(manifest) /\ i # t
        /\ i > Entries + 1 => i - 1 \in 1 .. Len(manifest) /\ i - 1 # t
    BY <1>1
  <2> QED
    BY <1>2, <2>1
<1>6. \A i \in Entries + 1 .. Len(m) :
        /\ m[i].entry_hash = Hash(m[i].previous_hash, m[i].data)
        /\ i > Entries + 1 => m[i].previous_hash = m[i - 1].entry_hash
        /\ ~ k => ~ Marked(m[i].entry_hash)
  <2> TAKE i \in Entries + 1 .. Len(m)
  <2>1. /\ manifest[i].entry_hash = Hash(manifest[i].previous_hash, manifest[i].data)
        /\ i > Entries + 1 => manifest[i].previous_hash = manifest[i - 1].entry_hash
        /\ ~ k => ~ Marked(manifest[i].entry_hash)
    BY <1>1, <1>2, <1>3 DEF Sound
  <2>2. /\ m[i].entry_hash = manifest[i].entry_hash
        /\ m[i].previous_hash = manifest[i].previous_hash
        /\ m[i].data = manifest[i].data
        /\ i > Entries + 1 => m[i - 1].entry_hash = manifest[i - 1].entry_hash
    BY <1>2, <1>5
  <2> QED
    BY <2>1, <2>2
<1>7. /\ Len(m) = Entries => ~ k
      /\ Len(m) > Entries => (k <=> m[Entries + 1].previous_hash # Prefix(Entries))
  <2>1. /\ Len(manifest) = Entries => ~ k
        /\ Len(manifest) > Entries =>
             (k <=> manifest[Entries + 1].previous_hash # Prefix(Entries))
    BY <1>1, <1>3 DEF Sound
  <2>2. Len(manifest) > Entries => Entries + 1 \in Entries + 1 .. Len(manifest)
    BY <1>1
  <2> QED
    BY <1>2, <1>5, <2>1, <2>2
<1>8. Sound(m, k)
  BY <1>4, <1>6, <1>7 DEF Sound
<1> QED
  BY <1>1, <1>8, ManifestPrimed

LEMMA ManifestAppended ==
  ASSUME TypeOK, ManifestInv, AppendEntry
  PROVE  ManifestInv'
<1> PICK m, k : m = manifest' /\ k = chained'
  OBVIOUS
<1> DEFINE n == Len(manifest)
           tail == manifest[n]
<1>1. /\ Entries \in Nat /\ Entries >= 1 /\ n \in Nat /\ Entries <= n
      /\ chained \in BOOLEAN
  BY Campaign, LenProperties DEF TypeOK
<1>2. k \in BOOLEAN /\ (k <=> chained \/ Marked(tail.entry_hash))
  BY <1>1 DEF AppendEntry, Marked
<1>3. /\ Len(m) = n + 1
      /\ \A i \in 1 .. n : m[i] = manifest[i]
      /\ m[n + 1].data \in Nat
      /\ m[n + 1].previous_hash = tail.entry_hash
      /\ m[n + 1].entry_hash = Hash(tail.entry_hash, m[n + 1].data)
  BY AppendKeeps
<1>4. Sound(manifest, chained)
  BY DEF ManifestInv
<1>5. tail.entry_hash \in Digest
  <2>1. manifest \in Seq(Row) /\ n \in 1 .. n
    BY <1>1 DEF TypeOK
  <2>2. tail \in Row
    BY <2>1, ElementOfSeq
  <2> QED
    BY <2>2 DEF Row
<1>6. Marked(m[n + 1].entry_hash) <=> Marked(tail.entry_hash)
  BY <1>3, <1>5, Marks
<1>7. \A i \in 1 .. Entries :
        /\ m[i].data = i
        /\ m[i].previous_hash = Prefix(i - 1)
        /\ m[i].entry_hash = Prefix(i) \/ Marked(m[i].entry_hash)
  <2> TAKE i \in 1 .. Entries
  <2>1. m[i] = manifest[i]
    BY <1>1, <1>3
  <2> QED
    BY <1>4, <2>1 DEF Sound
<1>8. \A i \in Entries + 1 .. n + 1 :
        /\ m[i].entry_hash = Hash(m[i].previous_hash, m[i].data)
        /\ i > Entries + 1 => m[i].previous_hash = m[i - 1].entry_hash
        /\ ~ k => ~ Marked(m[i].entry_hash)
  <2> TAKE i \in Entries + 1 .. n + 1
  <2>1. CASE i \in Entries + 1 .. n
    <3>1. /\ m[i] = manifest[i]
          /\ i > Entries + 1 => m[i - 1] = manifest[i - 1]
      BY <1>1, <1>3, <2>1
    <3>2. /\ manifest[i].entry_hash = Hash(manifest[i].previous_hash, manifest[i].data)
          /\ i > Entries + 1 => manifest[i].previous_hash = manifest[i - 1].entry_hash
          /\ ~ chained => ~ Marked(manifest[i].entry_hash)
      BY <1>4, <2>1 DEF Sound
    <3> QED
      BY <1>2, <3>1, <3>2
  <2>2. CASE i = n + 1
    <3>1. m[i - 1] = tail
      BY <1>1, <1>3, <2>2
    <3> QED
      BY <1>2, <1>3, <1>6, <2>2, <3>1
  <2> QED
    BY <1>1, <2>1, <2>2
<1>9. k <=> m[Entries + 1].previous_hash # Prefix(Entries)
  <2>1. CASE n = Entries
    <3>1. ~ chained
      BY <1>4, <2>1 DEF Sound
    <3>2. tail.entry_hash = Prefix(Entries) \/ Marked(tail.entry_hash)
      BY <1>1, <1>4, <2>1 DEF Sound
    <3>3. ~ Marked(Prefix(Entries))
      BY <1>1, PrefixDigest
    <3>4. k <=> tail.entry_hash # Prefix(Entries)
      BY <1>2, <3>1, <3>2, <3>3
    <3> QED
      BY <1>3, <2>1, <3>4
  <2>2. CASE n > Entries
    <3>1. chained <=> manifest[Entries + 1].previous_hash # Prefix(Entries)
      BY <1>4, <2>2 DEF Sound
    <3>2. m[Entries + 1] = manifest[Entries + 1]
      BY <1>1, <1>3, <2>2
    <3>3. ~ chained => ~ Marked(tail.entry_hash)
      BY <1>1, <1>4, <2>2 DEF Sound
    <3> QED
      BY <1>2, <3>1, <3>2, <3>3
  <2> QED
    BY <1>1, <2>1, <2>2
<1>10. Sound(m, k)
  BY <1>1, <1>3, <1>7, <1>8, <1>9 DEF Sound
<1> QED
  BY <1>2, <1>10, ManifestPrimed
LEMMA SanePrimed ==
  ASSUME NEW b, NEW f, b = proc'.backups, f = file', Sane(b), f # NoFile => Sane(f)
  PROVE  SaneInv'
BY DEF SaneInv, Sane, Prefix, Marked

LEMMA SaneInit == Init => SaneInv
<1> SUFFICES ASSUME Init PROVE SaneInv
  OBVIOUS
<1>1. file = NoFile /\ proc.backups = << >>
  BY DEF Init, Idle
<1> QED
  BY <1>1 DEF SaneInv, Sane

\* A backup that an apply phase takes is sane, and so is the manifest a revert
\* leaves.
LEMMA ManifestStep ==
  ASSUME TypeOK, PhaseInv, ManifestInv, SaneInv, [Next]_vars
  PROVE  ManifestInv' /\ SaneInv'
<1>1. Sane(proc.backups) /\ (file # NoFile => Sane(file))
  BY DEF SaneInv
<1>2. Sane(<< >>)
  BY DEF Sane
<1>3. ASSUME UNCHANGED <<manifest, chained>>
      PROVE  ManifestInv'
  <2> PICK m, k : m = manifest' /\ k = chained'
    OBVIOUS
  <2>1. m = manifest /\ k = chained /\ k \in BOOLEAN
    BY <1>3 DEF TypeOK
  <2> QED
    BY <2>1, ManifestPrimed DEF ManifestInv
<1>4. ASSUME \/ proc'.backups \in {<< >>, proc.backups}
             \/ proc'.backups = file /\ file # NoFile,
             file' \in {file, proc.backups}
      PROVE  SaneInv'
  <2> PICK b, f : b = proc'.backups /\ f = file'
    OBVIOUS
  <2>1. Sane(b) /\ (f # NoFile => Sane(f))
    BY <1>1, <1>2, <1>4
  <2> QED
    BY <2>1, SanePrimed
<1>5. ASSUME \E command \in {"run", "apply_only"} : StartApply(command)
      PROVE  ManifestInv' /\ SaneInv'
  <2>1. proc'.backups = << >>
    BY <1>5, CommandSteps
  <2>2. UNCHANGED <<manifest, chained>> /\ file' = file
    BY <1>5 DEF StartApply, database
  <2> QED
    BY <1>3, <1>4, <2>1, <2>2
<1>6. ASSUME StartRevert PROVE ManifestInv' /\ SaneInv'
  <2>1. proc'.backups = file
    BY <1>6, CommandSteps
  <2>2. UNCHANGED <<manifest, chained>> /\ file' = file /\ file # NoFile
    BY <1>6 DEF StartRevert, database
  <2> QED
    BY <1>3, <1>4, <2>1, <2>2
<1>7. ASSUME ApplyNext PROVE ManifestInv' /\ SaneInv'
  <2>1. proc.phase = "applying" /\ proc.at \in Sessions /\ file' = file /\ chained' = chained
    BY <1>7 DEF ApplyNext
  <2>2. ASSUME proc' = [proc EXCEPT !.at = @ + 1], UNCHANGED database
        PROVE  ManifestInv' /\ SaneInv'
    <3>1. proc'.backups = proc.backups
      BY <2>2, CommandSteps
    <3>2. UNCHANGED <<manifest, chained>>
      BY <2>1, <2>2 DEF database
    <3> QED
      BY <1>3, <1>4, <2>1, <3>1, <3>2
  <2>3. ASSUME config[proc.at].target # NoTarget,
               CanInject(config[proc.at]), Inject(config[proc.at]),
               proc' = [proc EXCEPT !.at = @ + 1,
                                    !.backups = Append(@, Backup(config[proc.at]))]
        PROVE  ManifestInv' /\ SaneInv'
    <3> DEFINE c == config[proc.at]
               n == Len(proc.backups)
    <3> PICK b : b = proc'.backups
      OBVIOUS
    <3>1. /\ n \in Nat /\ DOMAIN proc.backups = 1 .. n
          /\ DOMAIN b = 1 .. n + 1
          /\ \A j \in 1 .. n : b[j] = proc.backups[j]
          /\ b[n + 1] = Backup(c)
      BY <2>1, <2>3, Applies
    <3>2. CASE c.type = "manifest_tamper"
      <4>1. c.target \in 1 .. Entries /\ manifest[c.target].entry_hash \in Digest
        BY <2>1, <2>3, <3>2, ConfigItem, EntryHash
      <4>2. \/ manifest[c.target].entry_hash = Prefix(c.target)
            \/ Marked(manifest[c.target].entry_hash)
        BY <4>1 DEF ManifestInv, Sound
      <4>3. /\ Backup(c).target = c.target
            /\ Backup(c).original = manifest[c.target].entry_hash
        BY <3>2 DEF Backup
      <4>4. manifest' = [manifest EXCEPT ![c.target].entry_hash
                                       = TamperedHash(manifest[c.target].entry_hash)]
        BY <2>3, <3>2 DEF Inject
      <4>5. /\ TamperedHash(manifest[c.target].entry_hash) \in Digest
            /\ Marked(TamperedHash(manifest[c.target].entry_hash))
        BY <4>1, Marks
      <4>6. ManifestInv'
        BY <2>1, <4>1, <4>4, <4>5, ManifestWritten
      <4>7. Sane(b)
        <5>1. \A j \in DOMAIN b : j \in 1 .. n \/ j = n + 1
          BY <3>1
        <5> QED
          BY <1>1, <3>1, <4>2, <4>3, <5>1 DEF Sane
      <4> QED
        BY <1>1, <2>1, <4>6, <4>7, SanePrimed
    <3>3. CASE c.type # "manifest_tamper"
      <4>1. Backup(c).type = c.type
        BY DEF Backup
      <4>2. UNCHANGED <<manifest, chained>>
        BY <2>1, <2>3, <3>3 DEF Inject
      <4>3. Sane(b)
        <5>1. \A j \in DOMAIN b : j \in 1 .. n \/ j = n + 1
          BY <3>1
        <5> QED
          BY <1>1, <3>1, <3>3, <4>1, <5>1 DEF Sane
      <4> QED
        BY <1>1, <1>3, <2>1, <4>2, <4>3, SanePrimed
    <3> QED
      BY <3>2, <3>3
  <2> QED
    BY <1>7, <2>2, <2>3 DEF ApplyNext
<1>8. ASSUME ApplyFails PROVE ManifestInv' /\ SaneInv'
  <2>1. Abort /\ file' = file /\ UNCHANGED <<manifest, chained>>
    BY <1>8 DEF ApplyFails, database
  <2>2. proc'.backups = proc.backups
    BY <2>1, CommandSteps
  <2> QED
    BY <1>3, <1>4, <2>1, <2>2
<1>9. ASSUME SaveBackups PROVE ManifestInv' /\ SaneInv'
  <2>1. file' = proc.backups /\ UNCHANGED <<manifest, chained>>
    BY <1>9 DEF SaveBackups, database
  <2>2. ASSUME Ends("applied", FALSE) PROVE proc'.backups = << >>
    BY <2>2, EndTypes
  <2>3. ASSUME proc' = [proc EXCEPT !.phase = "paused"]
        PROVE  proc'.backups = proc.backups
    BY <2>3, CommandSteps
  <2>4. proc'.backups \in {<< >>, proc.backups}
    BY <1>9, <2>2, <2>3 DEF SaveBackups
  <2> QED
    BY <1>3, <1>4, <2>1, <2>4
<1>10. ASSUME Resume PROVE ManifestInv' /\ SaneInv'
  <2>1. file' = file /\ UNCHANGED <<manifest, chained>>
    BY <1>10 DEF Resume, database
  <2>2. proc'.backups = proc.backups
    BY <1>10, CommandSteps
  <2> QED
    BY <1>3, <1>4, <2>1, <2>2
<1>11. ASSUME RevertNext PROVE ManifestInv' /\ SaneInv'
  <2>1. /\ proc.at \in DOMAIN proc.backups /\ file' = file /\ chained' = chained
        /\ \/ proc' = [proc EXCEPT !.at = @ + 1]
           \/ proc' = [proc EXCEPT !.at = @ + 1, !.errors = TRUE]
    BY <1>11 DEF RevertNext
  <2>2. proc'.backups = proc.backups
    BY <2>1, CommandSteps
  <2>3. SaneInv'
    BY <1>4, <2>1, <2>2
  <2>4. UNCHANGED database \/ Revert(proc.backups[proc.at])
    BY <1>11 DEF RevertNext
  <2>5. ASSUME NEW b, b = proc.backups[proc.at], Revert(b)
        PROVE  ManifestInv'
    <3>1. proc.backups[proc.at] \in BackupOf
      BY <2>1, ElementOfSeq, LenProperties DEF TypeOK, Command
    <3>2. CASE b.type = "manifest_tamper"
      <4>1. b.target \in 1 .. Entries /\ b.original \in Digest
        BY <2>5, <3>1, <3>2, BackupItem
      <4>2. b.original = Prefix(b.target) \/ Marked(b.original)
        BY <1>1, <2>1, <2>5, <3>2 DEF Sane
      <4>3. manifest' = [manifest EXCEPT ![b.target].entry_hash = b.original]
        BY <2>5, <3>2 DEF Revert
      <4> QED
        BY <2>1, <4>1, <4>2, <4>3, ManifestWritten
    <3>3. CASE b.type # "manifest_tamper"
      <4>1. manifest' = manifest
        BY <2>5, <3>3 DEF Revert
      <4> QED
        BY <1>3, <2>1, <4>1
    <3> QED
      BY <3>2, <3>3
  <2>6. ASSUME UNCHANGED database PROVE ManifestInv'
    BY <1>3, <2>1, <2>6 DEF database
  <2> QED
    BY <2>3, <2>4, <2>5, <2>6
<1>12. ASSUME EndRevert \/ Kill PROVE ManifestInv' /\ SaneInv'
  <2>1. proc' = Idle /\ file' = file /\ UNCHANGED <<manifest, chained>>
    BY <1>12 DEF EndRevert, Kill, Ends, database
  <2>2. proc'.backups = << >>
    BY <2>1 DEF Idle
  <2> QED
    BY <1>3, <1>4, <2>1, <2>2
<1>13. ASSUME AppendEntry PROVE ManifestInv' /\ SaneInv'
  <2>1. proc' = proc /\ file' = file
    BY <1>13 DEF AppendEntry
  <2>2. SaneInv'
    BY <1>4, <2>1
  <2> QED
    BY <1>13, <2>2, ManifestAppended
<1>14. ASSUME UNCHANGED vars PROVE ManifestInv' /\ SaneInv'
  <2>1. proc' = proc /\ file' = file /\ UNCHANGED <<manifest, chained>>
    BY <1>14 DEF vars, database
  <2> QED
    BY <1>3, <1>4, <2>1
<1> QED
  BY <1>5, <1>6, <1>7, <1>8, <1>9, <1>10, <1>11, <1>12, <1>13, <1>14 DEF Next

----------------------------------------------------------------------------
(***************************************************************************)
(* The backups keep what they are taken of.                                *)
(***************************************************************************)

LEMMA PhaseInit == Init => PhaseInv
<1> SUFFICES ASSUME Init PROVE PhaseInv
  OBVIOUS
<1>1. proc.phase = "idle" /\ proc.aborting = FALSE
  BY DEF Init, Idle
<1> QED
  BY <1>1 DEF PhaseInv

\* A state whose backups cover what was changed.
LEMMA CoverPrimed ==
  ASSUME NEW p, NEW d, NEW f, NEW m \in BOOLEAN,
         p = proc', d = Snapshot', f = file', m = muddled', CoverOf(p, d, f, m)
  PROVE  CoverInv'
BY DEF CoverInv

\* A backup taken of an item before it is overwritten.
LEMMA CoverGrows ==
  ASSUME NEW db, NEW next, NEW first, NEW old, NEW new, NEW n \in Nat, NEW y \in Items,
         Covers(db, first, old),
         DOMAIN old = 1 .. n, DOMAIN new = 1 .. n + 1,
         \A j \in 1 .. n : new[j] = old[j],
         ItemOf(new[n + 1]) = y, new[n + 1].original = At(db, y),
         \A x \in Items : x # y => At(next, x) = At(db, x)
  PROVE  Covers(next, first, new)
<1>1. ASSUME NEW x, Kept(old, x, first) PROVE Kept(new, x, first)
  BY <1>1 DEF Kept
<1>2. Kept(new, y, first)
  <2>1. n + 1 \in DOMAIN new
    OBVIOUS
  <2>2. CASE At(db, y) = At(first, y)
    BY <2>1, <2>2 DEF Kept
  <2>3. CASE Kept(old, y, first)
    BY <1>1, <2>3
  <2> QED
    BY <2>2, <2>3 DEF Covers
<1>3. \A x \in Items : At(next, x) = At(first, x) \/ Kept(new, x, first)
  <2> TAKE x \in Items
  <2>1. CASE x = y
    BY <1>2, <2>1
  <2>2. CASE x # y
    <3>1. At(next, x) = At(db, x)
      BY <2>2
    <3>2. At(db, x) = At(first, x) \/ Kept(old, x, first)
      BY DEF Covers
    <3> QED
      BY <1>1, <3>1, <3>2
  <2> QED
    BY <2>1, <2>2
<1>4. \A j \in DOMAIN new : Kept(new, ItemOf(new[j]), first)
  <2> TAKE j \in DOMAIN new
  <2>1. CASE j \in 1 .. n
    <3>1. Kept(old, ItemOf(old[j]), first)
      BY <2>1 DEF Covers
    <3>2. new[j] = old[j]
      BY <2>1
    <3> QED
      BY <1>1, <3>1, <3>2
  <2>2. CASE j = n + 1
    BY <1>2, <2>2
  <2> QED
    BY <2>1, <2>2
<1> QED
  BY <1>3, <1>4 DEF Covers

\* A backup restored, or lost to another value: it stays covered.
LEMMA CoverStays ==
  ASSUME NEW db, NEW next, NEW first, NEW backups, NEW j \in DOMAIN backups,
         Covers(db, first, backups),
         \A x \in Items : x # ItemOf(backups[j]) => At(next, x) = At(db, x)
  PROVE  Covers(next, first, backups)
BY DEF Covers

\* Nothing was changed and nothing kept.
LEMMA CoverStarts == \A db : Covers(db, db, << >>)
BY DEF Covers

LEMMA CoverInit == Init => CoverInv
<1> SUFFICES ASSUME Init PROVE CoverInv
  OBVIOUS
<1>1. /\ proc.phase = "idle" /\ proc.aborting = FALSE
      /\ file = NoFile
      /\ Snapshot = Original
  BY DEF Init, Idle, Snapshot, Original
<1> QED
  BY <1>1 DEF CoverInv, CoverOf, BaseOf

\* Every step keeps the originals: an apply phase takes the value before it writes,
\* a revert puts back what is kept, and a command that is cut either has left the
\* tables as they were or is counted as muddled.
LEMMA CoverStep ==
  ASSUME TypeOK, PhaseInv, CoverInv, [Next]_vars
  PROVE  CoverInv'
<1> PICK p, d, f, m : p = proc' /\ d = Snapshot' /\ f = file' /\ m = muddled'
  OBVIOUS
<1>1. /\ p = proc' /\ d = Snapshot' /\ f = file' /\ m = muddled'
      /\ m \in BOOLEAN
  BY TypeStep DEF TypeOK
<1>2. /\ proc.phase = "applying" => Covers(Snapshot, proc.before, proc.backups)
      /\ ~ muddled => IF file = NoFile THEN BaseOf(proc, Snapshot) = Original
                      ELSE Covers(BaseOf(proc, Snapshot), Original, file)
  BY DEF CoverInv, CoverOf
<1>3. /\ proc.backups \in Seq(BackupOf) /\ proc.backups # NoFile
      /\ proc.aborting \in BOOLEAN
  BY CampaignAssumption DEF TypeOK, Command
<1>4. proc.phase \in {"idle", "applying", "paused"} => ~ proc.aborting
  BY DEF PhaseInv
<1>5. ASSUME p.phase # "applying", BaseOf(p, d) = BaseOf(proc, Snapshot),
             f = file, ~ m => ~ muddled
      PROVE  CoverInv'
  <2>1. CoverOf(p, d, f, m)
    BY <1>2, <1>5 DEF CoverOf
  <2> QED
    BY <1>1, <2>1, CoverPrimed
<1>6. ASSUME \E command \in {"run", "apply_only"} : StartApply(command)
      PROVE  CoverInv'
  <2>1. p.phase = "applying" /\ p.backups = << >> /\ p.before = Snapshot
    BY <1>1, <1>6, CommandSteps
  <2>2. d = Snapshot /\ f = file /\ m = muddled /\ proc.phase = "idle"
    BY <1>1, <1>6, TablesKept DEF StartApply
  <2>3. Covers(d, p.before, p.backups)
    BY <2>1, <2>2, CoverStarts
  <2>4. BaseOf(p, d) = Snapshot /\ BaseOf(proc, Snapshot) = Snapshot
    BY <1>4, <2>1, <2>2 DEF BaseOf
  <2>5. CoverOf(p, d, f, m)
    BY <1>2, <2>2, <2>3, <2>4 DEF CoverOf
  <2> QED
    BY <1>1, <2>5, CoverPrimed
<1>7. ASSUME StartRevert PROVE CoverInv'
  <2>1. p.phase = "reverting" /\ p.aborting = FALSE
    BY <1>1, <1>7, CommandSteps
  <2>2. d = Snapshot /\ f = file /\ m = muddled /\ proc.phase = "idle"
    BY <1>1, <1>7, TablesKept DEF StartRevert
  <2>3. BaseOf(p, d) = Snapshot /\ BaseOf(proc, Snapshot) = Snapshot
    BY <1>4, <2>1, <2>2 DEF BaseOf
  <2> QED
    BY <1>5, <2>1, <2>2, <2>3
<1>8. ASSUME ApplyNext PROVE CoverInv'
  <2>1. /\ proc.phase = "applying" /\ proc.at \in Sessions
        /\ f = file /\ m = muddled
    BY <1>1, <1>8 DEF ApplyNext
  <2>2. ASSUME p.phase = "applying", p.before = proc.before,
               Covers(d, p.before, p.backups)
        PROVE  CoverInv'
    <3>1. BaseOf(p, d) = BaseOf(proc, Snapshot)
      BY <2>1, <2>2 DEF BaseOf
    <3>2. CoverOf(p, d, f, m)
      BY <1>2, <2>1, <2>2, <3>1 DEF CoverOf
    <3> QED
      BY <1>1, <3>2, CoverPrimed
  <2>3. ASSUME proc' = [proc EXCEPT !.at = @ + 1], UNCHANGED database
        PROVE  CoverInv'
    <3>1. p.phase = "applying" /\ p.before = proc.before /\ p.backups = proc.backups
      BY <1>1, <2>1, <2>3, CommandSteps
    <3>2. d = Snapshot
      BY <1>1, <2>3, TablesKept
    <3> QED
      BY <1>2, <2>1, <2>2, <3>1, <3>2
  <2>4. ASSUME config[proc.at].target # NoTarget,
               CanInject(config[proc.at]), Inject(config[proc.at]),
               proc' = [proc EXCEPT !.at = @ + 1,
                                    !.backups = Append(@, Backup(config[proc.at]))]
        PROVE  CoverInv'
    <3> DEFINE c == config[proc.at]
               n == Len(proc.backups)
               y == ItemOf(c)
    <3>1. /\ p.phase = "applying" /\ p.before = proc.before
          /\ n \in Nat /\ DOMAIN proc.backups = 1 .. n
          /\ DOMAIN p.backups = 1 .. n + 1
          /\ \A j \in 1 .. n : p.backups[j] = proc.backups[j]
          /\ p.backups[n + 1] = Backup(c)
      BY <1>1, <2>1, <2>4, Applies
    <3>2. /\ Wrote(y)
          /\ ItemOf(Backup(c)) = y
          /\ Backup(c).original = At(Snapshot, y)
          /\ y \in Items
      BY <2>1, <2>4, InjectWrites, ConfigItem
    <3>3. \A x \in Items : x # y => At(d, x) = At(Snapshot, x)
      BY <1>1, <3>2 DEF Wrote
    <3> HIDE DEF y, n, c
    <3>4. Covers(d, proc.before, p.backups)
      <4>1. Covers(Snapshot, proc.before, proc.backups)
        BY <1>2, <2>1
      <4> QED
        BY <3>1, <3>2, <3>3, <4>1, CoverGrows
    <3> QED
      BY <2>2, <3>1, <3>4
  <2> QED
    BY <1>8, <2>3, <2>4 DEF ApplyNext
<1>9. ASSUME ApplyFails PROVE CoverInv'
  <2>1. Abort /\ proc.phase = "applying"
    BY <1>9 DEF ApplyFails
  <2>2. p.phase = "reverting" /\ p.aborting = TRUE /\ p.before = proc.before
    BY <1>1, <2>1, CommandSteps
  <2>3. f = file /\ m = muddled
    BY <1>1, <1>9 DEF ApplyFails
  <2>4. BaseOf(p, d) = BaseOf(proc, Snapshot)
    BY <2>1, <2>2 DEF BaseOf
  <2> QED
    BY <1>5, <2>2, <2>3, <2>4
<1>10. ASSUME SaveBackups PROVE CoverInv'
  <2>1. /\ proc.phase = "applying"
        /\ f = proc.backups
        /\ d = Snapshot
        /\ ~ m => proc.before = Original
    BY <1>1, <1>10, TablesKept DEF SaveBackups
  <2>2. ASSUME Ends("applied", FALSE)
        PROVE  p.phase = "idle" /\ p.aborting = FALSE
    BY <1>1, <2>2, EndTypes
  <2>3. ASSUME proc' = [proc EXCEPT !.phase = "paused"]
        PROVE  p.phase = "paused" /\ ~ p.aborting
    BY <1>1, <1>4, <2>1, <2>3, CommandSteps
  <2>4. p.phase \in {"idle", "paused"} /\ ~ p.aborting
    BY <1>10, <2>2, <2>3 DEF SaveBackups
  <2>5. BaseOf(p, d) = Snapshot
    BY <2>1, <2>4 DEF BaseOf
  <2>6. CoverOf(p, d, f, m)
    BY <1>2, <1>3, <2>1, <2>4, <2>5 DEF CoverOf
  <2> QED
    BY <1>1, <2>6, CoverPrimed
<1>11. ASSUME Resume PROVE CoverInv'
  <2>1. p.phase = "reverting" /\ p.aborting = proc.aborting
    BY <1>1, <1>11, CommandSteps
  <2>2. d = Snapshot /\ f = file /\ m = muddled /\ proc.phase = "paused"
    BY <1>1, <1>11, TablesKept DEF Resume
  <2>3. BaseOf(p, d) = Snapshot /\ BaseOf(proc, Snapshot) = Snapshot
    BY <1>4, <2>1, <2>2 DEF BaseOf
  <2> QED
    BY <1>5, <2>1, <2>2, <2>3
<1>12. ASSUME RevertNext PROVE CoverInv'
  <2>1. /\ proc.phase = "reverting" /\ proc.at \in DOMAIN proc.backups
        /\ f = file /\ m = muddled
        /\ \/ proc' = [proc EXCEPT !.at = @ + 1]
           \/ proc' = [proc EXCEPT !.at = @ + 1, !.errors = TRUE]
    BY <1>1, <1>12 DEF RevertNext
  <2>2. p.phase = "reverting" /\ p.aborting = proc.aborting /\ p.before = proc.before
    BY <1>1, <2>1, CommandSteps
  <2>3. \/ UNCHANGED database
        \/ CanRevert(proc.backups[proc.at]) /\ Revert(proc.backups[proc.at])
    BY <1>12 DEF RevertNext
  <2>4. CASE UNCHANGED database \/ proc.aborting
    <3>1. BaseOf(p, d) = BaseOf(proc, Snapshot)
      BY <1>1, <2>1, <2>2, <2>4, TablesKept DEF BaseOf
    <3> QED
      BY <1>5, <2>1, <2>2, <3>1
  <2>5. ASSUME NEW b, b = proc.backups[proc.at], CanRevert(b), Revert(b), ~ proc.aborting
        PROVE  CoverInv'
    <3>1. b \in BackupOf
      BY <1>3, <2>1, <2>5, ElementOfSeq, LenProperties
    <3>2. Wrote(ItemOf(b))
      BY <2>5, <3>1, RevertWrites
    <3>3. \A x \in Items : x # ItemOf(b) => At(d, x) = At(Snapshot, x)
      BY <1>1, <3>2 DEF Wrote
    <3>4. file = proc.backups
      BY <2>1, <2>5 DEF PhaseInv
    <3>5. BaseOf(p, d) = d /\ BaseOf(proc, Snapshot) = Snapshot
      BY <2>1, <2>2, <2>5 DEF BaseOf
    <3>6. ~ muddled => Covers(d, Original, file)
      <4>1. ~ muddled => Covers(Snapshot, Original, file)
        BY <1>2, <1>3, <3>4, <3>5
      <4> QED
        BY <2>1, <2>5, <3>3, <3>4, <4>1, CoverStays
    <3>7. CoverOf(p, d, f, m)
      BY <1>3, <2>1, <2>2, <3>4, <3>5, <3>6 DEF CoverOf
    <3> QED
      BY <1>1, <3>7, CoverPrimed
  <2> QED
    BY <2>3, <2>4, <2>5
<1>13. ASSUME EndRevert \/ Kill PROVE CoverInv'
  <2>1. p.phase = "idle" /\ p.aborting = FALSE
    <3>1. proc' = Idle
      BY <1>13 DEF EndRevert, Kill, Ends
    <3> QED
      BY <1>1, <3>1 DEF Idle
  <2>2. d = Snapshot /\ f = file
    BY <1>1, <1>13, TablesKept DEF EndRevert, Kill
  <2>3. ~ m => ~ muddled
    <3>1. muddled \in BOOLEAN
      BY DEF TypeOK
    <3>2. CASE EndRevert
      BY <1>1, <3>1, <3>2 DEF EndRevert
    <3>3. CASE Kill
      BY <1>1, <3>1, <3>3 DEF Kill
    <3> QED
      BY <1>13, <3>2, <3>3
  <2>4. ~ m => BaseOf(proc, Snapshot) = Snapshot
    <3>1. CASE EndRevert
      <4>1. proc.phase = "reverting"
        BY <3>1 DEF EndRevert
      <4>2. ~ m => ~ (proc.aborting /\ Snapshot # proc.before)
        BY <1>1, <3>1 DEF EndRevert
      <4> QED
        BY <4>1, <4>2 DEF BaseOf
    <3>2. CASE Kill
      <4>1. ~ m => ~ ((proc.phase = "applying" \/ proc.aborting) /\ Snapshot # proc.before)
        BY <1>1, <3>2 DEF Kill
      <4> QED
        BY <4>1 DEF BaseOf
    <3> QED
      BY <1>13, <3>1, <3>2
  <2>5. BaseOf(p, d) = Snapshot
    BY <2>1, <2>2 DEF BaseOf
  <2>6. CoverOf(p, d, f, m)
    BY <1>2, <2>1, <2>2, <2>3, <2>4, <2>5 DEF CoverOf
  <2> QED
    BY <1>1, <2>6, CoverPrimed
<1>14. ASSUME AppendEntry \/ UNCHANGED vars PROVE CoverInv'
  <2>1. d = Snapshot
    BY <1>1, <1>14, AppendKeeps, TablesKept DEF vars
  <2>2. p = proc /\ f = file /\ m = muddled
    BY <1>1, <1>14 DEF AppendEntry, vars
  <2>3. CoverOf(p, d, f, m)
    BY <2>1, <2>2 DEF CoverInv
  <2> QED
    BY <1>1, <2>3, CoverPrimed
<1> QED
  BY <1>6, <1>7, <1>8, <1>9, <1>10, <1>11, <1>12, <1>13, <1>14 DEF Next

----------------------------------------------------------------------------
(***************************************************************************)
(* Where no entry is shared, the backups are true and a revert restores.   *)
(***************************************************************************)

\* The failures dealt to the sessions stay as they are.
LEMMA ConfigKept == [Next]_vars => config' = config
BY DEF Next, vars, StartApply, StartRevert, ApplyNext, ApplyFails, SaveBackups, Resume,
       RevertNext, EndRevert, Kill, AppendEntry

LEMMA TruePrimed ==
  ASSUME NEW p, NEW d, NEW f, NEW m \in BOOLEAN,
         p = proc', d = Snapshot', f = file', m = muddled', TrueOf(p, d, f, m)
  PROVE  TrueInv'
BY DEF TrueInv

LEMMA EndPrimed ==
  ASSUME NEW p, NEW d, NEW l, NEW m \in BOOLEAN,
         p = proc', d = Snapshot', l = last', m = muddled', EndOf(p, d, l, m)
  PROVE  EndInv'
BY DEF EndInv

LEMMA TrueInit == Init => TrueInv /\ EndInv
<1> SUFFICES ASSUME Init PROVE TrueInv /\ EndInv
  OBVIOUS
<1>1. /\ proc.phase = "idle" /\ proc.aborting = FALSE
      /\ file = NoFile
      /\ last.outcome = "none"
  BY DEF Init, Idle
<1> QED
  BY <1>1 DEF TrueInv, TrueOf, EndInv, EndOf

\* What an injection overwrites was not written by the same apply phase: a link and
\* a score belong to their session, a deleted row is not found again, and no entry
\* is shared.
LEMMA FirstWrite ==
  ASSUME TypeOK, PhaseInv, CoverInv, NoSharedEntry,
         proc.phase = "applying", proc.at \in Sessions,
         config[proc.at].target # NoTarget, CanInject(config[proc.at])
  PROVE  At(Snapshot, ItemOf(config[proc.at])) = At(proc.before, ItemOf(config[proc.at]))
<1> DEFINE c == config[proc.at]
           y == ItemOf(c)
<1>1. /\ y \in Items /\ c.type \in FailureTypes
      /\ c.type \in {"chunk_deletion", "score_perturbation"} => c.target = proc.at
  BY ConfigItem
<1>2. SUFFICES ASSUME Kept(proc.backups, y, proc.before) PROVE FALSE
  <2>1. Covers(Snapshot, proc.before, proc.backups)
    BY DEF CoverInv, CoverOf
  <2> QED
    BY <1>1, <1>2, <2>1 DEF Covers
<1>3. PICK j \in DOMAIN proc.backups : ItemOf(proc.backups[j]) = y
  BY <1>2 DEF Kept
<1>4. PICK s \in Sessions : s < proc.at /\ ItemOf(proc.backups[j]) = ItemOf(config[s])
  BY <1>3 DEF PhaseInv
<1>5. config[s].type = c.type /\ config[s].target = c.target
  BY <1>3, <1>4 DEF ItemOf
<1>6. s # proc.at
  BY <1>4, Campaign
<1>7. /\ config[s].type \in {"chunk_deletion", "score_perturbation"} => config[s].target = s
  BY <1>5, ConfigItem
<1>8. CASE c.type \in {"chunk_deletion", "score_perturbation"}
  BY <1>1, <1>5, <1>6, <1>7, <1>8
<1>9. CASE c.type = "log_gap"
  <2>1. proc.backups[j].type = "log_gap" /\ proc.backups[j].target = c.target
    BY <1>3, <1>9 DEF ItemOf
  <2>2. c.target \notin rows
    BY <1>3, <2>1 DEF PhaseInv
  <2> QED
    BY <1>9, <2>2 DEF CanInject
<1>10. CASE c.type = "manifest_tamper"
  BY <1>5, <1>6, <1>10 DEF NoSharedEntry
<1> QED
  BY <1>1, <1>8, <1>9, <1>10 DEF FailureTypes

\* A revert that starts has everything ahead.
LEMMA AllAhead ==
  ASSUME NEW p, NEW db, p.at = 1, p.backups \in Seq(BackupOf),
         Covers(db, GoalOf(p), p.backups)
  PROVE  Ahead(p, db)
<1>1. DOMAIN p.backups = 1 .. Len(p.backups) /\ Len(p.backups) \in Nat
  BY LenProperties
<1>2. \A i \in DOMAIN p.backups : i >= p.at
  BY <1>1
<1> QED
  BY <1>2 DEF Ahead, Covers, Kept

\* Every step keeps the backups true and what is not restored yet ahead.
LEMMA TrueStep ==
  ASSUME TypeOK, PhaseInv, CoverInv, TrueInv, [Next]_vars
  PROVE  TrueInv'
<1> PICK p, d, f, m : p = proc' /\ d = Snapshot' /\ f = file' /\ m = muddled'
  OBVIOUS
<1>1. /\ p = proc' /\ d = Snapshot' /\ f = file' /\ m = muddled'
      /\ m \in BOOLEAN /\ muddled \in BOOLEAN
  BY TypeStep DEF TypeOK
<1> SUFFICES ASSUME NoSharedEntry PROVE TrueOf(p, d, f, m)
  <2>1. NoSharedEntry' => NoSharedEntry
    BY ConfigKept DEF NoSharedEntry
  <2> QED
    BY <1>1, <2>1, TruePrimed DEF TrueInv
<1>2. /\ proc.phase = "applying" \/ proc.aborting => Truthful(proc.backups, proc.before)
      /\ ~ muddled /\ file # NoFile => Truthful(file, Original)
      /\ proc.phase = "reverting" /\ ~ proc.errors /\ (proc.aborting \/ ~ muddled)
           => Ahead(proc, Snapshot)
  BY DEF TrueInv, TrueOf
<1>3. /\ proc.phase = "applying" => Covers(Snapshot, proc.before, proc.backups)
      /\ ~ muddled => IF file = NoFile THEN BaseOf(proc, Snapshot) = Original
                      ELSE Covers(BaseOf(proc, Snapshot), Original, file)
  BY DEF CoverInv, CoverOf
<1>4. /\ proc.backups \in Seq(BackupOf) /\ proc.backups # NoFile
      /\ proc.aborting \in BOOLEAN /\ proc.errors \in BOOLEAN /\ proc.at \in Nat
      /\ file # NoFile => file \in Seq(BackupOf)
  BY CampaignAssumption DEF TypeOK, Command
<1>5. /\ proc.phase \in {"idle", "applying", "paused"} => ~ proc.aborting
      /\ proc.phase \in {"paused", "reverting"} /\ ~ proc.aborting => file = proc.backups
  BY DEF PhaseInv
<1>6. ASSUME \E command \in {"run", "apply_only"} : StartApply(command)
      PROVE  TrueOf(p, d, f, m)
  <2>1. p.phase = "applying" /\ p.backups = << >>
    BY <1>1, <1>6, CommandSteps
  <2>2. f = file /\ m = muddled
    BY <1>1, <1>6 DEF StartApply
  <2>3. Truthful(p.backups, p.before)
    BY <2>1 DEF Truthful
  <2> QED
    BY <1>2, <2>1, <2>2, <2>3 DEF TrueOf
<1>7. ASSUME StartRevert PROVE TrueOf(p, d, f, m)
  <2>1. p.phase = "reverting" /\ ~ p.aborting /\ p.at = 1 /\ p.backups = file
    BY <1>1, <1>7, CommandSteps
  <2>2. /\ d = Snapshot /\ f = file /\ m = muddled
        /\ proc.phase = "idle" /\ file # NoFile
    BY <1>1, <1>7, TablesKept DEF StartRevert
  <2>3. BaseOf(proc, Snapshot) = Snapshot /\ GoalOf(p) = Original
    BY <1>5, <2>1, <2>2 DEF BaseOf, GoalOf
  <2>4. ~ m => Ahead(p, d)
    BY <1>3, <1>4, <2>1, <2>2, <2>3, AllAhead
  <2> QED
    BY <1>2, <2>1, <2>2, <2>4 DEF TrueOf
<1>8. ASSUME ApplyNext PROVE TrueOf(p, d, f, m)
  <2>1. /\ proc.phase = "applying" /\ proc.at \in Sessions
        /\ f = file /\ m = muddled
    BY <1>1, <1>8 DEF ApplyNext
  <2>2. ASSUME p.phase = "applying", Truthful(p.backups, p.before)
        PROVE  TrueOf(p, d, f, m)
    BY <1>2, <2>1, <2>2 DEF TrueOf
  <2>3. ASSUME proc' = [proc EXCEPT !.at = @ + 1]
        PROVE  TrueOf(p, d, f, m)
    <3>1. p.phase = "applying" /\ p.before = proc.before /\ p.backups = proc.backups
      BY <1>1, <2>1, <2>3, CommandSteps
    <3> QED
      BY <1>2, <2>1, <2>2, <3>1
  <2>4. ASSUME config[proc.at].target # NoTarget,
               CanInject(config[proc.at]), Inject(config[proc.at]),
               proc' = [proc EXCEPT !.at = @ + 1,
                                    !.backups = Append(@, Backup(config[proc.at]))]
        PROVE  TrueOf(p, d, f, m)
    <3> DEFINE c == config[proc.at]
               n == Len(proc.backups)
               y == ItemOf(c)
    <3>1. /\ p.phase = "applying" /\ p.before = proc.before
          /\ n \in Nat /\ DOMAIN proc.backups = 1 .. n
          /\ DOMAIN p.backups = 1 .. n + 1
          /\ \A j \in 1 .. n : p.backups[j] = proc.backups[j]
          /\ p.backups[n + 1] = Backup(c)
      BY <1>1, <2>1, <2>4, Applies
    <3>2. /\ ItemOf(Backup(c)) = y
          /\ Backup(c).original = At(Snapshot, y)
      BY <2>1, <2>4, InjectWrites
    <3>3. At(Snapshot, y) = At(proc.before, y)
      BY <2>1, <2>4, FirstWrite
    <3> HIDE DEF y, n, c
    <3>4. \A j \in DOMAIN p.backups : j \in 1 .. n \/ j = n + 1
      BY <3>1
    <3>5. Truthful(p.backups, p.before)
      BY <1>2, <2>1, <3>1, <3>2, <3>3, <3>4 DEF Truthful
    <3> QED
      BY <2>2, <3>1, <3>5
  <2> QED
    BY <1>8, <2>3, <2>4 DEF ApplyNext
<1>9. ASSUME ApplyFails PROVE TrueOf(p, d, f, m)
  <2>1. Abort /\ proc.phase = "applying"
    BY <1>9 DEF ApplyFails
  <2>2. /\ p.phase = "reverting" /\ p.aborting /\ p.at = 1
        /\ p.before = proc.before /\ p.backups = proc.backups
    BY <1>1, <2>1, CommandSteps
  <2>3. d = Snapshot /\ f = file /\ m = muddled
    BY <1>1, <1>9, TablesKept DEF ApplyFails
  <2>4. Ahead(p, d)
    <3>1. GoalOf(p) = proc.before
      BY <2>2 DEF GoalOf
    <3> QED
      BY <1>3, <1>4, <2>1, <2>2, <2>3, <3>1, AllAhead
  <2> QED
    BY <1>2, <2>1, <2>2, <2>3, <2>4 DEF TrueOf
<1>10. ASSUME SaveBackups PROVE TrueOf(p, d, f, m)
  <2>1. /\ proc.phase = "applying"
        /\ f = proc.backups
        /\ ~ m => proc.before = Original
    BY <1>1, <1>10 DEF SaveBackups
  <2>2. ASSUME Ends("applied", FALSE)
        PROVE  p.phase = "idle" /\ ~ p.aborting
    BY <1>1, <2>2, EndTypes
  <2>3. ASSUME proc' = [proc EXCEPT !.phase = "paused"]
        PROVE  p.phase = "paused" /\ ~ p.aborting
    BY <1>1, <1>5, <2>1, <2>3, CommandSteps
  <2>4. p.phase \in {"idle", "paused"} /\ ~ p.aborting
    BY <1>10, <2>2, <2>3 DEF SaveBackups
  <2> QED
    BY <1>2, <2>1, <2>4 DEF TrueOf
<1>11. ASSUME Resume PROVE TrueOf(p, d, f, m)
  <2>1. proc.phase = "paused" /\ d = Snapshot /\ f = file /\ m = muddled
    BY <1>1, <1>11, TablesKept DEF Resume
  <2>2. /\ p.phase = "reverting" /\ ~ p.aborting /\ p.at = 1
        /\ p.backups = proc.backups
    BY <1>1, <1>5, <1>11, <2>1, CommandSteps
  <2>3. BaseOf(proc, Snapshot) = Snapshot /\ GoalOf(p) = Original
    BY <1>5, <2>1, <2>2 DEF BaseOf, GoalOf
  <2>4. ~ m => Ahead(p, d)
    BY <1>3, <1>4, <1>5, <2>1, <2>2, <2>3, AllAhead
  <2> QED
    BY <1>2, <2>1, <2>2, <2>4 DEF TrueOf
<1>12. ASSUME RevertNext PROVE TrueOf(p, d, f, m)
  <2>1. /\ proc.phase = "reverting" /\ proc.at \in DOMAIN proc.backups
        /\ f = file /\ m = muddled
        /\ \/ proc' = [proc EXCEPT !.at = @ + 1]
           \/ proc' = [proc EXCEPT !.at = @ + 1, !.errors = TRUE]
    BY <1>1, <1>12 DEF RevertNext
  <2>2. /\ p.phase = "reverting" /\ p.aborting = proc.aborting
        /\ p.before = proc.before /\ p.backups = proc.backups /\ p.at = proc.at + 1
    BY <1>1, <2>1, CommandSteps
  <2>3. ASSUME proc' = [proc EXCEPT !.at = @ + 1, !.errors = TRUE]
        PROVE  TrueOf(p, d, f, m)
    <3>1. p.errors = TRUE
      BY <1>1, <2>3, CommandSteps
    <3> QED
      BY <1>2, <2>1, <2>2, <3>1 DEF TrueOf
  <2>4. ASSUME NEW b, b = proc.backups[proc.at], CanRevert(b), Revert(b),
               proc' = [proc EXCEPT !.at = @ + 1]
        PROVE  TrueOf(p, d, f, m)
    <3>1. b \in BackupOf
      BY <1>4, <2>1, <2>4, ElementOfSeq, LenProperties
    <3>2. p.errors = proc.errors
      BY <1>1, <2>4, CommandSteps
    <3>3. /\ \A x \in Items : x # ItemOf(b) => At(d, x) = At(Snapshot, x)
          /\ At(d, ItemOf(b)) = b.original
      BY <1>1, <2>4, <3>1, RevertWrites DEF Wrote
    <3>4. ASSUME ~ proc.errors, proc.aborting \/ ~ muddled
          PROVE  Ahead(p, d)
      <4>1. Ahead(proc, Snapshot)
        BY <1>2, <2>1, <3>4
      <4>2. GoalOf(p) = GoalOf(proc)
        BY <2>2 DEF GoalOf
      <4>3. b.original = At(GoalOf(p), ItemOf(b))
        <5>1. CASE proc.aborting
          BY <1>2, <2>1, <2>2, <2>4, <5>1 DEF GoalOf, Truthful
        <5>2. CASE ~ proc.aborting
          <6>1. file = proc.backups /\ file # NoFile
            BY <1>4, <1>5, <2>1, <5>2
          <6>2. Truthful(file, Original)
            BY <1>2, <3>4, <5>2, <6>1
          <6> QED
            BY <2>1, <2>2, <2>4, <5>2, <6>1, <6>2 DEF GoalOf, Truthful
        <5> QED
          BY <5>1, <5>2
      <4>4. ASSUME NEW x \in Items, x # ItemOf(b), At(d, x) # At(GoalOf(p), x)
            PROVE  \E j \in DOMAIN p.backups : j >= p.at /\ ItemOf(p.backups[j]) = x
        <5>1. At(Snapshot, x) # At(GoalOf(proc), x)
          BY <3>3, <4>2, <4>4
        <5>2. PICK j \in DOMAIN proc.backups : j >= proc.at /\ ItemOf(proc.backups[j]) = x
          BY <4>1, <5>1 DEF Ahead
        <5>3. j # proc.at /\ j \in Nat
          BY <1>4, <2>4, <4>4, <5>2, LenProperties
        <5> QED
          BY <1>4, <2>2, <5>2, <5>3
      <4> QED
        BY <3>3, <4>3, <4>4 DEF Ahead
    <3> QED
      BY <1>2, <2>1, <2>2, <3>2, <3>4 DEF TrueOf
  <2> QED
    BY <1>12, <2>3, <2>4 DEF RevertNext
<1>13. ASSUME EndRevert \/ Kill PROVE TrueOf(p, d, f, m)
  <2>1. p.phase = "idle" /\ ~ p.aborting /\ f = file
    <3>1. proc' = Idle /\ f = file
      BY <1>1, <1>13 DEF EndRevert, Kill, Ends
    <3> QED
      BY <1>1, <3>1 DEF Idle
  <2>2. ~ m => ~ muddled
    <3>1. CASE EndRevert
      BY <1>1, <3>1 DEF EndRevert
    <3>2. CASE Kill
      BY <1>1, <3>2 DEF Kill
    <3> QED
      BY <1>13, <3>1, <3>2
  <2> QED
    BY <1>2, <2>1, <2>2 DEF TrueOf
<1>14. ASSUME AppendEntry \/ UNCHANGED vars PROVE TrueOf(p, d, f, m)
  <2>1. d = Snapshot
    BY <1>1, <1>14, AppendKeeps, TablesKept DEF vars
  <2>2. p = proc /\ f = file /\ m = muddled
    BY <1>1, <1>14 DEF AppendEntry, vars
  <2> QED
    BY <2>1, <2>2 DEF TrueInv
<1> QED
  BY <1>6, <1>7, <1>8, <1>9, <1>10, <1>11, <1>12, <1>13, <1>14 DEF Next

\* A command that ends by reverting has restored what it reached: with no error,
\* everything.
LEMMA EndStep ==
  ASSUME TypeOK, PhaseInv, TrueInv, EndInv, [Next]_vars
  PROVE  EndInv'
<1> PICK p, d, l, m : p = proc' /\ d = Snapshot' /\ l = last' /\ m = muddled'
  OBVIOUS
<1>1. /\ p = proc' /\ d = Snapshot' /\ l = last' /\ m = muddled'
      /\ m \in BOOLEAN /\ muddled \in BOOLEAN
  BY TypeStep DEF TypeOK
<1> SUFFICES ASSUME NoSharedEntry PROVE EndOf(p, d, l, m)
  <2>1. NoSharedEntry' => NoSharedEntry
    BY ConfigKept DEF NoSharedEntry
  <2> QED
    BY <1>1, <2>1, EndPrimed DEF EndInv
<1>2. ASSUME p.phase # "idle" PROVE EndOf(p, d, l, m)
  BY <1>2 DEF EndOf
<1>3. ASSUME \E command \in {"run", "apply_only"} : StartApply(command)
      PROVE  EndOf(p, d, l, m)
  BY <1>1, <1>2, <1>3, CommandSteps
<1>4. ASSUME StartRevert \/ Resume PROVE EndOf(p, d, l, m)
  BY <1>1, <1>2, <1>4, CommandSteps
<1>5. ASSUME ApplyNext PROVE EndOf(p, d, l, m)
  <2>1. proc.phase = "applying" /\ proc.at \in Sessions
    BY <1>5 DEF ApplyNext
  <2>2. ASSUME proc' = [proc EXCEPT !.at = @ + 1] PROVE EndOf(p, d, l, m)
    BY <1>1, <1>2, <2>1, <2>2, CommandSteps
  <2>3. ASSUME config[proc.at].target # NoTarget,
               CanInject(config[proc.at]), Inject(config[proc.at]),
               proc' = [proc EXCEPT !.at = @ + 1,
                                    !.backups = Append(@, Backup(config[proc.at]))]
        PROVE  EndOf(p, d, l, m)
    BY <1>1, <1>2, <2>1, <2>3, Applies
  <2> QED
    BY <1>5, <2>2, <2>3 DEF ApplyNext
<1>6. ASSUME ApplyFails PROVE EndOf(p, d, l, m)
  <2>1. Abort
    BY <1>6 DEF ApplyFails
  <2> QED
    BY <1>1, <1>2, <2>1, CommandSteps
<1>7. ASSUME SaveBackups PROVE EndOf(p, d, l, m)
  <2>1. ASSUME Ends("applied", FALSE) PROVE EndOf(p, d, l, m)
    <3>1. l.outcome = "applied"
      BY <1>1, <2>1, EndTypes
    <3> QED
      BY <3>1 DEF EndOf
  <2>2. ASSUME proc' = [proc EXCEPT !.phase = "paused"] PROVE EndOf(p, d, l, m)
    BY <1>1, <1>2, <2>2, CommandSteps
  <2> QED
    BY <1>7, <2>1, <2>2 DEF SaveBackups
<1>8. ASSUME RevertNext PROVE EndOf(p, d, l, m)
  <2>1. /\ proc.phase = "reverting"
        /\ \/ proc' = [proc EXCEPT !.at = @ + 1]
           \/ proc' = [proc EXCEPT !.at = @ + 1, !.errors = TRUE]
    BY <1>8 DEF RevertNext
  <2> QED
    BY <1>1, <1>2, <2>1, CommandSteps
<1>9. ASSUME EndRevert PROVE EndOf(p, d, l, m)
  <2>1. /\ proc.phase = "reverting" /\ proc.at \notin DOMAIN proc.backups
        /\ last' = [outcome |-> IF proc.aborting THEN "aborted" ELSE "reverted",
                    errors |-> proc.errors, before |-> proc.before]
        /\ m = (muddled \/ (proc.aborting /\ Snapshot # proc.before))
        /\ UNCHANGED database
    BY <1>1, <1>9 DEF EndRevert, Ends
  <2>2. /\ l.outcome = IF proc.aborting THEN "aborted" ELSE "reverted"
        /\ l.errors = proc.errors /\ l.before = proc.before
        /\ d = Snapshot
    BY <1>1, <2>1, TablesKept
  <2>3. ASSUME ~ proc.errors, proc.aborting \/ ~ muddled
        PROVE  Snapshot = GoalOf(proc)
    <3>1. Ahead(proc, Snapshot)
      BY <2>1, <2>3 DEF TrueInv, TrueOf
    <3>2. \A j \in DOMAIN proc.backups : ~ (j >= proc.at)
      <4>1. /\ DOMAIN proc.backups = 1 .. Len(proc.backups)
            /\ Len(proc.backups) \in Nat
            /\ proc.at \in 1 .. Len(proc.backups) + 1
        BY <2>1, LenProperties DEF TypeOK, Command, PhaseInv
      <4> QED
        BY <2>1, <4>1
    <3>3. \A x \in Items : At(Snapshot, x) = At(GoalOf(proc), x)
      BY <3>1, <3>2 DEF Ahead
    <3>4. GoalOf(proc) \in Database
      BY <2>1, OriginalType DEF TypeOK, GoalOf
    <3>5. Snapshot \in Database
      BY SnapshotType
    <3> HIDE DEF Snapshot
    <3> QED
      BY <3>3, <3>4, <3>5, SameDatabase
  <2>4. CASE proc.aborting
    BY <2>2, <2>3, <2>4 DEF EndOf, GoalOf
  <2>5. CASE ~ proc.aborting
    BY <1>1, <2>1, <2>2, <2>3, <2>5 DEF EndOf, GoalOf
  <2> QED
    BY <2>4, <2>5
<1>10. ASSUME Kill PROVE EndOf(p, d, l, m)
  <2>1. Ends("killed", FALSE)
    BY <1>10 DEF Kill
  <2>2. l.outcome = "killed"
    BY <1>1, <2>1, EndTypes
  <2> QED
    BY <2>2 DEF EndOf
<1>11. ASSUME AppendEntry \/ UNCHANGED vars PROVE EndOf(p, d, l, m)
  <2>1. d = Snapshot
    BY <1>1, <1>11, AppendKeeps, TablesKept DEF vars
  <2>2. p = proc /\ l = last /\ m = muddled
    BY <1>1, <1>11 DEF AppendEntry, vars
  <2> QED
    BY <2>1, <2>2 DEF EndInv
<1> QED
  BY <1>3, <1>4, <1>5, <1>6, <1>7, <1>8, <1>9, <1>10, <1>11 DEF Next

----------------------------------------------------------------------------
(***************************************************************************)
(* The verifiers over the tables as they were.                             *)
(***************************************************************************)

\* Of a thread that has all its rows, row k is the k-th.
LEMMA FullChain ==
  ASSUME NEW s \in Sessions, rows = AllRows
  PROVE  VerifyChain(ChainOf(ThreadOf[s])).valid
<1> DEFINE N == ThreadRows
           thread == ThreadOf[s]
           ids == {i \in 1 .. N : <<thread, i>> \in rows}
           nth(k) == CHOOSE i \in ids : Cardinality({j \in ids : j <= i}) = k
           chain == ChainOf(thread)
<1>1. N \in Nat
  BY CampaignAssumption
<1>2. ids = 1 .. N
  BY DEF AllRows
<1>3. \A i \in 1 .. N : Cardinality({j \in ids : j <= i}) = i
  <2> TAKE i \in 1 .. N
  <2>1. {j \in ids : j <= i} = 1 .. i
    BY <1>1, <1>2
  <2>2. Cardinality(1 .. i) = i
    BY <1>1, FS_Interval
  <2> QED
    BY <2>1, <2>2
<1>4. Cardinality(ids) = N
  <2>1. Cardinality(1 .. N) = N
    BY <1>1, FS_Interval
  <2> QED
    BY <1>2, <2>1
<1>5. ASSUME NEW k \in 1 .. N PROVE nth(k) = k
  <2>1. \E i \in ids : Cardinality({j \in ids : j <= i}) = k
    BY <1>2, <1>3
  <2>2. nth(k) \in ids /\ Cardinality({j \in ids : j <= nth(k)}) = k
    BY <2>1
  <2> HIDE DEF nth, ids
  <2> QED
    BY <1>2, <1>3, <2>2
<1>6. chain = [k \in 1 .. Cardinality(ids) |->
                 [id |-> nth(k), data |-> nth(k), record_hash |-> Prefix(nth(k))]]
  BY DEF ChainOf
<1> HIDE DEF chain, nth, ids
<1>7. DOMAIN chain = 1 .. N
  BY <1>4, <1>6
<1>8. \A k \in 1 .. N : chain[k].data = k /\ chain[k].record_hash = Prefix(k)
  BY <1>4, <1>5, <1>6
<1>9. \A k \in 1 .. N : Expected(chain, k) = Prefix(k)
  <2> TAKE k \in 1 .. N
  <2>1. \A j \in 1 .. k : chain[j].data = j
    BY <1>1, <1>8
  <2> QED
    BY <2>1 DEF Expected, Prefix
<1>10. BrokenRecords(chain) = {}
  BY <1>7, <1>8, <1>9 DEF BrokenRecords
<1> QED
  BY <1>10 DEF VerifyChain, chain

\* With the hashes as they were, the manifest verifies unless an append took a
\* tampered one.
LEMMA HashesRestored ==
  ASSUME TypeOK, ManifestInv, Snapshot = Original
  PROVE  VerifyManifest(manifest, TRUE).valid <=> ~ chained
<1>1. /\ Entries \in Nat /\ Entries >= 1
      /\ Len(manifest) \in Nat /\ Entries <= Len(manifest)
      /\ DOMAIN manifest = 1 .. Len(manifest)
      /\ chained \in BOOLEAN
  BY Campaign, LenProperties DEF TypeOK
<1>2. \A i \in 1 .. Entries : manifest[i].entry_hash = Prefix(i)
  <2>1. HashesOf(manifest) = HashesOf(LinearEntries)
    BY DEF Snapshot, Original
  <2>2. \A i \in 1 .. Entries : LinearEntries[i].entry_hash = Prefix(i)
    BY DEF LinearEntries
  <2> QED
    BY <2>1, <2>2 DEF HashesOf
<1>3. \A i \in 1 .. Entries : /\ manifest[i].data = i
                              /\ manifest[i].previous_hash = Prefix(i - 1)
  BY DEF ManifestInv, Sound
<1>4. /\ \A i \in Entries + 1 .. Len(manifest) :
           /\ manifest[i].entry_hash = Hash(manifest[i].previous_hash, manifest[i].data)
           /\ i > Entries + 1 => manifest[i].previous_hash = manifest[i - 1].entry_hash
      /\ Len(manifest) = Entries => ~ chained
      /\ Len(manifest) > Entries =>
           (chained <=> manifest[Entries + 1].previous_hash # Prefix(Entries))
  BY DEF ManifestInv, Sound
<1>5. \A i \in 1 .. Len(manifest) : ~ HashMismatch(manifest, i)
  <2> TAKE i \in 1 .. Len(manifest)
  <2>1. CASE i \in 1 .. Entries
    <3>1. Hash(Prefix(i - 1), i) = Prefix(i)
      BY <1>1, <2>1, PrefixExtends
    <3> QED
      BY <1>2, <1>3, <2>1, <3>1 DEF HashMismatch
  <2>2. CASE i \in Entries + 1 .. Len(manifest)
    BY <1>4, <2>2 DEF HashMismatch
  <2> QED
    BY <1>1, <2>1, <2>2
<1>6. \A i \in 1 .. Len(manifest) : i # Entries + 1 => ~ LinkMismatch(manifest, i)
  <2> TAKE i \in 1 .. Len(manifest)
  <2>1. CASE i \in 2 .. Entries
    <3>1. i - 1 \in 1 .. Entries /\ i \in 1 .. Entries
      BY <1>1, <2>1
    <3> QED
      BY <1>2, <1>3, <3>1 DEF LinkMismatch
  <2>2. CASE i \in Entries + 2 .. Len(manifest)
    <3>1. i \in Entries + 1 .. Len(manifest) /\ i > Entries + 1
      BY <1>1, <2>2
    <3> QED
      BY <1>4, <3>1 DEF LinkMismatch
  <2>3. CASE i = 1
    BY <2>3 DEF LinkMismatch
  <2> QED
    BY <1>1, <2>1, <2>2, <2>3
<1>7. Entries + 1 \in 1 .. Len(manifest) =>
        (LinkMismatch(manifest, Entries + 1) <=> chained)
  <2> HAVE Entries + 1 \in 1 .. Len(manifest)
  <2>1. manifest[(Entries + 1) - 1].entry_hash = Prefix(Entries)
    <3>1. (Entries + 1) - 1 = Entries /\ Entries \in 1 .. Entries
      BY <1>1
    <3> QED
      BY <1>2, <3>1
  <2>2. chained <=> manifest[Entries + 1].previous_hash # Prefix(Entries)
    <3>1. Len(manifest) > Entries
      BY <1>1
    <3> QED
      BY <1>4, <3>1
  <2> QED
    BY <1>1, <2>1, <2>2 DEF LinkMismatch
<1>8. ManifestBreaks(manifest, TRUE) = {} <=> ~ chained
  <2>1. ManifestBreaks(manifest, TRUE) = {i \in 1 .. Len(manifest) : LinkMismatch(manifest, i)}
    BY <1>1, <1>5 DEF ManifestBreaks
  <2>2. CASE Len(manifest) = Entries
    <3>1. \A i \in 1 .. Len(manifest) : i # Entries + 1
      BY <1>1, <2>2
    <3> QED
      BY <1>4, <1>6, <2>1, <2>2, <3>1
  <2>3. CASE Len(manifest) > Entries
    <3>1. Entries + 1 \in 1 .. Len(manifest)
      BY <1>1, <2>3
    <3> QED
      BY <1>6, <1>7, <2>1, <3>1
  <2>4. Len(manifest) = Entries \/ Len(manifest) > Entries
    <3>1. \A a, b \in Nat : a <= b => b = a \/ b > a
      OBVIOUS
    <3> QED
      BY <1>1, <3>1
  <2> QED
    BY <2>2, <2>3, <2>4
<1> QED
  BY <1>8 DEF VerifyManifest

----------------------------------------------------------------------------
(***************************************************************************)
(* The campaign.                                                           *)
(***************************************************************************)

Invariants ==
  TypeOK /\ PhaseInv /\ ManifestInv /\ SaneInv /\ CoverInv /\ TrueInv /\ EndInv

LEMMA CampaignInvariants == Spec => []Invariants
<1>1. Init => Invariants
  BY TypeInit, PhaseInit, ManifestInit, SaneInit, CoverInit, TrueInit DEF Invariants
<1>2. Invariants /\ [Next]_vars => Invariants'
  BY TypeStep, PhaseStep, ManifestStep, CoverStep, TrueStep, EndStep DEF Invariants
<1> QED
  BY <1>1, <1>2, PTL DEF Spec

\* Whatever is killed, fails or is repeated, the tables of the campaign and
\* backups.json hold what the code takes them to hold.
THEOREM TypeCorrect == Spec => []TypeOK
<1>1. Invariants => TypeOK
  BY DEF Invariants
<1> QED
  BY <1>1, CampaignInvariants, PTL

\* backups.json holds the original of everything that is mutated, at the pause and
\* between commands: phase_apply replaces it by what it took before each write.
THEOREM OriginalsCovered == Spec => []BackupsCover
<1>1. ASSUME Invariants PROVE BackupsCover
  <2> DEFINE Held(type, target, original) ==
               /\ file # NoFile
               /\ \E i \in DOMAIN file :
                    /\ file[i].type = type /\ file[i].target = target
                    /\ file[i].original = original
  <2> SUFFICES ASSUME proc.phase \in {"idle", "paused"}, ~ muddled
               PROVE  /\ \A l \in (Sessions \ Bare) \ links : Held("chunk_deletion", l, NoScore)
                      /\ \A r \in AllRows \ rows : Held("log_gap", r, NoScore)
                      /\ \A s \in Sessions : scores[s] # ScoreOf[s] =>
                           Held("score_perturbation", s, ScoreOf[s])
                      /\ \A i \in 1 .. Entries : manifest[i].entry_hash # Prefix(i) =>
                           Held("manifest_tamper", i, Prefix(i))
    BY DEF BackupsCover
  <2>1. BaseOf(proc, Snapshot) = Snapshot
    BY <1>1 DEF Invariants, PhaseInv, BaseOf
  <2>2. \A x \in Items : At(Snapshot, x) # At(Original, x) =>
          file # NoFile /\ Kept(file, x, Original)
    BY <1>1, <2>1 DEF Invariants, CoverInv, CoverOf, Covers
  <2>3. ASSUME NEW l \in (Sessions \ Bare) \ links
        PROVE  Held("chunk_deletion", l, NoScore)
    <3>1. <<"chunk_deletion", l>> \in Items
      BY DEF Items
    <3>2. At(Original, <<"chunk_deletion", l>>) = NoScore
      BY DEF At, Original
    <3>3. At(Snapshot, <<"chunk_deletion", l>>) # NoScore
      BY NoRowDiffers DEF At, Snapshot
    <3>4. file # NoFile /\ Kept(file, <<"chunk_deletion", l>>, Original)
      BY <2>2, <3>1, <3>2, <3>3
    <3> QED
      BY <3>2, <3>4 DEF Kept, ItemOf
  <2>4. ASSUME NEW r \in AllRows \ rows
        PROVE  Held("log_gap", r, NoScore)
    <3>1. <<"log_gap", r>> \in Items
      BY DEF Items
    <3>2. At(Original, <<"log_gap", r>>) = NoScore
      BY DEF At, Original
    <3>3. At(Snapshot, <<"log_gap", r>>) # NoScore
      BY NoRowDiffers DEF At, Snapshot
    <3>4. file # NoFile /\ Kept(file, <<"log_gap", r>>, Original)
      BY <2>2, <3>1, <3>2, <3>3
    <3> QED
      BY <3>2, <3>4 DEF Kept, ItemOf
  <2>5. ASSUME NEW s \in Sessions, scores[s] # ScoreOf[s]
        PROVE  Held("score_perturbation", s, ScoreOf[s])
    <3>1. <<"score_perturbation", s>> \in Items
      BY DEF Items
    <3>2. At(Original, <<"score_perturbation", s>>) = ScoreOf[s]
      BY DEF At, Original
    <3>3. At(Snapshot, <<"score_perturbation", s>>) # ScoreOf[s]
      BY <2>5 DEF At, Snapshot
    <3>4. file # NoFile /\ Kept(file, <<"score_perturbation", s>>, Original)
      BY <2>2, <3>1, <3>2, <3>3
    <3> QED
      BY <3>2, <3>4 DEF Kept, ItemOf
  <2>6. ASSUME NEW i \in 1 .. Entries, manifest[i].entry_hash # Prefix(i)
        PROVE  Held("manifest_tamper", i, Prefix(i))
    <3>1. <<"manifest_tamper", i>> \in Items
      BY DEF Items
    <3>2. At(Original, <<"manifest_tamper", i>>) = Prefix(i)
      BY DEF At, Original, HashesOf, LinearEntries
    <3>3. At(Snapshot, <<"manifest_tamper", i>>) # Prefix(i)
      BY <2>6 DEF At, Snapshot, HashesOf
    <3>4. file # NoFile /\ Kept(file, <<"manifest_tamper", i>>, Original)
      BY <2>2, <3>1, <3>2, <3>3
    <3> QED
      BY <3>2, <3>4 DEF Kept, ItemOf
  <2> HIDE DEF Held
  <2> QED
    BY <2>3, <2>4, <2>5, <2>6
<1> QED
  BY <1>1, CampaignInvariants, PTL

\* An apply phase that meets an error, on whichever transaction and over whatever
\* database, leaves what it found when no revert of it fails.
THEOREM AbortUndone == Spec => []AbortUndoesAll
<1>1. Invariants => AbortUndoesAll
  BY DEF Invariants, EndInv, EndOf, AbortUndoesAll
<1> QED
  BY <1>1, CampaignInvariants, PTL

\* A command that ends by reverting, with no error, has restored the tables, and
\* both verifiers are satisfied, but for an append that took a tampered hash.
THEOREM Restored == Spec => []RevertRestores
<1>1. ASSUME Invariants PROVE RevertRestores
  <2> SUFFICES ASSUME proc.phase = "idle", last.outcome = "reverted", ~ last.errors,
                      NoSharedEntry, ~ muddled
               PROVE  /\ Snapshot = Original
                      /\ \A s \in Sessions : VerifyChain(ChainOf(ThreadOf[s])).valid
                      /\ VerifyManifest(manifest, TRUE).valid <=> ~ chained
    BY DEF RevertRestores
  <2>1. Snapshot = Original
    BY <1>1 DEF Invariants, EndInv, EndOf
  <2>2. rows = AllRows
    BY <2>1 DEF Snapshot, Original
  <2>3. \A s \in Sessions : VerifyChain(ChainOf(ThreadOf[s])).valid
    BY <2>2, FullChain
  <2>4. VerifyManifest(manifest, TRUE).valid <=> ~ chained
    BY <1>1, <2>1, HashesRestored DEF Invariants
  <2> QED
    BY <2>1, <2>3, <2>4
<1> QED
  BY <1>1, CampaignInvariants, PTL

\* What a check of verify_reverts says of the item of a backup.
LEMMA CheckTells ==
  ASSUME TypeOK, NEW b \in BackupOf
  PROVE  /\ Reverted(b) => At(Snapshot, ItemOf(b)) = b.original
         /\ (/\ At(Snapshot, ItemOf(b)) = b.original
             /\ b.type = "manifest_tamper" => ~ Marked(b.original)) => Reverted(b)
<1>1. /\ b.type \in FailureTypes
      /\ b.type = "chunk_deletion" => b.original = NoScore
      /\ b.type = "log_gap" => b.original = NoScore
      /\ b.type = "manifest_tamper" => b.target \in 1 .. Entries
  BY BackupItem
<1>2. CASE b.type = "chunk_deletion"
  BY <1>1, <1>2, NoRowDiffers DEF Reverted, At, ItemOf, Snapshot
<1>3. CASE b.type = "log_gap"
  BY <1>1, <1>3, NoRowDiffers DEF Reverted, At, ItemOf, Snapshot
<1>4. CASE b.type = "score_perturbation"
  BY <1>1, <1>4 DEF Reverted, At, ItemOf, Snapshot
<1>5. CASE b.type = "manifest_tamper"
  <2>1. At(Snapshot, ItemOf(b)) = manifest[b.target].entry_hash
    BY <1>1, <1>5 DEF At, ItemOf, Snapshot, HashesOf
  <2>2. Reverted(b) <=> /\ ~ Marked(manifest[b.target].entry_hash)
                        /\ manifest[b.target].entry_hash = b.original
    BY <1>5 DEF Reverted, Marked
  <2> QED
    BY <1>5, <2>1, <2>2
<1> QED
  BY <1>1, <1>2, <1>3, <1>4, <1>5 DEF FailureTypes

\* verify_reverts passes only over a database that is as before the campaign, and
\* over every such database unless two sessions tampered with one entry.
THEOREM VerdictHolds == Spec => []VerdictIsTrue
<1>1. ASSUME Invariants PROVE VerdictIsTrue
  <2> SUFFICES ASSUME proc.phase = "idle", file # NoFile, ~ muddled
               PROVE  /\ AllReverted => Snapshot = Original
                      /\ NoSharedEntry /\ Snapshot = Original => AllReverted
    BY DEF VerdictIsTrue
  <2>1. TypeOK /\ file \in Seq(BackupOf)
    BY <1>1 DEF Invariants, TypeOK
  <2>2. \A i \in DOMAIN file : file[i] \in BackupOf
    BY <2>1, ElementOfSeq, LenProperties
  <2>3. Covers(Snapshot, Original, file)
    <3>1. BaseOf(proc, Snapshot) = Snapshot
      BY <1>1 DEF Invariants, PhaseInv, BaseOf
    <3> QED
      BY <1>1, <3>1 DEF Invariants, CoverInv, CoverOf
  <2>4. ASSUME AllReverted PROVE Snapshot = Original
    <3>1. ASSUME NEW x \in Items, Kept(file, x, Original)
          PROVE  At(Snapshot, x) = At(Original, x)
      <4>1. PICK i \in DOMAIN file :
              ItemOf(file[i]) = x /\ file[i].original = At(Original, x)
        BY <3>1 DEF Kept
      <4>2. Reverted(file[i]) /\ file[i] \in BackupOf
        BY <2>2, <2>4, <4>1 DEF AllReverted
      <4>3. At(Snapshot, ItemOf(file[i])) = file[i].original
        BY <2>1, <4>2, CheckTells
      <4> QED
        BY <4>1, <4>3
    <3>2. \A x \in Items : At(Snapshot, x) = At(Original, x)
      BY <2>3, <3>1 DEF Covers
    <3>3. Snapshot \in Database
      BY <2>1, SnapshotType
    <3> HIDE DEF Snapshot, Original
    <3> QED
      BY <3>2, <3>3, OriginalType, SameDatabase
  <2>5. ASSUME NoSharedEntry, Snapshot = Original PROVE AllReverted
    <3>1. ASSUME NEW i \in DOMAIN file PROVE Reverted(file[i])
      <4>1. file[i].original = At(Original, ItemOf(file[i]))
        BY <1>1, <2>5 DEF Invariants, TrueInv, TrueOf, Truthful
      <4>2. ASSUME file[i].type = "manifest_tamper" PROVE ~ Marked(file[i].original)
        <5>1. file[i].target \in 1 .. Entries
          BY <2>2, <4>2, BackupItem
        <5>2. file[i].original = Prefix(file[i].target)
          BY <4>1, <4>2, <5>1 DEF At, ItemOf, Original, HashesOf, LinearEntries
        <5> QED
          BY <5>1, <5>2, Campaign, PrefixDigest
      <4>3. At(Snapshot, ItemOf(file[i])) = file[i].original
        BY <2>5, <4>1
      <4> QED
        BY <2>1, <2>2, <4>2, <4>3, CheckTells
    <3> QED
      BY <3>1 DEF AllReverted
  <2> QED
    BY <2>4, <2>5
<1> QED
  BY <1>1, CampaignInvariants, PTL

============================================================================
