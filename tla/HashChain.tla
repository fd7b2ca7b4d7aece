----------------------------- MODULE HashChain -----------------------------
(***************************************************************************)
(* The two hash chains of the audit trail, as data: the ingestion manifest *)
(* (audit/manifest.py) and the execution log (core/hash_chain.py and the   *)
(* writers and the verifier of core/crud.py).                              *)
(*                                                                         *)
(* SHA-256 is idealised: a digest is the sequence of the payloads it       *)
(* commits to.  Extending a digest by a payload is injective, no extension *)
(* equals the genesis digest, and nothing else is assumed of the hash.     *)
(***************************************************************************)
EXTENDS Integers, Sequences

CONSTANTS
  Payload,   \* what an entry hashes: entry_data, or a record's hashed fields
  Tampered   \* marks a digest that no run of the hash function produced

ASSUME TamperedAssumption == Tampered \notin Payload

Digest == Seq(Payload \cup {Tampered})

Genesis == << >>

\* compute_record_hash, and the sha256(prev_hash + data_json) of the manifest.
Hash(previous, payload) == Append(previous, payload)

\* "TAMPERED_" + original_hash[:55]: as long as a digest, equal to none.
TamperedHash(original) == Append(original, Tampered)

----------------------------------------------------------------------------
(***************************************************************************)
(* The manifest stores previous_hash in each row, so each row is checked   *)
(* against the previous hash it claims and, when the whole chain is read,  *)
(* against the row before it.  `rows' is the result of the verifier's      *)
(* query: the selected rows by ascending entry_sequence.                   *)
(***************************************************************************)

HashMismatch(rows, i) ==
  Hash(rows[i].previous_hash, rows[i].data) # rows[i].entry_hash

LinkMismatch(rows, i) ==
  /\ i > 1
  /\ rows[i].previous_hash # rows[i - 1].entry_hash

\* Mutant of ManifestBreaks: the hashes are never recomputed.
LinkBreaksOnly(rows, checkChainLinkage) ==
  {i \in DOMAIN rows : checkChainLinkage /\ LinkMismatch(rows, i)}

ManifestBreaks(rows, checkChainLinkage) ==
  {i \in DOMAIN rows :
     \/ HashMismatch(rows, i)
     \/ checkChainLinkage /\ LinkMismatch(rows, i)}

\* verify_manifest_integrity stops at the first break it meets; 0 is None.
FirstBreak(breaks) ==
  IF breaks = {} THEN 0 ELSE CHOOSE i \in breaks : \A j \in breaks : i <= j

VerifyManifest(rows, checkChainLinkage) ==
  LET breaks == ManifestBreaks(rows, checkChainLinkage)
      first  == FirstBreak(breaks)
  IN  [valid           |-> breaks = {},
       entries_checked |-> IF breaks = {} THEN Len(rows) ELSE first,
       first_broken_at |-> IF breaks = {} THEN 0
                           ELSE rows[first].entry_sequence]

----------------------------------------------------------------------------
(***************************************************************************)
(* The execution log stores only record_hash.  Its verifier recomputes the *)
(* chain from GENESIS_HASH over the rows it finds, by ascending id, and    *)
(* compares: Expected(rows, i) is what it has after i rows.                *)
(***************************************************************************)

Expected(rows, i) == [j \in 1 .. i |-> rows[j].data]

BrokenRecords(rows) ==
  {i \in DOMAIN rows : rows[i].record_hash # Expected(rows, i)}

\* verify_chain_integrity: (is_valid, broken_record_ids).
VerifyChain(rows) ==
  [valid  |-> BrokenRecords(rows) = {},
   broken |-> {rows[i].id : i \in BrokenRecords(rows)}]

----------------------------------------------------------------------------
(***************************************************************************)
(* What the writers intend.  In a linear manifest entry n + 1 is chained   *)
(* to entry n; in a sound log every record's hash commits to the records   *)
(* before it.                                                              *)
(***************************************************************************)

LinearManifest(rows) ==
  \A i \in DOMAIN rows :
    /\ rows[i].entry_sequence = i
    /\ rows[i].previous_hash = IF i = 1 THEN Genesis ELSE rows[i - 1].entry_hash
    /\ rows[i].entry_hash = Hash(rows[i].previous_hash, rows[i].data)

SoundLog(rows) ==
  \A i \in DOMAIN rows : rows[i].record_hash = Expected(rows, i)

\* The table after row i is deleted from it.
WithoutRow(rows, i) ==
  [j \in 1 .. Len(rows) - 1 |-> IF j < i THEN rows[j] ELSE rows[j + 1]]
============================================================================
