-------------------------- MODULE FailureInjection -------------------------
(***************************************************************************)
(* The failure injection campaign of eval/scripts: randomize_failures      *)
(* assigns a failure and a target to every session of the injection group, *)
(* run_failure_injection applies the mutations of apply_injection one      *)
(* transaction at a time, writes backups.json, waits for the blinded       *)
(* evaluator and reverts; verify_reverts compares the database with the    *)
(* backups.  A command may be killed between any two transactions, a       *)
(* transaction may fail, commands are repeated (--apply-only,              *)
(* --revert-only), and an ingestion may append to the manifest meanwhile.  *)
(***************************************************************************)
EXTENDS HashChain, FiniteSets

CONSTANTS
  Sessions,     \* 1 .. n: the injection group, in the order of its config files
  Safety,       \* the sessions with safety_expected
  Bare,         \* the sessions for which no target is found
  ThreadOf,     \* a session's thread_id
  EntryOf,      \* position of the first manifest entry of a session's document
  ScoreOf,      \* sync_faithfulness of a session's response, in halves, or NoScore
  Entries,      \* entries of the manifest before the campaign
  ThreadRows,   \* rows of a thread in agent_execution_logs
  NoScore,      \* a NULL score
  NoTarget,     \* {"placeholder": True}
  NoFile,       \* there is no backups.json
  MaxCommands,  \* bound: commands given
  MaxFaults,    \* bound: transactions that fail for a reason of the database's
  MaxAppends    \* bound: entries appended meanwhile

FailureTypes == {"chunk_deletion", "score_perturbation", "log_gap", "manifest_tamper"}

\* Rows of agent_execution_logs before the campaign.
AllRows == {<<ThreadOf[s], i>> : s \in Sessions, i \in 1 .. ThreadRows}

Score == 0 .. 2 \cup {NoScore}

\* What backups.json keeps of an injection.  The row of a deletion comes back with
\* all its columns, so it keeps none here.
BackupOf ==
  [type : {"chunk_deletion"}, target : Sessions \ Bare, original : {NoScore}]
  \cup [type : {"log_gap"}, target : AllRows, original : {NoScore}]
  \cup [type : {"score_perturbation"}, target : Sessions, original : Score]
  \cup [type : {"manifest_tamper"}, target : 1 .. Entries, original : Digest]

ASSUME CampaignAssumption ==
  /\ Payload = Nat
  /\ IsFiniteSet(Sessions)
  /\ Cardinality(Sessions) >= Cardinality(FailureTypes)
  /\ Sessions = 1 .. Cardinality(Sessions)
  /\ Safety \cup Bare \subseteq Sessions
  /\ Entries \in Nat
  /\ \A s \in Sessions : EntryOf[s] \in 1 .. Entries
  /\ ScoreOf \in [Sessions -> Score]
  /\ ThreadRows \in Nat \ 0 .. 2
  /\ NoFile \notin Seq(BackupOf)

VARIABLES
  config,    \* injection_configs: the failure and the target of every session
  links,     \* sessions whose target row of response_chunk_link is there
  scores,    \* sync_faithfulness of the sessions' evaluation_metrics rows
  rows,      \* <<thread, id>> of the rows of agent_execution_logs
  manifest,  \* ingestion_manifest, by ascending entry_sequence
  file,      \* backups.json, or NoFile
  proc,      \* the command that runs
  last,      \* how the last command ended
  muddled,   \* an apply phase was cut before its backups were written, or wrote
             \* its backups of a database that was mutated already
  chained,   \* an append took the hash of a tampered entry
  commands, faults

database == <<links, scores, rows, manifest>>
vars == <<config, database, file, proc, last, muddled, chained, commands, faults>>

----------------------------------------------------------------------------
\* assign_failure_types: the four types and some at random are dealt to the
\* sessions, one chunk_deletion to a session with safety content if there is one.
Assignments ==
  {f \in [Sessions -> FailureTypes] :
     /\ \A t \in FailureTypes : \E s \in Sessions : f[s] = t
     /\ Safety # {} => \E s \in Safety : f[s] = "chunk_deletion"}

\* The row in the middle of the thread's rows by started_at.
MiddleRow == (ThreadRows \div 2) + 1

\* The query_*_target functions, for the session s: its response's first link and
\* evaluation row, its thread's middle row, its document's first entry.
TargetOf(type, s) ==
  IF s \in Bare THEN NoTarget
  ELSE CASE type \in {"chunk_deletion", "score_perturbation"} -> s
         [] type = "log_gap"         -> <<ThreadOf[s], MiddleRow>>
         [] type = "manifest_tamper" -> EntryOf[s]

Prefix(n) == [j \in 1 .. n |-> j]

\* ingestion_manifest before the campaign.
LinearEntries ==
  [i \in 1 .. Entries |->
     [entry_sequence |-> i, data |-> i,
      previous_hash |-> Prefix(i - 1), entry_hash |-> Prefix(i)]]

Idle == [phase |-> "idle", command |-> "none", at |-> 0, backups |-> << >>,
         aborting |-> FALSE, errors |-> FALSE, before |-> << >>]

Init ==
  /\ \E f \in Assignments :
       config = [s \in Sessions |-> [type |-> f[s], target |-> TargetOf(f[s], s)]]
  /\ links = Sessions \ Bare
  /\ scores = ScoreOf
  /\ rows = AllRows
  /\ manifest = LinearEntries
  /\ file = NoFile
  /\ proc = Idle
  /\ last = [outcome |-> "none", errors |-> FALSE, before |-> << >>]
  /\ muddled = FALSE /\ chained = FALSE
  /\ commands = 0 /\ faults = 0

----------------------------------------------------------------------------
(***************************************************************************)
(* apply_injection: each inject_* and each revert_* is one transaction.    *)
(***************************************************************************)

\* round(1.0 - (original or 0.0), 6)
Flipped(score) == IF score = NoScore THEN 2 ELSE 2 - score

\* A deletion reads its row with .one(), which raises when the row is not there.
CanInject(c) ==
  /\ c.type = "chunk_deletion" => c.target \in links
  /\ c.type = "log_gap" => c.target \in rows

Inject(c) ==
  /\ links' = links \ IF c.type = "chunk_deletion" THEN {c.target} ELSE {}
  /\ rows' = rows \ IF c.type = "log_gap" THEN {c.target} ELSE {}
  /\ scores' = IF c.type = "score_perturbation"
               THEN [scores EXCEPT ![c.target] = Flipped(@)] ELSE scores
  /\ manifest' = IF c.type = "manifest_tamper"
                 THEN [manifest EXCEPT ![c.target].entry_hash = TamperedHash(@)]
                 ELSE manifest

\* Mutant of Backup: what is kept of a hash is what the UPDATE left.
BackupAfterwards(c) ==
  [type |-> c.type, target |-> c.target,
   original |-> CASE c.type = "score_perturbation" -> scores[c.target]
                  [] c.type = "manifest_tamper" ->
                       TamperedHash(manifest[c.target].entry_hash)
                  [] OTHER -> NoScore]

Backup(c) ==
  [type |-> c.type, target |-> c.target,
   original |-> CASE c.type = "score_perturbation" -> scores[c.target]
                  [] c.type = "manifest_tamper" -> manifest[c.target].entry_hash
                  [] OTHER -> NoScore]

\* INSERT ... (id, ...) raises when the row is there.
CanRevert(b) ==
  /\ b.type = "chunk_deletion" => b.target \notin links
  /\ b.type = "log_gap" => b.target \notin rows

Revert(b) ==
  /\ links' = links \cup IF b.type = "chunk_deletion" THEN {b.target} ELSE {}
  /\ rows' = rows \cup IF b.type = "log_gap" THEN {b.target} ELSE {}
  /\ scores' = IF b.type = "score_perturbation"
               THEN [scores EXCEPT ![b.target] = b.original] ELSE scores
  /\ manifest' = IF b.type = "manifest_tamper"
                 THEN [manifest EXCEPT ![b.target].entry_hash = b.original]
                 ELSE manifest

----------------------------------------------------------------------------
(***************************************************************************)
(* verify_reverts: one check per backup, against what the backup holds.    *)
(***************************************************************************)

\* Mutant of Reverted: that the row is there is enough.
RowFound(b) ==
  /\ b.type = "chunk_deletion" => b.target \in links
  /\ b.type = "log_gap" => b.target \in rows

Reverted(b) ==
  /\ b.type = "chunk_deletion" => b.target \in links
  /\ b.type = "log_gap" => b.target \in rows
  /\ b.type = "score_perturbation" => scores[b.target] = b.original
  /\ b.type = "manifest_tamper" =>
       /\ \A p \in DOMAIN manifest[b.target].entry_hash :
            manifest[b.target].entry_hash[p] # Tampered
       /\ manifest[b.target].entry_hash = b.original

AllReverted == \A i \in DOMAIN file : Reverted(file[i])

----------------------------------------------------------------------------
(***************************************************************************)
(* run_failure_injection.                                                  *)
(***************************************************************************)

\* What the campaign may have changed, and what it was before the campaign.
HashesOf(entries) == [i \in 1 .. Entries |-> entries[i].entry_hash]
Snapshot == <<links, scores, rows, HashesOf(manifest)>>
Original == <<Sessions \ Bare, ScoreOf, AllRows, HashesOf(LinearEntries)>>

Ends(outcome, errors) ==
  /\ proc' = Idle
  /\ last' = [outcome |-> outcome, errors |-> errors, before |-> proc.before]

StartApply(command) ==
  /\ proc.phase = "idle" /\ commands < MaxCommands
  /\ commands' = commands + 1
  /\ proc' = [Idle EXCEPT !.phase = "applying", !.command = command, !.at = 1,
                          !.before = Snapshot]
  /\ UNCHANGED <<config, database, file, last, muddled, chained, faults>>

\* main with --revert-only; without backups.json it exits at once.
StartRevert ==
  /\ proc.phase = "idle" /\ commands < MaxCommands
  /\ file # NoFile
  /\ commands' = commands + 1
  /\ proc' = [Idle EXCEPT !.phase = "reverting", !.command = "revert_only",
                          !.at = 1, !.backups = file, !.before = Snapshot]
  /\ UNCHANGED <<config, database, file, last, muddled, chained, faults>>

\* phase_apply: a placeholder is skipped.
ApplyNext ==
  /\ proc.phase = "applying" /\ proc.at \in Sessions
  /\ LET c == config[proc.at]
     IN  \/ /\ c.target = NoTarget
            /\ proc' = [proc EXCEPT !.at = @ + 1]
            /\ UNCHANGED database
         \/ /\ c.target # NoTarget /\ CanInject(c)
            /\ Inject(c)
            /\ proc' = [proc EXCEPT !.at = @ + 1, !.backups = Append(@, Backup(c))]
  /\ UNCHANGED <<config, file, last, muddled, chained, commands, faults>>

\* Mutant of Abort: the command exits and reverts nothing.
AbortAtOnce == Ends("aborted", FALSE)

\* What was applied so far is reverted, and the command exits.
Abort ==
  /\ proc' = [proc EXCEPT !.phase = "reverting", !.at = 1, !.aborting = TRUE]
  /\ UNCHANGED last

ApplyFails ==
  /\ proc.phase = "applying" /\ proc.at \in Sessions
  /\ config[proc.at].target # NoTarget
  /\ \/ ~ CanInject(config[proc.at]) /\ UNCHANGED faults
     \/ faults < MaxFaults /\ faults' = faults + 1
  /\ Abort
  /\ UNCHANGED <<config, database, file, muddled, chained, commands>>

\* Mutant of SaveBackups: only --apply-only writes the file, as the other command
\* still has the backups when it reverts.
SaveForLater ==
  /\ proc.phase = "applying" /\ proc.at \notin Sessions
  /\ file' = IF proc.command = "apply_only" THEN proc.backups ELSE file
  /\ muddled' = (muddled \/ proc.before # Original)
  /\ IF proc.command = "apply_only" THEN Ends("applied", FALSE)
     ELSE proc' = [proc EXCEPT !.phase = "paused"] /\ UNCHANGED last
  /\ UNCHANGED <<config, database, chained, commands, faults>>

\* The end of phase_apply: backups.json is replaced; --apply-only ends here, and
\* the other command waits for Enter.
SaveBackups ==
  /\ proc.phase = "applying" /\ proc.at \notin Sessions
  /\ file' = proc.backups
  /\ muddled' = (muddled \/ proc.before # Original)
  /\ IF proc.command = "apply_only" THEN Ends("applied", FALSE)
     ELSE proc' = [proc EXCEPT !.phase = "paused"] /\ UNCHANGED last
  /\ UNCHANGED <<config, database, chained, commands, faults>>

\* phase_pause: the blinded evaluator has completed the diagnosis.
Resume ==
  /\ proc.phase = "paused"
  /\ proc' = [proc EXCEPT !.phase = "reverting", !.at = 1]
  /\ UNCHANGED <<config, database, file, last, muddled, chained, commands, faults>>

\* phase_revert: the backups in the order they were made; one that fails is
\* reported at the end and the others are still reverted.
RevertNext ==
  /\ proc.phase = "reverting" /\ proc.at \in DOMAIN proc.backups
  /\ LET b == proc.backups[proc.at]
     IN  \/ /\ CanRevert(b)
            /\ Revert(b)
            /\ proc' = [proc EXCEPT !.at = @ + 1]
            /\ UNCHANGED faults
         \/ /\ \/ ~ CanRevert(b) /\ UNCHANGED faults
               \/ faults < MaxFaults /\ faults' = faults + 1
            /\ proc' = [proc EXCEPT !.at = @ + 1, !.errors = TRUE]
            /\ UNCHANGED database
  /\ UNCHANGED <<config, file, last, muddled, chained, commands>>

EndRevert ==
  /\ proc.phase = "reverting" /\ proc.at \notin DOMAIN proc.backups
  /\ Ends(IF proc.aborting THEN "aborted" ELSE "reverted", proc.errors)
  /\ muddled' = (muddled \/ (proc.aborting /\ Snapshot # proc.before))
  /\ UNCHANGED <<config, database, file, chained, commands, faults>>

\* The process dies; what it holds in memory is gone.
Kill ==
  /\ proc.phase # "idle"
  /\ Ends("killed", FALSE)
  /\ muddled' = \/ muddled
                \/ /\ proc.phase = "applying" \/ proc.aborting
                   /\ Snapshot # proc.before
  /\ UNCHANGED <<config, database, file, chained, commands, faults>>

\* append_manifest_entry, from an ingestion that runs meanwhile.
AppendEntry ==
  /\ Len(manifest) < Entries + MaxAppends
  /\ LET tail == manifest[Len(manifest)]
         data == Len(manifest) + 1
     IN  /\ manifest' = Append(manifest,
              [entry_sequence |-> tail.entry_sequence + 1, data |-> data,
               previous_hash |-> tail.entry_hash,
               entry_hash |-> Hash(tail.entry_hash, data)])
         /\ chained' = (chained \/ \E p \in DOMAIN tail.entry_hash :
                                     tail.entry_hash[p] = Tampered)
  /\ UNCHANGED <<config, links, scores, rows, file, proc, last, muddled,
                 commands, faults>>

Next ==
  \/ \E command \in {"run", "apply_only"} : StartApply(command)
  \/ StartRevert
  \/ ApplyNext
  \/ ApplyFails
  \/ SaveBackups
  \/ Resume
  \/ RevertNext
  \/ EndRevert
  \/ Kill
  \/ AppendEntry

Spec == Init /\ [][Next]_vars

----------------------------------------------------------------------------
(***************************************************************************)
(* Properties.                                                             *)
(***************************************************************************)

\* No two sessions tamper with the first entry of one document.
NoSharedEntry ==
  \A s, t \in Sessions :
    /\ s # t
    /\ config[s].type = "manifest_tamper" /\ config[t].type = "manifest_tamper"
    => \/ config[s].target # config[t].target
       \/ config[s].target = NoTarget

\* The thread's chain, as verify_chain_integrity reads it.
ChainOf(thread) ==
  LET ids == {i \in 1 .. ThreadRows : <<thread, i>> \in rows}
      nth(k) == CHOOSE i \in ids : Cardinality({j \in ids : j <= i}) = k
  IN  [k \in 1 .. Cardinality(ids) |->
         [id |-> nth(k), data |-> nth(k), record_hash |-> Prefix(nth(k))]]

\* "Revert -- restore all mutations from backups": when a command ends by reverting
\* and reports no error, the tables are as before the campaign and both verifiers
\* are satisfied, but for an entry an ingestion chained to a tampered hash.  Two
\* sessions that tamper with one entry are the exception phase_revert makes: the
\* second backup holds the hash the first injection left, and is restored last.
RevertRestores ==
  /\ proc.phase = "idle" /\ last.outcome = "reverted" /\ ~ last.errors
  /\ NoSharedEntry /\ ~ muddled
  => /\ Snapshot = Original
     /\ \A s \in Sessions : VerifyChain(ChainOf(ThreadOf[s])).valid
     /\ VerifyManifest(manifest, TRUE).valid <=> ~ chained

\* "Aborting. Reverting already-applied injections": an apply phase that meets an
\* error, on whichever of its transactions and over whatever database, leaves what
\* it found when no revert fails.
AbortUndoesAll ==
  /\ proc.phase = "idle" /\ last.outcome = "aborted" /\ ~ last.errors
  /\ NoSharedEntry
  => Snapshot = last.before

\* Between the commands and while the evaluator works, backups.json holds the
\* original of everything that is mutated, so that --revert-only can restore it:
\* only an apply phase cut before its last line, or begun on a mutated database,
\* loses an original.
BackupsCover ==
  proc.phase \in {"idle", "paused"} /\ ~ muddled =>
    LET Kept(type, target, original) ==
          /\ file # NoFile
          /\ \E i \in DOMAIN file :
               /\ file[i].type = type /\ file[i].target = target
               /\ file[i].original = original
    IN  /\ \A l \in (Sessions \ Bare) \ links : Kept("chunk_deletion", l, NoScore)
        /\ \A r \in AllRows \ rows : Kept("log_gap", r, NoScore)
        /\ \A s \in Sessions : scores[s] # ScoreOf[s] =>
             Kept("score_perturbation", s, ScoreOf[s])
        /\ \A i \in 1 .. Entries : manifest[i].entry_hash # Prefix(i) =>
             Kept("manifest_tamper", i, Prefix(i))

\* "Verify that all failure injection mutations have been reverted in the DB":
\* verify_reverts passes only over a database that is as before the campaign, and
\* over every such database unless two sessions tampered with one entry.
VerdictIsTrue ==
  proc.phase = "idle" /\ file # NoFile /\ ~ muddled =>
    /\ AllReverted => Snapshot = Original
    /\ NoSharedEntry /\ Snapshot = Original => AllReverted

============================================================================
