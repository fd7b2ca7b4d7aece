-------------------------- MODULE ReviewTaskQueue --------------------------
(***************************************************************************)
(* The review queue of core/crud.py: tasks that nodes, the shadow          *)
(* evaluation and technicians raise about a thread, the experts who claim, *)
(* defer, start and close them, and the review status of the thread.       *)
(*                                                                         *)
(* claim_review_task and resolve_review_task lock the row they read        *)
(* (SELECT ... FOR UPDATE); so do the single UPDATE and INSERT statements. *)
(* The others load a row, set attributes and commit, and other calls run   *)
(* between: two steps here.  SQLAlchemy's UPDATE has only the columns      *)
(* whose new value differs from the one loaded.                            *)
(***************************************************************************)
EXTENDS Naturals

CONSTANTS
  Expert,    \* the callers; each runs one call at a time
  Task,      \* ids of review tasks of one thread
  NoExpert,  \* claimed_by or reviewed_by is None
  MaxTime,   \* bound on the clock and on snooze_until
  MaxEdits   \* bound on the calls that change the thread

ASSUME QueueAssumption == 
  NoExpert \notin Expert /\ MaxTime \in Nat /\ MaxEdits \in Nat

VARIABLES
  task,     \* escalation_flags
  thread,   \* the row of diagnostic_threads
  verdict,  \* review_verdicts, <<task, reviewer>>
  call,     \* the transaction each caller has open
  now,      \* the clock
  edits,    \* how many calls have changed the thread
  \* What the callers know, and what has happened; no code reads these.
  holder,   \* <<t, e>>: e was told it claimed t, and t was not snoozed since
  closer,   \* <<t, e>>: e was told it resolved t, and t is closed since
  asked,    \* <<e, s>>: e has asked for review status s of the thread
  raced,    \* tasks a call was committed to over a change it had not read
  overruled \* so was a reviewer's status of the thread

vars == <<task, thread, verdict, call, now, edits, holder, closer, asked,
          raced, overruled>>

Contract == INSTANCE ReviewContract

----------------------------------------------------------------------------
(***************************************************************************)
(* Data.                                                                   *)
(***************************************************************************)

Null == Contract!Null

Row == Contract!Row

NoRow == Contract!NoRow

ReviewStatus == {"PENDING_REVIEW", "REVIEWED", "BULK_APPROVED"}

ThreadRow ==
  [escalated : BOOLEAN,                   \* is_escalated
   flagged : BOOLEAN,                     \* flagged_for_review
   review : ReviewStatus,                 \* review_status
   reviewer : Expert \cup {NoExpert}]     \* reviewed_by

NewThread ==
  [escalated |-> FALSE, flagged |-> FALSE, review |-> "PENDING_REVIEW",
   reviewer |-> NoExpert]

\* An open transaction: the row it loaded and what it made of it.
Call ==
  [on : {"none"}]
  \cup [on : {"task"}, id : Task, loaded : Row, wanted : Row]
  \cup [on : {"thread"}, asks : SUBSET ReviewStatus,
        loaded : ThreadRow, wanted : ThreadRow]
  \cup [on : {"insert"}, id : Task, loaded : ThreadRow, wanted : ThreadRow]

Idle == [on |-> "none"]

\* The row after a commit: the columns the call changed, the others as they are.
Merge(row, c) ==
  [col \in DOMAIN row |->
    IF c.wanted[col] # c.loaded[col] THEN c.wanted[col] ELSE row[col]]

TypeOK ==
  /\ task \in [Task -> Row]
  /\ thread \in ThreadRow
  /\ verdict \subseteq Task \X Expert
  /\ call \in [Expert -> Call]
  /\ now \in 0 .. MaxTime
  /\ edits \in 0 .. MaxEdits
  /\ holder \subseteq Task \X Expert
  /\ closer \subseteq Task \X Expert
  /\ asked \subseteq Expert \X ReviewStatus
  /\ raced \subseteq Task
  /\ overruled \in BOOLEAN

Init ==
  /\ task = [t \in Task |-> NoRow]
  /\ thread = NewThread
  /\ verdict = {}
  /\ call = [e \in Expert |-> Idle]
  /\ now = 0
  /\ edits = 0
  /\ holder = {} /\ closer = {} /\ asked = {} /\ raced = {}
  /\ overruled = FALSE

Exists(t) == task[t].status # "none"

Open(t) == Exists(t) /\ task[t].status # "RESOLVED"

----------------------------------------------------------------------------
(***************************************************************************)
(* What the functions make of the row they loaded.                         *)
(***************************************************************************)

Claimed(row, e) == [status |-> "CLAIMED", owner |-> e, until |-> Null]

\* Mutant of OwnerOr: whoever works on a task becomes its owner.
LastWorker(row, e) == e

\* claimed_by = claimed_by or expert_id
OwnerOr(row, e) == IF row.owner = NoExpert THEN e ELSE row.owner

\* Mutant of Snoozed: the date is not stored.
SnoozedNoDate(row, u) == [row EXCEPT !.status = "SNOOZED"]

Snoozed(row, u) == [row EXCEPT !.status = "SNOOZED", !.until = u]

InReview(row, e) ==
  [row EXCEPT !.status = "IN_REVIEW", !.owner = OwnerOr(row, e), !.until = Null]

Resolved(row, e) ==
  [row EXCEPT !.status = "RESOLVED", !.owner = OwnerOr(row, e)]

Flagged(row, flag) == [row EXCEPT !.flagged = flag]

Escalated(row) == [row EXCEPT !.escalated = TRUE]

\* Mutant of Reviewed: only the first reviewer is stored.
ReviewedOnce(row, s, e) ==
  [row EXCEPT !.review = s, !.reviewer = IF @ = NoExpert THEN e ELSE @]

Reviewed(row, s, e) == [row EXCEPT !.review = s, !.reviewer = e]

----------------------------------------------------------------------------
(***************************************************************************)
(* Transactions that load a row without a lock.                            *)
(***************************************************************************)

Begin(e, c) ==
  /\ call[e] = Idle
  /\ call' = [call EXCEPT ![e] = c]
  /\ UNCHANGED <<task, thread, verdict, now, holder, closer, asked, raced,
                 overruled>>

BeginOnTask(e, t, wanted) ==
  /\ Begin(e, [on |-> "task", id |-> t, loaded |-> task[t], wanted |-> wanted])
  /\ UNCHANGED edits

BeginOnThread(e, asks, wanted) ==
  /\ edits < MaxEdits
  /\ edits' = edits + 1
  /\ Begin(e, [on |-> "thread", asks |-> asks, loaded |-> thread,
               wanted |-> wanted])

\* snooze_review_task looks neither at the status nor at the owner.
SnoozeReviewTask(e, t, u) ==
  Exists(t) /\ BeginOnTask(e, t, Snoozed(task[t], u))

\* Mutant of MarkInReview: without the check for RESOLVED.
MarkAnyInReview(e, t) == Exists(t) /\ BeginOnTask(e, t, InReview(task[t], e))

\* mark_review_task_in_review returns a RESOLVED task as it is.
MarkInReview(e, t) ==
  Open(t) /\ BeginOnTask(e, t, InReview(task[t], e))

\* create_review_task, and create_escalation_flag, which only escalates.
CreateTask(e, t, flag) ==
  /\ ~Exists(t)
  /\ \A d \in Expert : call[d].on = "insert" => call[d].id # t
  /\ Begin(e, [on |-> "insert", id |-> t, loaded |-> thread,
               wanted |-> Escalated(IF flag THEN Flagged(thread, TRUE) ELSE thread)])
  /\ UNCHANGED edits

SetThreadFlag(e, flag) == BeginOnThread(e, {}, Flagged(thread, flag))

UpdateThreadReviewStatus(e, s) ==
  BeginOnThread(e, {s}, Reviewed(thread, s, e))

Commits(e, on) ==
  /\ call[e].on = on
  /\ call' = [call EXCEPT ![e] = Idle]

\* The commit of a call on a task.
CommitTask(e) ==
  LET c == call[e]
      t == c.id
      row == Merge(task[t], c)
  IN
  /\ Commits(e, "task")
  /\ task' = [task EXCEPT ![t] = row]
  /\ holder' = IF row.status = "SNOOZED" THEN holder \ ({t} \X Expert) ELSE holder
  /\ closer' = IF row.status = "RESOLVED" THEN closer ELSE closer \ ({t} \X Expert)
  /\ raced' = IF task[t] = c.loaded \/ c.wanted = c.loaded THEN raced
              ELSE raced \cup {t}
  /\ UNCHANGED <<thread, verdict, now, edits, asked, overruled>>

SameReview(row, other) == row.review = other.review /\ row.reviewer = other.reviewer

\* The commit of a call on the thread.
CommitThread(e) ==
  LET c == call[e] IN
  /\ Commits(e, "thread")
  /\ thread' = Merge(thread, c)
  /\ asked' = asked \cup ({e} \X c.asks)
  /\ overruled' = \/ overruled
                  \/ c.asks # {} /\ ~SameReview(thread, c.loaded)
  /\ UNCHANGED <<task, verdict, now, edits, holder, closer, raced>>

\* The commit of a new task and of its thread's flags.
CommitInsert(e) ==
  LET c == call[e] IN
  /\ Commits(e, "insert")
  /\ thread' = Merge(thread, c)
  /\ task' = [task EXCEPT ![c.id] = [NoRow EXCEPT !.status = "NEW"]]
  /\ UNCHANGED <<verdict, now, edits, holder, closer, asked, raced, overruled>>

\* The connection drops before the commit; with_db_retry starts the call again.
Drop(e) ==
  /\ call[e] # Idle
  /\ call' = [call EXCEPT ![e] = Idle]
  /\ UNCHANGED <<task, thread, verdict, now, edits, holder, closer, asked, raced,
                 overruled>>

----------------------------------------------------------------------------
(***************************************************************************)
(* Transactions of one step.  When the reply to a commit is lost (~heard), *)
(* with_db_retry runs the function once more: another call here, which may *)
(* well return None.                                                       *)
(***************************************************************************)

ClaimReviewTask(e, t, heard) ==
  /\ call[e] = Idle
  /\ task[t].status \in {"NEW", "SNOOZED"}
  /\ task' = [task EXCEPT ![t] = Claimed(@, e)]
  /\ holder' = IF heard THEN holder \cup {<<t, e>>} ELSE holder
  /\ UNCHANGED <<thread, verdict, call, now, edits, closer, asked, raced,
                 overruled>>

\* create_review_verdict; a second one of the same reviewer breaks the unique
\* index.
CreateReviewVerdict(e, t) ==
  /\ call[e] = Idle
  /\ Exists(t) /\ <<t, e>> \notin verdict
  /\ verdict' = verdict \cup {<<t, e>>}
  /\ UNCHANGED <<task, thread, call, now, edits, holder, closer, asked, raced,
                 overruled>>

\* "after a verdict has been written"
ResolveReviewTask(e, t, heard) ==
  /\ call[e] = Idle
  /\ <<t, e>> \in verdict
  /\ Open(t)
  /\ task' = [task EXCEPT ![t] = Resolved(@, e)]
  /\ closer' = IF heard THEN closer \cup {<<t, e>>} ELSE closer
  /\ UNCHANGED <<thread, verdict, call, now, edits, holder, asked, raced,
                 overruled>>

\* bulk_approve_sessions is one UPDATE of the threads that are still pending.
BulkApproveSessions(e) ==
  /\ call[e] = Idle
  /\ edits < MaxEdits
  /\ edits' = edits + 1
  /\ thread.review = "PENDING_REVIEW"
  /\ thread' = Reviewed(thread, "BULK_APPROVED", e)
  /\ asked' = asked \cup {<<e, "BULK_APPROVED">>}
  /\ UNCHANGED <<task, verdict, call, now, holder, closer, raced, overruled>>

Tick ==
  /\ now < MaxTime
  /\ now' = now + 1
  /\ UNCHANGED <<task, thread, verdict, call, edits, holder, closer, asked, raced,
                 overruled>>

Next ==
  \/ Tick
  \/ \E e \in Expert :
       \/ \E t \in Task :
            \/ \E flag \in BOOLEAN : CreateTask(e, t, flag)
            \/ \E u \in 1 .. MaxTime : SnoozeReviewTask(e, t, u)
            \/ MarkInReview(e, t)
            \/ \E heard \in BOOLEAN : ClaimReviewTask(e, t, heard)
            \/ CreateReviewVerdict(e, t)
            \/ \E heard \in BOOLEAN : ResolveReviewTask(e, t, heard)
       \/ \E flag \in BOOLEAN : SetThreadFlag(e, flag)
       \/ \E s \in ReviewStatus : UpdateThreadReviewStatus(e, s)
       \/ BulkApproveSessions(e)
       \/ CommitTask(e)
       \/ CommitThread(e)
       \/ CommitInsert(e)
       \/ Drop(e)

Spec == Init /\ [][Next]_vars

----------------------------------------------------------------------------
(***************************************************************************)
(* Properties.                                                             *)
(***************************************************************************)

\* The filter of list_review_tasks.
Listed(t) ==
  /\ Exists(t)
  /\ \/ task[t].status # "SNOOZED"
     \/ task[t].until # Null /\ task[t].until <= now

\* However calls interleave, and whichever replies are lost, at most one expert
\* believes to hold a task and at most one to have closed it
\* (claim_review_task, resolve_review_task).
OneWinner ==
  \A t \in Task, a, b \in Expert :
    /\ <<t, a>> \in holder /\ <<t, b>> \in holder => a = b
    /\ <<t, a>> \in closer /\ <<t, b>> \in closer => a = b

\* The expert who was told it claimed a task is the one the row names, unless
\* an unlocked call (mark_review_task_in_review) committed over a change.
HolderIsOwner ==
  \A t \in Task, e \in Expert :
    <<t, e>> \in holder => task[t].owner = e \/ t \in raced

\* Who is told that a task is his can rely on it: nobody else is told so, and the
\* row names him but for a stale commit (claim_review_task).
OneOwner == OneWinner /\ HolderIsOwner

\* Every change of a task is one step of its documented life, unless an unlocked
\* call committed over a change it had not read.
SerialContract ==
  [][\A t \in Task :
       task'[t] = task[t] \/ t \in raced' \/ Contract!Step(t)]_task

\* list_review_tasks hides an open task only until its date comes: one it would
\* hide for ever, snoozed with no date, is left behind by an unlocked commit
\* over a change only.
HiddenOnlyByStaleWrite ==
  \A t \in Task :
    Exists(t) /\ ~Listed(t) => task[t].until > now \/ t \in raced

\* The reviewer a thread names has asked for the status it has, unless an
\* unlocked call committed over a change: it writes the columns it changed, and
\* those of another reviewer's decision remain.
ReviewerAsked ==
  \/ thread.reviewer = NoExpert
  \/ <<thread.reviewer, thread.review>> \in asked
  \/ overruled
=============================================================================
