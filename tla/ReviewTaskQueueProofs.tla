----------------------- MODULE ReviewTaskQueueProofs -----------------------
(***************************************************************************)
(* Theorems about the review queue, for any experts, tasks and dates.      *)
(***************************************************************************)
EXTENDS ReviewTaskQueue, TLAPS

(***************************************************************************)
(* Merged rows.                                                            *)
(***************************************************************************)

\* A merged task row: each column is the call's or the one found.
LEMMA MergedTask ==
  ASSUME NEW row \in Row, NEW c, c.loaded \in Row, c.wanted \in Row
  PROVE  /\ Merge(row, c) \in Row
         /\ Merge(row, c).status \in {row.status, c.wanted.status}
         /\ row = c.loaded => Merge(row, c) = c.wanted
         /\ c.wanted = c.loaded => Merge(row, c) = row
BY DEF Merge, Row, Contract!Row

\* A merged thread row.
LEMMA MergedThread ==
  ASSUME NEW row \in ThreadRow, NEW c, c.loaded \in ThreadRow,
         c.wanted \in ThreadRow
  PROVE  /\ Merge(row, c) \in ThreadRow
         /\ SameReview(c.wanted, c.loaded) => SameReview(Merge(row, c), row)
         /\ SameReview(row, c.loaded) => SameReview(Merge(row, c), c.wanted)
BY DEF Merge, ThreadRow, SameReview

\* What the functions make of a row is a row.
LEMMA Effects ==
  ASSUME NEW row \in Row, NEW e \in Expert
  PROVE  /\ Claimed(row, e) \in Row
         /\ \A u \in 1 .. MaxTime : Snoozed(row, u) \in Row
         /\ InReview(row, e) \in Row
         /\ Resolved(row, e) \in Row
BY QueueAssumption
   DEF Claimed, Snoozed, InReview, Resolved, OwnerOr, Row, Null, Contract!Row,
       Contract!Null, Contract!Statuses

LEMMA ThreadEffects ==
  ASSUME NEW row \in ThreadRow, NEW e \in Expert
  PROVE  /\ \A flag \in BOOLEAN : Flagged(row, flag) \in ThreadRow
         /\ Escalated(row) \in ThreadRow
         /\ \A s \in ReviewStatus : Reviewed(row, s, e) \in ThreadRow
BY DEF Flagged, Escalated, Reviewed, ThreadRow

(***************************************************************************)
(* The types.                                                              *)
(***************************************************************************)

\* The rows of an open call are rows of the table it is on.
LEMMA CallTypes ==
  ASSUME TypeOK, NEW e \in Expert
  PROVE  /\ call[e].on = "task" =>
              /\ call[e].id \in Task
              /\ call[e].loaded \in Row
              /\ call[e].wanted \in Row
         /\ call[e].on \in {"thread", "insert"} =>
              /\ call[e].loaded \in ThreadRow
              /\ call[e].wanted \in ThreadRow
         /\ call[e].on = "thread" => call[e].asks \subseteq ReviewStatus
         /\ call[e].on = "insert" => call[e].id \in Task
BY DEF TypeOK, Call

LEMMA TypeInit == Init => TypeOK
<1>1. NoRow \in Row
  BY DEF NoRow, Row, Contract!NoRow, Contract!Row, Contract!Null
<1>2. NewThread \in ThreadRow
  BY DEF NewThread, ThreadRow, ReviewStatus
<1>3. Idle \in Call
  BY DEF Idle, Call
<1>4. 0 \in 0 .. MaxTime /\ 0 \in 0 .. MaxEdits
  BY QueueAssumption
<1> QED
  BY <1>1, <1>2, <1>3, <1>4 DEF Init, TypeOK

LEMMA BeginTypes ==
  ASSUME TypeOK, NEW e \in Expert, NEW c \in Call, Begin(e, c),
         edits' \in 0 .. MaxEdits
  PROVE  TypeOK'
BY DEF TypeOK, Begin

LEMMA TypeStep == TypeOK /\ [Next]_vars => TypeOK'
<1> SUFFICES ASSUME TypeOK, [Next]_vars
             PROVE  TypeOK'
  OBVIOUS
<1> USE QueueAssumption
<1>1. CASE UNCHANGED vars
  BY <1>1 DEF vars, TypeOK
<1>2. CASE Tick
  BY <1>2 DEF Tick, TypeOK
<1>3. ASSUME NEW e \in Expert, NEW t \in Task, NEW flag \in BOOLEAN,
             CreateTask(e, t, flag)
      PROVE  TypeOK'
  <2>1. thread \in ThreadRow
    BY DEF TypeOK
  <2>2. Escalated(IF flag THEN Flagged(thread, TRUE) ELSE thread) \in ThreadRow
    BY <2>1, ThreadEffects
  <2> QED
    BY <1>3, <2>1, <2>2, BeginTypes DEF CreateTask, Call, TypeOK
<1>4. ASSUME NEW e \in Expert, NEW t \in Task, NEW wanted \in Row,
             BeginOnTask(e, t, wanted)
      PROVE  TypeOK'
  BY <1>4, BeginTypes DEF BeginOnTask, Call, TypeOK
<1>5. ASSUME NEW e \in Expert, NEW t \in Task, NEW u \in 1 .. MaxTime,
             SnoozeReviewTask(e, t, u)
      PROVE  TypeOK'
  BY <1>4, <1>5, Effects DEF SnoozeReviewTask, TypeOK
<1>6. ASSUME NEW e \in Expert, NEW t \in Task, MarkInReview(e, t)
      PROVE  TypeOK'
  BY <1>4, <1>6, Effects DEF MarkInReview, TypeOK
<1>7. ASSUME NEW e \in Expert, NEW asks \in SUBSET ReviewStatus,
             NEW wanted \in ThreadRow, BeginOnThread(e, asks, wanted)
      PROVE  TypeOK'
  <2>1. [on |-> "thread", asks |-> asks, loaded |-> thread, wanted |-> wanted]
          \in Call
    BY DEF Call, TypeOK
  <2>2. edits' \in 0 .. MaxEdits
    BY <1>7 DEF BeginOnThread, TypeOK
  <2> QED
    BY <1>7, <2>1, <2>2, BeginTypes DEF BeginOnThread
<1>8. ASSUME NEW e \in Expert, NEW flag \in BOOLEAN, SetThreadFlag(e, flag)
      PROVE  TypeOK'
  BY <1>7, <1>8, ThreadEffects DEF SetThreadFlag, TypeOK
<1>9. ASSUME NEW e \in Expert, NEW s \in ReviewStatus,
             UpdateThreadReviewStatus(e, s)
      PROVE  TypeOK'
  BY <1>7, <1>9, ThreadEffects DEF UpdateThreadReviewStatus, TypeOK
<1>10. ASSUME NEW e \in Expert, NEW t \in Task, NEW heard \in BOOLEAN,
              ClaimReviewTask(e, t, heard) \/ ResolveReviewTask(e, t, heard)
       PROVE  TypeOK'
  <2>1. task[t] \in Row
    BY DEF TypeOK
  <2>2. Claimed(task[t], e) \in Row /\ Resolved(task[t], e) \in Row
    BY <2>1, Effects
  <2>3. /\ task' \in [Task -> Row]
        /\ UNCHANGED <<thread, verdict, call, now, edits, asked, raced, overruled>>
    BY <1>10, <2>2 DEF ClaimReviewTask, ResolveReviewTask, TypeOK
  <2>4. holder' \subseteq Task \X Expert /\ closer' \subseteq Task \X Expert
    BY <1>10 DEF ClaimReviewTask, ResolveReviewTask, TypeOK
  <2> QED
    BY <2>3, <2>4 DEF TypeOK
<1>11. ASSUME NEW e \in Expert, NEW t \in Task, CreateReviewVerdict(e, t)
       PROVE  TypeOK'
  BY <1>11 DEF CreateReviewVerdict, TypeOK
<1>12. ASSUME NEW e \in Expert, BulkApproveSessions(e)
       PROVE  TypeOK'
  <2>1. "BULK_APPROVED" \in ReviewStatus
    BY DEF ReviewStatus
  <2>2. Reviewed(thread, "BULK_APPROVED", e) \in ThreadRow
    BY <2>1, ThreadEffects DEF TypeOK
  <2>3. edits' \in 0 .. MaxEdits
    BY <1>12 DEF BulkApproveSessions, TypeOK
  <2> QED
    BY <1>12, <2>1, <2>2, <2>3 DEF BulkApproveSessions, TypeOK
<1>13. ASSUME NEW e \in Expert, CommitTask(e)
       PROVE  TypeOK'
  <2>1. call[e].id \in Task /\ call[e].loaded \in Row /\ call[e].wanted \in Row
    BY <1>13, CallTypes DEF CommitTask, Commits
  <2>2. Merge(task[call[e].id], call[e]) \in Row
    BY <2>1, MergedTask DEF TypeOK
  <2> QED
    BY <1>13, <2>1, <2>2 DEF CommitTask, Commits, Idle, Call, TypeOK
<1>14. ASSUME NEW e \in Expert, CommitThread(e)
       PROVE  TypeOK'
  <2>1. /\ call[e].loaded \in ThreadRow
        /\ call[e].wanted \in ThreadRow
        /\ call[e].asks \subseteq ReviewStatus
    BY <1>14, CallTypes DEF CommitThread, Commits
  <2>2. Merge(thread, call[e]) \in ThreadRow
    BY <2>1, MergedThread DEF TypeOK
  <2> QED
    BY <1>14, <2>1, <2>2 DEF CommitThread, Commits, Idle, Call, TypeOK
<1>15. ASSUME NEW e \in Expert, CommitInsert(e)
       PROVE  TypeOK'
  <2>1. /\ call[e].id \in Task
        /\ call[e].loaded \in ThreadRow
        /\ call[e].wanted \in ThreadRow
    BY <1>15, CallTypes DEF CommitInsert, Commits
  <2>2. Merge(thread, call[e]) \in ThreadRow
    BY <2>1, MergedThread DEF TypeOK
  <2>3. [NoRow EXCEPT !.status = "NEW"] \in Row
    BY DEF NoRow, Row, Contract!NoRow, Contract!Row, Contract!Statuses,
           Contract!Null
  <2> QED
    BY <1>15, <2>1, <2>2, <2>3 DEF CommitInsert, Commits, Idle, Call, TypeOK
<1>16. ASSUME NEW e \in Expert, Drop(e)
       PROVE  TypeOK'
  BY <1>16 DEF Drop, Idle, Call, TypeOK
<1> QED
  BY <1>1, <1>2, <1>3, <1>5, <1>6, <1>8, <1>9, <1>10, <1>11, <1>12, <1>13,
     <1>14, <1>15, <1>16
     DEF Next

\* Rows, calls and what the callers know keep their types.
THEOREM TypeCorrect == Spec => []TypeOK
BY TypeInit, TypeStep, PTL DEF Spec

(***************************************************************************)
(* What an open call is about to write.                                    *)
(***************************************************************************)

\* A call on a task defers it, or starts one that it found open.
TaskCall(c) ==
  /\ Exists(c.id)
  /\ c.loaded.status # "none"
  /\ \/ \E u \in 1 .. MaxTime : c.wanted = Snoozed(c.loaded, u)
     \/ c.loaded.status # "RESOLVED" /\ \E e \in Expert : c.wanted = InReview(c.loaded, e)

\* A call on the thread stores what it asks for and the expert who asks, or
\* touches neither.
ThreadCall(e, c) ==
  \/ c.asks = {} /\ SameReview(c.wanted, c.loaded)
  \/ c.asks = {c.wanted.review} /\ c.wanted.reviewer = e

\* An insert has the id to itself.
InsertCall(e, c) ==
  /\ ~Exists(c.id)
  /\ SameReview(c.wanted, c.loaded)
  /\ \A d \in Expert : call[d].on = "insert" /\ call[d].id = c.id => d = e

CallsKnown ==
  \A e \in Expert :
    /\ call[e].on = "task" => TaskCall(call[e])
    /\ call[e].on = "thread" => ThreadCall(e, call[e])
    /\ call[e].on = "insert" => InsertCall(e, call[e])

\* A task that exists goes on existing.
LEMMA TasksStay ==
  ASSUME TypeOK, CallsKnown, [Next]_vars, NEW t \in Task, Exists(t)
  PROVE  Exists(t)'
<1>1. ASSUME NEW e \in Expert, CommitTask(e)
      PROVE  Exists(t)'
  <2>1. call[e].id \in Task /\ call[e].loaded \in Row /\ call[e].wanted \in Row
    BY <1>1, CallTypes DEF CommitTask, Commits
  <2>2. TaskCall(call[e])
    BY <1>1 DEF CallsKnown, CommitTask, Commits
  <2>3. call[e].wanted.status # "none"
    BY <2>1, <2>2 DEF TaskCall, Snoozed, InReview, Row, Contract!Row
  <2>4. Merge(task[call[e].id], call[e]).status
          \in {task[call[e].id].status, call[e].wanted.status}
    BY <2>1, MergedTask DEF TypeOK
  <2> QED
    BY <1>1, <2>1, <2>3, <2>4 DEF CommitTask, Exists, TypeOK
<1>2. ASSUME NEW e \in Expert, CommitInsert(e)
      PROVE  Exists(t)'
  BY <1>2, CallTypes DEF CommitInsert, Exists, TypeOK, NoRow, Contract!NoRow, Commits
<1>3. ASSUME NEW e \in Expert, NEW s \in Task, NEW heard \in BOOLEAN,
             ClaimReviewTask(e, s, heard) \/ ResolveReviewTask(e, s, heard)
      PROVE  Exists(t)'
  <2>1. task[s] \in Row
    BY DEF TypeOK
  <2>2. Claimed(task[s], e).status # "none" /\ Resolved(task[s], e).status # "none"
    BY <2>1 DEF Claimed, Resolved, Row, Contract!Row
  <2> QED
    BY <1>3, <2>2 DEF ClaimReviewTask, ResolveReviewTask, Exists, TypeOK
<1>4. CASE UNCHANGED task
  BY <1>4 DEF Exists
<1> QED
  BY <1>1, <1>2, <1>3, <1>4
     DEF Next, vars, Tick, CreateTask, SnoozeReviewTask, MarkInReview,
         CreateReviewVerdict, SetThreadFlag, UpdateThreadReviewStatus,
         BeginOnTask, BeginOnThread, Begin, BulkApproveSessions, CommitThread, Drop

\* A call that begins knows the rows it read, and no other call is disturbed.
LEMMA CallsBegin ==
  ASSUME CallsKnown, NEW e \in Expert, NEW c, Begin(e, c),
         c.on = "task" => TaskCall(c),
         c.on = "thread" => ThreadCall(e, c),
         c.on = "insert" =>
           /\ ~Exists(c.id)
           /\ SameReview(c.wanted, c.loaded)
           /\ \A d \in Expert : call[d].on = "insert" => call[d].id # c.id,
         TypeOK
  PROVE  CallsKnown'
<1>1. task' = task /\ call' = [call EXCEPT ![e] = c] /\ call[e] = Idle
  BY DEF Begin
<1>2. \A d \in Expert : call'[d] = IF d = e THEN c ELSE call[d]
  BY <1>1 DEF TypeOK
<1> QED
  BY <1>1, <1>2 DEF CallsKnown, TaskCall, ThreadCall, InsertCall, Exists, SameReview,
                    Idle

\* The calls that go on know what they knew.
LEMMA CallsEnd ==
  ASSUME TypeOK, CallsKnown, [Next]_vars,
         \A e \in Expert : call'[e] \in {call[e], Idle},
         \A e \in Expert : (call[e].on = "insert" => ~Exists(call[e].id))'
  PROVE  CallsKnown'
<1> SUFFICES ASSUME NEW e \in Expert
             PROVE  /\ call'[e].on = "task" => TaskCall(call[e])'
                    /\ call'[e].on = "thread" => ThreadCall(e, call[e])'
                    /\ call'[e].on = "insert" => InsertCall(e, call[e])'
  BY DEF CallsKnown
<1>1. CASE call'[e] = Idle
  BY <1>1 DEF Idle
<1>2. CASE call'[e] = call[e]
  <2>1. ASSUME call[e].on = "task"
        PROVE  TaskCall(call[e])'
    <3>1. TaskCall(call[e])
      BY <2>1 DEF CallsKnown
    <3>2. call[e].id \in Task
      BY <2>1, CallTypes
    <3>3. Exists(call[e].id)'
      BY <1>2, <3>1, <3>2, TasksStay DEF TaskCall, Exists
    <3> QED
      BY <1>2, <3>1, <3>3 DEF TaskCall
  <2>2. ASSUME call[e].on = "thread"
        PROVE  ThreadCall(e, call[e])'
    BY <1>2, <2>2 DEF CallsKnown, ThreadCall
  <2>3. ASSUME call[e].on = "insert"
        PROVE  InsertCall(e, call[e])'
    <3>1. InsertCall(e, call[e])
      BY <2>3 DEF CallsKnown
    <3>2. \A d \in Expert : call'[d].on = "insert" => call'[d] = call[d]
      BY DEF Idle
    <3>3. ~Exists(call[e].id)'
      BY <1>2, <2>3
    <3> QED
      BY <1>2, <2>3, <3>1, <3>2, <3>3 DEF InsertCall
  <2> QED
    BY <1>2, <2>1, <2>2, <2>3
<1> QED
  BY <1>1, <1>2

LEMMA CallsStep == TypeOK /\ CallsKnown /\ [Next]_vars => CallsKnown'
<1> SUFFICES ASSUME TypeOK, CallsKnown, [Next]_vars
             PROVE  CallsKnown'
  OBVIOUS
<1>1. ASSUME NEW e \in Expert, NEW t \in Task, NEW flag \in BOOLEAN,
             CreateTask(e, t, flag)
      PROVE  CallsKnown'
  <2> DEFINE wanted == Escalated(IF flag THEN Flagged(thread, TRUE) ELSE thread)
             c == [on |-> "insert", id |-> t, loaded |-> thread, wanted |-> wanted]
  <2>1. SameReview(wanted, thread)
    BY DEF SameReview, Escalated, Flagged, TypeOK, ThreadRow
  <2>2. Begin(e, c) /\ ~Exists(t)
    BY <1>1 DEF CreateTask
  <2>3. \A d \in Expert : call[d].on = "insert" => call[d].id # t
    BY <1>1 DEF CreateTask
  <2> QED
    BY <2>1, <2>2, <2>3, CallsBegin
<1>2. ASSUME NEW e \in Expert, NEW t \in Task, NEW wanted \in Row,
             BeginOnTask(e, t, wanted), Exists(t),
             \/ \E u \in 1 .. MaxTime : wanted = Snoozed(task[t], u)
             \/ Open(t) /\ wanted = InReview(task[t], e)
      PROVE  CallsKnown'
  <2> DEFINE c == [on |-> "task", id |-> t, loaded |-> task[t], wanted |-> wanted]
  <2>1. TaskCall(c)
    BY <1>2 DEF TaskCall, Exists, Open
  <2> QED
    BY <1>2, <2>1, CallsBegin DEF BeginOnTask
<1>3. ASSUME NEW e \in Expert, NEW t \in Task, NEW u \in 1 .. MaxTime,
             SnoozeReviewTask(e, t, u)
      PROVE  CallsKnown'
  BY <1>2, <1>3, Effects DEF SnoozeReviewTask, TypeOK
<1>4. ASSUME NEW e \in Expert, NEW t \in Task, MarkInReview(e, t)
      PROVE  CallsKnown'
  BY <1>2, <1>4, Effects DEF MarkInReview, TypeOK, Open
<1>5. ASSUME NEW e \in Expert, NEW asks \in SUBSET ReviewStatus, NEW wanted,
             BeginOnThread(e, asks, wanted),
             \/ asks = {} /\ SameReview(wanted, thread)
             \/ asks = {wanted.review} /\ wanted.reviewer = e
      PROVE  CallsKnown'
  <2> DEFINE c == [on |-> "thread", asks |-> asks, loaded |-> thread,
                   wanted |-> wanted]
  <2>1. ThreadCall(e, c)
    BY <1>5 DEF ThreadCall
  <2> QED
    BY <1>5, <2>1, CallsBegin DEF BeginOnThread
<1>6. ASSUME NEW e \in Expert, NEW flag \in BOOLEAN, SetThreadFlag(e, flag)
      PROVE  CallsKnown'
  <2>1. SameReview(Flagged(thread, flag), thread)
    BY DEF SameReview, Flagged, TypeOK, ThreadRow
  <2> QED
    BY <1>5, <1>6, <2>1 DEF SetThreadFlag
<1>7. ASSUME NEW e \in Expert, NEW s \in ReviewStatus,
             UpdateThreadReviewStatus(e, s)
      PROVE  CallsKnown'
  <2>1. /\ Reviewed(thread, s, e).review = s
        /\ Reviewed(thread, s, e).reviewer = e
    BY DEF Reviewed, TypeOK, ThreadRow
  <2> QED
    BY <1>5, <1>7, <2>1 DEF UpdateThreadReviewStatus
<1>8. ASSUME NEW e \in Expert, CommitInsert(e)
      PROVE  CallsKnown'
  <2>1. \A d \in Expert : call'[d] = IF d = e THEN Idle ELSE call[d]
    BY <1>8 DEF CommitInsert, Commits, TypeOK
  <2>2. call[e].on = "insert" /\ call[e].id \in Task
    BY <1>8, CallTypes DEF CommitInsert, Commits
  <2>3. \A d \in Expert : (call[d].on = "insert" => ~Exists(call[d].id))'
    BY <1>8, <2>1, <2>2, CallTypes
       DEF CallsKnown, InsertCall, CommitInsert, Exists, Idle, TypeOK
  <2> QED
    BY <2>1, <2>3, CallsEnd
<1>9. ASSUME \A e \in Expert : call'[e] \in {call[e], Idle},
             \A t \in Task : ~Exists(t) => task'[t] = task[t]
      PROVE  CallsKnown'
  <2>1. \A e \in Expert : (call[e].on = "insert" => ~Exists(call[e].id))'
    BY <1>9, CallTypes DEF CallsKnown, InsertCall, Exists, Idle
  <2> QED
    BY <1>9, <2>1, CallsEnd
<1>10. ASSUME NEW e \in Expert, CommitTask(e)
       PROVE  CallsKnown'
  <2>1. call[e].id \in Task /\ Exists(call[e].id)
    BY <1>10, CallTypes DEF CommitTask, Commits, CallsKnown, TaskCall
  <2> QED
    BY <1>9, <1>10, <2>1 DEF CommitTask, Commits, TypeOK
<1>11. ASSUME NEW e \in Expert, NEW t \in Task, NEW heard \in BOOLEAN,
              ClaimReviewTask(e, t, heard) \/ ResolveReviewTask(e, t, heard)
       PROVE  CallsKnown'
  <2>1. Exists(t)
    BY <1>11 DEF ClaimReviewTask, ResolveReviewTask, Open, Exists
  <2> QED
    BY <1>9, <1>11, <2>1 DEF ClaimReviewTask, ResolveReviewTask, TypeOK
<1>12. ASSUME NEW e \in Expert, CommitThread(e) \/ Drop(e)
       PROVE  CallsKnown'
  BY <1>9, <1>12 DEF CommitThread, Commits, Drop, TypeOK
<1>13. CASE UNCHANGED <<task, call>>
  BY <1>9, <1>13
<1> QED
  BY <1>1, <1>3, <1>4, <1>6, <1>7, <1>8, <1>10, <1>11, <1>12, <1>13
     DEF Next, vars, Tick, CreateReviewVerdict, BulkApproveSessions
----------------------------------------------------------------------------
(***************************************************************************)
(* The tasks.                                                              *)
(***************************************************************************)

\* Nobody holds a task that waits.
HolderWorks ==
  \A t \in Task, e \in Expert :
    <<t, e>> \in holder => task[t].status \notin {"none", "NEW", "SNOOZED"}

\* Nobody has closed a task that is not.
CloserClosed ==
  \A t \in Task, e \in Expert : <<t, e>> \in closer => task[t].status = "RESOLVED"

SnoozedDated ==
  \A t \in Task : task[t].status = "SNOOZED" => task[t].until # Null \/ t \in raced

TaskInv ==
  HolderWorks /\ CloserClosed /\ OneWinner /\ HolderIsOwner /\ SnoozedDated

\* An unlocked commit.
LEMMA CommitTaskKeeps ==
  ASSUME TypeOK, CallsKnown, TaskInv, NEW e \in Expert, CommitTask(e)
  PROVE  TaskInv'
<1> DEFINE c == call[e]
           t == c.id
           row == Merge(task[t], c)
<1>1. t \in Task /\ c.loaded \in Row /\ c.wanted \in Row /\ task[t] \in Row
  BY CallTypes DEF CommitTask, Commits, TypeOK
<1>2. TaskCall(c)
  BY DEF CommitTask, Commits, CallsKnown
<1>3. /\ row \in Row
      /\ row.status \in {task[t].status, c.wanted.status}
      /\ task[t] = c.loaded => row = c.wanted
      /\ c.wanted = c.loaded => row = task[t]
  BY <1>1, MergedTask
<1>4. c.wanted.status \in {"SNOOZED", "IN_REVIEW"}
  BY <1>1, <1>2 DEF TaskCall, Snoozed, InReview, Row, Contract!Row
<1>5. \A s \in Task : task'[s] = IF s = t THEN row ELSE task[s]
  BY <1>1 DEF CommitTask, TypeOK
<1>6. /\ holder' = IF row.status = "SNOOZED" THEN holder \ ({t} \X Expert) ELSE holder
      /\ closer' = IF row.status = "RESOLVED" THEN closer ELSE closer \ ({t} \X Expert)
  BY DEF CommitTask
<1>7. HolderWorks'
  BY <1>3, <1>4, <1>5, <1>6 DEF TaskInv, HolderWorks
<1>8. CloserClosed'
  BY <1>5, <1>6 DEF TaskInv, CloserClosed
<1>9. OneWinner'
  <2>1. holder' \subseteq holder /\ closer' \subseteq closer
    BY <1>6
  <2> QED
    BY <2>1 DEF TaskInv, OneWinner
<1>10. \/ t \in raced'
       \/ row = task[t]
       \/ row = c.wanted /\ c.loaded = task[t]
  BY <1>3 DEF CommitTask
<1>11. raced \subseteq raced'
  BY DEF CommitTask
<1>12. HolderIsOwner'
  <2>1. CASE row = c.wanted /\ c.loaded = task[t] /\ row.status # "SNOOZED"
    <3>1. \E x \in Expert : row = InReview(task[t], x)
      BY <1>1, <1>2, <2>1 DEF TaskCall, Snoozed, Row, Contract!Row
    <3>2. task[t].owner \in Expert => row.owner = task[t].owner
      BY <1>1, <3>1, QueueAssumption DEF InReview, OwnerOr, Row, Contract!Row
    <3> QED
      BY <1>5, <1>6, <1>11, <3>2 DEF TaskInv, HolderIsOwner
  <2> QED
    BY <1>5, <1>6, <1>10, <1>11, <2>1 DEF TaskInv, HolderIsOwner
<1>13. SnoozedDated'
  <2>1. CASE row = c.wanted /\ c.loaded = task[t] /\ row.status = "SNOOZED"
    <3>1. \E u \in 1 .. MaxTime : row = Snoozed(task[t], u)
      BY <1>1, <1>2, <2>1 DEF TaskCall, InReview, Row, Contract!Row
    <3>2. row.until # Null
      BY <1>1, <3>1 DEF Snoozed, Row, Null, Contract!Row, Contract!Null
    <3> QED
      BY <1>5, <1>11, <3>2 DEF TaskInv, SnoozedDated, Null, Contract!Null
  <2> QED
    BY <1>5, <1>10, <1>11, <2>1 DEF TaskInv, SnoozedDated, Null, Contract!Null
<1> QED
  BY <1>7, <1>8, <1>9, <1>12, <1>13 DEF TaskInv

LEMMA TaskStep == TypeOK /\ CallsKnown /\ TaskInv /\ [Next]_vars => TaskInv'
<1> SUFFICES ASSUME TypeOK, CallsKnown, TaskInv, [Next]_vars
             PROVE  TaskInv'
  OBVIOUS
<1> USE DEF TaskInv, HolderWorks, CloserClosed, OneWinner, HolderIsOwner, SnoozedDated,
            Null, Contract!Null
<1>1. ASSUME NEW e \in Expert, CommitTask(e)
      PROVE  TaskInv'
  BY <1>1, CommitTaskKeeps
<1>2. ASSUME NEW e \in Expert, CommitInsert(e)
      PROVE  TaskInv'
  <2>1. call[e].id \in Task /\ task[call[e].id].status = "none"
    BY <1>2, CallTypes DEF CommitInsert, Commits, CallsKnown, InsertCall, Exists
  <2>2. [NoRow EXCEPT !.status = "NEW"].status = "NEW"
    BY DEF NoRow, Contract!NoRow
  <2> QED
    BY <1>2, <2>1, <2>2 DEF CommitInsert, TypeOK
<1>3. ASSUME NEW e \in Expert, NEW t \in Task, NEW heard \in BOOLEAN,
             ClaimReviewTask(e, t, heard)
      PROVE  TaskInv'
  <2>1. task'[t].status = "CLAIMED" /\ task'[t].owner = e
    BY <1>3 DEF ClaimReviewTask, Claimed, TypeOK
  <2>2. \A s \in Task \ {t} : task'[s] = task[s]
    BY <1>3 DEF ClaimReviewTask, TypeOK
  <2>3. \A d \in Expert : <<t, d>> \notin holder /\ <<t, d>> \notin closer
    BY <1>3 DEF ClaimReviewTask
  <2>4. holder' \subseteq holder \cup {<<t, e>>} /\ UNCHANGED <<closer, raced>>
    BY <1>3 DEF ClaimReviewTask
  <2> QED
    BY <2>1, <2>2, <2>3, <2>4
<1>4. ASSUME NEW e \in Expert, NEW t \in Task, NEW heard \in BOOLEAN,
             ResolveReviewTask(e, t, heard)
      PROVE  TaskInv'
  <2>1. task[t] \in Row
    BY DEF TypeOK
  <2>2. /\ task'[t].status = "RESOLVED"
        /\ task[t].owner \in Expert => task'[t].owner = task[t].owner
    BY <1>4, <2>1, QueueAssumption
       DEF ResolveReviewTask, Resolved, OwnerOr, TypeOK, Row, Contract!Row
  <2>3. \A s \in Task \ {t} : task'[s] = task[s]
    BY <1>4 DEF ResolveReviewTask, TypeOK
  <2>4. \A d \in Expert : <<t, d>> \notin closer
    BY <1>4 DEF ResolveReviewTask, Open
  <2>5. closer' \subseteq closer \cup {<<t, e>>} /\ UNCHANGED <<holder, raced>>
    BY <1>4 DEF ResolveReviewTask
  <2>6. HolderWorks' /\ CloserClosed' /\ SnoozedDated'
    BY <1>4, <2>2, <2>3, <2>5 DEF ResolveReviewTask, Open, Exists
  <2>7. OneWinner' /\ HolderIsOwner'
    BY <2>2, <2>3, <2>4, <2>5
  <2> QED
    BY <2>6, <2>7
<1>5. CASE UNCHANGED <<task, holder, closer, raced>>
  BY <1>5
<1> QED
  BY <1>1, <1>2, <1>3, <1>4, <1>5
     DEF Next, vars, Tick, CreateTask, SnoozeReviewTask, MarkInReview,
         CreateReviewVerdict, SetThreadFlag, UpdateThreadReviewStatus,
         BeginOnTask, BeginOnThread, Begin, BulkApproveSessions, CommitThread, Drop

\* The state of a reachable queue.
QueueInv == TypeOK /\ CallsKnown /\ TaskInv

LEMMA Reachable == Spec => []QueueInv
<1>1. Init => QueueInv
  <2>1. Init => CallsKnown
    <3>1. Init => \A e \in Expert : call[e] = Idle
      BY DEF Init
    <3>2. Idle.on = "none"
      BY DEF Idle
    <3> QED
      BY <3>1, <3>2 DEF CallsKnown
  <2>2. Init => TaskInv
    BY DEF Init, TaskInv, HolderWorks, CloserClosed, OneWinner, HolderIsOwner,
           SnoozedDated, NoRow, Contract!NoRow
  <2> QED
    BY <2>1, <2>2, TypeInit DEF QueueInv
<1>2. QueueInv /\ [Next]_vars => QueueInv'
  BY TypeStep, CallsStep, TaskStep DEF QueueInv
<1> QED
  BY <1>1, <1>2, PTL DEF Spec

\* At most one expert believes to hold a task, at most one to have closed it.
THEOREM AtMostOneWinner == Spec => []OneWinner
BY Reachable, PTL DEF QueueInv, TaskInv

\* The expert who claimed a task is its owner, but for a stale commit.
THEOREM ClaimIsRecorded == Spec => []HolderIsOwner
BY Reachable, PTL DEF QueueInv, TaskInv

\* Both: who is told that a task is his can rely on it, but for a stale commit.
THEOREM OwnerIsSure == Spec => []OneOwner
<1>1. OneWinner /\ HolderIsOwner => OneOwner
  BY DEF OneOwner
<1> QED
  BY <1>1, AtMostOneWinner, ClaimIsRecorded, PTL

\* The list hides an open task only until its date, but for a stale commit.
THEOREM HiddenTasksReturn == Spec => []HiddenOnlyByStaleWrite
<1>1. QueueInv => HiddenOnlyByStaleWrite
  BY DEF QueueInv, TaskInv, SnoozedDated, HiddenOnlyByStaleWrite, Listed, Exists,
         TypeOK, Row, Null, Contract!Row, Contract!Null
<1> QED
  BY <1>1, Reachable, PTL

\* Every change of a task is a step of its documented life, but for a stale commit.
THEOREM LifeOfATask == Spec => SerialContract
<1>1. ASSUME QueueInv, [Next]_vars, task' # task
      PROVE  \A t \in Task :
               task'[t] = task[t] \/ t \in raced' \/ Contract!Step(t)
  <2> SUFFICES ASSUME NEW t \in Task, task'[t] # task[t], t \notin raced'
               PROVE  Contract!Step(t)
    OBVIOUS
  <2> USE DEF Contract!Step, Contract!Becomes, Row, Contract!Row, Null, Contract!Null
  <2>1. TypeOK /\ task[t] \in Row
    BY <1>1 DEF QueueInv, TypeOK
  <2>2. ASSUME NEW e \in Expert, CommitTask(e)
        PROVE  Contract!Step(t)
    <3> DEFINE c == call[e]
    <3>1. c.id = t /\ c.loaded \in Row /\ c.wanted \in Row
      BY <2>1, <2>2, CallTypes DEF CommitTask, Commits, TypeOK
    <3>2. TaskCall(c)
      BY <1>1, <2>2 DEF CommitTask, Commits, QueueInv, CallsKnown
    <3>3. task' = [task EXCEPT ![t] = Merge(task[t], c)]
      BY <2>2, <3>1 DEF CommitTask
    <3>4. task[t] = c.loaded /\ Merge(task[t], c) = c.wanted
      BY <2>1, <2>2, <3>1, <3>3, MergedTask DEF CommitTask, TypeOK
    <3>5. task[t].status \in Contract!Statuses
      BY <2>1, <3>1, <3>2 DEF TaskCall, Exists
    <3>6. CASE \E u \in 1 .. MaxTime : c.wanted = Snoozed(c.loaded, u)
      <4>1. PICK u \in 1 .. MaxTime : c.wanted = Snoozed(c.loaded, u)
        BY <3>6
      <4>2. c.wanted = [status |-> "SNOOZED", owner |-> task[t].owner, until |-> u]
        BY <2>1, <3>4, <4>1 DEF Snoozed
      <4> QED
        BY <3>3, <3>4, <3>5, <4>2 DEF Contract!Snooze
    <3>7. CASE /\ c.loaded.status # "RESOLVED"
               /\ \E x \in Expert : c.wanted = InReview(c.loaded, x)
      <4>1. PICK x \in Expert : c.wanted = InReview(c.loaded, x)
        BY <3>7
      <4>2. PICK d \in Expert : d = OwnerOr(task[t], x)
        BY <2>1 DEF OwnerOr
      <4>3. c.wanted = [status |-> "IN_REVIEW", owner |-> d, until |-> Null]
        BY <2>1, <3>4, <4>1, <4>2 DEF InReview
      <4>4. Contract!OwnedBy(t, d)
        BY <4>2 DEF OwnerOr, Contract!OwnedBy
      <4> QED
        BY <3>3, <3>4, <3>5, <3>7, <4>3, <4>4 DEF Contract!Start
    <3> QED
      BY <3>2, <3>6, <3>7 DEF TaskCall
  <2>3. ASSUME NEW e \in Expert, CommitInsert(e)
        PROVE  Contract!Step(t)
    <3>1. call[e].id = t /\ task[t].status = "none"
      BY <1>1, <2>1, <2>3, CallTypes
         DEF CommitInsert, Commits, QueueInv, CallsKnown, InsertCall, Exists, TypeOK
    <3>2. [NoRow EXCEPT !.status = "NEW"]
            = [status |-> "NEW", owner |-> NoExpert, until |-> Null]
      BY DEF NoRow, Contract!NoRow
    <3> QED
      BY <2>3, <3>1, <3>2 DEF CommitInsert, Contract!Create
  <2>4. ASSUME NEW e \in Expert, NEW s \in Task, NEW heard \in BOOLEAN,
               ClaimReviewTask(e, s, heard)
        PROVE  Contract!Step(t)
    <3>1. s = t
      BY <2>1, <2>4 DEF ClaimReviewTask, TypeOK
    <3> QED
      BY <2>4, <3>1 DEF ClaimReviewTask, Claimed, Contract!Claim
  <2>5. ASSUME NEW e \in Expert, NEW s \in Task, NEW heard \in BOOLEAN,
               ResolveReviewTask(e, s, heard)
        PROVE  Contract!Step(t)
    <3>1. s = t
      BY <2>1, <2>5 DEF ResolveReviewTask, TypeOK
    <3>2. PICK d \in Expert : d = OwnerOr(task[t], e)
      BY <2>1 DEF OwnerOr
    <3>3. Resolved(task[t], e)
            = [status |-> "RESOLVED", owner |-> d, until |-> task[t].until]
      <4> DEFINE row == Resolved(task[t], e)
      <4>1. row \in Row
        BY <2>1, Effects
      <4>2. row = [status |-> row.status, owner |-> row.owner, until |-> row.until]
        BY <4>1
      <4>3. row.status = "RESOLVED" /\ row.owner = d /\ row.until = task[t].until
        BY <2>1, <3>2 DEF Resolved
      <4> QED
        BY <4>2, <4>3
    <3>4. Contract!OwnedBy(t, d)
      BY <3>2 DEF OwnerOr, Contract!OwnedBy
    <3>5. task[t].status \in Contract!Statuses \ {"RESOLVED"}
      BY <2>1, <2>5, <3>1 DEF ResolveReviewTask, Open, Exists
    <3>6. task' = [task EXCEPT ![t] = Resolved(task[t], e)]
      BY <2>5, <3>1 DEF ResolveReviewTask
    <3> QED
      BY <3>3, <3>4, <3>5, <3>6 DEF Contract!Close
  <2> QED
    BY <1>1, <2>2, <2>3, <2>4, <2>5
       DEF Next, vars, Tick, CreateTask, SnoozeReviewTask, MarkInReview,
           CreateReviewVerdict, SetThreadFlag, UpdateThreadReviewStatus,
           BeginOnTask, BeginOnThread, Begin, BulkApproveSessions, CommitThread, Drop
<1>2. QueueInv /\ [Next]_vars
        => [\A t \in Task :
              task'[t] = task[t] \/ t \in raced' \/ Contract!Step(t)]_task
  BY <1>1
<1> QED
  BY <1>2, Reachable, PTL DEF Spec, SerialContract
----------------------------------------------------------------------------
(***************************************************************************)
(* The thread.                                                             *)
(***************************************************************************)

\* The reviewer a thread names has asked for its status, but for a stale commit.
THEOREM StatusIsAskedFor == Spec => []ReviewerAsked
<1>1. Init => ReviewerAsked
  BY DEF Init, ReviewerAsked, NewThread
<1>2. ASSUME QueueInv, ReviewerAsked, [Next]_vars
      PROVE  ReviewerAsked'
  <2> USE DEF ReviewerAsked
  <2>1. TypeOK /\ thread \in ThreadRow
    BY <1>2 DEF QueueInv, TypeOK
  <2>2. ASSUME NEW e \in Expert, CommitThread(e)
        PROVE  ReviewerAsked'
    <3> DEFINE c == call[e]
               row == Merge(thread, c)
    <3>1. c.loaded \in ThreadRow /\ c.wanted \in ThreadRow
      BY <2>1, <2>2, CallTypes DEF CommitThread, Commits
    <3>2. ThreadCall(e, c)
      BY <1>2, <2>2 DEF CommitThread, Commits, QueueInv, CallsKnown
    <3>3. /\ SameReview(c.wanted, c.loaded) => SameReview(row, thread)
          /\ SameReview(thread, c.loaded) => SameReview(row, c.wanted)
      BY <2>1, <3>1, MergedThread
    <3>4. /\ thread' = row
          /\ asked' = asked \cup ({e} \X c.asks)
      BY <2>2 DEF CommitThread
    <3>5. /\ overruled => overruled'
          /\ c.asks # {} /\ ~SameReview(thread, c.loaded) => overruled'
      BY <2>2 DEF CommitThread
    <3>6. CASE c.asks = {} /\ SameReview(c.wanted, c.loaded)
      BY <1>2, <3>3, <3>4, <3>5, <3>6 DEF SameReview
    <3>7. CASE c.asks = {c.wanted.review} /\ c.wanted.reviewer = e
      BY <3>3, <3>4, <3>5, <3>7 DEF SameReview
    <3> QED
      BY <3>2, <3>6, <3>7 DEF ThreadCall
  <2>3. ASSUME NEW e \in Expert, CommitInsert(e)
        PROVE  ReviewerAsked'
    <3>1. call[e].loaded \in ThreadRow /\ call[e].wanted \in ThreadRow
      BY <2>1, <2>3, CallTypes DEF CommitInsert, Commits
    <3>2. SameReview(call[e].wanted, call[e].loaded)
      BY <1>2, <2>3 DEF CommitInsert, Commits, QueueInv, CallsKnown, InsertCall
    <3>3. SameReview(thread', thread)
      BY <2>1, <2>3, <3>1, <3>2, MergedThread DEF CommitInsert
    <3>4. UNCHANGED <<asked, overruled>>
      BY <2>3 DEF CommitInsert
    <3> QED
      BY <1>2, <3>3, <3>4 DEF SameReview
  <2>4. ASSUME NEW e \in Expert, BulkApproveSessions(e)
        PROVE  ReviewerAsked'
    BY <2>1, <2>4 DEF BulkApproveSessions, Reviewed, ThreadRow
  <2>5. CASE UNCHANGED <<thread, asked, overruled>>
    BY <1>2, <2>5
  <2> QED
    BY <1>2, <2>2, <2>3, <2>4, <2>5
       DEF Next, vars, Tick, CreateTask, SnoozeReviewTask, MarkInReview,
           ClaimReviewTask, CreateReviewVerdict, ResolveReviewTask,
           SetThreadFlag, UpdateThreadReviewStatus, BeginOnTask, BeginOnThread,
           Begin, CommitTask, Drop
<1> QED
  BY <1>1, <1>2, Reachable, PTL DEF Spec
=============================================================================
