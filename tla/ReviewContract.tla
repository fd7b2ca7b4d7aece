--------------------------- MODULE ReviewContract ---------------------------
(***************************************************************************)
(* What the review queue promises of one task (escalation_flags): its life *)
(* as the docstrings of core/crud.py tell it, each change in one step.     *)
(* ReviewTaskQueue has the functions as they run.                          *)
(***************************************************************************)
EXTENDS Naturals

CONSTANTS Expert, Task, NoExpert, MaxTime

VARIABLE task  \* escalation_flags

\* snoozed_until is None.
Null == 0

Statuses == {"NEW", "CLAIMED", "IN_REVIEW", "RESOLVED", "SNOOZED"}

Row ==
  [status : Statuses \cup {"none"},    \* "none": there is no such row
   owner : Expert \cup {NoExpert},     \* claimed_by
   until : {Null} \cup 1 .. MaxTime]   \* snoozed_until

NoRow == [status |-> "none", owner |-> NoExpert, until |-> Null]

Init == task = [t \in Task |-> NoRow]

----------------------------------------------------------------------------

Becomes(t, status, owner, until) ==
  task' = [task EXCEPT ![t] = [status |-> status, owner |-> owner, until |-> until]]

\* A task is worked on by the expert who claimed it or, if none did, by anyone.
OwnedBy(t, e) == task[t].owner \in {NoExpert, e}

Create(t) ==
  /\ task[t].status = "none"
  /\ Becomes(t, "NEW", NoExpert, Null)

\* A waiting task gets one owner and no date.
Claim(t) ==
  /\ task[t].status \in {"NEW", "SNOOZED"}
  /\ \E e \in Expert : Becomes(t, "CLAIMED", e, Null)

\* "Returns it to the queue at snooze_until": there is a date.
Snooze(t) ==
  /\ task[t].status \in Statuses
  /\ \E u \in 1 .. MaxTime : Becomes(t, "SNOOZED", task[t].owner, u)

\* Only an open task moves to IN_REVIEW.
Start(t) ==
  /\ task[t].status \in Statuses \ {"RESOLVED"}
  /\ \E e \in Expert : OwnedBy(t, e) /\ Becomes(t, "IN_REVIEW", e, Null)

\* A task is closed once.
Close(t) ==
  /\ task[t].status \in Statuses \ {"RESOLVED"}
  /\ \E e \in Expert : OwnedBy(t, e) /\ Becomes(t, "RESOLVED", e, task[t].until)

Step(t) == Create(t) \/ Claim(t) \/ Snooze(t) \/ Start(t) \/ Close(t)

Next == \E t \in Task : Step(t)

Spec == Init /\ [][Next]_task
=============================================================================
