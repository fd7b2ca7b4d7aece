---------------------------- MODULE ProcessModel ---------------------------
(***************************************************************************)
(* The auditor's reference model of a diagnostic turn: the transitions of  *)
(* ProcessGraph as a specification that the workflow has to implement, and *)
(* the token replay that scores a logged trace against them, one record at *)
(* a time.                                                                 *)
(***************************************************************************)
EXTENDS ProcessGraph

VARIABLE at  \* the node of the turn's trace, "failed" once it is abandoned

----------------------------------------------------------------------------
Init == at = "__END__"

Begin   == at \in Ended /\ at' \in Allowed["__START__"]
Follow  == at \in Nodes /\ at' \in Allowed[at]
Abandon == at \in Nodes /\ at' = "failed"

Spec == Init /\ [][Begin \/ Follow \/ Abandon]_at

----------------------------------------------------------------------------
(***************************************************************************)
(* compute_process_fitness over the records of one trace: the last node    *)
(* replayed and whether a transition deviated.  Repeats are dropped.       *)
(***************************************************************************)

NothingReplayed == [last |-> "__START__", deviated |-> FALSE]

Replay(r, n) ==
  IF n = r.last THEN r
  ELSE [last |-> n, deviated |-> r.deviated \/ n \notin Allowed[r.last]]

Conforming(r) ==
  \/ r = NothingReplayed
  \/ ~ r.deviated /\ "__END__" \in Allowed[r.last]
============================================================================
