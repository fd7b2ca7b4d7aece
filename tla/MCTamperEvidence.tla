-------------------------- MODULE MCTamperEvidence -------------------------
(***************************************************************************)
(* Threads of one or two turns.  A turn starts with IntentRouter's record  *)
(* and its routing decision; the shortest ends after one more node (a      *)
(* follow-up whose evaluation is skipped); the longest is a diagnosis that  *)
(* RootCauseAnalyzer ends because no relevant documentation was found.     *)
(***************************************************************************)
EXTENDS TamperEvidence

FollowUp   == <<"node", "edge", "node">>
Evaluated  == <<"node", "edge", "node", "node">>
Overridden == <<"node", "edge", "node", "edge">>
NoDocuments ==
  <<"node", "edge", "node", "edge", "node", "node", "edge", "node", "edge">>

MCHistories ==
  {<<FollowUp>>, <<Evaluated>>, <<Overridden>>, <<NoDocuments>>,
   <<FollowUp, FollowUp>>, <<Evaluated, FollowUp>>, <<FollowUp, NoDocuments>>}

MCPayload == Nat
============================================================================
