-------------------------- MODULE MCFeedbackLedger -------------------------
(***************************************************************************)
(* One user at two requests, two chunks of which one is scored, one step.  *)
(***************************************************************************)
EXTENDS FeedbackLedger, TLC

MCWeighs == [paraphrased |-> 8]

MCLabel == DOMAIN MCWeighs

Symmetry == Permutations(Client)
============================================================================
