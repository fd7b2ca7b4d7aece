------------------------- MODULE MCFailureInjection ------------------------
(***************************************************************************)
(* Five sessions, so one failure type is dealt twice: sessions 2 and 5 are *)
(* about one document, 4 and 5 are turns of one thread, and 3 has no data  *)
(* a failure could be injected into.  A chunk_deletion is 2's or 3's.      *)
(***************************************************************************)
EXTENDS FailureInjection

MCPayload  == Nat
MCSessions == 1 .. 5
MCThreadOf == <<1, 2, 3, 4, 4>>
MCEntryOf  == <<1, 2, 1, 1, 2>>
MCScoreOf  == <<NoScore, 2, 1, 1, 0>>
============================================================================
