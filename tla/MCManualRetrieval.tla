------------------------- MODULE MCManualRetrieval -------------------------
(***************************************************************************)
(* A manual of two leaves and a table of two rows, with a summary, and     *)
(* another manual of one leaf without.                                     *)
(***************************************************************************)
EXTENDS ManualRetrieval, TLC

MCChunk == {"leaf0", "leaf1", "table", "row1", "row2", "summary", "other"}

MCDocOf == [c \in MCChunk |-> IF c = "other" THEN 2 ELSE 1]

MCLevel == [c \in MCChunk |-> IF c = "summary" THEN 1 ELSE 0]

MCSeq0 ==
  [leaf0 |-> 0, leaf1 |-> 1, table |-> 2, row1 |-> 3, row2 |-> 4, summary |-> NoIndex,
   other |-> 0]

MCPage ==
  [leaf0 |-> 1, leaf1 |-> 2, table |-> 3, row1 |-> 3, row2 |-> 3, summary |-> 1,
   other |-> 1]

MCParent ==
  [c \in MCChunk |-> IF c \in {"row1", "row2"} THEN "table" ELSE NoChunk]

MCHeader ==
  [leaf0 |-> "intro", leaf1 |-> "intro", table |-> "data", row1 |-> "data",
   row2 |-> "data", summary |-> "", other |-> "intro"]
============================================================================
