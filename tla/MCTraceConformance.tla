------------------------ MODULE MCTraceConformance -------------------------
(* Small instances of TraceConformance. *)
EXTENDS TraceConformance
============================================================================
