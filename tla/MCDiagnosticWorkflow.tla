------------------------ MODULE MCDiagnosticWorkflow -----------------------
(* Small instances of DiagnosticWorkflow. *)
EXTENDS DiagnosticWorkflow

CONSTANTS lockout
============================================================================
