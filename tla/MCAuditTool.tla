---------------------------- MODULE MCAuditTool ----------------------------
(* Instances of AuditTool for TLC: one Lambda, one run from the command     *)
(* line.                                                                    *)
EXTENDS AuditTool

CONSTANTS l1, c1

=============================================================================
