---------------------------- MODULE MCAuditTrail ----------------------------
(* An instance of AuditTrail for TLC: two connections, a voter of the roll *)
(* and one who is not, two starts.                                         *)
EXTENDS AuditTrail, TLC

=============================================================================
