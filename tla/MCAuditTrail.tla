---------------------------- MODULE MCAuditTrail ----------------------------
EXTENDS AuditTrail
=============================================================================
