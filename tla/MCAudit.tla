------------------------------- MODULE MCAudit ------------------------------
EXTENDS Audit
=============================================================================
