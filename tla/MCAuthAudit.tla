---------------------------- MODULE MCAuthAudit -----------------------------
(* Instances of AuthAudit for TLC. Liveness is checked without symmetry.   *)
EXTENDS AuthAudit
=============================================================================
