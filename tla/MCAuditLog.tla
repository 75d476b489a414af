----------------------------- MODULE MCAuditLog -----------------------------
(* Instances of AuditLog for TLC. *)
EXTENDS AuditLog, TLC

\* The callers differ in name only.
MCSymmetry == Permutations(Callers)
=============================================================================
