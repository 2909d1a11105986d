--------------------------- MODULE MCAuditEvidence ---------------------------
(* Instances of AuditEvidence for TLC. *)
EXTENDS AuditEvidence, TLC

CONSTANTS p1, p2, f1, c1, c2

\* Photos, forms and handlers are interchangeable.
Symmetric == Permutations(Photos) \cup Permutations(Forms) \cup Permutations(Calls)
=============================================================================
