--------------------------- MODULE MCAuditMirror ---------------------------
(* Instances of AuditMirror for TLC. *)
EXTENDS AuditMirror, TLC

CONSTANTS i1, i2, s1, s2, a1, a2

\* Items, sessions and attempts are interchangeable.
Symmetric == Permutations(Items) \cup Permutations(Sessions) \cup Permutations(Attempts)
=============================================================================
