--------------------------- MODULE MCAuditSession ---------------------------
(* Instances of AuditSession for TLC. *)
EXTENDS AuditSession, TLC

CONSTANTS i1, i2, o1, o2, k1, k2

\* Observations, items and screens are interchangeable.
Symmetric == Permutations(Items) \cup Permutations(Obs) \cup Permutations(Screens)
=============================================================================
