----------------------------- MODULE MCWorkItem -----------------------------
(* Small instances of WorkItem for TLC. *)
EXTENDS WorkItem, TLC

Sym == Permutations(Pollers)
=============================================================================
