---------------------------- MODULE MCDigestRun ----------------------------
(* Small instances of DigestRun for TLC. *)
EXTENDS DigestRun, TLC

CONSTANTS r1, r2, w1, empty, one, other, two

\* Manifests of one work item: nothing to show, the item at each of its versions, and a digest
\* in two parts.  The present renderer makes one part at most; the tables and the runner's
\* loops take as many as an earlier or later one prepares.
MCSize == [m \in Manifests |-> CASE m = empty -> 0 [] m = two -> 2 [] OTHER -> 1]

MCIncludes ==
    [m \in Manifests |-> CASE m = empty -> {} [] m = other -> {<<w1, 2>>} [] OTHER -> {<<w1, 1>>}]

Sym == Permutations(Runners)
=============================================================================
