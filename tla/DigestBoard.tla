---------------------------- MODULE DigestBoard ----------------------------
(***************************************************************************)
(* What the digest pipeline promises the reader of the Slack channel       *)
(* (invariants of digest_runs in the Work Orchestrator v2 design, 6.3 and  *)
(* 9.3), without leases, attempts or runners: a digest counts as published *)
(* only when every message it consists of hangs on the board, and a        *)
(* recorded message is taken down only after a later digest is published.  *)
(***************************************************************************)
EXTENDS Integers

CONSTANTS Digests,   \* <<slot, generation>> pairs
          MaxParts

VARIABLES planned,   \* number of messages of each digest, -1 while undecided
          pinned,    \* <<digest, part>> messages recorded and visible
          published

boardVars == <<planned, pinned, published>>

Older(d, e) == d[1] < e[1] \/ (d[1] = e[1] /\ d[2] < e[2])

BoardInit ==
    /\ planned = [d \in Digests |-> -1]
    /\ pinned = {} /\ published = {}

Plan(d) ==
    /\ planned[d] = -1
    /\ \E n \in 0 .. MaxParts : planned' = [planned EXCEPT ![d] = n]
    /\ UNCHANGED <<pinned, published>>

Pin(d, p) ==
    /\ d \notin published /\ p <= planned[d]
    /\ pinned' = pinned \cup {<<d, p>>}
    /\ UNCHANGED <<planned, published>>

Publish(d) ==
    /\ planned[d] # -1
    /\ \A p \in 1 .. planned[d] : <<d, p>> \in pinned
    /\ published' = published \cup {d}
    /\ UNCHANGED <<planned, pinned>>

TakeDown(d, p) ==
    /\ \E e \in published : Older(d, e)
    /\ pinned' = pinned \ {<<d, p>>}
    /\ UNCHANGED <<planned, published>>

BoardNext ==
    \E d \in Digests :
        \/ Plan(d) \/ Publish(d)
        \/ \E p \in 1 .. MaxParts : Pin(d, p) \/ TakeDown(d, p)

BoardSpec == BoardInit /\ [][BoardNext]_boardVars
=============================================================================
