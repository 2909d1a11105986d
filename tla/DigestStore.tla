---------------------------- MODULE DigestStore ----------------------------
(***************************************************************************)
(* The digest tables of Work Orchestrator v2 and the SQL functions that    *)
(* change them (supabase/migrations/20260829030730, tables digest_runs and *)
(* digest_message_parts).  Every function runs in one transaction, under   *)
(* the destination's advisory lock or the run's row lock, so each is one   *)
(* atomic effect here; what it answers is a separate operator, evaluated   *)
(* in the state the call finds.                                            *)
(*                                                                         *)
(* One destination_key is modelled: no function relates two of them.       *)
(* A run is named <<slot, generation>>: scheduled_at and generation are    *)
(* its unique key within a destination.                                    *)
(***************************************************************************)
EXTENDS Integers, FiniteSets

CONSTANTS
    MaxSlot,      \* bound: scheduled_at values 1 .. MaxSlot
    MaxGen,       \* bound: generations of one slot
    Tokens,       \* lease tokens (uuids)
    NoToken,      \* lease_token is null
    MaxAttempts,  \* delivery_attempts limit (3 in the schema)
    MaxParts,     \* bound: message parts of one digest (50 in the schema)
    Items,        \* work items
    MaxVersion,   \* bound: version of a work item
    Manifests,    \* the different item snapshots and part lists a report gives
    NoManifest,   \* manifest_prepared_at is null
    Size,         \* Size[m]: number of message parts of manifest m
    Includes      \* Includes[m]: its snapshot, the <<item, version>> pairs it shows

ASSUME StoreAssumption ==
    /\ MaxSlot \in Nat \ {0} /\ MaxGen \in Nat \ {0} /\ MaxParts \in Nat \ {0}
    /\ MaxAttempts \in Nat \ {0}
    /\ NoManifest \notin Manifests /\ NoToken \notin Tokens
    /\ Size \in [Manifests -> 0 .. MaxParts]
    /\ MaxVersion \in Nat \ {0}
    /\ Includes \in [Manifests -> SUBSET (Items \X (1 .. MaxVersion))]

VARIABLES run, part,
          item  \* what finalize_digest_run_v2 reads and counts of work_items_v2

store == <<run, part, item>>

Slots == 1 .. MaxSlot
Gens == 1 .. MaxGen
PartIds == 1 .. MaxParts
Rid == Slots \X Gens
NoRun == <<0, 0>>

\* (scheduled_at, generation) order.
Before(a, b) == a[1] < b[1] \/ (a[1] = b[1] /\ a[2] < b[2])

Unfinished == {"building", "delivering", "failed"}
Published == {"delivered", "replaced"}
RunStates == Unfinished \cup Published \cup {"absent", "diverged", "retired"}
Gone == {"deleted", "already_absent"}
CleanupStates == Gone \cup {"idle", "deleting", "failed"}
DeliveryStates == {"absent", "planned", "delivering", "delivered", "failed"}

\* live: the lease has not expired.
Row == [state : RunStates, manifest : Manifests \cup {NoManifest}, prev : Rid \cup {NoRun},
        prevCleanup : CleanupStates, token : Tokens \cup {NoToken}, live : BOOLEAN,
        deliveredAt : Nat]

\* ts: the delivery attempt whose message is the stored coordinate, 0 for none.
\* cleanups: cleanup_attempts; a claim's cleanup_token is told apart by it.
PartRow == [delivery : DeliveryStates, attempts : 0 .. MaxAttempts, limited : BOOLEAN,
            ts : 0 .. MaxAttempts, cleanup : CleanupStates, cleanups : Nat,
            cleanupLive : BOOLEAN]

\* active: the state is open, in_progress or snoozed; since: when a digest may show it first,
\* its actionable_at (any earlier time for a P0 that nobody acknowledged).
ItemRow == [version : 1 .. MaxVersion, active : BOOLEAN, since : Nat, included : Nat]

AbsentRow == [state |-> "absent", manifest |-> NoManifest, prev |-> NoRun,
              prevCleanup |-> "idle", token |-> NoToken, live |-> FALSE, deliveredAt |-> 0]

AbsentPart == [delivery |-> "absent", attempts |-> 0, limited |-> FALSE, ts |-> 0,
               cleanup |-> "idle", cleanups |-> 0, cleanupLive |-> FALSE]

PlannedPart == [AbsentPart EXCEPT !.delivery = "planned"]

StoreTypeOK ==
    /\ run \in [Rid -> Row]
    /\ part \in [Rid -> [PartIds -> PartRow]]
    /\ item \in [Items -> ItemRow]

StoreInit ==
    /\ run = [rid \in Rid |-> AbsentRow]
    /\ part = [rid \in Rid |-> [p \in PartIds |-> AbsentPart]]
    /\ item = [w \in Items |-> [version |-> 1, active |-> TRUE, since |-> 0, included |-> 0]]

----------------------------------------------------------------------------
(* Claims. *)

Generations(s) == {rid \in Rid : rid[1] = s /\ run[rid].state # "absent"}

Latest(s) == CHOOSE rid \in Generations(s) : \A o \in Generations(s) : o[2] <= rid[2]

HasDelivered(rid) == \E p \in PartIds : part[rid][p].delivery = "delivered"

\* The digest a first generation replaces: the delivered run of an earlier slot
\* with a delivered part, the last by (delivered_at, scheduled_at).
Predecessors(s) == {rid \in Rid : rid[1] < s /\ run[rid].state = "delivered" /\ HasDelivered(rid)}

Later(a, b) == \/ run[a].deliveredAt > run[b].deliveredAt
               \/ run[a].deliveredAt = run[b].deliveredAt /\ ~Before(a, b)

Predecessor(s) ==
    IF Predecessors(s) = {} THEN NoRun
    ELSE CHOOSE rid \in Predecessors(s) : \A o \in Predecessors(s) : Later(rid, o)

\* Mutant of Released: a failed run is given up.
ReleasedUnlessFailed(rid) == run[rid].state \in Unfinished \ {"failed"} /\ ~run[rid].live

Released(rid) == run[rid].state \in Unfinished /\ ~run[rid].live

\* Mutant of Claimable: a failed generation is superseded like a diverged one.
ClaimableOverFailed(s) ==
    IF Generations(s) = {} THEN <<s, 1>>
    ELSE LET last == Latest(s) IN
         IF run[last].state \in {"diverged", "failed"} /\ last[2] < MaxGen THEN <<s, last[2] + 1>>
         ELSE IF Released(last) THEN last ELSE NoRun

\* The run claim_digest_run_v2 leases for slot s, NoRun when it claims nothing.
Claimable(s) ==
    IF Generations(s) = {} THEN <<s, 1>>
    ELSE LET last == Latest(s) IN
         IF run[last].state = "diverged" /\ last[2] < MaxGen THEN <<s, last[2] + 1>>
         ELSE IF Released(last) THEN last ELSE NoRun

NewRow(rid, token) ==
    [AbsentRow EXCEPT !.state = "building", !.token = token, !.live = TRUE,
                      !.prev = IF rid[2] = 1 THEN Predecessor(rid[1]) ELSE <<rid[1], rid[2] - 1>>]

Release(row, token) ==
    [row EXCEPT !.state = IF row.manifest = NoManifest THEN "building" ELSE "delivering",
                !.token = token, !.live = TRUE]

\* token: gen_random_uuid().
ClaimDigestRun(s, token) ==
    /\ UNCHANGED <<part, item>>
    /\ LET rid == Claimable(s) IN
       \/ rid = NoRun /\ UNCHANGED run
       \/ /\ rid # NoRun
          /\ run' = [run EXCEPT ![rid] = IF @.state = "absent" THEN NewRow(rid, token)
                                                 ELSE Release(@, token)]

\* Slots before s whose latest generation diverged, or follows one that did and
\* is unfinished; the recovery claim takes the oldest.
DivergentSlots(s) ==
    {o \in Slots : /\ o < s
                   /\ Generations(o) # {}
                   /\ \/ run[Latest(o)].state = "diverged"
                      \/ /\ run[Latest(o)].state \in Unfinished
                         /\ run[Latest(o)].prev # NoRun
                         /\ run[Latest(o)].prev[1] = o
                         /\ run[run[Latest(o)].prev].state = "diverged"}

OldestDivergent(s) == CHOOSE o \in DivergentSlots(s) : \A q \in DivergentSlots(s) : o <= q

DivergentClaimable(s) == IF DivergentSlots(s) = {} THEN NoRun ELSE Claimable(OldestDivergent(s))

ClaimDivergentDigestRun(s, token) ==
    \/ DivergentSlots(s) = {} /\ UNCHANGED store
    \/ DivergentSlots(s) # {} /\ ClaimDigestRun(OldestDivergent(s), token)

----------------------------------------------------------------------------
(* Calls of the lease holder. *)

HoldsLease(rid, tok, states) ==
    rid # NoRun /\ run[rid].state \in states /\ run[rid].token = tok /\ run[rid].live

Prepared(rid, tok, m) ==
    HoldsLease(rid, tok, {"building", "delivering"}) /\ run[rid].manifest \in {NoManifest, m}

Mismatch(rid, tok, m) ==
    HoldsLease(rid, tok, {"building", "delivering"}) /\ run[rid].manifest \notin {NoManifest, m}

\* Mutant of PrepareDigestParts: a later manifest overwrites the prepared one.
PrepareOverwrites(rid, tok, m) ==
    \/ /\ HoldsLease(rid, tok, {"building", "delivering"})
       /\ run' = [run EXCEPT ![rid] = [@ EXCEPT !.state = "delivering", !.manifest = m]]
       /\ part' = [part EXCEPT ![rid] =
                     [p \in PartIds |-> IF p <= Size[m] THEN PlannedPart ELSE AbsentPart]]
       /\ UNCHANGED item
    \/ ~HoldsLease(rid, tok, {"building", "delivering"}) /\ UNCHANGED store

PrepareDigestParts(rid, tok, m) ==
    \/ /\ HoldsLease(rid, tok, {"building"})
       /\ run[rid].manifest = NoManifest
       /\ run' = [run EXCEPT ![rid] = [@ EXCEPT !.state = "delivering", !.manifest = m]]
       /\ part' = [part EXCEPT ![rid] =
                     [p \in PartIds |-> IF p <= Size[m] THEN PlannedPart ELSE AbsentPart]]
       /\ UNCHANGED item
    \/ /\ ~(HoldsLease(rid, tok, {"building"}) /\ run[rid].manifest = NoManifest)
       /\ UNCHANGED store

\* Mutant of PartClaimable: no attempt limit.
PartClaimableForever(rid, tok, p) ==
    /\ HoldsLease(rid, tok, {"delivering"})
    /\ part[rid][p].delivery \in {"planned", "failed"}
    /\ ~part[rid][p].limited

PartClaimable(rid, tok, p) ==
    /\ HoldsLease(rid, tok, {"delivering"})
    /\ part[rid][p].delivery \in {"planned", "failed"}
    /\ part[rid][p].attempts < MaxAttempts
    /\ ~part[rid][p].limited

NextAttempt(row) == [row EXCEPT !.delivery = "delivering", !.attempts = @ + 1]

\* Mutant of ClaimDigestPartDelivery: the attempt is not counted.
ClaimPartUncounted(rid, tok, p) ==
    /\ UNCHANGED <<run, item>>
    /\ \/ /\ PartClaimable(rid, tok, p)
          /\ part' = [part EXCEPT ![rid][p] = [@ EXCEPT !.delivery = "delivering"]]
       \/ ~PartClaimable(rid, tok, p) /\ UNCHANGED part

ClaimDigestPartDelivery(rid, tok, p) ==
    /\ UNCHANGED <<run, item>>
    /\ \/ /\ PartClaimable(rid, tok, p)
          /\ part' = [part EXCEPT ![rid][p] = NextAttempt(@)]
       \/ ~PartClaimable(rid, tok, p) /\ UNCHANGED part

\* Both mark functions settle one attempt: the part is delivering, attempt k is its last.
Attempting(rid, tok, p, k) ==
    /\ HoldsLease(rid, tok, {"delivering"})
    /\ part[rid][p].delivery = "delivering"
    /\ part[rid][p].attempts = k

MarkDigestPartDelivered(rid, tok, p, k, ts) ==
    /\ UNCHANGED <<run, item>>
    /\ \/ /\ Attempting(rid, tok, p, k)
          /\ part' = [part EXCEPT ![rid][p] = [@ EXCEPT !.delivery = "delivered", !.ts = ts]]
       \/ ~Attempting(rid, tok, p, k) /\ UNCHANGED part

MarkDigestPartFailed(rid, tok, p, k, limited) ==
    /\ UNCHANGED <<run, item>>
    /\ \/ /\ Attempting(rid, tok, p, k)
          /\ part' = [part EXCEPT ![rid][p] = [@ EXCEPT !.delivery = "failed", !.limited = limited]]
       \/ ~Attempting(rid, tok, p, k) /\ UNCHANGED part

Divergeable(rid, tok) ==
    /\ HoldsLease(rid, tok, {"delivering"})
    /\ \A p \in PartIds : part[rid][p].delivery # "delivering" /\ part[rid][p].cleanup = "idle"

MarkDigestGenerationDiverged(rid, tok) ==
    /\ UNCHANGED <<part, item>>
    /\ \/ /\ Divergeable(rid, tok)
          /\ run' = [run EXCEPT ![rid] = [@ EXCEPT !.state = "diverged", !.live = FALSE]]
       \/ ~Divergeable(rid, tok) /\ UNCHANGED run

FailDigestRun(rid, tok) ==
    /\ UNCHANGED <<part, item>>
    /\ \/ /\ HoldsLease(rid, tok, {"building", "delivering"})
          /\ run' = [run EXCEPT ![rid] = [@ EXCEPT !.state = "failed"]]
       \/ ~HoldsLease(rid, tok, {"building", "delivering"}) /\ UNCHANGED run

----------------------------------------------------------------------------
(* Replacement chain.  A link is a run with a previous_digest_id; from a     *)
(* published successor the chain goes on through predecessors in "through". *)

LinkOwners(R, succ, through) ==
    LET reach[n \in Nat] ==
            IF n = 0 THEN {succ}
            ELSE reach[n - 1] \cup
                 {R[o].prev : o \in {x \in reach[n - 1] : /\ R[x].prev # NoRun
                                                          /\ R[R[x].prev].state \in through}}
    IN {o \in reach[MaxGen] : R[o].prev # NoRun}

PartsGone(parts) ==
    \A p \in PartIds : parts[p].delivery = "delivered" => parts[p].cleanup \in Gone

Diverged(R, succ) ==
    {rid \in {R[o].prev : o \in LinkOwners(R, succ, {"diverged", "retired"})} :
        R[rid].state = "diverged"}

\* Mutant of Retirable: an inherited predecessor is forgotten.
RetirableAlone(R, P, S) == \A rid \in S : PartsGone(P[rid])

\* A set of diverged runs that may all retire: each has nothing of its own left to clean and
\* inherits nothing, or a cleaned link to a run replaced, retired or in the set.
Retirable(R, P, S) ==
    \A rid \in S :
        /\ PartsGone(P[rid])
        /\ \/ R[rid].prev = NoRun
           \/ /\ R[rid].prevCleanup \in Gone
              /\ R[R[rid].prev].state \in {"replaced", "retired"} \/ R[rid].prev \in S

\* The retire loop repeats until no row of the chain changes; links lead to older runs, so
\* what it retires is the largest such set.
Retired(R, P, succ) == UNION {S \in SUBSET Diverged(R, succ) : Retirable(R, P, S)}

Retire(R, P, succ) ==
    LET gone == Retired(R, P, succ) IN
    [rid \in Rid |-> IF rid \in gone THEN [R[rid] EXCEPT !.state = "retired"] ELSE R[rid]]

\* The item is as the snapshot of m shows it.
AsShown(w, m) == item[w].active /\ <<w, item[w].version>> \in Includes[m]

\* The function raises, and nothing changes, when an item it would count became actionable
\* after "at", which a report read later than the cycle's timestamp can show.
Finalizable(rid, tok, at) ==
    /\ HoldsLease(rid, tok, {"delivering"})
    /\ run[rid].manifest # NoManifest
    /\ \A p \in PartIds : part[rid][p].delivery \in {"absent", "delivered"}
    /\ \A w \in Items : AsShown(w, run[rid].manifest) => item[w].since <= at

\* digest_inclusion_count advances for the items that are as the snapshot shows them.
Counted(m) ==
    [w \in Items |-> IF AsShown(w, m) THEN [item[w] EXCEPT !.included = @ + 1] ELSE item[w]]

\* Mutant of FinalizeDigestRun: an outdated holder's call counts again.
FinalizeUnheld(rid, tok, at) ==
    /\ UNCHANGED part
    /\ LET last == rid # NoRun /\ run[rid].state \in {"delivering", "delivered"}
                      /\ \A p \in PartIds : part[rid][p].delivery \in {"absent", "delivered"} IN
       \/ /\ last
          /\ run' = Retire([run EXCEPT ![rid] = [@ EXCEPT !.state = "delivered", !.live = FALSE,
                                                       !.deliveredAt = at]], part, rid)
          /\ item' = Counted(run[rid].manifest)
       \/ ~last /\ UNCHANGED <<run, item>>

FinalizeDigestRun(rid, tok, at) ==
    /\ UNCHANGED part
    /\ \/ /\ Finalizable(rid, tok, at)
          /\ run' = Retire([run EXCEPT ![rid] = [@ EXCEPT !.state = "delivered", !.live = FALSE,
                                                       !.deliveredAt = at]], part, rid)
          /\ item' = Counted(run[rid].manifest)
       \/ ~Finalizable(rid, tok, at) /\ UNCHANGED <<run, item>>

----------------------------------------------------------------------------
(* Cleanup of replaced digests. *)

\* <<successor, previous, part>> triples of list_digest_cleanup_backlog_v2, without its limit of
\* ten targets, which no instance here reaches.
CleanupBacklog ==
    {t \in Rid \X Rid \X PartIds :
        /\ run[t[1]].state \in Published
        /\ Before(t[2], t[1])
        /\ run[t[2]].state \in {"delivered", "diverged", "replaced"}
        /\ part[t[2]][t[3]].delivery = "delivered"
        /\ \E o \in LinkOwners(run, t[1], {"diverged"}) :
              /\ run[o].prev = t[2]
              /\ \/ run[o].prevCleanup \notin Gone
                 \/ ~PartsGone(part[t[2]])}

Aggregate(parts) ==
    LET found == {parts[p].cleanup : p \in {q \in PartIds : parts[q].delivery = "delivered"}}
    IN CASE found \subseteq Gone -> IF "deleted" \in found THEN "deleted" ELSE "already_absent"
         [] "deleting" \in found -> "deleting"
         [] "failed" \in found /\ "deleting" \notin found -> "failed"
         [] OTHER -> "idle"

\* previous_cleanup_state of the link owner, the previous run's replacement and
\* the retire loop, computed from the part rows P the call leaves behind.
SettleLink(P, succ, owner, prev) ==
    /\ LET replaced == [run EXCEPT ![prev] = IF @.state = "delivered" /\ PartsGone(P[prev])
                                             THEN [@ EXCEPT !.state = "replaced"] ELSE @]
       IN run' = Retire([replaced EXCEPT ![owner] = [@ EXCEPT !.prevCleanup = Aggregate(P[prev])]],
                        P, succ)
    /\ UNCHANGED item

Linked(succ, prev, through) ==
    {o \in LinkOwners(run, succ, through) : run[o].prev = prev}

CleanupTarget(succ, prev, p, through) ==
    /\ run[succ].state \in Published
    /\ Linked(succ, prev, through) # {}
    /\ run[prev].state \in {"delivered", "replaced"} \cup through
    /\ Before(prev, succ)
    /\ part[prev][p].delivery = "delivered"

\* Mutant of Cleanable: a delete whose holder died is never taken over.
CleanableOnce(row) == row.cleanup \in {"idle", "failed"}

Cleanable(row) == \/ row.cleanup \in {"idle", "failed"}
                  \/ row.cleanup = "deleting" /\ ~row.cleanupLive

NextCleanup(row) ==
    [row EXCEPT !.cleanup = "deleting", !.cleanups = @ + 1, !.cleanupLive = TRUE]

CleanupClaimable(succ, prev, p) ==
    CleanupTarget(succ, prev, p, {"diverged"}) /\ Cleanable(part[prev][p])

ClaimDigestPartCleanup(succ, prev, p) ==
    \/ /\ CleanupTarget(succ, prev, p, {"diverged"})
       /\ part' = [part EXCEPT ![prev][p] = IF Cleanable(@) THEN NextCleanup(@) ELSE @]
       /\ \E owner \in Linked(succ, prev, {"diverged"}) : SettleLink(part', succ, owner, prev)
    \/ ~CleanupTarget(succ, prev, p, {"diverged"}) /\ UNCHANGED store

\* k is the claim's cleanup_attempts; a replay of a recorded outcome only recomputes the link.
CleanupHeld(prev, p, k) ==
    part[prev][p].cleanup = "deleting" /\ part[prev][p].cleanups = k /\ part[prev][p].cleanupLive

CleanupReplayed(prev, p, k, outcome) ==
    part[prev][p].cleanups = k /\ part[prev][p].cleanup = outcome

Recordable(succ, prev, p, k, outcome) ==
    /\ CleanupTarget(succ, prev, p, {"diverged", "retired"})
    /\ CleanupHeld(prev, p, k) \/ CleanupReplayed(prev, p, k, outcome)

RecordDigestPartCleanup(succ, prev, p, k, outcome) ==
    \/ /\ Recordable(succ, prev, p, k, outcome)
       /\ part' = [part EXCEPT ![prev][p] = [@ EXCEPT !.cleanup = outcome, !.cleanupLive = FALSE]]
       /\ \E owner \in Linked(succ, prev, {"diverged", "retired"}) :
             SettleLink(part', succ, owner, prev)
    \/ ~Recordable(succ, prev, p, k, outcome) /\ UNCHANGED store

----------------------------------------------------------------------------
(* Time passing a lease, a cleanup lease or a delivery_retry_at. *)

LeaseExpires(rid) ==
    /\ run[rid].state \in Unfinished /\ run[rid].live
    /\ run' = [run EXCEPT ![rid] = [@ EXCEPT !.live = FALSE]]
    /\ UNCHANGED <<part, item>>

CleanupLeaseExpires(rid, p) ==
    /\ part[rid][p].cleanup = "deleting" /\ part[rid][p].cleanupLive
    /\ part' = [part EXCEPT ![rid][p] = [@ EXCEPT !.cleanupLive = FALSE]]
    /\ UNCHANGED <<run, item>>

RetryFallsDue(rid, p) ==
    /\ part[rid][p].limited
    /\ part' = [part EXCEPT ![rid][p] = [@ EXCEPT !.limited = FALSE]]
    /\ UNCHANGED <<run, item>>

Revised(row, still, since) ==
    [row EXCEPT !.version = @ + 1, !.active = still, !.since = since]

\* Every other writer of a work item raises its version; a resolved or dismissed one stays so,
\* a woken or reopened one is actionable from "at".
ItemChanges(w, at) ==
    /\ item[w].active /\ item[w].version < MaxVersion
    /\ \E still \in BOOLEAN, since \in {item[w].since, at} :
          item' = [item EXCEPT ![w] = Revised(@, still, since)]
    /\ UNCHANGED <<run, part>>
=============================================================================
