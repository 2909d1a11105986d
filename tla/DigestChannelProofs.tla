------------------------ MODULE DigestChannelProofs ------------------------
(***************************************************************************)
(* What the digest tables, the runners and the Slack channel keep true of  *)
(* each other, and the proof that together they implement DigestBoard.     *)
(*                                                                         *)
(* Every step is first described by what it may do to the runs, the parts, *)
(* the items and the channel (Moves); the invariant is then kept by every  *)
(* step so described, and so is the refinement.                            *)
(***************************************************************************)
EXTENDS DigestHistoryProofs

----------------------------------------------------------------------------
(* One step.  "kind" names the one thing the reader of the channel may      *)
(* notice of it: digest d is planned or published, its part n is pinned or  *)
(* taken down, or there is none.                                            *)

\* Attempts whose message may still come: Slack holds it, or a runner is about to post it.
Coming == inflight \cup {Message(r) : r \in {q \in Runners : At(q, "post")}}

\* The manifest is set once, together with the parts.
Planned(rid, kind, d) ==
    /\ kind = "plan" /\ rid = d
    /\ run[rid].state \in Unfinished /\ run'[rid].state \in Unfinished
    /\ run[rid].manifest = NoManifest /\ run'[rid].manifest \in Manifests
    /\ part'[rid] = [p \in PartIds |-> IF p <= Size[run'[rid].manifest] THEN PlannedPart ELSE AbsentPart]

RunMoves(rid, kind, d) ==
    /\ run'[rid].manifest = run[rid].manifest \/ Planned(rid, kind, d)
    /\ run'[rid].prev = run[rid].prev \/ run[rid].state = "absent"
    /\ \/ run'[rid].state = run[rid].state
       \/ run[rid].state = "absent" /\ run'[rid].state \in Unfinished
       \/ run[rid].state \in Unfinished /\ run'[rid].state \in Unfinished \cup {"diverged"}
       \/ /\ kind = "publish" /\ rid = d
          /\ run[rid].state \in Unfinished /\ run'[rid].state = "delivered"
          /\ run[rid].manifest # NoManifest
          /\ \A p \in PartIds : part[rid][p].delivery \in {"absent", "delivered"}
       \/ /\ run[rid].state = "delivered" /\ run'[rid].state = "replaced"
          /\ PartsGone(part'[rid])
       \/ /\ run[rid].state = "diverged" /\ run'[rid].state = "retired"
          /\ PartsGone(part'[rid])
          /\ run'[rid].prev # NoRun => run'[run'[rid].prev].state \in Cleared

SameEvidence(rid, p) ==
    /\ part'[rid][p].delivery = part[rid][p].delivery
    /\ part'[rid][p].attempts = part[rid][p].attempts
    /\ part'[rid][p].ts = part[rid][p].ts
    /\ part'[rid][p].cleanup = part[rid][p].cleanup

\* An attempt starts or fails.
Attempted(rid, p) ==
    /\ run[rid].state \in Unfinished
    /\ part[rid][p].delivery \in {"planned", "failed", "delivering"}
    /\ part'[rid][p].delivery \in {"failed", "delivering"}
    /\ part'[rid][p].attempts >= part[rid][p].attempts
    /\ part'[rid][p].cleanup = part[rid][p].cleanup

\* An attempt is recorded with the coordinate a runner found.
Settles(rid, p) ==
    /\ run[rid].state \in Unfinished
    /\ part[rid][p].delivery = "delivering" /\ part'[rid][p].delivery = "delivered"
    /\ part'[rid][p].attempts = part[rid][p].attempts
    /\ part'[rid][p].cleanup = part[rid][p].cleanup
    /\ \E r \in Runners : /\ At(r, "settle") /\ rn[r].rid = rid /\ rn[r].i = p
                          /\ part'[rid][p].ts = rn[r].ts

\* The message of a digest that a later one replaced is claimed for deletion, or what became
\* of it is recorded.
Cleans(rid, p) ==
    /\ part[rid][p].delivery = "delivered" /\ part'[rid][p].delivery = "delivered"
    /\ part'[rid][p].attempts = part[rid][p].attempts
    /\ part'[rid][p].ts = part[rid][p].ts
    /\ part[rid][p].cleanup \notin Gone /\ part'[rid][p].cleanup # "idle"
    /\ part'[rid][p].cleanup \in Gone => <<rid, p, part[rid][p].ts>> \notin msgs
    /\ run[rid].state \in Closed
    /\ \E o \in Rid : run[o].state \in Published /\ Before(rid, o)

PartMoves(rid, p, kind, d, n) ==
    \/ SameEvidence(rid, p) /\ run'[rid].manifest = run[rid].manifest
    \/ Planned(rid, kind, d)
    \/ Attempted(rid, p)
    \/ Settles(rid, p) /\ kind = "pin" /\ rid = d /\ p = n
    \/ Cleans(rid, p)

ItemMoves(w, kind, d) ==
    \/ item'[w].included = item[w].included
    \/ /\ kind = "publish" /\ run[d].state \notin Published /\ run'[d].state \in Published
       /\ AsShown(w, run[d].manifest)
       /\ item'[w].included = item[w].included + 1

StoreMoves(kind, d, n) ==
    /\ \A rid \in Rid : RunMoves(rid, kind, d)
    /\ \A rid \in Rid, p \in PartIds : PartMoves(rid, p, kind, d, n)
    /\ \A w \in Items : ItemMoves(w, kind, d)

\* An attempt that was just claimed.
Fresh(x) ==
    /\ part[x[1]][x[2]].attempts < x[3]
    /\ x[3] <= part'[x[1]][x[2]].attempts

ChannelMoves(kind, d, n) ==
    /\ msgs' \subseteq msgs \cup Coming
    /\ \A x \in Coming' : x \in Coming \/ Fresh(x)
    /\ \A x \in msgs \ msgs' : /\ kind = "take_down" /\ x = <<d, n, part[d][n].ts>>
                               /\ part[d][n].delivery = "delivered"
                               /\ part[d][n].cleanup # "idle"

----------------------------------------------------------------------------
(* The calls of the store move it so. *)

LEMMA StutterMoves ==
    ASSUME UNCHANGED store, NEW kind, NEW d, NEW n
    PROVE  StoreMoves(kind, d, n)
BY DEF store, StoreMoves, RunMoves, PartMoves, SameEvidence, ItemMoves

\* One row changes, and no part.
LEMMA RowMoves ==
    ASSUME StoreTypeOK, UNCHANGED <<part, item>>, NEW rid \in Rid, NEW row,
           run' = [run EXCEPT ![rid] = row],
           row.manifest = run[rid].manifest,
           row.prev = run[rid].prev \/ run[rid].state = "absent",
           \/ row.state = run[rid].state
           \/ run[rid].state = "absent" /\ row.state \in Unfinished
           \/ run[rid].state \in Unfinished /\ row.state \in Unfinished \cup {"diverged"},
           NEW kind, NEW d, NEW n
    PROVE  StoreMoves(kind, d, n)
<1>1. run'[rid] = row /\ \A x \in Rid : x # rid => run'[x] = run[x]
  BY DEF StoreTypeOK
<1>2. ASSUME NEW x \in Rid PROVE RunMoves(x, kind, d) /\ run'[x].manifest = run[x].manifest
  <2>1. CASE x = rid
    BY <1>1, <2>1 DEF RunMoves
  <2>2. CASE x # rid
    BY <1>1, <2>2 DEF RunMoves
  <2> QED BY <2>1, <2>2
<1> QED BY <1>2 DEF StoreMoves, PartMoves, SameEvidence, ItemMoves

\* One part changes, and no row.
LEMMA PartRowMoves ==
    ASSUME StoreTypeOK, UNCHANGED <<run, item>>, NEW rid \in Rid, NEW p \in PartIds, NEW row,
           part' = [part EXCEPT ![rid][p] = row], NEW kind, NEW d, NEW n,
           part'[rid][p] = row => PartMoves(rid, p, kind, d, n)
    PROVE  StoreMoves(kind, d, n)
<1>1. part'[rid][p] = row
  BY DEF StoreTypeOK
<1>2. ASSUME NEW x \in Rid, NEW q \in PartIds, x # rid \/ q # p
      PROVE  part'[x][q] = part[x][q]
  BY <1>2 DEF StoreTypeOK
<1>3. ASSUME NEW x \in Rid, NEW q \in PartIds PROVE PartMoves(x, q, kind, d, n)
  <2>1. CASE x = rid /\ q = p
    BY <1>1, <2>1
  <2>2. CASE x # rid \/ q # p
    BY <1>2, <2>2 DEF PartMoves, SameEvidence
  <2> QED BY <2>1, <2>2
<1> QED BY <1>3 DEF StoreMoves, RunMoves, ItemMoves

LEMMA ClaimMoves ==
    ASSUME StoreTypeOK, Blank, NEW s \in Slots, NEW token \in Tokens \cup {NoToken},
           ClaimDigestRun(s, token), NEW kind, NEW d, NEW n
    PROVE  StoreMoves(kind, d, n)
<1>1. CASE run' = run
  BY <1>1, StutterMoves DEF ClaimDigestRun, store
<1>2. CASE run' # run
  <2> DEFINE rid == Claimable(s)
             new == IF run[rid].state = "absent" THEN NewRow(rid, token)
                    ELSE Release(run[rid], token)
  <2>1. rid # NoRun /\ run' = [run EXCEPT ![rid] = new] /\ UNCHANGED <<part, item>>
    BY <1>2 DEF ClaimDigestRun
  <2>2. rid \in Rid /\ (Released(rid) \/ run[rid].state = "absent")
    BY <2>1, ClaimableFree
  <2>3. run[rid] \in Row
    BY <2>2 DEF StoreTypeOK
  <2>4. CASE run[rid].state = "absent"
    <3>1. run[rid].manifest = NoManifest
      BY <2>2, <2>4 DEF Blank
    <3>2. new.manifest = NoManifest /\ new.state \in Unfinished
      BY <2>4 DEF NewRow, AbsentRow, Unfinished
    <3> HIDE DEF new, rid
    <3> QED BY <2>1, <2>2, <2>4, <3>1, <3>2, RowMoves
  <2>5. CASE run[rid].state # "absent"
    <3>1. run[rid].state \in Unfinished
      BY <2>2, <2>5 DEF Released
    <3>2. /\ new.manifest = run[rid].manifest /\ new.prev = run[rid].prev
          /\ new.state \in Unfinished
      BY <2>3, <2>5 DEF Release, Row, Unfinished
    <3> HIDE DEF new, rid
    <3> QED BY <2>1, <2>2, <3>1, <3>2, RowMoves
  <2> QED BY <2>4, <2>5
<1> QED BY <1>1, <1>2

LEMMA ClaimDivergentMoves ==
    ASSUME StoreTypeOK, Blank, NEW s \in Slots, NEW token \in Tokens \cup {NoToken},
           ClaimDivergentDigestRun(s, token), NEW kind, NEW d, NEW n
    PROVE  StoreMoves(kind, d, n)
<1>1. CASE UNCHANGED store
  BY <1>1, StutterMoves
<1>2. CASE DivergentSlots(s) # {} /\ ClaimDigestRun(OldestDivergent(s), token)
  <2>1. OldestDivergent(s) \in Slots
    BY <1>2, OldestDivergentType DEF DivergentSlots
  <2> QED BY <1>2, <2>1, ClaimMoves
<1> QED BY <1>1, <1>2 DEF ClaimDivergentDigestRun

LEMMA PrepareMoves ==
    ASSUME StoreTypeOK, NEW rid \in Rid \cup {NoRun}, NEW tok, NEW m \in Manifests, NEW n,
           PrepareDigestParts(rid, tok, m), ~UNCHANGED store
    PROVE  rid \in Rid /\ StoreMoves("plan", rid, n)
<1> DEFINE row == [run[rid] EXCEPT !.state = "delivering", !.manifest = m]
           parts == [p \in PartIds |-> IF p <= Size[m] THEN PlannedPart ELSE AbsentPart]
<1>1. /\ rid \in Rid /\ run[rid].state = "building" /\ run[rid].manifest = NoManifest
      /\ run' = [run EXCEPT ![rid] = row]
      /\ part' = [part EXCEPT ![rid] = parts] /\ item' = item
  BY DEF PrepareDigestParts, HoldsLease
<1>2. run[rid] \in Row
  BY <1>1 DEF StoreTypeOK
<1>3. row.state = "delivering" /\ row.manifest = m /\ row.prev = run[rid].prev
  BY <1>2 DEF Row
<1> HIDE DEF row
<1>4. /\ run'[rid] = row /\ part'[rid] = parts
      /\ \A x \in Rid : x # rid => run'[x] = run[x] /\ part'[x] = part[x]
  BY <1>1 DEF StoreTypeOK
<1>5. Planned(rid, "plan", rid)
  BY <1>1, <1>3, <1>4 DEF Planned, Unfinished
<1>6. RunMoves(rid, "plan", rid)
  BY <1>1, <1>3, <1>4, <1>5 DEF RunMoves, Unfinished
<1> HIDE DEF parts
<1>7. ASSUME NEW x \in Rid
      PROVE  RunMoves(x, "plan", rid) /\ \A p \in PartIds : PartMoves(x, p, "plan", rid, n)
  <2>1. CASE x = rid
    BY <1>5, <1>6, <2>1 DEF PartMoves
  <2>2. CASE x # rid
    BY <1>4, <2>2 DEF RunMoves, PartMoves, SameEvidence
  <2> QED BY <2>1, <2>2
<1> QED BY <1>1, <1>7 DEF StoreMoves, ItemMoves

LEMMA AttemptMoves ==
    ASSUME StoreTypeOK, NEW rid \in Rid \cup {NoRun}, NEW tok, NEW p \in PartIds, NEW k,
           NEW limited, NEW kind, NEW d, NEW n,
           ClaimDigestPartDelivery(rid, tok, p) \/ MarkDigestPartFailed(rid, tok, p, k, limited)
    PROVE  StoreMoves(kind, d, n)
<1> DEFINE row1 == NextAttempt(part[rid][p])
           row2 == [part[rid][p] EXCEPT !.delivery = "failed", !.limited = limited]
<1>1. CASE UNCHANGED store
  BY <1>1, StutterMoves
<1>2. CASE ~UNCHANGED store
  <2>1. /\ UNCHANGED <<run, item>>
        /\ PartClaimable(rid, tok, p) \/ Attempting(rid, tok, p, k)
        /\ part' = [part EXCEPT ![rid][p] = row1] \/ part' = [part EXCEPT ![rid][p] = row2]
    BY <1>2 DEF ClaimDigestPartDelivery, MarkDigestPartFailed, store
  <2>2. /\ rid \in Rid /\ run[rid].state \in Unfinished
        /\ part[rid][p].delivery \in {"planned", "failed", "delivering"}
    BY <2>1 DEF PartClaimable, Attempting, HoldsLease, Unfinished
  <2>3. part[rid][p] \in PartRow
    BY <2>2 DEF StoreTypeOK
  <2>4. part[rid][p].attempts \in Nat
    BY <2>3, StoreAssumption DEF PartRow
  <2>5. /\ row1.delivery = "delivering" /\ row1.attempts = part[rid][p].attempts + 1
        /\ row2.delivery = "failed" /\ row2.attempts = part[rid][p].attempts
        /\ row1.cleanup = part[rid][p].cleanup /\ row2.cleanup = part[rid][p].cleanup
    BY <2>3 DEF NextAttempt, PartRow
  <2>6. part'[rid][p] = row1 \/ part'[rid][p] = row2 => PartMoves(rid, p, kind, d, n)
    <3> HIDE DEF row1, row2
    <3> QED BY <2>2, <2>4, <2>5 DEF PartMoves, Attempted
  <2> HIDE DEF row1, row2
  <2> QED BY <2>1, <2>2, <2>6, PartRowMoves
<1> QED BY <1>1, <1>2

LEMMA SettleMoves ==
    ASSUME TypeInv, NEW r \in Runners, At(r, "settle"), ~UNCHANGED store,
           MarkDigestPartDelivered(rn[r].rid, rn[r].tok, rn[r].i, rn[r].k, rn[r].ts)
    PROVE  rn[r].rid \in Rid /\ rn[r].i \in PartIds /\ StoreMoves("pin", rn[r].rid, rn[r].i)
<1> DEFINE rid == rn[r].rid
           p == rn[r].i
           row == [part[rid][p] EXCEPT !.delivery = "delivered", !.ts = rn[r].ts]
<1>0. rn[r] \in RunnerState /\ Focused(rn[r]) /\ StoreTypeOK
  BY DEF TypeInv, TypeOK
<1>1. /\ UNCHANGED <<run, item>> /\ Attempting(rid, rn[r].tok, p, rn[r].k)
      /\ part' = [part EXCEPT ![rid][p] = row]
  BY DEF MarkDigestPartDelivered, store
<1>2. /\ rid \in Rid /\ run[rid].state \in Unfinished /\ p \in PartIds
      /\ part[rid][p].delivery = "delivering"
  BY <1>0, <1>1 DEF Attempting, HoldsLease, Unfinished, RunnerState, Focused, At, PartPCs
<1>3. part[rid][p] \in PartRow
  BY <1>0, <1>2 DEF StoreTypeOK
<1>4. /\ row.delivery = "delivered" /\ row.ts = rn[r].ts
      /\ row.attempts = part[rid][p].attempts /\ row.cleanup = part[rid][p].cleanup
  BY <1>3 DEF PartRow
<1> HIDE DEF row
<1>5. part'[rid][p] = row => PartMoves(rid, p, "pin", rid, p)
  BY <1>2, <1>4 DEF PartMoves, Settles
<1> HIDE DEF rid, p
<1>6. StoreMoves("pin", rid, p)
  BY <1>0, <1>1, <1>2, <1>5, PartRowMoves
<1> QED BY <1>2, <1>6 DEF rid, p

LEMMA RunCallMoves ==
    ASSUME StoreTypeOK, NEW rid \in Rid \cup {NoRun}, NEW tok, NEW kind, NEW d, NEW n,
           MarkDigestGenerationDiverged(rid, tok) \/ FailDigestRun(rid, tok) \/ LeaseExpires(rid)
    PROVE  StoreMoves(kind, d, n)
<1> DEFINE row1 == [run[rid] EXCEPT !.state = "diverged", !.live = FALSE]
           row2 == [run[rid] EXCEPT !.state = "failed"]
           row3 == [run[rid] EXCEPT !.live = FALSE]
           New(row) == run' = [run EXCEPT ![rid] = row]
<1>1. CASE UNCHANGED store
  BY <1>1, StutterMoves
<1>2. CASE ~UNCHANGED store /\ rid \in Rid
  <2>1. /\ UNCHANGED <<part, item>>
        /\ run[rid].state \in Unfinished
        /\ New(row1) \/ New(row2) \/ New(row3)
    BY <1>2 DEF MarkDigestGenerationDiverged, FailDigestRun, LeaseExpires, store, Divergeable,
                HoldsLease, Unfinished
  <2>2. run[rid] \in Row
    BY <1>2 DEF StoreTypeOK
  <2>3. /\ row1.prev = run[rid].prev /\ row2.prev = run[rid].prev /\ row3.prev = run[rid].prev
        /\ row1.manifest = run[rid].manifest /\ row2.manifest = run[rid].manifest
        /\ row3.manifest = run[rid].manifest
        /\ row1.state = "diverged" /\ row2.state = "failed" /\ row3.state = run[rid].state
    BY <2>2 DEF Row
  <2> HIDE DEF row1, row2, row3
  <2>4. CASE New(row1)
    BY <1>2, <2>1, <2>3, <2>4, RowMoves
  <2>5. CASE New(row2)
    BY <1>2, <2>1, <2>3, <2>5, RowMoves DEF Unfinished
  <2>6. CASE New(row3)
    BY <1>2, <2>1, <2>3, <2>6, RowMoves
  <2> QED BY <2>1, <2>4, <2>5, <2>6
<1>3. CASE rid \notin Rid
  <2>1. UNCHANGED store
    BY <1>3 DEF MarkDigestGenerationDiverged, FailDigestRun, LeaseExpires, Divergeable,
                HoldsLease, StoreTypeOK, store
  <2> QED BY <2>1, StutterMoves
<1> QED BY <1>1, <1>2, <1>3

LEMMA FinalizeMoves ==
    ASSUME StoreTypeOK, NEW rid \in Rid \cup {NoRun}, NEW tok, NEW at \in Nat, NEW n,
           FinalizeDigestRun(rid, tok, at), ~UNCHANGED store
    PROVE  rid \in Rid /\ StoreMoves("publish", rid, n)
<1> DEFINE row == [run[rid] EXCEPT !.state = "delivered", !.live = FALSE, !.deliveredAt = at]
           R == [run EXCEPT ![rid] = row]
           m == run[rid].manifest
<1>1. /\ Finalizable(rid, tok, at) /\ part' = part
      /\ run' = Retire(R, part, rid) /\ item' = Counted(m)
  BY DEF FinalizeDigestRun, store
<1>2. /\ rid \in Rid /\ run[rid].state = "delivering" /\ m # NoManifest
      /\ \A p \in PartIds : part[rid][p].delivery \in {"absent", "delivered"}
  BY <1>1 DEF Finalizable, HoldsLease
<1>3. run[rid] \in Row
  BY <1>2 DEF StoreTypeOK
<1>4. /\ row \in Row /\ row.state = "delivered"
      /\ row.prev = run[rid].prev /\ row.manifest = run[rid].manifest
  BY <1>3 DEF Row, RunStates, Published
<1> HIDE DEF row
<1>5. /\ R \in [Rid -> Row] /\ R[rid] = row
      /\ \A x \in Rid : x # rid => R[x] = run[x]
  BY <1>2, <1>4, RunUpdate DEF StoreTypeOK
<1> HIDE DEF R
<1>6. ASSUME NEW x \in Rid
      PROVE  /\ run'[x].prev = R[x].prev /\ run'[x].manifest = R[x].manifest
             /\ \/ run'[x].state = R[x].state
                \/ /\ R[x].state = "diverged" /\ run'[x].state = "retired"
                   /\ PartsGone(part[x])
                   /\ R[x].prev # NoRun => run'[R[x].prev].state \in Cleared
  BY <1>1, <1>5, RetireEffect
<1>7. ASSUME NEW x \in Rid
      PROVE  RunMoves(x, "publish", rid) /\ run'[x].manifest = run[x].manifest
  <2>1. CASE x = rid
    BY <1>2, <1>4, <1>5, <1>6, <2>1 DEF RunMoves, Unfinished
  <2>2. CASE x # rid
    <3>1. R[x] = run[x]
      BY <1>5, <2>2
    <3> QED BY <1>1, <1>6, <3>1 DEF RunMoves
  <2> QED BY <2>1, <2>2
<1>8. run[rid].state \notin Published /\ run'[rid].state \in Published
  BY <1>2, <1>4, <1>5, <1>6 DEF Published
<1>9. ASSUME NEW w \in Items PROVE ItemMoves(w, "publish", rid)
  <2>1. item[w] \in ItemRow
    BY DEF StoreTypeOK
  <2> QED BY <1>1, <1>8, <2>1 DEF ItemMoves, Counted, ItemRow
<1> QED BY <1>1, <1>2, <1>7, <1>9 DEF StoreMoves, PartMoves, SameEvidence

\* A cleanup call: one part changes its cleanup columns, and the link settles.
LEMMA LinkMoves ==
    ASSUME StoreTypeOK, NEW succ, NEW owner, NEW prev \in Rid, NEW p \in PartIds, NEW row,
           part' = [part EXCEPT ![prev][p] = row], SettleLink(part', succ, owner, prev),
           part'[prev][p] = row => SameEvidence(prev, p) \/ Cleans(prev, p),
           NEW kind, NEW d, NEW n
    PROVE  StoreMoves(kind, d, n)
<1>1. part'[prev][p] = row
  BY DEF StoreTypeOK
<1>2. ASSUME NEW x \in Rid, NEW q \in PartIds, x # prev \/ q # p
      PROVE  part'[x][q] = part[x][q]
  BY <1>2 DEF StoreTypeOK
<1>3. ASSUME NEW x \in Rid PROVE RunMoves(x, kind, d) /\ run'[x].manifest = run[x].manifest
  BY SettleLinkEffect DEF RunMoves
<1>4. ASSUME NEW x \in Rid, NEW q \in PartIds PROVE PartMoves(x, q, kind, d, n)
  <2>1. CASE x = prev /\ q = p
    BY <1>1, <1>3, <2>1 DEF PartMoves
  <2>2. CASE x # prev \/ q # p
    BY <1>2, <1>3, <2>2 DEF PartMoves, SameEvidence
  <2> QED BY <2>1, <2>2
<1>5. item' = item
  BY DEF SettleLink
<1> QED BY <1>3, <1>4, <1>5 DEF StoreMoves, ItemMoves

LEMMA ClaimCleanupMoves ==
    ASSUME StoreTypeOK, NEW succ \in Rid, NEW prev \in Rid, NEW p \in PartIds,
           ClaimDigestPartCleanup(succ, prev, p), NEW kind, NEW d, NEW n
    PROVE  /\ StoreMoves(kind, d, n)
           /\ CleanupClaimable(succ, prev, p) => /\ part'[prev][p].delivery = "delivered"
                                                 /\ part'[prev][p].cleanup # "idle"
<1> DEFINE row == IF Cleanable(part[prev][p]) THEN NextCleanup(part[prev][p]) ELSE part[prev][p]
<1>1. CASE UNCHANGED store /\ ~CleanupTarget(succ, prev, p, {"diverged"})
  BY <1>1, StutterMoves DEF CleanupClaimable
<1>2. CASE CleanupTarget(succ, prev, p, {"diverged"})
  <2>1. /\ part' = [part EXCEPT ![prev][p] = row]
        /\ \E owner \in Linked(succ, prev, {"diverged"}) : SettleLink(part', succ, owner, prev)
    BY <1>2 DEF ClaimDigestPartCleanup
  <2>2. /\ run[succ].state \in Published /\ Before(prev, succ)
        /\ run[prev].state \in Closed /\ part[prev][p].delivery = "delivered"
    BY <1>2 DEF CleanupTarget, Closed, Published
  <2>3. part[prev][p] \in PartRow
    BY DEF StoreTypeOK
  <2>4. CASE Cleanable(part[prev][p])
    <3>1. /\ row.delivery = "delivered" /\ row.attempts = part[prev][p].attempts
          /\ row.ts = part[prev][p].ts /\ row.cleanup = "deleting"
      BY <2>2, <2>3, <2>4 DEF NextCleanup, PartRow
    <3>2. part[prev][p].cleanup \notin Gone
      BY <2>4 DEF Cleanable, Gone
    <3> HIDE DEF row
    <3>3. part'[prev][p] = row => Cleans(prev, p)
      BY <2>2, <3>1, <3>2 DEF Cleans, Gone
    <3>4. part'[prev][p] = row
      BY <2>1 DEF StoreTypeOK
    <3> QED BY <2>1, <3>1, <3>3, <3>4, LinkMoves
  <2>5. CASE ~Cleanable(part[prev][p])
    <3>1. part'[prev][p] = row => SameEvidence(prev, p)
      BY <2>5 DEF SameEvidence
    <3> HIDE DEF row
    <3>2. StoreMoves(kind, d, n)
      BY <2>1, <3>1, LinkMoves
    <3> QED BY <2>5, <3>2 DEF CleanupClaimable
  <2> QED BY <2>4, <2>5
<1> QED BY <1>1, <1>2 DEF ClaimDigestPartCleanup

LEMMA RecordCleanupMoves ==
    ASSUME StoreTypeOK, NEW succ \in Rid, NEW prev \in Rid, NEW p \in PartIds, NEW k,
           NEW outcome \in Gone \cup {"failed"}, NEW kind, NEW d, NEW n,
           outcome \in Gone => <<prev, p, part[prev][p].ts>> \notin msgs,
           RecordDigestPartCleanup(succ, prev, p, k, outcome)
    PROVE  StoreMoves(kind, d, n)
<1> DEFINE row == [part[prev][p] EXCEPT !.cleanup = outcome, !.cleanupLive = FALSE]
<1>1. CASE UNCHANGED store
  BY <1>1, StutterMoves
<1>2. CASE Recordable(succ, prev, p, k, outcome) /\ ~UNCHANGED store
  <2>1. /\ part' = [part EXCEPT ![prev][p] = row]
        /\ \E owner : SettleLink(part', succ, owner, prev)
    BY <1>2 DEF RecordDigestPartCleanup
  <2>2. /\ run[succ].state \in Published /\ Before(prev, succ)
        /\ run[prev].state \in Closed /\ part[prev][p].delivery = "delivered"
        /\ part[prev][p].cleanup = "deleting" \/ part[prev][p].cleanup = outcome
    BY <1>2 DEF Recordable, CleanupTarget, CleanupHeld, CleanupReplayed, Closed, Published
  <2>3. part[prev][p] \in PartRow
    BY DEF StoreTypeOK
  <2>4. /\ row.delivery = "delivered" /\ row.attempts = part[prev][p].attempts
        /\ row.ts = part[prev][p].ts /\ row.cleanup = outcome
    BY <2>2, <2>3 DEF PartRow
  <2> HIDE DEF row
  <2>5. part'[prev][p] = row => SameEvidence(prev, p) \/ Cleans(prev, p)
    <3>1. CASE part[prev][p].cleanup = outcome
      BY <2>2, <2>4, <3>1 DEF SameEvidence
    <3>2. CASE part[prev][p].cleanup = "deleting"
      BY <2>2, <2>4, <3>2 DEF Cleans, Gone
    <3> QED BY <2>2, <3>1, <3>2
  <2> QED BY <2>1, <2>5, LinkMoves
<1> QED BY <1>1, <1>2 DEF RecordDigestPartCleanup

LEMMA TimeMoves ==
    ASSUME StoreTypeOK, NEW rid \in Rid, NEW p \in PartIds, NEW kind, NEW d, NEW n,
           CleanupLeaseExpires(rid, p) \/ RetryFallsDue(rid, p)
    PROVE  StoreMoves(kind, d, n)
<1> DEFINE row1 == [part[rid][p] EXCEPT !.cleanupLive = FALSE]
           row2 == [part[rid][p] EXCEPT !.limited = FALSE]
<1>1. /\ UNCHANGED <<run, item>>
      /\ part' = [part EXCEPT ![rid][p] = row1] \/ part' = [part EXCEPT ![rid][p] = row2]
  BY DEF CleanupLeaseExpires, RetryFallsDue
<1>2. part[rid][p] \in PartRow
  BY DEF StoreTypeOK
<1>3. part'[rid][p] = row1 \/ part'[rid][p] = row2 => SameEvidence(rid, p)
  BY <1>2 DEF SameEvidence, PartRow
<1>4. part'[rid][p] = row1 \/ part'[rid][p] = row2 => PartMoves(rid, p, kind, d, n)
  BY <1>1, <1>3 DEF PartMoves
<1> HIDE DEF row1, row2
<1> QED BY <1>1, <1>4, PartRowMoves

LEMMA ItemChangeMoves ==
    ASSUME StoreTypeOK, NEW w \in Items, NEW at, ItemChanges(w, at), NEW kind, NEW d, NEW n
    PROVE  StoreMoves(kind, d, n)
<1>1. PICK still \in BOOLEAN, since \in {item[w].since, at} :
         item' = [item EXCEPT ![w] = Revised(@, still, since)]
  BY DEF ItemChanges
<1>2. ASSUME NEW v \in Items PROVE ItemMoves(v, kind, d)
  <2>1. item[v] \in ItemRow
    BY DEF StoreTypeOK
  <2>2. Revised(item[v], still, since).included = item[v].included
    BY <2>1 DEF Revised, ItemRow
  <2>3. item'[v] = item[v] \/ item'[v] = Revised(item[v], still, since)
    BY <1>1 DEF StoreTypeOK
  <2> QED BY <2>2, <2>3 DEF ItemMoves
<1> QED BY <1>2 DEF ItemChanges, StoreMoves, RunMoves, PartMoves, SameEvidence

----------------------------------------------------------------------------
(* The invariant. *)

\* The attempt ts was made, and no further message of it can come.
Spent(rid, p, ts) == ts <= part[rid][p].attempts /\ <<rid, p, ts>> \notin Coming

\* Only claimed attempts reach the channel.
Sent == \A x \in msgs \cup Coming : x[3] <= part[x[1]][x[2]].attempts

Apart == msgs \cap inflight = {}

\* The parts of a digest are those of its manifest, and nothing is sent before it has one.
Laid ==
    \A rid \in Rid, p \in PartIds :
        /\ run[rid].manifest = NoManifest => part[rid][p].attempts = 0
        /\ run[rid].manifest # NoManifest =>
              (part[rid][p].delivery # "absent" <=> p <= Size[run[rid].manifest])

\* A stored coordinate cannot appear in the channel again, and is there while no cleanup
\* of the part was claimed.
Recorded ==
    \A rid \in Rid, p \in PartIds : part[rid][p].delivery = "delivered" =>
        /\ Spent(rid, p, part[rid][p].ts)
        /\ part[rid][p].cleanup = "idle" => Shown(rid, p)

\* Only messages of a closed digest older than a published one are cleaned.
CleanedLate ==
    \A rid \in Rid, p \in PartIds : part[rid][p].cleanup # "idle" =>
        /\ part[rid][p].delivery = "delivered" /\ run[rid].state \in Closed
        /\ \E o \in Rid : run[o].state \in Published /\ Before(rid, o)

Complete ==
    \A rid \in Rid : run[rid].state \in Published =>
        /\ run[rid].manifest # NoManifest
        /\ \A p \in PartIds : part[rid][p].delivery \in {"absent", "delivered"}

Emptied ==
    \A rid \in Rid : run[rid].state \in Cleared =>
        /\ PartsGone(part[rid])
        /\ run[rid].state = "retired" /\ run[rid].prev # NoRun => run[run[rid].prev].state \in Cleared

\* A runner about to record a coordinate found it in the channel; it may have been deleted
\* since only if another holder recorded the part first.
Settling(rec) ==
    rec.pc = "settle" =>
        /\ rec.rid \in Rid /\ rec.i \in PartIds
        /\ Spent(rec.rid, rec.i, rec.ts)
        /\ part[rec.rid][rec.i].delivery # "delivered" => <<rec.rid, rec.i, rec.ts>> \in msgs

\* A runner cleans parts whose cleanup was claimed, and one about to record a deletion
\* has seen the message go.
Cleaning(rec) ==
    rec.pc \in {"delete", "record"} =>
        /\ rec.cur \in Targets
        /\ part[rec.cur[2]][rec.cur[3]].delivery = "delivered"
        /\ part[rec.cur[2]][rec.cur[3]].cleanup # "idle"
        /\ rec.pc = "record" =>
              /\ rec.error \in Gone \cup {"failed"}
              /\ rec.error \in Gone =>
                    <<rec.cur[2], rec.cur[3], part[rec.cur[2]][rec.cur[3]].ts>> \notin msgs

Working == \A r \in Runners : Settling(rn[r]) /\ Cleaning(rn[r])

ChannelInv ==
    /\ Sent /\ Apart /\ OneAttemptOnePost /\ Laid /\ Recorded /\ CleanedLate /\ CleanedIsGone
    /\ Complete /\ Emptied /\ Working /\ CountedOncePublished

Inv == TypeInv /\ HistoryInv /\ ChannelInv

\* The rest of what a step does: attempts stay apart, and a runner that moved knows what
\* it is about to write.
RunnersMove ==
    /\ OneAttemptOnePost' /\ Apart'
    /\ \A q \in Runners : rn'[q] = rn[q] \/ (Settling(rn[q]) /\ Cleaning(rn[q]))'

Moves(kind, d, n) == StoreMoves(kind, d, n) /\ ChannelMoves(kind, d, n) /\ RunnersMove

----------------------------------------------------------------------------
(* A step so described keeps the invariant. *)

LEMMA AttemptsGrow ==
    ASSUME TypeInv, TypeInv', Laid, NEW kind, NEW d, NEW n, StoreMoves(kind, d, n),
           NEW rid \in Rid, NEW p \in PartIds
    PROVE  /\ part[rid][p].attempts \in Nat /\ part'[rid][p].attempts \in Nat
           /\ part'[rid][p].attempts >= part[rid][p].attempts
<1>1. part[rid][p] \in PartRow /\ part'[rid][p] \in PartRow
  BY DEF TypeInv, TypeOK, StoreTypeOK
<1>2. part[rid][p].attempts \in Nat /\ part'[rid][p].attempts \in Nat
  BY <1>1, StoreAssumption DEF PartRow
<1>3. PartMoves(rid, p, kind, d, n)
  BY DEF StoreMoves
<1>4. CASE Planned(rid, kind, d)
  BY <1>2, <1>4 DEF Planned, Laid
<1> QED BY <1>2, <1>3, <1>4 DEF PartMoves, SameEvidence, Attempted, Settles, Cleans

\* What is recorded stays as it is, but for its cleanup.
LEMMA DeliveredStays ==
    ASSUME Blank, NEW kind, NEW d, NEW n, StoreMoves(kind, d, n),
           NEW rid \in Rid, NEW p \in PartIds, part[rid][p].delivery = "delivered"
    PROVE  /\ part'[rid][p].delivery = "delivered" /\ part'[rid][p].ts = part[rid][p].ts
           /\ SameEvidence(rid, p) \/ Cleans(rid, p)
<1>1. PartMoves(rid, p, kind, d, n)
  BY DEF StoreMoves
<1>2. ~Planned(rid, kind, d)
  BY DEF Planned, Blank
<1> QED BY <1>1, <1>2 DEF PartMoves, SameEvidence, Attempted, Settles, Cleans

LEMMA SpentStays ==
    ASSUME TypeInv, TypeInv', Laid, NEW kind, NEW d, NEW n,
           StoreMoves(kind, d, n), ChannelMoves(kind, d, n),
           NEW rid \in Rid, NEW p \in PartIds, NEW ts \in Nat, Spent(rid, p, ts)
    PROVE  ts <= part'[rid][p].attempts /\ <<rid, p, ts>> \notin Coming'
<1>1. /\ part[rid][p].attempts \in Nat /\ part'[rid][p].attempts \in Nat
      /\ part'[rid][p].attempts >= part[rid][p].attempts
  BY AttemptsGrow
<1>2. ~Fresh(<<rid, p, ts>>)
  BY <1>1 DEF Fresh, Spent
<1> QED BY <1>1, <1>2 DEF Spent, ChannelMoves

LEMMA SentKept ==
    ASSUME Inv, TypeInv', NEW kind, NEW d, NEW n, Moves(kind, d, n)
    PROVE  Sent'
<1> SUFFICES ASSUME NEW x \in msgs' \cup Coming'
             PROVE  x[3] <= part'[x[1]][x[2]].attempts
  BY DEF Sent
<1>1. CASE x \in msgs \cup Coming
  <2>1. x \in Rid \X PartIds \X (1 .. MaxAttempts)
    BY <1>1 DEF Inv, TypeInv, TypeOK, Coming, Message, At, Focused, PartPCs
  <2>2. /\ part[x[1]][x[2]].attempts \in Nat /\ part'[x[1]][x[2]].attempts \in Nat
        /\ part'[x[1]][x[2]].attempts >= part[x[1]][x[2]].attempts
    BY <2>1, AttemptsGrow DEF Inv, ChannelInv, Moves
  <2>3. x[3] \in Nat
    BY <2>1, StoreAssumption
  <2> QED BY <1>1, <2>2, <2>3 DEF Inv, ChannelInv, Sent
<1>2. CASE x \notin msgs \cup Coming
  BY <1>2 DEF Moves, ChannelMoves, Fresh
<1> QED BY <1>1, <1>2

LEMMA LaidKept ==
    ASSUME Inv, TypeInv', NEW kind, NEW d, NEW n, Moves(kind, d, n)
    PROVE  Laid'
<1> SUFFICES ASSUME NEW rid \in Rid, NEW p \in PartIds
             PROVE  /\ run'[rid].manifest = NoManifest => part'[rid][p].attempts = 0
                    /\ run'[rid].manifest # NoManifest =>
                          (part'[rid][p].delivery # "absent" <=> p <= Size[run'[rid].manifest])
  BY DEF Laid
<1>1. RunMoves(rid, kind, d) /\ PartMoves(rid, p, kind, d, n)
  BY DEF Moves, StoreMoves
<1>2. CASE Planned(rid, kind, d)
  <2>1. run'[rid].manifest # NoManifest
    BY <1>2, StoreAssumption DEF Planned
  <2> QED BY <1>2, <2>1 DEF Planned, PlannedPart, AbsentPart
<1>3. CASE ~Planned(rid, kind, d)
  <2>1. run'[rid].manifest = run[rid].manifest
    BY <1>1, <1>3 DEF RunMoves
  <2>2. (part'[rid][p].delivery = "absent") <=> (part[rid][p].delivery = "absent")
    BY <1>1, <1>3 DEF PartMoves, SameEvidence, Attempted, Settles, Cleans
  <2>3. run[rid].manifest = NoManifest => part[rid][p].delivery = "absent"
    BY DEF Inv, HistoryInv, Blank
  <2>4. run[rid].manifest = NoManifest => part'[rid][p].attempts = part[rid][p].attempts
    BY <1>1, <1>3, <2>3 DEF PartMoves, SameEvidence, Attempted, Settles, Cleans
  <2> QED BY <2>1, <2>2, <2>4 DEF Inv, ChannelInv, Laid
<1> QED BY <1>2, <1>3

\* A part recorded in the step has the coordinate its runner knew.
LEMMA RecordedKept ==
    ASSUME Inv, TypeInv', NEW kind, NEW d, NEW n, Moves(kind, d, n)
    PROVE  Recorded'
<1> SUFFICES ASSUME NEW rid \in Rid, NEW p \in PartIds, part'[rid][p].delivery = "delivered"
             PROVE  /\ part'[rid][p].ts <= part'[rid][p].attempts
                    /\ <<rid, p, part'[rid][p].ts>> \notin Coming'
                    /\ part'[rid][p].cleanup = "idle" => <<rid, p, part'[rid][p].ts>> \in msgs'
  BY DEF Recorded, Spent, Shown
<1>0. PartMoves(rid, p, kind, d, n) /\ StoreMoves(kind, d, n) /\ ChannelMoves(kind, d, n)
  BY DEF Moves, StoreMoves
<1>1. CASE part[rid][p].delivery = "delivered"
  <2>1. /\ part'[rid][p].ts = part[rid][p].ts
        /\ SameEvidence(rid, p) \/ Cleans(rid, p)
    BY <1>0, <1>1, DeliveredStays DEF Inv, HistoryInv
  <2>2. part[rid][p] \in PartRow
    BY DEF Inv, TypeInv, TypeOK, StoreTypeOK
  <2>3. part[rid][p].ts \in Nat
    BY <2>2, StoreAssumption DEF PartRow
  <2>4. Spent(rid, p, part[rid][p].ts)
    BY <1>1 DEF Inv, ChannelInv, Recorded
  <2>5. /\ part[rid][p].ts <= part'[rid][p].attempts
        /\ <<rid, p, part[rid][p].ts>> \notin Coming'
    BY <1>0, <2>3, <2>4, SpentStays DEF Inv, ChannelInv
  <2>6. ASSUME part'[rid][p].cleanup = "idle" PROVE <<rid, p, part[rid][p].ts>> \in msgs'
    <3>1. part[rid][p].cleanup = "idle"
      BY <2>1, <2>6 DEF SameEvidence, Cleans
    <3>2. <<rid, p, part[rid][p].ts>> \in msgs
      BY <1>1, <3>1 DEF Inv, ChannelInv, Recorded, Shown
    <3> QED BY <1>0, <3>1, <3>2 DEF ChannelMoves
  <2> QED BY <2>1, <2>5, <2>6
<1>2. CASE part[rid][p].delivery # "delivered"
  <2>1. Settles(rid, p)
    <3>1. ~Planned(rid, kind, d)
      BY DEF Planned, PlannedPart, AbsentPart
    <3> QED BY <1>0, <1>2, <3>1 DEF PartMoves, SameEvidence, Attempted, Cleans
  <2>2. PICK r \in Runners : /\ At(r, "settle") /\ rn[r].rid = rid /\ rn[r].i = p
                             /\ part'[rid][p].ts = rn[r].ts
    BY <2>1 DEF Settles
  <2>3. rn[r] \in RunnerState
    BY DEF Inv, TypeInv, TypeOK
  <2>4. rn[r].ts \in Nat
    BY <2>3, StoreAssumption DEF RunnerState
  <2>5. Spent(rid, p, rn[r].ts) /\ <<rid, p, rn[r].ts>> \in msgs
    BY <1>2, <2>2 DEF Inv, ChannelInv, Working, Settling, At
  <2>6. /\ rn[r].ts <= part'[rid][p].attempts
        /\ <<rid, p, rn[r].ts>> \notin Coming'
    BY <1>0, <2>4, <2>5, SpentStays DEF Inv, ChannelInv
  <2>7. <<rid, p, rn[r].ts>> \in msgs'
    BY <1>0, <1>2, <2>5 DEF ChannelMoves
  <2> QED BY <2>2, <2>6, <2>7
<1> QED BY <1>1, <1>2

LEMMA StatesKept ==
    ASSUME NEW kind, NEW d, NEW n, StoreMoves(kind, d, n), NEW rid \in Rid
    PROVE  /\ run[rid].state \in Published => run'[rid].state \in Published
           /\ run[rid].state \in Closed => run'[rid].state \in Closed
           /\ run[rid].state \in Cleared =>
                 run'[rid].state = run[rid].state /\ run'[rid].prev = run[rid].prev
<1>1. RunMoves(rid, kind, d)
  BY DEF StoreMoves
<1> QED BY <1>1 DEF RunMoves, Planned, Published, Closed, Cleared, Unfinished

LEMMA CleanupKept ==
    ASSUME Inv, TypeInv', NEW kind, NEW d, NEW n, Moves(kind, d, n)
    PROVE  CleanedLate' /\ CleanedIsGone'
<1>0. StoreMoves(kind, d, n) /\ ChannelMoves(kind, d, n)
  BY DEF Moves
<1>1. ASSUME NEW rid \in Rid, NEW p \in PartIds, part'[rid][p].cleanup # "idle"
      PROVE  /\ part[rid][p].delivery = "delivered" /\ part'[rid][p].delivery = "delivered"
             /\ SameEvidence(rid, p) \/ Cleans(rid, p)
             /\ part'[rid][p].ts = part[rid][p].ts
             /\ run'[rid].state \in Closed
             /\ \E o \in Rid : run'[o].state \in Published /\ Before(rid, o)
  <2>1. PartMoves(rid, p, kind, d, n)
    BY <1>0 DEF StoreMoves
  <2>2. part[rid][p].cleanup # "idle" \/ Cleans(rid, p)
    BY <1>1, <2>1
       DEF PartMoves, SameEvidence, Planned, PlannedPart, AbsentPart, Attempted, Settles
  <2>3. /\ part[rid][p].delivery = "delivered" /\ run[rid].state \in Closed
        /\ \E o \in Rid : run[o].state \in Published /\ Before(rid, o)
    BY <2>2 DEF Inv, ChannelInv, CleanedLate, Cleans
  <2> QED BY <1>0, <2>3, DeliveredStays, StatesKept DEF Inv, HistoryInv
<1>2. CleanedLate'
  BY <1>1 DEF CleanedLate
<1>3. ASSUME NEW rid \in Rid, NEW p \in PartIds, part'[rid][p].cleanup \in Gone
      PROVE  part'[rid][p].delivery = "delivered" /\ <<rid, p, part'[rid][p].ts>> \notin msgs'
  <2>1. part'[rid][p].cleanup # "idle"
    BY <1>3 DEF Gone
  <2>2. /\ part[rid][p].delivery = "delivered" /\ part'[rid][p].delivery = "delivered"
        /\ SameEvidence(rid, p) \/ Cleans(rid, p)
        /\ part'[rid][p].ts = part[rid][p].ts
    BY <1>1, <2>1
  <2>3. <<rid, p, part[rid][p].ts>> \notin msgs
    BY <1>3, <2>2 DEF Inv, ChannelInv, CleanedIsGone, Shown, SameEvidence, Cleans
  <2>4. <<rid, p, part[rid][p].ts>> \notin Coming
    BY <2>2 DEF Inv, ChannelInv, Recorded, Spent
  <2> QED BY <1>0, <2>2, <2>3, <2>4 DEF ChannelMoves
<1>4. CleanedIsGone'
  BY <1>3 DEF CleanedIsGone, Shown
<1> QED BY <1>2, <1>4

LEMMA CompleteKept ==
    ASSUME Inv, TypeInv', NEW kind, NEW d, NEW n, Moves(kind, d, n)
    PROVE  Complete'
<1> SUFFICES ASSUME NEW rid \in Rid, run'[rid].state \in Published
             PROVE  /\ run'[rid].manifest # NoManifest
                    /\ \A p \in PartIds : part'[rid][p].delivery \in {"absent", "delivered"}
  BY DEF Complete
<1>1. RunMoves(rid, kind, d)
  BY DEF Moves, StoreMoves
<1>2. ~Planned(rid, kind, d)
  BY DEF Planned, Published, Unfinished
<1>3. /\ run[rid].manifest # NoManifest
      /\ \A p \in PartIds : part[rid][p].delivery \in {"absent", "delivered"}
  BY <1>1 DEF RunMoves, Published, Unfinished, Inv, ChannelInv, Complete
<1>4. ASSUME NEW p \in PartIds PROVE part'[rid][p].delivery \in {"absent", "delivered"}
  <2>1. PartMoves(rid, p, kind, d, n)
    BY DEF Moves, StoreMoves
  <2> QED BY <1>2, <1>3, <2>1 DEF PartMoves, SameEvidence, Attempted, Settles, Cleans
<1> QED BY <1>1, <1>2, <1>3, <1>4 DEF RunMoves

LEMMA EmptiedKept ==
    ASSUME Inv, TypeInv', NEW kind, NEW d, NEW n, Moves(kind, d, n)
    PROVE  Emptied'
<1> SUFFICES ASSUME NEW rid \in Rid, run'[rid].state \in Cleared
             PROVE  /\ PartsGone(part'[rid])
                    /\ run'[rid].state = "retired" /\ run'[rid].prev # NoRun =>
                          run'[run'[rid].prev].state \in Cleared
  BY DEF Emptied, PartsGone
<1>0. StoreMoves(kind, d, n)
  BY DEF Moves
<1>1. RunMoves(rid, kind, d)
  BY <1>0 DEF StoreMoves
<1>2. CASE run[rid].state \in Cleared
  <2>1. run'[rid].state = run[rid].state /\ run'[rid].prev = run[rid].prev
    BY <1>0, <1>2, StatesKept
  <2>2. /\ PartsGone(part[rid])
        /\ run[rid].state = "retired" /\ run[rid].prev # NoRun => run[run[rid].prev].state \in Cleared
    BY <1>2 DEF Inv, ChannelInv, Emptied
  <2>3. run[rid].prev # NoRun => run[rid].prev \in Rid
    <3>1. run[rid] \in Row
      BY DEF Inv, TypeInv, TypeOK, StoreTypeOK
    <3> QED BY <3>1 DEF Row
  <2>4. ASSUME NEW p \in PartIds, part'[rid][p].delivery = "delivered"
        PROVE  part'[rid][p].cleanup \in Gone
    <3>1. PartMoves(rid, p, kind, d, n)
      BY <1>0 DEF StoreMoves
    <3>2. run[rid].state \notin Unfinished
      BY <1>2 DEF Cleared, Unfinished
    <3>3. part[rid][p].delivery = "delivered"
      BY <2>4, <3>1, <3>2 DEF PartMoves, SameEvidence, Planned, Attempted, Settles, Cleans
    <3>4. part[rid][p].cleanup \in Gone
      BY <2>2, <3>3 DEF PartsGone
    <3> QED BY <3>1, <3>2, <3>4 DEF PartMoves, SameEvidence, Planned, Attempted, Settles, Cleans
  <2> QED BY <1>0, <2>1, <2>2, <2>3, <2>4, StatesKept DEF PartsGone
<1>3. CASE run[rid].state \notin Cleared
  <2> QED BY <1>1, <1>3 DEF RunMoves, Cleared, Unfinished
<1> QED BY <1>2, <1>3

LEMMA WorkingKept ==
    ASSUME Inv, TypeInv', NEW kind, NEW d, NEW n, Moves(kind, d, n)
    PROVE  Working'
<1>0. StoreMoves(kind, d, n) /\ ChannelMoves(kind, d, n)
  BY DEF Moves
<1> SUFFICES ASSUME NEW q \in Runners, rn'[q] = rn[q]
             PROVE  (Settling(rn[q]) /\ Cleaning(rn[q]))'
  BY DEF Moves, RunnersMove, Working
<1>1. Settling(rn[q]) /\ Cleaning(rn[q]) /\ rn[q] \in RunnerState
  BY DEF Inv, ChannelInv, Working, TypeInv, TypeOK
<1>2. Settling(rn[q])'
  <2> DEFINE rid == rn[q].rid
             p == rn[q].i
             ts == rn[q].ts
  <2> SUFFICES ASSUME rn[q].pc = "settle"
               PROVE  /\ rid \in Rid /\ p \in PartIds
                      /\ ts <= part'[rid][p].attempts /\ <<rid, p, ts>> \notin Coming'
                      /\ part'[rid][p].delivery # "delivered" => <<rid, p, ts>> \in msgs'
    BY DEF Settling, Spent
  <2>1. rid \in Rid /\ p \in PartIds /\ ts \in Nat /\ Spent(rid, p, ts)
    BY <1>1, StoreAssumption DEF Settling, RunnerState
  <2>2. ts <= part'[rid][p].attempts /\ <<rid, p, ts>> \notin Coming'
    BY <1>0, <2>1, SpentStays DEF Inv, ChannelInv
  <2>3. ASSUME part'[rid][p].delivery # "delivered" PROVE <<rid, p, ts>> \in msgs'
    <3>1. part[rid][p].delivery # "delivered"
      BY <1>0, <2>1, <2>3, DeliveredStays DEF Inv, HistoryInv
    <3>2. <<rid, p, ts>> \in msgs
      BY <1>1, <3>1 DEF Settling
    <3> QED BY <1>0, <3>1, <3>2 DEF ChannelMoves
  <2> QED BY <2>1, <2>2, <2>3
<1>3. Cleaning(rn[q])'
  <2> DEFINE rid == rn[q].cur[2]
             p == rn[q].cur[3]
  <2> SUFFICES ASSUME rn[q].pc \in {"delete", "record"}
               PROVE  /\ rn[q].cur \in Targets
                      /\ part'[rid][p].delivery = "delivered" /\ part'[rid][p].cleanup # "idle"
                      /\ rn[q].pc = "record" =>
                            /\ rn[q].error \in Gone \cup {"failed"}
                            /\ rn[q].error \in Gone => <<rid, p, part'[rid][p].ts>> \notin msgs'
    BY DEF Cleaning
  <2>1. /\ rn[q].cur \in Targets /\ rid \in Rid /\ p \in PartIds
        /\ part[rid][p].delivery = "delivered" /\ part[rid][p].cleanup # "idle"
        /\ rn[q].pc = "record" =>
              /\ rn[q].error \in Gone \cup {"failed"}
              /\ rn[q].error \in Gone => <<rid, p, part[rid][p].ts>> \notin msgs
    BY <1>1 DEF Cleaning, Targets
  <2>2. /\ part'[rid][p].delivery = "delivered" /\ part'[rid][p].ts = part[rid][p].ts
        /\ SameEvidence(rid, p) \/ Cleans(rid, p)
    BY <1>0, <2>1, DeliveredStays DEF Inv, HistoryInv
  <2>3. part'[rid][p].cleanup # "idle"
    BY <2>1, <2>2 DEF SameEvidence, Cleans
  <2>4. <<rid, p, part[rid][p].ts>> \notin Coming
    BY <2>1 DEF Inv, ChannelInv, Recorded, Spent
  <2>5. <<rid, p, part[rid][p].ts>> \notin msgs => <<rid, p, part'[rid][p].ts>> \notin msgs'
    BY <1>0, <2>2, <2>4 DEF ChannelMoves
  <2> QED BY <2>1, <2>2, <2>3, <2>5
<1> QED BY <1>2, <1>3

LEMMA CountedKept ==
    ASSUME Inv, TypeInv', NEW kind, NEW d \in Rid, NEW n, Moves(kind, d, n)
    PROVE  CountedOncePublished'
<1> DEFINE Shows(w) == {rid \in Rid : /\ run[rid].state \in Published
                                      /\ w \in {e[1] : e \in Includes[run[rid].manifest]}}
           After(w) == {rid \in Rid : /\ run'[rid].state \in Published
                                      /\ w \in {e[1] : e \in Includes[run'[rid].manifest]}}
<1>0. StoreMoves(kind, d, n)
  BY DEF Moves
<1> SUFFICES ASSUME NEW w \in Items PROVE item'[w].included <= Cardinality(After(w))
  BY DEF CountedOncePublished
<1>1. ASSUME NEW rid \in Rid, run[rid].state \in Published \cup Unfinished,
             run'[rid].state \in Published
      PROVE  run'[rid].manifest = run[rid].manifest
  <2>1. RunMoves(rid, kind, d)
    BY <1>0 DEF StoreMoves
  <2> QED BY <1>1, <2>1 DEF RunMoves, Planned, Unfinished, Published
<1>2. Shows(w) \subseteq After(w)
  BY <1>0, <1>1, StatesKept
<1>3. /\ IsFiniteSet(Shows(w)) /\ IsFiniteSet(After(w))
      /\ Cardinality(Shows(w)) \in Nat /\ Cardinality(After(w)) \in Nat
      /\ Cardinality(Shows(w)) <= Cardinality(After(w))
  <2> HIDE DEF Shows
  <2>1. IsFiniteSet(After(w))
    BY RidFinite, FS_Subset
  <2> HIDE DEF After
  <2>2. IsFiniteSet(Shows(w)) /\ Cardinality(Shows(w)) <= Cardinality(After(w))
    BY <1>2, <2>1, FS_Subset
  <2> QED BY <2>1, <2>2, FS_CardinalityType
<1>4. item[w].included \in Nat /\ item[w].included <= Cardinality(Shows(w))
  <2>1. item[w] \in ItemRow
    BY DEF Inv, TypeInv, TypeOK, StoreTypeOK
  <2> QED BY <2>1 DEF ItemRow, Inv, ChannelInv, CountedOncePublished
<1>5. CASE item'[w].included = item[w].included
  <2> HIDE DEF Shows, After
  <2> QED BY <1>3, <1>4, <1>5
<1>6. CASE /\ run[d].state \notin Published /\ run'[d].state \in Published
           /\ AsShown(w, run[d].manifest) /\ item'[w].included = item[w].included + 1
  <2>1. d \notin Shows(w)
    BY <1>6
  <2>2. d \in After(w)
    <3>1. RunMoves(d, kind, d)
      BY <1>0 DEF StoreMoves
    <3>2. run'[d].manifest = run[d].manifest
      BY <1>6, <3>1 DEF RunMoves, Planned, Unfinished, Published
    <3> QED BY <1>6, <3>2 DEF AsShown
  <2> HIDE DEF Shows, After
  <2>3. Shows(w) \cup {d} \subseteq After(w)
    BY <1>2, <2>2
  <2>4. Cardinality(Shows(w) \cup {d}) = Cardinality(Shows(w)) + 1
    BY <1>3, <2>1, FS_AddElement
  <2>5. Cardinality(Shows(w) \cup {d}) <= Cardinality(After(w))
    BY <1>3, <2>3, FS_Subset
  <2> QED BY <1>3, <1>4, <1>6, <2>4, <2>5
<1>7. ItemMoves(w, kind, d)
  BY <1>0 DEF StoreMoves
<1> QED BY <1>5, <1>6, <1>7 DEF ItemMoves

LEMMA MovesKeep ==
    ASSUME Inv, TypeInv', NEW kind, NEW d \in Rid, NEW n, Moves(kind, d, n)
    PROVE  ChannelInv'
BY SentKept, LaidKept, RecordedKept, CleanupKept, CompleteKept, EmptiedKept, WorkingKept,
   CountedKept
   DEF ChannelInv, Moves, RunnersMove

----------------------------------------------------------------------------
(* Every action is such a step. *)

\* Control points whose runner knows more than what it read.
Watched == {"post", "settle", "delete", "record"}

LEMMA CalmMoves ==
    ASSUME Inv, UNCHANGED <<msgs, inflight>>,
           \A q \in Runners : \/ rn'[q] = rn[q]
                              \/ rn'[q].pc # "post" /\ (Settling(rn[q]) /\ Cleaning(rn[q]))',
           NEW kind, NEW d, NEW n
    PROVE  ChannelMoves(kind, d, n) /\ RunnersMove
<1>1. ASSUME NEW q \in Runners, rn'[q].pc = "post" PROVE rn'[q] = rn[q]
  BY <1>1
<1>2. Coming' \subseteq Coming
  BY <1>1 DEF Coming, At, Message
<1>3. ChannelMoves(kind, d, n)
  BY <1>2 DEF ChannelMoves
<1>4. OneAttemptOnePost'
  BY <1>1 DEF OneAttemptOnePost, At, Message, Inv, ChannelInv
<1>5. Apart'
  BY DEF Apart, Inv, ChannelInv
<1> QED BY <1>3, <1>4, <1>5 DEF RunnersMove

LEMMA PlainMoves ==
    ASSUME Inv, UNCHANGED <<msgs, inflight>>, NEW r \in Runners, NEW rec, Go(r, rec),
           rec.pc \notin Watched, NEW kind, NEW d, NEW n
    PROVE  ChannelMoves(kind, d, n) /\ RunnersMove
<1>1. /\ rn'[r] = rec
      /\ \A q \in Runners \ {r} : rn'[q] = rn[q]
  BY DEF Go, Inv, TypeInv, TypeOK
<1>2. rn'[r].pc # "post" /\ (Settling(rn[r]) /\ Cleaning(rn[r]))'
  BY <1>1 DEF Watched, Settling, Cleaning
<1>3. \A q \in Runners : \/ rn'[q] = rn[q]
                         \/ rn'[q].pc # "post" /\ (Settling(rn[q]) /\ Cleaning(rn[q]))'
  BY <1>1, <1>2
<1> QED BY <1>3, CalmMoves

\* The records a runner moves to without knowing more.
LEMMA PlainRecords ==
    ASSUME NEW rec \in RunnerState, NEW targets
    PROVE  /\ NextPart(rec).pc \notin Watched
           /\ EndWindow(rec).pc \notin Watched
           /\ Clean(rec, targets).pc \notin Watched
           /\ Idle.pc \notin Watched
<1>1. ASSUME NEW i PROVE PartAt(rec, i).pc \notin Watched
  <2> DEFINE seen == IF i <= MaxParts THEN rec.view[i] ELSE [delivery |-> "absent", attempts |-> 0]
             pc == CASE seen.delivery = "absent" -> IF rec.diverged THEN "diverge" ELSE "finalize"
                     [] seen.delivery = "delivering" -> "search"
                     [] seen.delivery = "delivered" -> "skip"
                     [] OTHER -> IF rec.diverged THEN "skip" ELSE "claim_part"
  <2>1. pc \notin Watched
    BY DEF Watched
  <2>2. PartAt(rec, i).pc = pc
    <3> HIDE DEF pc
    <3>1. PartAt(rec, i) = [rec EXCEPT !.i = i, !.ts = 0, !.error = "none",
                              !.k = IF seen.delivery = "delivering" THEN seen.attempts ELSE 0,
                              !.pc = pc]
      BY DEF PartAt, pc
    <3> QED BY <3>1 DEF RunnerState
  <2> QED BY <2>1, <2>2
<1> QED BY <1>1 DEF NextPart, EndWindow, Clean, Idle, Watched

LEMMA PlainOfRunner ==
    ASSUME NEW r, rn[r] \in RunnerState, NEW rid, NEW window
    PROVE  /\ ToCleanup(r).pc \notin Watched
           /\ ToFailRun(r).pc \notin Watched
           /\ Claimed(r, rid, window).pc \notin Watched
           /\ [rn[r] EXCEPT !.pc = "claim"].pc \notin Watched
           /\ [rn[r] EXCEPT !.pc = "search"].pc \notin Watched
           /\ ToSettleFailed(r).pc \notin Watched
BY DEF ToCleanup, Idle, ToFailRun, Claimed, ToSettleFailed, RunnerState, Watched

LEMMA PlainPrepare ==
    ASSUME NEW r, rn[r] \in RunnerState, StoreTypeOK
    PROVE  AfterPrepare(r).pc \notin Watched
<1> DEFINE view == PreparedParts(rn[r].rid, rn[r].m)
           mismatch == Mismatch(rn[r].rid, rn[r].tok, rn[r].m)
           rec == [rn[r] EXCEPT !.m = NoManifest, !.view = view, !.diverged = mismatch]
           seen == IF 1 <= MaxParts THEN rec.view[1] ELSE [delivery |-> "absent", attempts |-> 0]
           pc == CASE seen.delivery = "absent" -> IF rec.diverged THEN "diverge" ELSE "finalize"
                   [] seen.delivery = "delivering" -> "search"
                   [] seen.delivery = "delivered" -> "skip"
                   [] OTHER -> IF rec.diverged THEN "skip" ELSE "claim_part"
<1>1. pc \notin Watched
  BY DEF Watched
<1>2. DOMAIN rec = DOMAIN rn[r]
  OBVIOUS
<1>3. PartAt(rec, 1) = [rec EXCEPT !.i = 1, !.ts = 0, !.error = "none",
                          !.k = IF seen.delivery = "delivering" THEN seen.attempts ELSE 0,
                          !.pc = pc]
  BY DEF PartAt
<1> HIDE DEF pc
<1>4. PartAt(rec, 1).pc = pc
  <2>1. "pc" \in DOMAIN rec
    BY <1>2 DEF RunnerState
  <2> HIDE DEF rec
  <2> QED BY <1>3, <2>1
<1> QED BY <1>1, <1>4, PlainOfRunner DEF AfterPrepare

Kinds == {"none", "plan", "pin", "publish", "take_down"}

SomeMove == \E kind \in Kinds, d \in Rid, n \in PartIds : Moves(kind, d, n)

LEMMA PlainStep ==
    ASSUME Inv, UNCHANGED <<msgs, inflight>>, NEW r \in Runners, NEW rec, Go(r, rec),
           rec.pc \notin Watched,
           \/ UNCHANGED store
           \/ \E kind \in Kinds, d \in Rid, n \in PartIds : StoreMoves(kind, d, n)
    PROVE  SomeMove
<1>1. <<1, 1>> \in Rid /\ 1 \in PartIds /\ "none" \in Kinds
  BY StoreAssumption DEF Rid, Slots, Gens, PartIds, Kinds
<1>2. PICK kind \in Kinds, d \in Rid, n \in PartIds : StoreMoves(kind, d, n)
  BY <1>1, StutterMoves
<1>3. ChannelMoves(kind, d, n) /\ RunnersMove
  BY PlainMoves
<1> QED BY <1>2, <1>3 DEF SomeMove, Moves

\* The actions that only move the runner.
LEMMA LocalMoves ==
    ASSUME Inv, NEW r \in Runners,
           StartCycle(r) \/ ReadReport(r) \/ SkipPart(r) \/ ListBacklog(r) \/ Crash(r)
    PROVE  SomeMove
<1>1. rn[r] \in RunnerState
  BY DEF Inv, TypeInv, TypeOK
<1>2. UNCHANGED store /\ UNCHANGED <<msgs, inflight>>
  BY DEF StartCycle, ReadReport, SkipPart, ListBacklog, Crash, slack
<1>3. [Idle EXCEPT !.pc = "recover", !.at = now].pc \notin Watched
  BY DEF Idle, Watched
<1>4. ASSUME NEW m PROVE [rn[r] EXCEPT !.pc = "prepare", !.m = m].pc \notin Watched
  BY <1>1 DEF RunnerState, Watched
<1>5. \E rec : Go(r, rec) /\ rec.pc \notin Watched
  <2>1. CASE StartCycle(r)
    BY <1>3, <2>1 DEF StartCycle
  <2>2. CASE ReadReport(r)
    BY <1>1, <1>4, <2>2, PlainOfRunner DEF ReadReport
  <2>3. CASE SkipPart(r) \/ ListBacklog(r) \/ Crash(r)
    BY <1>1, <2>3, PlainRecords DEF SkipPart, ListBacklog, Crash
  <2> QED BY <2>1, <2>2, <2>3
<1> QED BY <1>2, <1>5, PlainStep

\* The actions that claim a run or change the one the runner holds.
LEMMA RunMove ==
    ASSUME Inv, NEW r \in Runners,
           ClaimRecovery(r) \/ ClaimCurrent(r) \/ Prepare(r) \/ Finalize(r) \/ FailRun(r) \/ Diverge(r)
    PROVE  SomeMove
<1> DEFINE rec == rn[r]
           s == SlotOf(rn[r].at)
<1>0. <<1, 1>> \in Rid /\ 1 \in PartIds /\ {"none", "plan", "publish"} \subseteq Kinds
  BY StoreAssumption DEF Rid, Slots, Gens, PartIds, Kinds
<1>1. rec \in RunnerState /\ Focused(rec) /\ StoreTypeOK /\ Blank
  BY DEF Inv, TypeInv, TypeOK, HistoryInv
<1>2. rec.rid \in Rid \cup {NoRun} /\ rec.at \in Nat /\ s \in Slots
  BY <1>1, SlotType, RunnerAssumption DEF RunnerState
<1>3. /\ ToCleanup(r).pc \notin Watched /\ ToFailRun(r).pc \notin Watched
      /\ [rn[r] EXCEPT !.pc = "claim"].pc \notin Watched
      /\ \A rid, window : Claimed(r, rid, window).pc \notin Watched
      /\ AfterPrepare(r).pc \notin Watched
  BY <1>1, PlainOfRunner, PlainPrepare
<1>4. UNCHANGED <<msgs, inflight>> /\ \E next : Go(r, next) /\ next.pc \notin Watched
  BY <1>3 DEF ClaimRecovery, ClaimCurrent, Prepare, Finalize, FailRun, Diverge, Call
<1> SUFFICES ASSUME ~UNCHANGED store
             PROVE  \E kind \in Kinds, d \in Rid, n \in PartIds : StoreMoves(kind, d, n)
  BY <1>4, PlainStep
<1>5. CASE ClaimRecovery(r)
  <2> DEFINE token == TokenFor(DivergentClaimable(s))
  <2>1. ClaimDivergentDigestRun(s, token)
    BY <1>5 DEF ClaimRecovery, Call
  <2>2. token \in Tokens \cup {NoToken}
    BY TokenForType
  <2> HIDE DEF token, s
  <2> QED BY <1>0, <1>1, <1>2, <2>1, <2>2, ClaimDivergentMoves
<1>6. CASE ClaimCurrent(r)
  <2> DEFINE token == TokenFor(Claimable(s))
  <2>1. ClaimDigestRun(s, token)
    BY <1>6 DEF ClaimCurrent, Call
  <2>2. token \in Tokens \cup {NoToken}
    BY TokenForType
  <2> HIDE DEF token, s
  <2> QED BY <1>0, <1>1, <1>2, <2>1, <2>2, ClaimMoves
<1>7. CASE Prepare(r)
  <2>1. PrepareDigestParts(rec.rid, rec.tok, rec.m) /\ rec.m \in Manifests
    BY <1>1, <1>7 DEF Prepare, Call, At, Focused
  <2>2. rec.rid \in Rid /\ StoreMoves("plan", rec.rid, 1)
    BY <1>1, <1>2, <2>1, PrepareMoves
  <2> QED BY <1>0, <2>2
<1>8. CASE Finalize(r)
  <2>1. FinalizeDigestRun(rec.rid, rec.tok, rec.at)
    BY <1>8 DEF Finalize, Call
  <2>2. rec.rid \in Rid /\ StoreMoves("publish", rec.rid, 1)
    BY <1>1, <1>2, <2>1, FinalizeMoves
  <2> QED BY <1>0, <2>2
<1>9. CASE FailRun(r) \/ Diverge(r)
  <2>1. MarkDigestGenerationDiverged(rec.rid, rec.tok) \/ FailDigestRun(rec.rid, rec.tok)
    BY <1>9 DEF FailRun, Diverge, Call
  <2> QED BY <1>0, <1>1, <1>2, <2>1, RunCallMoves
<1> QED BY <1>5, <1>6, <1>7, <1>8, <1>9

\* Recording an attempt, either way.
LEMMA SettleMove ==
    ASSUME Inv, NEW r \in Runners, SettleDelivered(r) \/ SettleFailed(r)
    PROVE  SomeMove
<1> DEFINE rec == rn[r]
<1>0. <<1, 1>> \in Rid /\ 1 \in PartIds /\ {"none", "pin"} \subseteq Kinds
  BY StoreAssumption DEF Rid, Slots, Gens, PartIds, Kinds
<1>1. /\ rec \in RunnerState /\ Focused(rec) /\ StoreTypeOK
      /\ rec.rid \in Rid \cup {NoRun} /\ rec.i \in PartIds
  BY DEF Inv, TypeInv, TypeOK, RunnerState, Focused, PartPCs, At, SettleDelivered, SettleFailed
<1>2. UNCHANGED <<msgs, inflight>> /\ \E next : Go(r, next) /\ next.pc \notin Watched
  <2>1. /\ ToCleanup(r).pc \notin Watched /\ ToFailRun(r).pc \notin Watched
        /\ NextPart(rec).pc \notin Watched
    BY <1>1, PlainOfRunner, PlainRecords
  <2> QED BY <2>1 DEF SettleDelivered, SettleFailed, Call
<1> SUFFICES ASSUME ~UNCHANGED store
             PROVE  \E kind \in Kinds, d \in Rid, n \in PartIds : StoreMoves(kind, d, n)
  BY <1>2, PlainStep
<1>3. CASE SettleDelivered(r)
  <2>1. /\ MarkDigestPartDelivered(rn[r].rid, rn[r].tok, rn[r].i, rn[r].k, rn[r].ts)
        /\ At(r, "settle")
    BY <1>3 DEF SettleDelivered, Call
  <2>2. rn[r].rid \in Rid /\ rn[r].i \in PartIds /\ StoreMoves("pin", rn[r].rid, rn[r].i)
    BY <2>1, SettleMoves DEF Inv
  <2> QED BY <1>0, <2>2
<1>4. CASE SettleFailed(r)
  <2>1. MarkDigestPartFailed(rec.rid, rec.tok, rec.i, rec.k, rec.error = "rate_limited")
    BY <1>4 DEF SettleFailed, Call
  <2>2. StoreMoves("none", <<1, 1>>, 1)
    BY <1>1, <2>1, AttemptMoves, Zenon
  <2> QED BY <1>0, <2>2
<1> QED BY <1>3, <1>4

\* A claimed attempt is one nobody else can post, because none above the part's counter was
\* ever sent.
LEMMA ClaimPartMove ==
    ASSUME Inv, NEW r \in Runners, ClaimPart(r)
    PROVE  SomeMove
<1> DEFINE rid == rn[r].rid
           tok == rn[r].tok
           i == rn[r].i
           k == part[rid][i].attempts + 1
           post == [rn[r] EXCEPT !.pc = "post", !.k = k]
<1>0. <<1, 1>> \in Rid /\ 1 \in PartIds /\ "none" \in Kinds
  BY StoreAssumption DEF Rid, Slots, Gens, PartIds, Kinds
<1>1. /\ rn[r] \in RunnerState /\ StoreTypeOK /\ rn \in [Runners -> RunnerState]
      /\ rid \in Rid \cup {NoRun} /\ i \in PartIds
  BY DEF Inv, TypeInv, TypeOK, RunnerState, Focused, PartPCs, At, ClaimPart
<1>2. /\ UNCHANGED <<msgs, inflight>>
      /\ ClaimDigestPartDelivery(rid, tok, i) \/ UNCHANGED store
  BY DEF ClaimPart, Call
<1>3. StoreMoves("none", <<1, 1>>, 1)
  BY <1>1, <1>2, AttemptMoves, StutterMoves
<1>4. CASE \E next : Go(r, next) /\ next.pc \notin Watched
  BY <1>0, <1>2, <1>3, <1>4, PlainStep
<1>5. CASE PartClaimable(rid, tok, i) /\ ClaimDigestPartDelivery(rid, tok, i) /\ Go(r, post)
  <2>1. rid \in Rid
    BY <1>1, <1>5 DEF PartClaimable, HoldsLease
  <2>2. part[rid][i] \in PartRow
    BY <1>1, <2>1 DEF StoreTypeOK
  <2>3. part[rid][i].attempts \in Nat
    BY <2>2, StoreAssumption DEF PartRow
  <2>4. part'[rid][i].attempts = k
    <3>1. part'[rid][i] = NextAttempt(part[rid][i])
      BY <1>1, <1>5, <2>1 DEF ClaimDigestPartDelivery, StoreTypeOK
    <3> QED BY <2>2, <3>1 DEF NextAttempt, PartRow
  <2>5. post.pc = "post" /\ post.rid = rid /\ post.i = i /\ post.k = k
    BY <1>1 DEF RunnerState
  <2>6. rn'[r] = post /\ \A q \in Runners \ {r} : rn'[q] = rn[q]
    BY <1>1, <1>5 DEF Go
  <2> HIDE DEF post
  <2>7. /\ At(r, "post")' /\ Message(r)' = <<rid, i, k>>
        /\ \A q \in Runners \ {r} : (At(q, "post")' <=> At(q, "post")) /\ Message(q)' = Message(q)
    BY <2>5, <2>6 DEF At, Message
  <2>8. ASSUME NEW x \in Coming' PROVE x \in Coming \/ Fresh(x)
    <3>1. CASE x = <<rid, i, k>>
      BY <2>3, <2>4, <3>1 DEF Fresh
    <3>2. CASE x # <<rid, i, k>>
      BY <1>2, <2>7, <2>8, <3>2 DEF Coming
    <3> QED BY <3>1, <3>2
  <2>9. ChannelMoves("none", <<1, 1>>, 1)
    BY <1>2, <2>8 DEF ChannelMoves
  <2>10. <<rid, i, k>> \notin msgs \cup Coming
    BY <2>3 DEF Inv, ChannelInv, Sent
  <2>11. OneAttemptOnePost'
    BY <1>2, <2>7, <2>10 DEF OneAttemptOnePost, Coming, Inv, ChannelInv
  <2>12. (Settling(rn[r]) /\ Cleaning(rn[r]))'
    BY <2>5, <2>6 DEF Settling, Cleaning
  <2>13. RunnersMove
    BY <1>2, <2>6, <2>11, <2>12 DEF RunnersMove, Apart, Inv, ChannelInv
  <2> QED BY <1>0, <1>3, <2>9, <2>13 DEF SomeMove, Moves
<1> QED
  <2>1. ToCleanup(r).pc \notin Watched /\ ToFailRun(r).pc \notin Watched
    BY <1>1, PlainOfRunner
  <2> QED BY <1>4, <1>5, <2>1 DEF ClaimPart, Call, AfterPartClaim

\* A post ends the attempt: no further message of it comes but the one Slack may hold.
LEMMA PostMove ==
    ASSUME Inv, NEW r \in Runners, Post(r)
    PROVE  SomeMove
<1> DEFINE settle == [rn[r] EXCEPT !.pc = "settle", !.ts = rn[r].k]
           search == [rn[r] EXCEPT !.pc = "search"]
           Refused(why) == [rn[r] EXCEPT !.pc = "settle_failed", !.error = why]
<1>0. <<1, 1>> \in Rid /\ 1 \in PartIds /\ "none" \in Kinds
  BY StoreAssumption DEF Rid, Slots, Gens, PartIds, Kinds
<1>1. /\ rn[r] \in RunnerState /\ rn \in [Runners -> RunnerState]
      /\ rn[r].rid \in Rid /\ rn[r].i \in PartIds /\ rn[r].k \in Nat
  BY StoreAssumption DEF Inv, TypeInv, TypeOK, RunnerState, Focused, PartPCs, At, Post
<1>2. /\ UNCHANGED store /\ At(r, "post")
      /\ Message(r) \in Coming /\ Message(r) \notin msgs \cup inflight
      /\ \A q \in Runners \ {r} : At(q, "post") => Message(q) # Message(r)
  BY DEF Post, Coming, Inv, ChannelInv, OneAttemptOnePost, At
<1>3. /\ settle.pc = "settle" /\ settle.rid = rn[r].rid /\ settle.i = rn[r].i /\ settle.ts = rn[r].k
      /\ search.pc = "search" /\ \A why : Refused(why).pc = "settle_failed"
  BY <1>1 DEF RunnerState
<1> HIDE DEF settle, search, Refused
<1>4. CASE \E why : Go(r, Refused(why)) /\ UNCHANGED slack
  BY <1>2, <1>3, <1>4, PlainStep DEF Watched, slack
<1>5. CASE /\ \/ Go(r, settle) /\ msgs' = msgs \cup {Message(r)} /\ inflight' = inflight
              \/ /\ Go(r, search)
                 /\ \/ msgs' = msgs \cup {Message(r)} /\ inflight' = inflight
                    \/ UNCHANGED slack
                    \/ inflight' = inflight \cup {Message(r)} /\ msgs' = msgs
  <2>1. /\ rn'[r] = settle \/ rn'[r] = search
        /\ \A q \in Runners \ {r} : rn'[q] = rn[q]
    BY <1>1, <1>5 DEF Go
  <2>2. /\ ~At(r, "post")'
        /\ \A q \in Runners \ {r} : (At(q, "post")' <=> At(q, "post")) /\ Message(q)' = Message(q)
    BY <1>3, <2>1 DEF At, Message
  <2>3. msgs' \subseteq msgs \cup {Message(r)} /\ inflight' \subseteq inflight \cup {Message(r)}
    BY <1>5 DEF slack
  <2>4. Coming' \subseteq Coming
    BY <1>2, <2>2, <2>3 DEF Coming
  <2>5. ChannelMoves("none", <<1, 1>>, 1)
    BY <1>2, <1>5, <2>3, <2>4 DEF ChannelMoves, slack
  <2>6. OneAttemptOnePost'
    <3> SUFFICES ASSUME NEW q \in Runners \ {r}, At(q, "post")
                 PROVE  /\ Message(q) \notin msgs' \cup inflight'
                        /\ \A o \in Runners \ {q, r} : At(o, "post") => Message(o) # Message(q)
      BY <2>2 DEF OneAttemptOnePost
    <3> QED BY <1>2, <2>3 DEF OneAttemptOnePost, Inv, ChannelInv
  <2>7. Apart'
    BY <1>2, <1>5 DEF Apart, Inv, ChannelInv, slack
  <2>8. CASE rn'[r] = search
    <3>1. (Settling(rn[r]) /\ Cleaning(rn[r]))'
      BY <1>3, <2>8 DEF Settling, Cleaning
    <3> QED BY <1>0, <1>2, <2>1, <2>5, <2>6, <2>7, <3>1, StutterMoves DEF SomeMove, Moves, RunnersMove
  <2>9. CASE rn'[r] = settle
    <3>1. msgs' = msgs \cup {Message(r)} /\ inflight' = inflight
      <4>1. settle # search
        BY <1>3
      <4> QED BY <1>1, <1>5, <2>9, <4>1 DEF Go
    <3>2. Message(r) \notin Coming'
      BY <1>2, <2>2, <3>1 DEF Coming
    <3>3. rn[r].k <= part[rn[r].rid][rn[r].i].attempts
      BY <1>2 DEF Inv, ChannelInv, Sent, Message
    <3>4. (Settling(rn[r]) /\ Cleaning(rn[r]))'
      BY <1>1, <1>2, <1>3, <2>9, <3>1, <3>2, <3>3 DEF Settling, Cleaning, Spent, Message, store
    <3> QED BY <1>0, <1>2, <2>1, <2>5, <2>6, <2>7, <3>4, StutterMoves DEF SomeMove, Moves, RunnersMove
  <2> QED BY <2>1, <2>8, <2>9
<1> QED BY <1>4, <1>5 DEF Post, settle, search, Refused

\* What a search finds in the channel was sent, so no further message of that attempt comes.
LEMMA SearchMove ==
    ASSUME Inv, NEW r \in Runners, Search(r)
    PROVE  SomeMove
<1>0. <<1, 1>> \in Rid /\ 1 \in PartIds /\ "none" \in Kinds
  BY StoreAssumption DEF Rid, Slots, Gens, PartIds, Kinds
<1>1. /\ rn[r] \in RunnerState /\ rn \in [Runners -> RunnerState]
      /\ UNCHANGED store /\ UNCHANGED <<msgs, inflight>>
  BY DEF Inv, TypeInv, TypeOK, Search, slack
<1>2. CASE \E next : Go(r, next) /\ next.pc \notin Watched
  BY <1>1, <1>2, PlainStep
<1>3. ASSUME NEW k \in Copies(rn[r].rid, rn[r].i),
             Go(r, [rn[r] EXCEPT !.pc = "settle", !.ts = k])
      PROVE  SomeMove
  <2> DEFINE settle == [rn[r] EXCEPT !.pc = "settle", !.ts = k]
             x == <<rn[r].rid, rn[r].i, k>>
  <2>1. settle.pc = "settle" /\ settle.rid = rn[r].rid /\ settle.i = rn[r].i /\ settle.ts = k
    BY <1>1 DEF RunnerState
  <2>2. rn'[r] = settle /\ \A q \in Runners \ {r} : rn'[q] = rn[q]
    BY <1>1, <1>3 DEF Go
  <2> HIDE DEF settle
  <2>3. x \in msgs /\ rn[r].rid \in Rid /\ rn[r].i \in PartIds
    BY DEF Copies, Inv, TypeInv, TypeOK
  <2>4. k <= part[rn[r].rid][rn[r].i].attempts /\ x \notin Coming
    BY <2>3 DEF Inv, ChannelInv, Sent, Apart, OneAttemptOnePost, Coming
  <2>5. Coming' \subseteq Coming
    <3>1. ~At(r, "post")'
          /\ \A q \in Runners \ {r} : (At(q, "post")' <=> At(q, "post")) /\ Message(q)' = Message(q)
      BY <2>1, <2>2 DEF At, Message
    <3> QED BY <1>1, <3>1 DEF Coming
  <2>6. (Settling(rn[r]) /\ Cleaning(rn[r]))'
    BY <1>1, <2>1, <2>2, <2>3, <2>4, <2>5 DEF Settling, Cleaning, Spent, store
  <2>7. ChannelMoves("none", <<1, 1>>, 1) /\ RunnersMove
    BY <1>1, <2>1, <2>2, <2>6, CalmMoves
  <2> QED BY <1>0, <1>1, <2>7, StutterMoves DEF SomeMove, Moves
<1> QED
  <2>1. /\ ToSettleFailed(r).pc \notin Watched /\ ToCleanup(r).pc \notin Watched
        /\ ToFailRun(r).pc \notin Watched
    BY <1>1, PlainOfRunner
  <2> QED BY <1>2, <1>3, <2>1 DEF Search

\* The cleanup: a delete is attempted under a claim, and recorded as it went.
LEMMA CleanupMove ==
    ASSUME Inv, NEW r \in Runners, ClaimCleanup(r) \/ Delete(r) \/ RecordCleanup(r)
    PROVE  SomeMove
<1>0. <<1, 1>> \in Rid /\ 1 \in PartIds /\ {"none", "take_down"} \subseteq Kinds
  BY StoreAssumption DEF Rid, Slots, Gens, PartIds, Kinds
<1>1. /\ rn[r] \in RunnerState /\ rn \in [Runners -> RunnerState] /\ StoreTypeOK
      /\ Settling(rn[r]) /\ Cleaning(rn[r])
  BY DEF Inv, TypeInv, TypeOK, ChannelInv, Working
<1>2. ASSUME NEW targets PROVE Clean(rn[r], targets).pc \notin Watched
  BY <1>1, PlainRecords
<1>3. CASE ClaimCleanup(r)
  <2>1. PICK t \in rn[r].targets :
           Call(r, ClaimDigestPartCleanup(t[1], t[2], t[3]),
                IF CleanupClaimable(t[1], t[2], t[3])
                THEN [rn[r] EXCEPT !.pc = "delete", !.targets = rn[r].targets \ {t}, !.cur = t,
                                   !.k = part[t[2]][t[3]].cleanups + 1]
                ELSE Clean(rn[r], rn[r].targets \ {t}),
                Clean(rn[r], rn[r].targets \ {t}))
    BY <1>3 DEF ClaimCleanup
  <2>2. t \in Targets /\ t[1] \in Rid /\ t[2] \in Rid /\ t[3] \in PartIds
    BY <1>1 DEF RunnerState, Targets
  <2> DEFINE delete == [rn[r] EXCEPT !.pc = "delete", !.targets = rn[r].targets \ {t}, !.cur = t,
                                     !.k = part[t[2]][t[3]].cleanups + 1]
  <2>3. delete.pc = "delete" /\ delete.cur = t
    BY <1>1 DEF RunnerState
  <2> HIDE DEF delete
  <2>4. /\ UNCHANGED <<msgs, inflight>>
        /\ \/ /\ Go(r, delete) /\ CleanupClaimable(t[1], t[2], t[3])
              /\ ClaimDigestPartCleanup(t[1], t[2], t[3])
           \/ /\ \E next : Go(r, next) /\ next.pc \notin Watched
              /\ ClaimDigestPartCleanup(t[1], t[2], t[3]) \/ UNCHANGED store
    BY <1>2, <2>1 DEF Call, delete
  <2>5. /\ StoreMoves("none", <<1, 1>>, 1)
        /\ CleanupClaimable(t[1], t[2], t[3]) /\ ClaimDigestPartCleanup(t[1], t[2], t[3]) =>
              part'[t[2]][t[3]].delivery = "delivered" /\ part'[t[2]][t[3]].cleanup # "idle"
    BY <1>1, <2>2, <2>4, ClaimCleanupMoves, StutterMoves
  <2>6. CASE \E next : Go(r, next) /\ next.pc \notin Watched
    BY <1>0, <2>4, <2>5, <2>6, PlainStep
  <2>7. CASE /\ Go(r, delete) /\ CleanupClaimable(t[1], t[2], t[3])
             /\ ClaimDigestPartCleanup(t[1], t[2], t[3])
    <3>1. rn'[r] = delete /\ \A q \in Runners \ {r} : rn'[q] = rn[q]
      BY <1>1, <2>7 DEF Go
    <3>2. (Settling(rn[r]) /\ Cleaning(rn[r]))'
      BY <2>2, <2>3, <2>5, <2>7, <3>1 DEF Settling, Cleaning
    <3>3. ChannelMoves("none", <<1, 1>>, 1) /\ RunnersMove
      BY <2>3, <2>4, <3>1, <3>2, CalmMoves
    <3> QED BY <1>0, <2>5, <3>3 DEF SomeMove, Moves
  <2> QED BY <2>4, <2>6, <2>7
<1>4. CASE Delete(r)
  <2> DEFINE t == rn[r].cur
             x == <<t[2], t[3], part[t[2]][t[3]].ts>>
             Recording(o) == [rn[r] EXCEPT !.pc = "record", !.error = o]
  <2>1. /\ t \in Targets /\ t[2] \in Rid /\ t[3] \in PartIds
        /\ part[t[2]][t[3]].delivery = "delivered" /\ part[t[2]][t[3]].cleanup # "idle"
        /\ UNCHANGED store /\ UNCHANGED inflight
    BY <1>1, <1>4 DEF Delete, At, Cleaning, Targets
  <2>2. PICK o \in Gone \cup {"failed"} :
           /\ Go(r, Recording(o)) /\ (msgs' = msgs \/ msgs' = msgs \ {x})
           /\ o \in Gone => msgs' = msgs \ {x}
    <3> HIDE DEF Recording
    <3>1. CASE /\ msgs' = msgs \ {x}
               /\ Go(r, Recording(IF x \in msgs THEN "deleted" ELSE "already_absent"))
      <4>1. (IF x \in msgs THEN "deleted" ELSE "already_absent") \in Gone
        BY DEF Gone
      <4> HIDE DEF x
      <4> QED BY <3>1, <4>1
    <3>2. CASE Go(r, Recording("failed")) /\ (UNCHANGED msgs \/ msgs' = msgs \ {x})
      <4>1. "failed" \notin Gone
        BY DEF Gone
      <4> HIDE DEF x
      <4> QED BY <3>2, <4>1
    <3> QED BY <1>4, <3>1, <3>2 DEF Delete, Recording
  <2>3. Recording(o).pc = "record" /\ Recording(o).error = o /\ Recording(o).cur = t
    BY <1>1 DEF RunnerState
  <2>4. rn'[r] = Recording(o) /\ \A q \in Runners \ {r} : rn'[q] = rn[q]
    BY <1>1, <2>2 DEF Go
  <2> HIDE DEF Recording
  <2>5. /\ ~At(r, "post")'
        /\ \A q \in Runners \ {r} : (At(q, "post")' <=> At(q, "post")) /\ Message(q)' = Message(q)
    BY <2>3, <2>4 DEF At, Message
  <2>6. Coming' \subseteq Coming
    BY <2>1, <2>5 DEF Coming
  <2>7. ChannelMoves("take_down", t[2], t[3])
    BY <2>1, <2>2, <2>6 DEF ChannelMoves
  <2>8. (Settling(rn[r]) /\ Cleaning(rn[r]))'
    BY <2>1, <2>2, <2>3, <2>4 DEF Settling, Cleaning, store
  <2>9. OneAttemptOnePost' /\ Apart'
    BY <2>1, <2>2, <2>5 DEF OneAttemptOnePost, Apart, Inv, ChannelInv
  <2> QED BY <1>0, <2>1, <2>4, <2>7, <2>8, <2>9, StutterMoves DEF SomeMove, Moves, RunnersMove
<1>5. CASE RecordCleanup(r)
  <2> DEFINE t == rn[r].cur
  <2>1. /\ t \in Targets /\ t[1] \in Rid /\ t[2] \in Rid /\ t[3] \in PartIds
        /\ rn[r].error \in Gone \cup {"failed"}
        /\ rn[r].error \in Gone => <<t[2], t[3], part[t[2]][t[3]].ts>> \notin msgs
    BY <1>1, <1>5 DEF RecordCleanup, At, Cleaning, Targets
  <2>2. /\ UNCHANGED <<msgs, inflight>>
        /\ Go(r, Clean(rn[r], rn[r].targets))
        /\ RecordDigestPartCleanup(t[1], t[2], t[3], rn[r].k, rn[r].error) \/ UNCHANGED store
    BY <1>5 DEF RecordCleanup, Call
  <2>3. StoreMoves("none", <<1, 1>>, 1)
    BY <1>1, <2>1, <2>2, RecordCleanupMoves, StutterMoves
  <2> QED BY <1>0, <1>2, <2>2, <2>3, PlainStep
<1> QED BY <1>3, <1>4, <1>5

LEMMA EnvironmentMove ==
    ASSUME Inv,
           \/ \E rid \in Rid : ExpireLease(rid)
           \/ \E rid \in Rid, p \in PartIds : ExpireCleanup(rid, p) \/ RetryDue(rid, p)
           \/ \E w \in Items : ItemChange(w)
           \/ Tick \/ LateMessage \/ UNCHANGED vars
    PROVE  SomeMove
<1>0. <<1, 1>> \in Rid /\ 1 \in PartIds /\ "none" \in Kinds
  BY StoreAssumption DEF Rid, Slots, Gens, PartIds, Kinds
<1>1. StoreTypeOK
  BY DEF Inv, TypeInv, TypeOK
<1>2. StoreMoves("none", <<1, 1>>, 1)
  <2>1. CASE \E rid \in Rid : ExpireLease(rid)
    BY <1>1, <2>1, RunCallMoves DEF ExpireLease
  <2>2. CASE \E rid \in Rid, p \in PartIds : ExpireCleanup(rid, p) \/ RetryDue(rid, p)
    BY <1>1, <2>2, TimeMoves DEF ExpireCleanup, RetryDue
  <2>3. CASE \E w \in Items : ItemChange(w)
    BY <1>1, <2>3, ItemChangeMoves DEF ItemChange
  <2>4. CASE Tick \/ LateMessage \/ UNCHANGED vars
    BY <2>4, StutterMoves DEF Tick, LateMessage, vars, store
  <2> QED BY <2>1, <2>2, <2>3, <2>4
<1>3. rn' = rn
  BY DEF ExpireLease, ExpireCleanup, RetryDue, ItemChange, Tick, LateMessage, vars
<1>4. CASE UNCHANGED <<msgs, inflight>>
  <2>1. ChannelMoves("none", <<1, 1>>, 1) /\ RunnersMove
    BY <1>3, <1>4, CalmMoves
  <2> QED BY <1>0, <1>2, <2>1 DEF SomeMove, Moves
<1>5. CASE LateMessage
  <2>1. PICK x \in inflight : msgs' = msgs \cup {x} /\ inflight' = inflight \ {x}
    BY <1>5 DEF LateMessage
  <2>2. \A q \in Runners : (At(q, "post")' <=> At(q, "post")) /\ Message(q)' = Message(q)
    BY <1>3 DEF At, Message
  <2>3. ChannelMoves("none", <<1, 1>>, 1)
    BY <2>1, <2>2 DEF ChannelMoves, Coming
  <2>4. OneAttemptOnePost' /\ Apart'
    BY <2>1, <2>2 DEF OneAttemptOnePost, Apart, Inv, ChannelInv
  <2> QED BY <1>0, <1>2, <1>3, <2>3, <2>4 DEF SomeMove, Moves, RunnersMove
<1> QED
  <2>1. LateMessage \/ UNCHANGED <<msgs, inflight>>
    BY DEF ExpireLease, ExpireCleanup, RetryDue, ItemChange, Tick, vars, slack
  <2> QED BY <1>4, <1>5, <2>1

LEMMA StepMoves ==
    ASSUME Inv, [Next]_vars
    PROVE  SomeMove
<1>1. ASSUME NEW r \in Runners, Step(r) \/ Crash(r) PROVE SomeMove
  BY <1>1, LocalMoves, RunMove, SettleMove, ClaimPartMove, PostMove, SearchMove, CleanupMove DEF Step
<1> QED BY <1>1, EnvironmentMove DEF Next

LEMMA InitInv == Init => Inv
<1> SUFFICES ASSUME Init PROVE Inv
  OBVIOUS
<1>1. TypeInv
  BY InitTypeInv
<1>2. HistoryInv
  BY DEF Init, StoreInit, AbsentRow, AbsentPart, HistoryInv, Blank, Settled, OneOpenGeneration
<1>3. /\ \A rid \in Rid : run[rid].state = "absent" /\ run[rid].manifest = NoManifest
      /\ \A rid \in Rid, p \in PartIds : /\ part[rid][p].delivery = "absent"
                                         /\ part[rid][p].attempts = 0
                                         /\ part[rid][p].cleanup = "idle"
      /\ \A w \in Items : item[w].included = 0
      /\ \A r \in Runners : rn[r].pc = "idle"
      /\ msgs = {} /\ inflight = {}
  BY DEF Init, StoreInit, AbsentRow, AbsentPart, Idle
<1>4. Coming = {}
  BY <1>3 DEF Coming, At
<1>5. Sent /\ Apart /\ OneAttemptOnePost
  BY <1>3, <1>4 DEF Sent, Apart, OneAttemptOnePost, At
<1>6. Laid /\ Recorded /\ CleanedLate /\ CleanedIsGone
  BY <1>3 DEF Laid, Recorded, CleanedLate, CleanedIsGone, Gone
<1>7. Complete /\ Emptied
  BY <1>3 DEF Complete, Emptied, Published, Cleared
<1>8. Working
  BY <1>3 DEF Working, Settling, Cleaning
<1>9. CountedOncePublished
  <2> SUFFICES ASSUME NEW w \in Items
               PROVE  item[w].included <= Cardinality({rid \in Rid :
                         /\ run[rid].state \in Published
                         /\ w \in {e[1] : e \in Includes[run[rid].manifest]}})
    BY DEF CountedOncePublished
  <2> DEFINE S == {rid \in Rid : /\ run[rid].state \in Published
                                 /\ w \in {e[1] : e \in Includes[run[rid].manifest]}}
  <2> HIDE DEF S
  <2>1. S \subseteq Rid
    BY DEF S
  <2>2. Cardinality(S) \in Nat
    BY <2>1, RidFinite, FS_Subset, FS_CardinalityType
  <2>3. item[w].included = 0
    BY <1>3
  <2> QED BY <2>2, <2>3 DEF S
<1> QED BY <1>1, <1>2, <1>5, <1>6, <1>7, <1>8, <1>9 DEF Inv, ChannelInv

LEMMA StepInv == Inv /\ [Next]_vars => Inv'
<1> SUFFICES ASSUME Inv, [Next]_vars PROVE Inv'
  OBVIOUS
<1>1. TypeInv' /\ HistoryInv'
  BY StepTypeInv, StepHistory DEF Inv
<1>2. ChannelInv'
  BY <1>1, StepMoves, MovesKeep DEF SomeMove
<1> QED BY <1>1, <1>2 DEF Inv

LEMMA ChannelCorrect == Spec => []Inv
BY InitInv, StepInv, PTL DEF Spec

----------------------------------------------------------------------------
(* The properties. *)

\* No lease that changes hands lets two runners post the same attempt, or one runner post it
\* twice, for any number of runners and failures.
THEOREM NoAttemptPostedTwice == Spec => []OneAttemptOnePost
<1>1. Inv => OneAttemptOnePost
  BY DEF Inv, ChannelInv
<1> QED BY <1>1, ChannelCorrect, PTL

\* However often finalizing is retried, and by whom, a work item's inclusion count is at most
\* the number of published digests whose snapshot shows it.
THEOREM CountsPublishedOnly == Spec => []CountedOncePublished
<1>1. Inv => CountedOncePublished
  BY DEF Inv, ChannelInv
<1> QED BY <1>1, ChannelCorrect, PTL

\* A cleanup recorded as done is done, and stays so: no late answer of Slack and no retried
\* post brings the recorded message back.
THEOREM CleanedMessagesGone == Spec => []CleanedIsGone
<1>1. Inv => CleanedIsGone
  BY DEF Inv, ChannelInv
<1> QED BY <1>1, ChannelCorrect, PTL

\* A digest marked replaced or retired has no recorded message left in the channel, and a
\* retired one leaves no predecessor behind that still has to be cleaned.
THEOREM ReplacedMessagesGone == Spec => []ReplacedIsGone
<1>1. Inv => ReplacedIsGone
  <2> SUFFICES ASSUME Inv, NEW rid \in Rid, run[rid].state \in Cleared
               PROVE  /\ \A p \in PartIds : ~Shown(rid, p)
                      /\ run[rid].state = "retired" /\ run[rid].prev # NoRun =>
                            run[run[rid].prev].state \in Cleared
    BY DEF ReplacedIsGone, Cleared
  <2>1. Emptied /\ CleanedIsGone
    BY DEF Inv, ChannelInv
  <2> QED BY <2>1 DEF Emptied, CleanedIsGone, PartsGone, Shown
<1> QED BY <1>1, ChannelCorrect, PTL

\* Whatever runners, cleanups and crashes interleave, every message of the newest published
\* digest is in the channel.
THEOREM NewestStaysShown == Spec => []NewestDigestShown
<1>1. Inv => NewestDigestShown
  <2> SUFFICES ASSUME Inv, NEW rid \in Rid, run[rid].state \in Published,
                      \A o \in Rid : run[o].state \in Published => ~Before(rid, o),
                      NEW p \in PartIds, part[rid][p].delivery # "absent"
               PROVE  Shown(rid, p)
    BY DEF NewestDigestShown
  <2>1. part[rid][p].delivery = "delivered"
    BY DEF Inv, ChannelInv, Complete
  <2>2. part[rid][p].cleanup = "idle"
    BY DEF Inv, ChannelInv, CleanedLate
  <2> QED BY <2>1, <2>2 DEF Inv, ChannelInv, Recorded
<1> QED BY <1>1, ChannelCorrect, PTL

\* A part has at most as many messages in the channel as attempts are recorded of it, so the
\* duplicates that an ambiguous post may leave are bounded by the limit of attempts.
THEOREM DuplicatesBounded ==
    Spec => [](\A rid \in Rid, p \in PartIds :
                  Cardinality(Copies(rid, p)) <= part[rid][p].attempts /\ part[rid][p].attempts <= MaxAttempts)
<1>1. Inv => \A rid \in Rid, p \in PartIds :
                Cardinality(Copies(rid, p)) <= part[rid][p].attempts /\ part[rid][p].attempts <= MaxAttempts
  <2> SUFFICES ASSUME Inv, NEW rid \in Rid, NEW p \in PartIds
               PROVE  /\ Cardinality(Copies(rid, p)) <= part[rid][p].attempts
                      /\ part[rid][p].attempts <= MaxAttempts
    OBVIOUS
  <2>1. part[rid][p].attempts \in 0 .. MaxAttempts
    <3>1. part[rid][p] \in PartRow
      BY DEF Inv, TypeInv, TypeOK, StoreTypeOK
    <3> QED BY <3>1 DEF PartRow
  <2>2. PICK k \in Nat : k = part[rid][p].attempts
    BY <2>1, StoreAssumption
  <2>3. Copies(rid, p) \subseteq 1 .. k
    BY <2>2, StoreAssumption DEF Inv, ChannelInv, Sent, Copies
  <2>4. IsFiniteSet(1 .. k) /\ Cardinality(1 .. k) = IF 1 > k THEN 0 ELSE k - 1 + 1
    BY FS_Interval
  <2>5. Cardinality(1 .. k) = k
    BY <2>4
  <2>6. Cardinality(Copies(rid, p)) <= k
    BY <2>3, <2>4, <2>5, FS_Subset
  <2> QED BY <2>1, <2>2, <2>6, StoreAssumption
<1> QED BY <1>1, ChannelCorrect, PTL

\* A recorded message is in the channel until a cleanup of its part is claimed, which happens
\* only after a later digest was published: no crash, late answer or failed delete loses it.
THEOREM RecordedIsThere ==
    Spec => [](\A rid \in Rid, p \in PartIds : part[rid][p].delivery = "delivered" =>
                  \/ Shown(rid, p)
                  \/ \E o \in Rid : run[o].state \in Published /\ Before(rid, o))
<1>1. Inv => \A rid \in Rid, p \in PartIds : part[rid][p].delivery = "delivered" =>
                \/ Shown(rid, p)
                \/ \E o \in Rid : run[o].state \in Published /\ Before(rid, o)
  BY DEF Inv, ChannelInv, Recorded, CleanedLate
<1> QED BY <1>1, ChannelCorrect, PTL

\* The only message a step may take out of the channel is the recorded one of a digest older
\* than a published one: never a message whose part is not recorded yet, or was recorded
\* with another attempt, whatever backlog the cleanup works from (deleteMessage,
\* claim_digest_part_cleanup_v2).
OnlyOlderTakenDown ==
    [][\A x \in msgs \ msgs' :
          /\ part[x[1]][x[2]].delivery = "delivered" /\ part[x[1]][x[2]].ts = x[3]
          /\ \E o \in Rid : run[o].state \in Published /\ Before(x[1], o)]_vars

\* Whatever backlog a cleanup works from, no step takes a message out of the channel but the
\* recorded one of a digest older than a published one.
THEOREM OnlyOlderDeleted == Spec => OnlyOlderTakenDown
<1>1. Inv /\ [Next]_vars =>
         [\A x \in msgs \ msgs' :
             /\ part[x[1]][x[2]].delivery = "delivered" /\ part[x[1]][x[2]].ts = x[3]
             /\ \E o \in Rid : run[o].state \in Published /\ Before(x[1], o)]_vars
  <2> SUFFICES ASSUME Inv, [Next]_vars, NEW x \in msgs \ msgs'
               PROVE  /\ part[x[1]][x[2]].delivery = "delivered" /\ part[x[1]][x[2]].ts = x[3]
                      /\ \E o \in Rid : run[o].state \in Published /\ Before(x[1], o)
    OBVIOUS
  <2>1. PICK kind \in Kinds, d \in Rid, n \in PartIds : Moves(kind, d, n)
    BY StepMoves DEF SomeMove
  <2>2. /\ x = <<d, n, part[d][n].ts>> /\ part[d][n].delivery = "delivered"
        /\ part[d][n].cleanup # "idle"
    BY <2>1 DEF Moves, ChannelMoves
  <2> QED BY <2>2 DEF Inv, ChannelInv, CleanedLate
<1> QED BY <1>1, ChannelCorrect, PTL DEF Spec, OnlyOlderTakenDown

----------------------------------------------------------------------------
(* The refinement.  The board's variables, and what a step does to each. *)

BoardPlanned == [rid \in Rid |-> IF run[rid].manifest = NoManifest THEN -1 ELSE Size[run[rid].manifest]]
BoardPinned == {d \in Rid \X PartIds : Shown(d[1], d[2])}
BoardPublished == {rid \in Rid : run[rid].state \in Published}

LEMMA PlannedMoves ==
    ASSUME Inv, NEW kind, NEW d \in Rid, NEW n, Moves(kind, d, n)
    PROVE  \/ BoardPlanned' = BoardPlanned
           \/ /\ kind = "plan" /\ BoardPlanned[d] = -1
              /\ \E size \in 0 .. MaxParts : BoardPlanned' = [BoardPlanned EXCEPT ![d] = size]
<1>1. \A rid \in Rid : run'[rid].manifest = run[rid].manifest \/ Planned(rid, kind, d)
  BY DEF Moves, StoreMoves, RunMoves
<1>2. CASE Planned(d, kind, d)
  <2>1. /\ kind = "plan" /\ BoardPlanned[d] = -1
        /\ run'[d].manifest \in Manifests
    BY <1>2 DEF Planned, BoardPlanned
  <2>2. Size[run'[d].manifest] \in 0 .. MaxParts /\ run'[d].manifest # NoManifest
    BY <2>1, StoreAssumption
  <2>3. \A rid \in Rid : rid # d => run'[rid].manifest = run[rid].manifest
    BY <1>1 DEF Planned
  <2>4. BoardPlanned' = [BoardPlanned EXCEPT ![d] = Size[run'[d].manifest]]
    BY <2>2, <2>3 DEF BoardPlanned
  <2> QED BY <2>1, <2>2, <2>4
<1>3. CASE ~Planned(d, kind, d)
  BY <1>1, <1>3 DEF Planned, BoardPlanned
<1> QED BY <1>2, <1>3

LEMMA PublishedMoves ==
    ASSUME Inv, NEW kind, NEW d \in Rid, NEW n, Moves(kind, d, n)
    PROVE  \/ BoardPublished' = BoardPublished
           \/ /\ kind = "publish" /\ BoardPublished' = BoardPublished \cup {d}
              /\ BoardPlanned[d] # -1
              /\ \A p \in 1 .. BoardPlanned[d] : <<d, p>> \in BoardPinned
<1>1. \A rid \in Rid : RunMoves(rid, kind, d)
  BY DEF Moves, StoreMoves
<1>2. BoardPublished \subseteq BoardPublished'
  BY StatesKept DEF Moves, BoardPublished
<1>3. CASE BoardPublished' # BoardPublished
  <2>1. \A rid \in BoardPublished' \ BoardPublished :
           /\ kind = "publish" /\ rid = d /\ run[rid].state \in Unfinished
           /\ run[rid].manifest # NoManifest
           /\ \A p \in PartIds : part[rid][p].delivery \in {"absent", "delivered"}
    BY <1>1 DEF RunMoves, BoardPublished, Published, Unfinished
  <2>2. /\ kind = "publish" /\ run[d].state \in Unfinished /\ run[d].manifest # NoManifest
        /\ \A p \in PartIds : part[d][p].delivery \in {"absent", "delivered"}
        /\ BoardPublished' = BoardPublished \cup {d}
    BY <1>2, <1>3, <2>1
  <2>3. run[d].manifest \in Manifests
    <3>1. run[d] \in Row
      BY DEF Inv, TypeInv, TypeOK, StoreTypeOK
    <3> QED BY <2>2, <3>1 DEF Row
  <2>4. BoardPlanned[d] = Size[run[d].manifest] /\ Size[run[d].manifest] \in 0 .. MaxParts
    BY <2>2, <2>3, StoreAssumption DEF BoardPlanned
  <2>5. ASSUME NEW p \in 1 .. Size[run[d].manifest] PROVE <<d, p>> \in BoardPinned
    <3>1. p \in PartIds /\ p <= Size[run[d].manifest]
      BY <2>4, StoreAssumption DEF PartIds
    <3>2. part[d][p].delivery = "delivered"
      BY <2>2, <3>1 DEF Inv, ChannelInv, Laid
    <3>3. part[d][p].cleanup = "idle"
      BY <2>2, <3>1 DEF Inv, ChannelInv, CleanedLate, Closed, Published, Unfinished
    <3> QED BY <3>1, <3>2, <3>3 DEF Inv, ChannelInv, Recorded, BoardPinned
  <2> QED BY <2>2, <2>4, <2>5
<1> QED BY <1>3

LEMMA PinnedMoves ==
    ASSUME Inv, NEW kind, NEW d \in Rid, NEW n \in PartIds, Moves(kind, d, n)
    PROVE  \/ BoardPinned' = BoardPinned
           \/ /\ kind = "pin" /\ BoardPinned' = BoardPinned \cup {<<d, n>>}
              /\ d \notin BoardPublished /\ n <= BoardPlanned[d]
           \/ /\ kind = "take_down" /\ BoardPinned' = BoardPinned \ {<<d, n>>}
              /\ \E e \in BoardPublished : Before(d, e)
<1>1. StoreMoves(kind, d, n) /\ ChannelMoves(kind, d, n)
  BY DEF Moves
<1>2. ASSUME NEW rid \in Rid, NEW p \in PartIds, part[rid][p].delivery = "delivered"
      PROVE  /\ Shown(rid, p)' => Shown(rid, p)
             /\ Shown(rid, p) /\ ~Shown(rid, p)' =>
                   /\ kind = "take_down" /\ rid = d /\ p = n
                   /\ part[d][n].cleanup # "idle"
  <2>1. part'[rid][p].delivery = "delivered" /\ part'[rid][p].ts = part[rid][p].ts
    BY <1>1, <1>2, DeliveredStays DEF Inv, HistoryInv
  <2>2. <<rid, p, part[rid][p].ts>> \notin Coming
    BY <1>2 DEF Inv, ChannelInv, Recorded, Spent
  <2> QED BY <1>1, <1>2, <2>1, <2>2 DEF Shown, ChannelMoves
<1>3. ASSUME NEW rid \in Rid, NEW p \in PartIds, part[rid][p].delivery # "delivered"
      PROVE  /\ ~Shown(rid, p)
             /\ Shown(rid, p)' => /\ kind = "pin" /\ rid = d /\ p = n
                                  /\ run[d].state \in Unfinished
                                  /\ part[d][n].delivery = "delivering"
  <2>1. PartMoves(rid, p, kind, d, n)
    BY <1>1 DEF StoreMoves
  <2>2. ~Planned(rid, kind, d) \/ part'[rid][p].delivery # "delivered"
    BY DEF Planned, PlannedPart, AbsentPart
  <2> QED BY <1>3, <2>1, <2>2 DEF PartMoves, SameEvidence, Attempted, Settles, Cleans, Shown
<1>4. ASSUME NEW rid \in Rid, NEW p \in PartIds, <<rid, p>> # <<d, n>>
      PROVE  Shown(rid, p)' <=> Shown(rid, p)
  BY <1>2, <1>3, <1>4
<1>5. CASE Shown(d, n)' <=> Shown(d, n)
  BY <1>4, <1>5 DEF BoardPinned
<1>6. CASE Shown(d, n)' /\ ~Shown(d, n)
  <2>1. /\ kind = "pin" /\ run[d].state \in Unfinished /\ part[d][n].delivery = "delivering"
    BY <1>2, <1>3, <1>6
  <2>2. BoardPinned' = BoardPinned \cup {<<d, n>>}
    BY <1>4, <1>6 DEF BoardPinned
  <2>3. d \notin BoardPublished
    BY <2>1 DEF BoardPublished, Unfinished, Published
  <2>4. run[d].manifest # NoManifest
    BY <2>1 DEF Inv, HistoryInv, Blank
  <2>5. n <= BoardPlanned[d]
    BY <2>1, <2>4 DEF Inv, ChannelInv, Laid, BoardPlanned
  <2> QED BY <2>1, <2>2, <2>3, <2>5
<1>7. CASE ~Shown(d, n)' /\ Shown(d, n)
  <2>1. kind = "take_down" /\ part[d][n].cleanup # "idle"
    BY <1>2, <1>3, <1>7
  <2>2. BoardPinned' = BoardPinned \ {<<d, n>>}
    BY <1>4, <1>7 DEF BoardPinned
  <2>3. \E e \in BoardPublished : Before(d, e)
    BY <2>1 DEF Inv, ChannelInv, CleanedLate, BoardPublished
  <2> QED BY <2>1, <2>2, <2>3
<1> QED BY <1>5, <1>6, <1>7

LEMMA InitBoard == Init => Board!BoardInit
BY DEF Init, StoreInit, AbsentRow, AbsentPart, Shown, Published, Board!BoardInit

LEMMA StepBoard == Inv /\ [Next]_vars => [Board!BoardNext]_(Board!boardVars)
<1> SUFFICES ASSUME Inv, [Next]_vars
             PROVE  Board!BoardNext \/ UNCHANGED Board!boardVars
  OBVIOUS
<1>1. PICK kind \in Kinds, d \in Rid, n \in PartIds : Moves(kind, d, n)
  BY StepMoves DEF SomeMove
<1>2. n \in 1 .. MaxParts
  BY DEF PartIds
<1>3. CASE UNCHANGED <<BoardPlanned, BoardPinned, BoardPublished>>
  BY <1>3 DEF Board!boardVars, BoardPlanned, BoardPinned, BoardPublished
<1>4. CASE BoardPlanned' # BoardPlanned
  <2>1. Board!Plan(d)
    BY <1>1, <1>4, PlannedMoves, PublishedMoves, PinnedMoves
       DEF Board!Plan, BoardPlanned, BoardPinned, BoardPublished
  <2> QED BY <2>1 DEF Board!BoardNext
<1>5. CASE BoardPublished' # BoardPublished
  <2>1. Board!Publish(d)
    BY <1>1, <1>5, PlannedMoves, PublishedMoves, PinnedMoves
       DEF Board!Publish, BoardPlanned, BoardPinned, BoardPublished
  <2> QED BY <2>1 DEF Board!BoardNext
<1>6. CASE BoardPinned' # BoardPinned
  <2>1. Board!Pin(d, n) \/ Board!TakeDown(d, n)
    BY <1>1, <1>6, PlannedMoves, PublishedMoves, PinnedMoves
       DEF Board!Pin, Board!TakeDown, Board!Older, Before, BoardPlanned, BoardPinned, BoardPublished
  <2> QED BY <1>2, <2>1 DEF Board!BoardNext
<1> QED BY <1>3, <1>4, <1>5, <1>6

\* The tables, the runners and the channel implement the board: in every execution a digest
\* is planned once, counts as published only when all its messages hang in the channel, and a
\* recorded message comes down only after a later digest was published.
THEOREM BoardImplemented == Spec => BoardKept
BY InitBoard, StepBoard, ChannelCorrect, PTL DEF Spec, BoardKept, Board!BoardSpec
=============================================================================
