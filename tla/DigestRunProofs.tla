-------------------------- MODULE DigestRunProofs --------------------------
(* Theorems of DigestRun and their proofs. *)
EXTENDS DigestRun, FiniteSetTheorems, TLAPS

----------------------------------------------------------------------------
(* The choices of the store exist. *)

\* A strict order on a finite set, given by what lies below each element, has a minimal one.
LEMMA MinimalExists ==
    ASSUME NEW T, IsFiniteSet(T), T # {}, NEW below \in [T -> SUBSET T],
           \A x \in T : x \notin below[x],
           \A x \in T : \A y \in below[x] : below[y] \subseteq below[x]
    PROVE  \E x \in T : below[x] = {}
<1> DEFINE W == {below[x] : x \in T}
<1>1. IsWellFoundedOn(StrictSubsetOrdering(T), FiniteSubsetsOf(T))
  BY FS_StrictSubsetOrderingWellFounded
<1>2. W \subseteq FiniteSubsetsOf(T)
  BY FS_Subset DEF FiniteSubsetsOf
<1>3. W # {}
  <2>1. PICK x \in T : TRUE
    OBVIOUS
  <2>2. below[x] \in W
    OBVIOUS
  <2> QED BY <2>2
<1>4. PICK w \in W : \A v \in W : <<v, w>> \notin StrictSubsetOrdering(T)
  BY <1>1, <1>2, <1>3, WFMin
<1>5. PICK x \in T : w = below[x]
  BY <1>4
<1>6. ASSUME NEW y \in below[x] PROVE FALSE
  <2>1. y \in T /\ below[y] \subseteq below[x] /\ y \notin below[y]
    BY <1>6
  <2>2. <<below[y], below[x]>> \in StrictSubsetOrdering(T)
    BY <2>1, <1>6 DEF StrictSubsetOrdering
  <2> QED BY <1>4, <1>5, <2>1, <2>2
<1> QED BY <1>6

LEMMA RidFinite == IsFiniteSet(Rid)
<1>1. IsFiniteSet(Slots) /\ IsFiniteSet(Gens)
  BY StoreAssumption, FS_Interval DEF Slots, Gens
<1> QED BY <1>1, FS_Product DEF Rid

LEMMA LatestExists ==
    ASSUME NEW s \in Slots, Generations(s) # {}
    PROVE  /\ Latest(s) \in Generations(s)
           /\ \A o \in Generations(s) : o[2] <= Latest(s)[2]
<1> DEFINE G == Generations(s)
           above == [x \in G |-> {y \in G : y[2] > x[2]}]
<1>1. G \subseteq Rid /\ G # {} /\ IsFiniteSet(G)
  BY RidFinite, FS_Subset DEF Generations
<1>2. \A x \in G : x[2] \in Nat
  BY <1>1, StoreAssumption DEF Rid, Gens
<1>3. PICK x \in G : above[x] = {}
  <2> HIDE DEF G
  <2>1. /\ above \in [G -> SUBSET G]
        /\ \A x \in G : x \notin above[x]
        /\ \A x \in G : \A y \in above[x] : above[y] \subseteq above[x]
    BY <1>2
  <2> HIDE DEF above
  <2> QED BY <1>1, <2>1, MinimalExists
<1>4. \A y \in G : y[2] <= x[2]
  BY <1>2, <1>3
<1> QED BY <1>4 DEF Latest

LEMMA PredecessorExists ==
    ASSUME StoreTypeOK, NEW s \in Slots
    PROVE  Predecessor(s) \in Predecessors(s) \cup {NoRun}
<1> DEFINE D == Predecessors(s)
           Better(y, x) == \/ run[y].deliveredAt > run[x].deliveredAt
                           \/ run[y].deliveredAt = run[x].deliveredAt /\ Before(x, y)
           above == [x \in D |-> {y \in D : Better(y, x)}]
<1> SUFFICES ASSUME D # {} PROVE Predecessor(s) \in D
  BY DEF Predecessor
<1>1. D \subseteq Rid /\ IsFiniteSet(D)
  BY RidFinite, FS_Subset DEF Predecessors
<1>2. \A x \in D : run[x].deliveredAt \in Nat /\ x[1] \in Nat /\ x[2] \in Nat
  BY <1>1, StoreAssumption DEF StoreTypeOK, Row, Rid, Slots, Gens
<1>3. PICK x \in D : above[x] = {}
  <2> HIDE DEF D
  <2>1. /\ \A x \in D : ~Better(x, x)
        /\ \A x, y, z \in D : Better(y, x) /\ Better(z, y) => Better(z, x)
    BY <1>2 DEF Before
  <2> HIDE DEF Better
  <2>2. /\ above \in [D -> SUBSET D]
        /\ \A x \in D : x \notin above[x]
        /\ \A x \in D : \A y \in above[x] : above[y] \subseteq above[x]
    BY <2>1
  <2> HIDE DEF above
  <2> QED BY <1>1, <2>2, MinimalExists
<1>4. \A y \in D : ~Better(y, x)
  BY <1>3
<1>5. \A y \in D : Later(x, y)
  <2> HIDE DEF D
  <2> QED BY <1>2, <1>4 DEF Before, Later
<1> QED BY <1>5 DEF Predecessor

LEMMA ClaimableType ==
    ASSUME NEW s \in Slots
    PROVE  Claimable(s) \in {rid \in Rid : rid[1] = s} \cup {NoRun}
<1>1. CASE Generations(s) = {}
  BY <1>1, StoreAssumption DEF Claimable, Rid, Gens
<1>2. CASE Generations(s) # {}
  <2> DEFINE last == Latest(s)
  <2>1. last \in Rid /\ last[1] = s
    BY <1>2, LatestExists DEF Generations
  <2>2. last[2] < MaxGen => <<s, last[2] + 1>> \in Rid
    BY <2>1, StoreAssumption DEF Rid, Gens
  <2> QED BY <1>2, <2>1, <2>2 DEF Claimable
<1> QED BY <1>1, <1>2

LEMMA OldestDivergentType ==
    ASSUME NEW s \in Slots, DivergentSlots(s) # {}
    PROVE  OldestDivergent(s) \in DivergentSlots(s)
<1> DEFINE D == DivergentSlots(s)
           below == [x \in D |-> {y \in D : y < x}]
<1>1. D \subseteq Slots /\ IsFiniteSet(D)
  <2>1. D \subseteq Slots
    BY DEF DivergentSlots
  <2>2. IsFiniteSet(Slots)
    BY StoreAssumption, FS_Interval DEF Slots
  <2> QED BY <2>1, <2>2, FS_Subset
<1>2. \A x \in D : x \in Nat
  BY <1>1, StoreAssumption DEF Slots
<1>3. PICK x \in D : below[x] = {}
  <2> HIDE DEF D
  <2>1. /\ below \in [D -> SUBSET D]
        /\ \A x \in D : x \notin below[x]
        /\ \A x \in D : \A y \in below[x] : below[y] \subseteq below[x]
    BY <1>2
  <2> HIDE DEF below
  <2> QED BY <1>1, <2>1, MinimalExists DEF D
<1>4. \A y \in D : x <= y
  BY <1>2, <1>3
<1> QED BY <1>4 DEF OldestDivergent

LEMMA FreshTokenExists ==
    ASSUME NEW rid
    PROVE  FreshToken(rid) \in Tokens /\ FreshToken(rid) # run[rid].token
<1> DEFINE tok == [r \in Runners |-> rn[r].tok]
           Used == {tok[r] : r \in Runners}
           Taken == Used \cup {run[rid].token}
<1>1. IsFiniteSet(Used) /\ Cardinality(Used) <= Cardinality(Runners)
  <2>1. tok \in Surjection(Runners, Used)
    BY DEF Surjection
  <2> QED BY <2>1, RunnerAssumption, FS_Surjection
<1>2. IsFiniteSet(Taken) /\ Cardinality(Taken) <= Cardinality(Runners) + 1
  <2> HIDE DEF Used
  <2>1. Cardinality(Used) \in Nat /\ Cardinality(Runners) \in Nat
    BY <1>1, RunnerAssumption, FS_CardinalityType
  <2> QED BY <1>1, <2>1, FS_AddElement
<1>3. ~(Tokens \subseteq Taken)
  <2> HIDE DEF Taken
  <2>1. Cardinality(Taken) \in Nat /\ Cardinality(Tokens) \in Nat /\ Cardinality(Runners) \in Nat
    BY <1>2, RunnerAssumption, FS_CardinalityType
  <2> QED BY <1>2, <2>1, RunnerAssumption, FS_Subset
<1>4. PICK t \in Tokens : t # run[rid].token /\ \A r \in Runners : rn[r].tok # t
  BY <1>3
<1> QED BY <1>4 DEF FreshToken

----------------------------------------------------------------------------
(* The store keeps its types. *)

LEMMA RetireType ==
    ASSUME NEW R \in [Rid -> Row], NEW P, NEW succ
    PROVE  Retire(R, P, succ) \in [Rid -> Row]
BY DEF Retire, Row, RunStates

LEMMA ClaimType ==
    ASSUME StoreTypeOK, NEW s \in Slots, NEW token \in Tokens \cup {NoToken},
           ClaimDigestRun(s, token)
    PROVE  StoreTypeOK'
<1> DEFINE rid == Claimable(s)
<1>1. part' = part /\ item' = item
  BY DEF ClaimDigestRun
<1>2. CASE rid = NoRun /\ run' = run
  BY <1>1, <1>2 DEF StoreTypeOK
<1>3. CASE rid # NoRun /\ run' = [run EXCEPT ![rid] = IF @.state = "absent" THEN NewRow(rid, token)
                                                    ELSE Release(@, token)]
  <2>1. rid \in Rid /\ rid[1] = s
    BY <1>3, ClaimableType
  <2>2. Predecessor(s) \in Rid \cup {NoRun}
    BY PredecessorExists DEF Predecessors
  <2>3. rid[2] # 1 => <<rid[1], rid[2] - 1>> \in Rid
    BY <2>1, StoreAssumption DEF Rid, Slots, Gens
  <2>4. NewRow(rid, token) \in Row
    <3>1. AbsentRow \in Row
      BY DEF AbsentRow, Row, RunStates, CleanupStates
    <3> QED BY <2>1, <2>2, <2>3, <3>1 DEF NewRow, Row, RunStates, Unfinished
  <2>5. Release(run[rid], token) \in Row
    BY <2>1 DEF Release, StoreTypeOK, Row, RunStates, Unfinished
  <2> QED BY <1>1, <1>3, <2>1, <2>4, <2>5 DEF StoreTypeOK
<1> QED BY <1>2, <1>3 DEF ClaimDigestRun

LEMMA ClaimDivergentType ==
    ASSUME StoreTypeOK, NEW s \in Slots, NEW token \in Tokens \cup {NoToken},
           ClaimDivergentDigestRun(s, token)
    PROVE  StoreTypeOK'
<1>1. CASE DivergentSlots(s) = {} /\ UNCHANGED store
  BY <1>1 DEF StoreTypeOK, store
<1>2. CASE DivergentSlots(s) # {} /\ ClaimDigestRun(OldestDivergent(s), token)
  BY <1>2, OldestDivergentType, ClaimType DEF DivergentSlots
<1> QED BY <1>1, <1>2 DEF ClaimDivergentDigestRun

LEMMA RunUpdate ==
    ASSUME NEW R \in [Rid -> Row], NEW rid, NEW row, rid \in Rid => row \in Row
    PROVE  [R EXCEPT ![rid] = row] \in [Rid -> Row]
OBVIOUS

LEMMA PartUpdate ==
    ASSUME NEW P \in [Rid -> [PartIds -> PartRow]], NEW rid, NEW p, NEW row,
           rid \in Rid /\ p \in PartIds => row \in PartRow
    PROVE  [P EXCEPT ![rid][p] = row] \in [Rid -> [PartIds -> PartRow]]
OBVIOUS

LEMMA PrepareType ==
    ASSUME StoreTypeOK, NEW rid, NEW tok, NEW m \in Manifests \cup {NoManifest},
           PrepareDigestParts(rid, tok, m)
    PROVE  StoreTypeOK'
<1> DEFINE row == [run[rid] EXCEPT !.state = "delivering", !.manifest = m]
<1>1. CASE UNCHANGED store
  BY <1>1 DEF StoreTypeOK, store
<1>2. CASE ~UNCHANGED store
  <2>1. AbsentPart \in PartRow
    BY StoreAssumption DEF AbsentPart, PartRow, DeliveryStates, CleanupStates
  <2>2. PlannedPart \in PartRow
    BY <2>1 DEF PlannedPart, PartRow, DeliveryStates
  <2>3. part' \in [Rid -> [PartIds -> PartRow]]
    BY <1>2, <2>1, <2>2 DEF PrepareDigestParts, StoreTypeOK
  <2>4. run[rid] \in Row => row \in Row
    BY DEF Row, RunStates, Unfinished
  <2>5. run' = [run EXCEPT ![rid] = row]
    BY <1>2 DEF PrepareDigestParts
  <2>6. run' \in [Rid -> Row]
    BY <2>4, <2>5, RunUpdate DEF StoreTypeOK
  <2> QED BY <1>2, <2>3, <2>6 DEF PrepareDigestParts, StoreTypeOK
<1> QED BY <1>1, <1>2

LEMMA ClaimPartType ==
    ASSUME StoreTypeOK, NEW rid, NEW tok, NEW p, ClaimDigestPartDelivery(rid, tok, p)
    PROVE  StoreTypeOK'
<1> DEFINE row == NextAttempt(part[rid][p])
<1>1. CASE ~PartClaimable(rid, tok, p)
  BY <1>1 DEF ClaimDigestPartDelivery, StoreTypeOK
<1>2. CASE PartClaimable(rid, tok, p)
  <2>1. part' = [part EXCEPT ![rid][p] = row]
    BY <1>2 DEF ClaimDigestPartDelivery
  <2>2. rid \in Rid /\ p \in PartIds => part[rid][p] \in PartRow
    BY DEF StoreTypeOK
  <2>3. rid \in Rid /\ p \in PartIds => row \in PartRow
    <3>1. part[rid][p].attempts < MaxAttempts
      BY <1>2 DEF PartClaimable
    <3>2. rid \in Rid /\ p \in PartIds => part[rid][p].attempts + 1 \in 0 .. MaxAttempts
      BY <2>2, <3>1, StoreAssumption DEF PartRow
    <3> QED BY <2>2, <3>2 DEF NextAttempt, PartRow, DeliveryStates
  <2>4. part' \in [Rid -> [PartIds -> PartRow]]
    BY <2>1, <2>3, PartUpdate DEF StoreTypeOK
  <2> QED BY <2>4 DEF ClaimDigestPartDelivery, StoreTypeOK
<1> QED BY <1>1, <1>2

LEMMA MarkDeliveredType ==
    ASSUME StoreTypeOK, NEW rid, NEW tok, NEW p, NEW k, NEW ts \in 0 .. MaxAttempts,
           MarkDigestPartDelivered(rid, tok, p, k, ts)
    PROVE  StoreTypeOK'
<1> DEFINE row == [part[rid][p] EXCEPT !.delivery = "delivered", !.ts = ts]
<1>1. CASE part' = part
  BY <1>1 DEF MarkDigestPartDelivered, StoreTypeOK
<1>2. CASE part' = [part EXCEPT ![rid][p] = row]
  <2>1. rid \in Rid /\ p \in PartIds => part[rid][p] \in PartRow
    BY DEF StoreTypeOK
  <2>2. rid \in Rid /\ p \in PartIds => row \in PartRow
    BY <2>1 DEF PartRow, DeliveryStates
  <2>3. part' \in [Rid -> [PartIds -> PartRow]]
    BY <1>2, <2>2, PartUpdate DEF StoreTypeOK
  <2> QED BY <2>3 DEF MarkDigestPartDelivered, StoreTypeOK
<1> QED BY <1>1, <1>2 DEF MarkDigestPartDelivered

LEMMA MarkFailedType ==
    ASSUME StoreTypeOK, NEW rid, NEW tok, NEW p, NEW k, NEW limited \in BOOLEAN,
           MarkDigestPartFailed(rid, tok, p, k, limited)
    PROVE  StoreTypeOK'
<1> DEFINE row == [part[rid][p] EXCEPT !.delivery = "failed", !.limited = limited]
<1>1. CASE part' = part
  BY <1>1 DEF MarkDigestPartFailed, StoreTypeOK
<1>2. CASE part' = [part EXCEPT ![rid][p] = row]
  <2>1. rid \in Rid /\ p \in PartIds => part[rid][p] \in PartRow
    BY DEF StoreTypeOK
  <2>2. rid \in Rid /\ p \in PartIds => row \in PartRow
    BY <2>1 DEF PartRow, DeliveryStates
  <2>3. part' \in [Rid -> [PartIds -> PartRow]]
    BY <1>2, <2>2, PartUpdate DEF StoreTypeOK
  <2> QED BY <2>3 DEF MarkDigestPartFailed, StoreTypeOK
<1> QED BY <1>1, <1>2 DEF MarkDigestPartFailed

LEMMA DivergedType ==
    ASSUME StoreTypeOK, NEW rid, NEW tok, MarkDigestGenerationDiverged(rid, tok)
    PROVE  StoreTypeOK'
<1> DEFINE row == [run[rid] EXCEPT !.state = "diverged", !.live = FALSE]
<1>1. run[rid] \in Row => row \in Row
  BY DEF Row, RunStates
<1> QED BY <1>1, RunUpdate DEF MarkDigestGenerationDiverged, StoreTypeOK

LEMMA FailType ==
    ASSUME StoreTypeOK, NEW rid, NEW tok, FailDigestRun(rid, tok)
    PROVE  StoreTypeOK'
<1> DEFINE row == [run[rid] EXCEPT !.state = "failed"]
<1>1. run[rid] \in Row => row \in Row
  BY DEF Row, RunStates, Unfinished
<1> QED BY <1>1, RunUpdate DEF FailDigestRun, StoreTypeOK

LEMMA FinalizeType ==
    ASSUME StoreTypeOK, NEW rid, NEW tok, NEW at \in Nat, FinalizeDigestRun(rid, tok, at)
    PROVE  StoreTypeOK'
<1>1. CASE Finalizable(rid, tok, at)
  <2> DEFINE row == [run[rid] EXCEPT !.state = "delivered", !.live = FALSE, !.deliveredAt = at]
             R == [run EXCEPT ![rid] = row]
  <2>1. run[rid] \in Row => row \in Row
    BY DEF Row, RunStates, Published
  <2>2. R \in [Rid -> Row]
    BY <2>1, RunUpdate DEF StoreTypeOK
  <2>3. run' = Retire(R, part, rid)
    BY <1>1 DEF FinalizeDigestRun
  <2>4. run' \in [Rid -> Row]
    BY <2>2, <2>3, RetireType
  <2>5. ASSUME NEW w \in Items
        PROVE  Counted(run[rid].manifest)[w] \in ItemRow
    <3>1. item[w] \in ItemRow
      BY DEF StoreTypeOK
    <3>2. [item[w] EXCEPT !.included = @ + 1] \in ItemRow
      BY <3>1 DEF ItemRow
    <3> QED BY <3>1, <3>2 DEF Counted
  <2>6. item' \in [Items -> ItemRow]
    BY <1>1, <2>5 DEF FinalizeDigestRun, Counted
  <2> QED BY <2>4, <2>6 DEF FinalizeDigestRun, StoreTypeOK
<1>2. CASE ~Finalizable(rid, tok, at)
  BY <1>2 DEF FinalizeDigestRun, StoreTypeOK
<1> QED BY <1>1, <1>2

LEMMA SettleLinkType ==
    ASSUME StoreTypeOK, NEW P, NEW succ, NEW owner, NEW prev, SettleLink(P, succ, owner, prev)
    PROVE  run' \in [Rid -> Row] /\ item' = item
<1> DEFINE row1 == IF run[prev].state = "delivered" /\ PartsGone(P[prev])
                   THEN [run[prev] EXCEPT !.state = "replaced"] ELSE run[prev]
           R1 == [run EXCEPT ![prev] = row1]
           row2 == [R1[owner] EXCEPT !.prevCleanup = Aggregate(P[prev])]
           R2 == [R1 EXCEPT ![owner] = row2]
<1>1. run[prev] \in Row => row1 \in Row
  BY DEF Row, RunStates, Published
<1>2. R1 \in [Rid -> Row]
  BY <1>1, RunUpdate DEF StoreTypeOK
<1>3. Aggregate(P[prev]) \in CleanupStates
  BY DEF Aggregate, CleanupStates, Gone
<1>4. R1[owner] \in Row => row2 \in Row
  BY <1>3 DEF Row
<1>5. R2 \in [Rid -> Row]
  BY <1>2, <1>4, RunUpdate
<1>6. run' = Retire(R2, P, succ) /\ item' = item
  BY DEF SettleLink
<1> QED BY <1>5, <1>6, RetireType

LEMMA ClaimCleanupType ==
    ASSUME StoreTypeOK, NEW succ, NEW prev, NEW p, ClaimDigestPartCleanup(succ, prev, p)
    PROVE  StoreTypeOK'
<1>1. CASE CleanupTarget(succ, prev, p, {"diverged"})
  <2> DEFINE row == IF Cleanable(part[prev][p]) THEN NextCleanup(part[prev][p]) ELSE part[prev][p]
  <2>1. part' = [part EXCEPT ![prev][p] = row]
    BY <1>1 DEF ClaimDigestPartCleanup
  <2>2. prev \in Rid /\ p \in PartIds => part[prev][p] \in PartRow
    BY DEF StoreTypeOK
  <2>3. prev \in Rid /\ p \in PartIds => row \in PartRow
    <3>1. prev \in Rid /\ p \in PartIds => part[prev][p].cleanups + 1 \in Nat
      BY <2>2 DEF PartRow
    <3> QED BY <2>2, <3>1 DEF NextCleanup, PartRow, CleanupStates
  <2>4. part' \in [Rid -> [PartIds -> PartRow]]
    BY <2>1, <2>3, PartUpdate DEF StoreTypeOK
  <2>5. PICK owner : SettleLink(part', succ, owner, prev)
    BY <1>1 DEF ClaimDigestPartCleanup
  <2>6. run' \in [Rid -> Row] /\ item' = item
    BY <2>5, SettleLinkType
  <2> QED BY <2>4, <2>6 DEF StoreTypeOK
<1>2. CASE ~CleanupTarget(succ, prev, p, {"diverged"})
  BY <1>2 DEF ClaimDigestPartCleanup, StoreTypeOK, store
<1> QED BY <1>1, <1>2

LEMMA RecordCleanupType ==
    ASSUME StoreTypeOK, NEW succ, NEW prev, NEW p, NEW k, NEW outcome \in CleanupStates,
           RecordDigestPartCleanup(succ, prev, p, k, outcome)
    PROVE  StoreTypeOK'
<1>1. CASE Recordable(succ, prev, p, k, outcome)
  <2> DEFINE row == [part[prev][p] EXCEPT !.cleanup = outcome, !.cleanupLive = FALSE]
  <2>1. part' = [part EXCEPT ![prev][p] = row]
    BY <1>1 DEF RecordDigestPartCleanup
  <2>2. prev \in Rid /\ p \in PartIds => part[prev][p] \in PartRow
    BY DEF StoreTypeOK
  <2>3. prev \in Rid /\ p \in PartIds => row \in PartRow
    BY <2>2 DEF PartRow
  <2>4. part' \in [Rid -> [PartIds -> PartRow]]
    BY <2>1, <2>3, PartUpdate DEF StoreTypeOK
  <2>5. PICK owner : SettleLink(part', succ, owner, prev)
    BY <1>1 DEF RecordDigestPartCleanup
  <2>6. run' \in [Rid -> Row] /\ item' = item
    BY <2>5, SettleLinkType
  <2> QED BY <2>4, <2>6 DEF StoreTypeOK
<1>2. CASE ~Recordable(succ, prev, p, k, outcome)
  BY <1>2 DEF RecordDigestPartCleanup, StoreTypeOK, store
<1> QED BY <1>1, <1>2

LEMMA TimeType ==
    ASSUME StoreTypeOK, NEW rid, NEW p,
           LeaseExpires(rid) \/ CleanupLeaseExpires(rid, p) \/ RetryFallsDue(rid, p)
    PROVE  StoreTypeOK'
<1>1. CASE LeaseExpires(rid)
  <2> DEFINE row == [run[rid] EXCEPT !.live = FALSE]
  <2>1. run[rid] \in Row => row \in Row
    BY DEF Row
  <2> QED BY <1>1, <2>1, RunUpdate DEF LeaseExpires, StoreTypeOK
<1>2. CASE CleanupLeaseExpires(rid, p)
  <2> DEFINE row == [part[rid][p] EXCEPT !.cleanupLive = FALSE]
  <2>1. rid \in Rid /\ p \in PartIds => part[rid][p] \in PartRow
    BY DEF StoreTypeOK
  <2>2. rid \in Rid /\ p \in PartIds => row \in PartRow
    BY <2>1 DEF PartRow
  <2> QED BY <1>2, <2>2, PartUpdate DEF CleanupLeaseExpires, StoreTypeOK
<1>3. CASE RetryFallsDue(rid, p)
  <2> DEFINE row == [part[rid][p] EXCEPT !.limited = FALSE]
  <2>1. rid \in Rid /\ p \in PartIds => part[rid][p] \in PartRow
    BY DEF StoreTypeOK
  <2>2. rid \in Rid /\ p \in PartIds => row \in PartRow
    BY <2>1 DEF PartRow
  <2> QED BY <1>3, <2>2, PartUpdate DEF RetryFallsDue, StoreTypeOK
<1> QED BY <1>1, <1>2, <1>3

LEMMA ItemType ==
    ASSUME StoreTypeOK, NEW w \in Items, NEW at \in Nat, ItemChanges(w, at)
    PROVE  StoreTypeOK'
<1>1. PICK still \in BOOLEAN, since \in {item[w].since, at} :
        item' = [item EXCEPT ![w] = Revised(@, still, since)]
  BY DEF ItemChanges
<1>2. item[w] \in ItemRow /\ item[w].version < MaxVersion
  BY DEF ItemChanges, StoreTypeOK
<1>3. item[w].version + 1 \in 1 .. MaxVersion
  BY <1>2, StoreAssumption DEF ItemRow
<1>4. Revised(item[w], still, since) \in ItemRow
  BY <1>2, <1>3 DEF Revised, ItemRow
<1>5. item' \in [Items -> ItemRow]
  BY <1>1, <1>4 DEF StoreTypeOK
<1> QED BY <1>5 DEF ItemChanges, StoreTypeOK

----------------------------------------------------------------------------
(* The runners keep theirs.  Outside the part loops a runner's part number  *)
(* may be one past the last part, only a claimed attempt is posted and only *)
(* a manifest that was read is prepared.                                    *)

PartPCs == {"skip", "claim_part", "post", "search", "settle", "settle_failed"}

\* Where nothing is known of the record.
FreePCs == PCs \ (PartPCs \cup {"prepare", "record"})

Focused(rec) ==
    /\ rec.pc \in PartPCs => rec.i \in PartIds
    /\ rec.pc = "post" => rec.rid \in Rid /\ rec.k \in 1 .. MaxAttempts
    /\ rec.pc = "prepare" => rec.m \in Manifests
    /\ rec.pc = "record" => rec.error \in CleanupStates

Runner(rec) == rec \in RunnerState /\ Focused(rec)

TypeInv == TypeOK /\ \A r \in Runners : Focused(rn[r])

LEMMA IdleRunner == Runner(Idle)
BY StoreAssumption, RunnerAssumption
   DEF Idle, Runner, RunnerState, Focused, PartPCs, PCs, NoView, View, NoTarget, DeliveryStates

\* Records a runner enters outside the part loops.
LEMMA CycleRunner ==
    ASSUME NEW pc \in FreePCs, NEW at \in 0 .. MaxTime,
           NEW window \in {"recovery", "current"}, NEW targets \in SUBSET Targets
    PROVE  /\ Runner([Idle EXCEPT !.pc = pc, !.at = at, !.window = window, !.targets = targets])
           /\ Runner([Idle EXCEPT !.pc = pc, !.at = at, !.window = window])
           /\ Runner([Idle EXCEPT !.pc = pc, !.at = at])
<1>1. Idle \in RunnerState /\ pc \in PCs
  BY IdleRunner DEF Runner, FreePCs
<1>2. ASSUME NEW rec \in RunnerState, rec.pc = pc
      PROVE  Runner(rec)
  BY <1>2 DEF Runner, Focused, FreePCs, PartPCs
<1> DEFINE A == [Idle EXCEPT !.pc = pc, !.at = at, !.window = window, !.targets = targets]
           B == [Idle EXCEPT !.pc = pc, !.at = at, !.window = window]
           C == [Idle EXCEPT !.pc = pc, !.at = at]
<1>3. A \in RunnerState /\ A.pc = pc
  BY <1>1 DEF RunnerState
<1>4. B \in RunnerState /\ B.pc = pc
  BY <1>1 DEF RunnerState
<1>5. C \in RunnerState /\ C.pc = pc
  BY <1>1 DEF RunnerState
<1> QED BY <1>2, <1>3, <1>4, <1>5

\* A runner moves on in its record.
LEMMA MoveRunner ==
    ASSUME NEW rec \in RunnerState, NEW pc \in FreePCs
    PROVE  /\ Runner([rec EXCEPT !.pc = pc])
           /\ Runner([rec EXCEPT !.pc = pc, !.m = NoManifest])
<1>0. pc \in PCs
  BY DEF FreePCs
<1>1. /\ [rec EXCEPT !.pc = pc] \in RunnerState
      /\ [rec EXCEPT !.pc = pc].pc = pc
      /\ [rec EXCEPT !.pc = pc, !.m = NoManifest] \in RunnerState
      /\ [rec EXCEPT !.pc = pc, !.m = NoManifest].pc = pc
  BY <1>0 DEF RunnerState
<1> QED BY <1>1 DEF Runner, Focused, FreePCs, PartPCs

LEMMA ToCleanupRunner ==
    ASSUME NEW r, rn[r] \in RunnerState
    PROVE  Runner(ToCleanup(r))
<1>1. rn[r].at \in 0 .. MaxTime /\ rn[r].window \in {"recovery", "current"}
  BY DEF RunnerState
<1>2. "list" \in FreePCs
  BY DEF PCs, PartPCs, FreePCs
<1> QED BY <1>1, <1>2, CycleRunner DEF ToCleanup

LEMMA EndWindowRunner ==
    ASSUME NEW rec \in RunnerState
    PROVE  Runner(EndWindow(rec))
<1>1. rec.at \in 0 .. MaxTime
  BY DEF RunnerState
<1>2. "claim" \in FreePCs
  BY DEF PCs, PartPCs, FreePCs
<1> QED BY <1>1, <1>2, CycleRunner, IdleRunner DEF EndWindow

LEMMA CleanRunner ==
    ASSUME NEW rec \in RunnerState, NEW targets \in SUBSET Targets
    PROVE  Runner(Clean(rec, targets))
<1>1. rec.at \in 0 .. MaxTime /\ rec.window \in {"recovery", "current"}
  BY DEF RunnerState
<1>2. "clean" \in FreePCs
  BY DEF PCs, PartPCs, FreePCs
<1> QED BY <1>1, <1>2, CycleRunner, EndWindowRunner DEF Clean

LEMMA ToFailRunRunner ==
    ASSUME NEW r, rn[r] \in RunnerState
    PROVE  Runner(ToFailRun(r))
<1>1. "fail_run" \in FreePCs
  BY DEF PCs, PartPCs, FreePCs
<1> QED BY <1>1, MoveRunner DEF ToFailRun

LEMMA PartAtRunner ==
    ASSUME NEW rec \in RunnerState, NEW i \in 1 .. MaxParts + 1
    PROVE  Runner(PartAt(rec, i))
<1> DEFINE seen == IF i <= MaxParts THEN rec.view[i] ELSE [delivery |-> "absent", attempts |-> 0]
           pc == CASE seen.delivery = "absent" -> IF rec.diverged THEN "diverge" ELSE "finalize"
                   [] seen.delivery = "delivering" -> "search"
                   [] seen.delivery = "delivered" -> "skip"
                   [] OTHER -> IF rec.diverged THEN "skip" ELSE "claim_part"
           k == IF seen.delivery = "delivering" THEN seen.attempts ELSE 0
<1>1. rec.view \in View
  BY DEF RunnerState
<1>2. seen.delivery \in DeliveryStates /\ seen.attempts \in 0 .. MaxAttempts
  BY <1>1, StoreAssumption DEF View, PartIds, DeliveryStates
<1>3. seen.delivery # "absent" => i \in PartIds
  BY StoreAssumption DEF PartIds
<1>4. k \in Nat
  BY <1>2, StoreAssumption
<1>5. pc \in PCs \ {"post", "prepare", "record"}
  BY DEF PCs
<1>6. pc \in PartPCs => i \in PartIds
  BY <1>3 DEF PartPCs
<1>7. PartAt(rec, i) = [rec EXCEPT !.i = i, !.ts = 0, !.error = "none", !.k = k, !.pc = pc]
  BY DEF PartAt
<1> HIDE DEF pc, k
<1>8. [rec EXCEPT !.i = i, !.ts = 0, !.error = "none", !.k = k, !.pc = pc] \in RunnerState
  <2>1. 0 \in 0 .. MaxAttempts /\ pc \in PCs
    BY <1>5, StoreAssumption
  <2> QED BY <1>4, <2>1 DEF RunnerState
<1>9. Focused([rec EXCEPT !.i = i, !.ts = 0, !.error = "none", !.k = k, !.pc = pc])
  BY <1>5, <1>6 DEF RunnerState, Focused
<1> QED BY <1>7, <1>8, <1>9 DEF Runner

LEMMA NextPartRunner ==
    ASSUME NEW rec \in RunnerState, rec.i \in PartIds
    PROVE  Runner(NextPart(rec))
<1>1. rec.i + 1 \in 1 .. MaxParts + 1
  BY StoreAssumption DEF PartIds
<1> QED BY <1>1, PartAtRunner DEF NextPart

LEMMA MoveType ==
    ASSUME TypeInv, StoreTypeOK', NEW r \in Runners, NEW rec, Runner(rec), Go(r, rec),
           UNCHANGED <<msgs, inflight, now>>, Fault \/ NoFault
    PROVE  TypeInv'
<1>1. rn' \in [Runners -> RunnerState]
  BY DEF TypeInv, TypeOK, Go, Runner
<1>2. \A q \in Runners : Focused(rn'[q])
  BY DEF TypeInv, TypeOK, Go, Runner
<1>3. faults' \in 0 .. MaxFaults
  BY RunnerAssumption DEF TypeInv, TypeOK, Fault, NoFault
<1> QED BY <1>1, <1>2, <1>3 DEF TypeInv, TypeOK

LEMMA StoreUnchanged ==
    ASSUME StoreTypeOK, UNCHANGED store
    PROVE  StoreTypeOK'
BY DEF StoreTypeOK, store

LEMMA SlotType == \A at \in 0 .. MaxTime : SlotOf(at) \in Slots
BY RunnerAssumption DEF SlotOf

LEMMA TokenForType ==
    ASSUME NEW rid
    PROVE  TokenFor(rid) \in Tokens \cup {NoToken}
BY FreshTokenExists DEF TokenFor

LEMMA ClaimedRunner ==
    ASSUME NEW r, rn[r] \in RunnerState, NEW rid \in Rid \cup {NoRun},
           NEW window \in {"recovery", "current"}
    PROVE  Runner(Claimed(r, rid, window))
<1>1. "claim" \in FreePCs /\ "report" \in PCs
  BY DEF PCs, PartPCs, FreePCs
<1>2. CASE rid = NoRun
  BY <1>1, <1>2, MoveRunner, ToCleanupRunner DEF Claimed
<1>3. CASE rid # NoRun
  <2> DEFINE tok == FreshToken(rid)
             rec == [rn[r] EXCEPT !.pc = "report", !.window = window, !.rid = rid, !.tok = tok]
  <2>1. tok \in Tokens
    BY FreshTokenExists
  <2> HIDE DEF tok
  <2>2. rec \in RunnerState /\ rec.pc = "report"
    BY <1>1, <2>1 DEF RunnerState
  <2>3. Runner(rec)
    BY <2>2 DEF Runner, Focused, PartPCs
  <2> QED BY <1>3, <2>3 DEF Claimed, tok
<1> QED BY <1>2, <1>3

LEMMA ClaimTypes ==
    ASSUME TypeInv, NEW r \in Runners, ClaimRecovery(r) \/ ClaimCurrent(r)
    PROVE  TypeInv'
<1> DEFINE s == SlotOf(rn[r].at)
<1>1. rn[r] \in RunnerState /\ StoreTypeOK
  BY DEF TypeInv, TypeOK
<1>2. s \in Slots
  BY <1>1, SlotType DEF RunnerState
<1>3. "claim" \in FreePCs
  BY DEF PCs, PartPCs, FreePCs
<1>4. Runner([rn[r] EXCEPT !.pc = "claim"]) /\ Runner(ToCleanup(r))
  BY <1>1, <1>3, MoveRunner, ToCleanupRunner
<1> HIDE DEF s
<1>5. CASE ClaimRecovery(r)
  <2> DEFINE rid == DivergentClaimable(s)
  <2>1. rid \in Rid \cup {NoRun}
    BY <1>2, OldestDivergentType, ClaimableType DEF DivergentClaimable, DivergentSlots
  <2>2. Runner(Claimed(r, rid, "recovery"))
    BY <1>1, <2>1, ClaimedRunner
  <2>3. TokenFor(rid) \in Tokens \cup {NoToken}
    BY TokenForType
  <2>4. /\ ClaimDivergentDigestRun(s, TokenFor(rid)) \/ UNCHANGED store
        /\ Go(r, Claimed(r, rid, "recovery")) \/ Go(r, [rn[r] EXCEPT !.pc = "claim"])
        /\ UNCHANGED <<msgs, inflight, now>>
        /\ Fault \/ NoFault
    BY <1>5 DEF ClaimRecovery, Call, s
  <2>5. StoreTypeOK'
    BY <1>1, <1>2, <2>3, <2>4, ClaimDivergentType, StoreUnchanged
  <2> QED BY <1>4, <2>2, <2>4, <2>5, MoveType
<1>6. CASE ClaimCurrent(r)
  <2> DEFINE rid == Claimable(s)
  <2>1. rid \in Rid \cup {NoRun}
    BY <1>2, ClaimableType
  <2>2. Runner(Claimed(r, rid, "current"))
    BY <1>1, <2>1, ClaimedRunner
  <2>3. TokenFor(rid) \in Tokens \cup {NoToken}
    BY TokenForType
  <2>4. /\ ClaimDigestRun(s, TokenFor(rid)) \/ UNCHANGED store
        /\ Go(r, Claimed(r, rid, "current")) \/ Go(r, ToCleanup(r))
        /\ UNCHANGED <<msgs, inflight, now>>
        /\ Fault \/ NoFault
    BY <1>6 DEF ClaimCurrent, Call, s
  <2>5. StoreTypeOK'
    BY <1>1, <1>2, <2>3, <2>4, ClaimType, StoreUnchanged
  <2> QED BY <1>4, <2>2, <2>4, <2>5, MoveType
<1> QED BY <1>5, <1>6

\* The actions that only move the runner.
LEMMA LocalTypes ==
    ASSUME TypeInv, NEW r \in Runners,
           StartCycle(r) \/ ReadReport(r) \/ SkipPart(r) \/ Search(r) \/ ListBacklog(r) \/ Crash(r)
    PROVE  TypeInv'
<1>1. rn[r] \in RunnerState /\ Focused(rn[r]) /\ StoreTypeOK
  BY DEF TypeInv, TypeOK
<1>2. UNCHANGED store => StoreTypeOK'
  BY <1>1, StoreUnchanged
<1>3. CASE StartCycle(r)
  <2>1. now \in 0 .. MaxTime /\ "recover" \in FreePCs
    BY DEF TypeInv, TypeOK, PCs, PartPCs, FreePCs
  <2>2. Runner([Idle EXCEPT !.pc = "recover", !.at = now])
    BY <2>1, CycleRunner
  <2> QED BY <1>2, <1>3, <2>2, MoveType DEF StartCycle, slack, NoFault
<1>4. CASE ReadReport(r)
  <2>1. ASSUME NEW m \in Manifests
        PROVE  Runner([rn[r] EXCEPT !.pc = "prepare", !.m = m])
    <3>1. "prepare" \in PCs
      BY DEF PCs
    <3>2. /\ [rn[r] EXCEPT !.pc = "prepare", !.m = m] \in RunnerState
          /\ [rn[r] EXCEPT !.pc = "prepare", !.m = m].pc = "prepare"
          /\ [rn[r] EXCEPT !.pc = "prepare", !.m = m].m = m
      BY <1>1, <3>1 DEF RunnerState
    <3> QED BY <3>2 DEF Runner, Focused, PartPCs
  <2>2. \E rec : Runner(rec) /\ Go(r, rec) /\ (Fault \/ NoFault)
    BY <1>1, <1>4, <2>1, ToFailRunRunner DEF ReadReport
  <2> QED BY <1>2, <1>4, <2>2, MoveType DEF ReadReport, slack
<1>5. CASE SkipPart(r)
  <2>1. Runner(NextPart(rn[r]))
    BY <1>1, <1>5, NextPartRunner DEF SkipPart, At, Focused, PartPCs
  <2> QED BY <1>2, <1>5, <2>1, MoveType DEF SkipPart, slack, NoFault
<1>6. CASE Search(r)
  <2>1. rn[r].i \in PartIds
    BY <1>1, <1>6 DEF Search, At, Focused, PartPCs
  <2>2. ASSUME NEW k \in 1 .. MaxAttempts
        PROVE  Runner([rn[r] EXCEPT !.pc = "settle", !.ts = k])
    <3>1. "settle" \in PCs /\ k \in 0 .. MaxAttempts
      BY DEF PCs
    <3>2. /\ [rn[r] EXCEPT !.pc = "settle", !.ts = k] \in RunnerState
          /\ [rn[r] EXCEPT !.pc = "settle", !.ts = k].pc = "settle"
          /\ [rn[r] EXCEPT !.pc = "settle", !.ts = k].i = rn[r].i
      BY <1>1, <3>1 DEF RunnerState
    <3> QED BY <2>1, <3>2 DEF Runner, Focused
  <2>3. Runner(ToSettleFailed(r))
    <3>1. "settle_failed" \in PCs
      BY DEF PCs
    <3>2. /\ ToSettleFailed(r) \in RunnerState
          /\ ToSettleFailed(r).pc = "settle_failed"
          /\ ToSettleFailed(r).i = rn[r].i
      BY <1>1, <3>1 DEF ToSettleFailed, RunnerState
    <3> QED BY <2>1, <3>2 DEF Runner, Focused
  <2>4. \E rec : Runner(rec) /\ Go(r, rec) /\ (Fault \/ NoFault)
    BY <1>1, <1>6, <2>2, <2>3, ToCleanupRunner, ToFailRunRunner DEF Search, Copies
  <2> QED BY <1>2, <1>6, <2>4, MoveType DEF Search, slack
<1>7. CASE ListBacklog(r)
  <2>1. CleanupBacklog \in SUBSET Targets
    BY DEF CleanupBacklog, Targets
  <2>2. \E rec : Runner(rec) /\ Go(r, rec) /\ (Fault \/ NoFault)
    BY <1>1, <1>7, <2>1, CleanRunner, EndWindowRunner DEF ListBacklog
  <2> QED BY <1>2, <1>7, <2>2, MoveType DEF ListBacklog, slack
<1>8. CASE Crash(r)
  BY <1>2, <1>8, IdleRunner, MoveType DEF Crash, slack
<1> QED BY <1>3, <1>4, <1>5, <1>6, <1>7, <1>8

LEMMA AfterPrepareRunner ==
    ASSUME TypeInv, NEW r \in Runners
    PROVE  Runner(AfterPrepare(r))
<1>1. rn[r] \in RunnerState /\ StoreTypeOK
  BY DEF TypeInv, TypeOK
<1> DEFINE rid == rn[r].rid
           m == rn[r].m
           tok == rn[r].tok
           view == PreparedParts(rid, m)
           mismatch == Mismatch(rid, tok, m)
           rec == [rn[r] EXCEPT !.m = NoManifest, !.view = view, !.diverged = mismatch]
<1>2. CASE Prepared(rid, tok, m) \/ Mismatch(rid, tok, m)
  <2>1. rid \in Rid
    BY <1>1, <1>2 DEF RunnerState, Prepared, Mismatch, HoldsLease
  <2>2. \A p \in PartIds : part[rid][p] \in PartRow
    BY <1>1, <2>1 DEF StoreTypeOK
  <2>3. \A p \in PartIds : /\ part[rid][p].delivery \in DeliveryStates
                           /\ part[rid][p].attempts \in 0 .. MaxAttempts
    BY <2>2 DEF PartRow
  <2>4. view \in View
    BY <2>3, StoreAssumption DEF PreparedParts, View, DeliveryStates
  <2>5. mismatch \in BOOLEAN
    BY DEF Mismatch
  <2> HIDE DEF view, mismatch
  <2>6. rec \in RunnerState
    BY <1>1, <2>4, <2>5 DEF RunnerState
  <2>7. 1 \in 1 .. MaxParts + 1
    BY StoreAssumption
  <2>8. Runner(PartAt(rec, 1))
    BY <2>6, <2>7, PartAtRunner
  <2>9. AfterPrepare(r) = PartAt(rec, 1)
    BY <1>2 DEF AfterPrepare, view, mismatch
  <2> QED BY <2>8, <2>9
<1>3. CASE ~(Prepared(rid, tok, m) \/ Mismatch(rid, tok, m))
  BY <1>1, <1>3, ToFailRunRunner DEF AfterPrepare
<1> QED BY <1>2, <1>3

LEMMA AfterPartClaimRunner ==
    ASSUME TypeInv, NEW r \in Runners, rn[r].i \in PartIds
    PROVE  Runner(AfterPartClaim(r))
<1>1. rn[r] \in RunnerState /\ StoreTypeOK
  BY DEF TypeInv, TypeOK
<1> DEFINE rid == rn[r].rid
           k == part[rid][rn[r].i].attempts + 1
           rec == [rn[r] EXCEPT !.pc = "post", !.k = k]
<1>2. CASE PartClaimable(rid, rn[r].tok, rn[r].i)
  <2>1. rid \in Rid
    BY <1>1, <1>2 DEF RunnerState, PartClaimable, HoldsLease
  <2>2. part[rid][rn[r].i] \in PartRow
    BY <1>1, <2>1 DEF StoreTypeOK
  <2>3. part[rid][rn[r].i].attempts \in 0 .. MaxAttempts
    BY <2>2 DEF PartRow
  <2>4. part[rid][rn[r].i].attempts < MaxAttempts
    BY <1>2 DEF PartClaimable
  <2>5. k \in 1 .. MaxAttempts /\ k \in Nat /\ "post" \in PCs
    BY <2>3, <2>4, StoreAssumption DEF PCs
  <2> HIDE DEF k
  <2>6. rec \in RunnerState /\ rec.pc = "post" /\ rec.k = k /\ rec.rid = rid /\ rec.i = rn[r].i
    BY <1>1, <2>5 DEF RunnerState
  <2>7. Runner(rec)
    BY <2>1, <2>5, <2>6 DEF Runner, Focused
  <2> QED BY <1>2, <2>7 DEF AfterPartClaim, k
<1>3. CASE ~PartClaimable(rid, rn[r].tok, rn[r].i)
  BY <1>1, <1>3, ToCleanupRunner, ToFailRunRunner DEF AfterPartClaim
<1> QED BY <1>2, <1>3

LEMMA DeliveryTypes ==
    ASSUME TypeInv, NEW r \in Runners, Prepare(r) \/ ClaimPart(r) \/ Post(r)
    PROVE  TypeInv'
<1>1. rn[r] \in RunnerState /\ Focused(rn[r]) /\ StoreTypeOK
  BY DEF TypeInv, TypeOK
<1> DEFINE rid == rn[r].rid
           tok == rn[r].tok
<1>2. CASE Prepare(r)
  <2>1. /\ PrepareDigestParts(rid, tok, rn[r].m) \/ UNCHANGED store
        /\ Go(r, AfterPrepare(r)) \/ Go(r, ToFailRun(r))
        /\ UNCHANGED <<msgs, inflight, now>>
        /\ Fault \/ NoFault
    BY <1>2 DEF Prepare, Call
  <2>2. rn[r].m \in Manifests \cup {NoManifest}
    BY <1>1 DEF RunnerState
  <2>3. StoreTypeOK'
    BY <1>1, <2>1, <2>2, PrepareType, StoreUnchanged
  <2> QED BY <1>1, <2>1, <2>3, AfterPrepareRunner, ToFailRunRunner, MoveType
<1>3. CASE ClaimPart(r)
  <2>1. /\ ClaimDigestPartDelivery(rid, tok, rn[r].i) \/ UNCHANGED store
        /\ Go(r, AfterPartClaim(r)) \/ Go(r, ToFailRun(r))
        /\ UNCHANGED <<msgs, inflight, now>>
        /\ Fault \/ NoFault
    BY <1>3 DEF ClaimPart, Call
  <2>2. rn[r].i \in PartIds
    BY <1>1, <1>3 DEF ClaimPart, At, Focused, PartPCs
  <2>3. StoreTypeOK'
    BY <1>1, <2>1, ClaimPartType, StoreUnchanged
  <2> QED BY <1>1, <2>1, <2>2, <2>3, AfterPartClaimRunner, ToFailRunRunner, MoveType
<1>4. CASE Post(r)
  <2>1. rn[r].i \in PartIds /\ rid \in Rid /\ rn[r].k \in 1 .. MaxAttempts
    BY <1>1, <1>4 DEF Post, At, Focused, PartPCs
  <2>2. Message(r) \in Rid \X PartIds \X (1 .. MaxAttempts)
    BY <2>1 DEF Message
  <2>3. /\ msgs' \subseteq Rid \X PartIds \X (1 .. MaxAttempts)
        /\ inflight' \subseteq Rid \X PartIds \X (1 .. MaxAttempts)
    BY <1>4, <2>2 DEF Post, slack, TypeInv, TypeOK
  <2>4. ASSUME NEW pc \in {"settle", "search", "settle_failed"}, NEW ts \in 0 .. MaxAttempts,
               NEW error \in {"none", "rejected", "rate_limited"}
        PROVE  /\ Runner([rn[r] EXCEPT !.pc = pc, !.ts = ts])
               /\ Runner([rn[r] EXCEPT !.pc = pc])
               /\ Runner([rn[r] EXCEPT !.pc = pc, !.error = error])
    <3>1. pc \in PCs
      BY DEF PCs
    <3>2. ASSUME NEW rec \in RunnerState, rec.pc = pc, rec.i = rn[r].i
          PROVE  Runner(rec)
      BY <2>1, <3>2 DEF Runner, Focused
    <3> DEFINE A == [rn[r] EXCEPT !.pc = pc, !.ts = ts]
               B == [rn[r] EXCEPT !.pc = pc]
               C == [rn[r] EXCEPT !.pc = pc, !.error = error]
    <3>3. A \in RunnerState /\ A.pc = pc /\ A.i = rn[r].i
      BY <1>1, <3>1 DEF RunnerState
    <3>4. B \in RunnerState /\ B.pc = pc /\ B.i = rn[r].i
      BY <1>1, <3>1 DEF RunnerState
    <3>5. C \in RunnerState /\ C.pc = pc /\ C.i = rn[r].i
      BY <1>1, <3>1 DEF RunnerState
    <3> QED BY <3>2, <3>3, <3>4, <3>5
  <2>5. PICK rec : Runner(rec) /\ Go(r, rec) /\ (Fault \/ NoFault)
    <3>0. rn[r].k \in 0 .. MaxAttempts
      BY <2>1, StoreAssumption
    <3>1. Runner([rn[r] EXCEPT !.pc = "settle", !.ts = rn[r].k])
      BY <2>4, <3>0
    <3>2. Runner([rn[r] EXCEPT !.pc = "search"])
      BY <2>4, <3>0
    <3>3. \A why \in {"rejected", "rate_limited"} :
             Runner([rn[r] EXCEPT !.pc = "settle_failed", !.error = why])
      BY <2>4, <3>0
    <3> QED BY <1>4, <3>1, <3>2, <3>3 DEF Post
  <2>6. StoreTypeOK'
    BY <1>1, <1>4, StoreUnchanged DEF Post
  <2>7. rn' \in [Runners -> RunnerState] /\ \A q \in Runners : Focused(rn'[q])
    BY <2>5 DEF TypeInv, TypeOK, Go, Runner
  <2>8. now' \in 0 .. MaxTime /\ faults' \in 0 .. MaxFaults
    BY <1>4, <2>5, RunnerAssumption DEF Post, TypeInv, TypeOK, Fault, NoFault
  <2> QED BY <2>3, <2>6, <2>7, <2>8 DEF TypeInv, TypeOK
<1> QED BY <1>2, <1>3, <1>4

LEMMA SettleTypes ==
    ASSUME TypeInv, NEW r \in Runners,
           \/ SettleDelivered(r) \/ SettleFailed(r) \/ Finalize(r) \/ FailRun(r) \/ Diverge(r)
    PROVE  TypeInv'
<1>1. rn[r] \in RunnerState /\ Focused(rn[r]) /\ StoreTypeOK
  BY DEF TypeInv, TypeOK
<1>2. Runner(ToCleanup(r)) /\ Runner(ToFailRun(r))
  BY <1>1, ToCleanupRunner, ToFailRunRunner
<1> DEFINE rec == rn[r]
<1>3. CASE SettleDelivered(r)
  <2>1. /\ \/ MarkDigestPartDelivered(rec.rid, rec.tok, rec.i, rec.k, rec.ts)
           \/ UNCHANGED store
        /\ Go(r, NextPart(rec)) \/ Go(r, ToCleanup(r))
        /\ UNCHANGED <<msgs, inflight, now>>
        /\ Fault \/ NoFault
    BY <1>3 DEF SettleDelivered, Call
  <2>2. Runner(NextPart(rec))
    BY <1>1, <1>3, NextPartRunner DEF SettleDelivered, At, Focused, PartPCs
  <2>3. rec.ts \in 0 .. MaxAttempts
    BY <1>1 DEF RunnerState
  <2>4. StoreTypeOK'
    BY <1>1, <2>1, <2>3, MarkDeliveredType, StoreUnchanged
  <2> QED BY <1>2, <2>1, <2>2, <2>4, MoveType
<1>4. CASE SettleFailed(r)
  <2> DEFINE limited == rec.error = "rate_limited"
  <2>1. /\ MarkDigestPartFailed(rec.rid, rec.tok, rec.i, rec.k, limited) \/ UNCHANGED store
        /\ Go(r, NextPart(rec)) \/ Go(r, ToFailRun(r))
        /\ UNCHANGED <<msgs, inflight, now>>
        /\ Fault \/ NoFault
    BY <1>4 DEF SettleFailed, Call
  <2>2. Runner(NextPart(rec))
    BY <1>1, <1>4, NextPartRunner DEF SettleFailed, At, Focused, PartPCs
  <2>3. limited \in BOOLEAN
    OBVIOUS
  <2> HIDE DEF limited
  <2>4. StoreTypeOK'
    BY <1>1, <2>1, <2>3, MarkFailedType, StoreUnchanged
  <2> QED BY <1>2, <2>1, <2>2, <2>4, MoveType
<1>5. CASE Finalize(r)
  <2>1. /\ FinalizeDigestRun(rec.rid, rec.tok, rec.at) \/ UNCHANGED store
        /\ Go(r, ToCleanup(r))
        /\ UNCHANGED <<msgs, inflight, now>>
        /\ Fault \/ NoFault
    BY <1>5 DEF Finalize, Call
  <2>2. rec.at \in Nat
    BY <1>1, RunnerAssumption DEF RunnerState
  <2>3. StoreTypeOK'
    BY <1>1, <2>1, <2>2, FinalizeType, StoreUnchanged
  <2> QED BY <1>2, <2>1, <2>3, MoveType
<1>6. CASE FailRun(r)
  <2>1. /\ FailDigestRun(rec.rid, rec.tok) \/ UNCHANGED store
        /\ Go(r, ToCleanup(r))
        /\ UNCHANGED <<msgs, inflight, now>>
        /\ Fault \/ NoFault
    BY <1>6 DEF FailRun, Call
  <2>2. StoreTypeOK'
    BY <1>1, <2>1, FailType, StoreUnchanged
  <2> QED BY <1>2, <2>1, <2>2, MoveType
<1>7. CASE Diverge(r)
  <2>1. /\ MarkDigestGenerationDiverged(rec.rid, rec.tok) \/ UNCHANGED store
        /\ Go(r, ToCleanup(r))
        /\ UNCHANGED <<msgs, inflight, now>>
        /\ Fault \/ NoFault
    BY <1>7 DEF Diverge, Call
  <2>2. StoreTypeOK'
    BY <1>1, <2>1, DivergedType, StoreUnchanged
  <2> QED BY <1>2, <2>1, <2>2, MoveType
<1> QED BY <1>3, <1>4, <1>5, <1>6, <1>7

LEMMA CleanupTypes ==
    ASSUME TypeInv, NEW r \in Runners, ClaimCleanup(r) \/ Delete(r) \/ RecordCleanup(r)
    PROVE  TypeInv'
<1>1. rn[r] \in RunnerState /\ Focused(rn[r]) /\ StoreTypeOK /\ rn[r].targets \in SUBSET Targets
  BY DEF TypeInv, TypeOK, RunnerState
<1>2. CASE ClaimCleanup(r)
  <2>1. PICK t \in rn[r].targets :
           LET rest == rn[r].targets \ {t} IN
           Call(r, ClaimDigestPartCleanup(t[1], t[2], t[3]),
                IF CleanupClaimable(t[1], t[2], t[3])
                THEN [rn[r] EXCEPT !.pc = "delete", !.targets = rest, !.cur = t,
                                   !.k = part[t[2]][t[3]].cleanups + 1]
                ELSE Clean(rn[r], rest),
                Clean(rn[r], rest))
    BY <1>2 DEF ClaimCleanup
  <2> DEFINE rest == rn[r].targets \ {t}
             k == part[t[2]][t[3]].cleanups + 1
             rec == [rn[r] EXCEPT !.pc = "delete", !.targets = rest, !.cur = t, !.k = k]
  <2>2. t \in Targets /\ rest \in SUBSET Targets
    BY <1>1
  <2>3. part[t[2]][t[3]] \in PartRow
    BY <1>1, <2>2 DEF StoreTypeOK, Targets
  <2>4. k \in Nat /\ "delete" \in PCs
    BY <2>3 DEF PartRow, PCs
  <2>5. /\ ClaimDigestPartCleanup(t[1], t[2], t[3]) \/ UNCHANGED store
        /\ Go(r, rec) \/ Go(r, Clean(rn[r], rest))
        /\ UNCHANGED <<msgs, inflight, now>>
        /\ Fault \/ NoFault
    BY <2>1 DEF Call
  <2> HIDE DEF rest, k
  <2>6. rec \in RunnerState /\ rec.pc = "delete"
    BY <1>1, <2>2, <2>4 DEF RunnerState
  <2>7. Runner(rec) /\ Runner(Clean(rn[r], rest))
    BY <1>1, <2>2, <2>6, CleanRunner DEF Runner, Focused, PartPCs
  <2>8. StoreTypeOK'
    BY <1>1, <2>5, ClaimCleanupType, StoreUnchanged
  <2> QED BY <2>5, <2>7, <2>8, MoveType
<1>3. CASE Delete(r)
  <2>1. ASSUME NEW o \in CleanupStates
        PROVE  Runner([rn[r] EXCEPT !.pc = "record", !.error = o])
    <3>1. "record" \in PCs
      BY DEF PCs
    <3>2. /\ [rn[r] EXCEPT !.pc = "record", !.error = o] \in RunnerState
          /\ [rn[r] EXCEPT !.pc = "record", !.error = o].pc = "record"
          /\ [rn[r] EXCEPT !.pc = "record", !.error = o].error = o
      BY <1>1, <3>1 DEF RunnerState
    <3> QED BY <3>2 DEF Runner, Focused, PartPCs
  <2>2. {"deleted", "already_absent", "failed"} \subseteq CleanupStates
    BY DEF CleanupStates, Gone
  <2>3. PICK rec : Runner(rec) /\ Go(r, rec) /\ (Fault \/ NoFault)
    BY <1>3, <2>1, <2>2 DEF Delete
  <2>4. StoreTypeOK'
    BY <1>1, <1>3, StoreUnchanged DEF Delete
  <2>5. /\ msgs' \subseteq Rid \X PartIds \X (1 .. MaxAttempts)
        /\ inflight' \subseteq Rid \X PartIds \X (1 .. MaxAttempts)
    BY <1>3 DEF Delete, TypeInv, TypeOK
  <2>6. rn' \in [Runners -> RunnerState] /\ \A q \in Runners : Focused(rn'[q])
    BY <2>3 DEF TypeInv, TypeOK, Go, Runner
  <2>7. now' \in 0 .. MaxTime
    BY <1>3 DEF Delete, TypeInv, TypeOK
  <2>8. faults' \in 0 .. MaxFaults
    BY <2>3, RunnerAssumption DEF TypeInv, TypeOK, Fault, NoFault
  <2> QED BY <2>4, <2>5, <2>6, <2>7, <2>8 DEF TypeInv, TypeOK
<1>4. CASE RecordCleanup(r)
  <2> DEFINE t == rn[r].cur
             next == Clean(rn[r], rn[r].targets)
  <2>1. /\ RecordDigestPartCleanup(t[1], t[2], t[3], rn[r].k, rn[r].error) \/ UNCHANGED store
        /\ Go(r, next)
        /\ UNCHANGED <<msgs, inflight, now>>
        /\ Fault \/ NoFault
    BY <1>4 DEF RecordCleanup, Call
  <2>2. rn[r].error \in CleanupStates
    BY <1>1, <1>4 DEF RecordCleanup, At, Focused
  <2>3. StoreTypeOK'
    BY <1>1, <2>1, <2>2, RecordCleanupType, StoreUnchanged
  <2>4. Runner(next)
    BY <1>1, CleanRunner
  <2> QED BY <2>1, <2>3, <2>4, MoveType
<1> QED BY <1>2, <1>3, <1>4

LEMMA EnvironmentTypes ==
    ASSUME TypeInv,
           \/ \E rid \in Rid : ExpireLease(rid)
           \/ \E rid \in Rid, p \in PartIds : ExpireCleanup(rid, p) \/ RetryDue(rid, p)
           \/ \E w \in Items : ItemChange(w)
           \/ Tick \/ LateMessage
    PROVE  TypeInv'
<1>1. StoreTypeOK /\ (UNCHANGED store => StoreTypeOK')
  BY StoreUnchanged DEF TypeInv, TypeOK
<1>2. CASE Tick \/ LateMessage
  BY <1>1, <1>2, RunnerAssumption DEF Tick, LateMessage, TypeInv, TypeOK, slack
<1>3. CASE \E rid \in Rid : ExpireLease(rid)
  <2>1. StoreTypeOK'
    BY <1>1, <1>3, TimeType DEF ExpireLease
  <2> QED BY <1>3, <2>1, RunnerAssumption DEF ExpireLease, TypeInv, TypeOK, Fault, NoFault, slack
<1>4. CASE \E rid \in Rid, p \in PartIds : ExpireCleanup(rid, p) \/ RetryDue(rid, p)
  <2>1. StoreTypeOK'
    BY <1>1, <1>4, TimeType DEF ExpireCleanup, RetryDue
  <2> QED BY <1>4, <2>1, RunnerAssumption
          DEF ExpireCleanup, RetryDue, TypeInv, TypeOK, Fault, NoFault, slack
<1>5. CASE \E w \in Items : ItemChange(w)
  <2>1. now \in Nat
    BY RunnerAssumption DEF TypeInv, TypeOK
  <2>2. StoreTypeOK'
    BY <1>1, <1>5, <2>1, ItemType DEF ItemChange
  <2> QED BY <1>5, <2>2 DEF ItemChange, TypeInv, TypeOK, slack
<1> QED BY <1>2, <1>3, <1>4, <1>5

LEMMA InitTypeInv == Init => TypeInv
<1>1. AbsentRow \in Row
  BY DEF AbsentRow, Row, RunStates, CleanupStates
<1>2. AbsentPart \in PartRow
  BY StoreAssumption DEF AbsentPart, PartRow, DeliveryStates, CleanupStates
<1>3. [version |-> 1, active |-> TRUE, since |-> 0, included |-> 0] \in ItemRow
  BY StoreAssumption DEF ItemRow
<1>4. StoreInit => StoreTypeOK
  BY <1>1, <1>2, <1>3 DEF StoreInit, StoreTypeOK
<1> QED BY <1>4, IdleRunner, RunnerAssumption DEF Init, TypeInv, TypeOK, Runner

LEMMA StepTypeInv == TypeInv /\ [Next]_vars => TypeInv'
<1> SUFFICES ASSUME TypeInv, [Next]_vars PROVE TypeInv'
  OBVIOUS
<1>1. CASE UNCHANGED vars
  BY <1>1 DEF vars, TypeInv, TypeOK, StoreTypeOK
<1>2. ASSUME NEW r \in Runners, Step(r) \/ Crash(r) PROVE TypeInv'
  BY <1>2, ClaimTypes, LocalTypes, DeliveryTypes, SettleTypes, CleanupTypes DEF Step
<1> QED BY <1>1, <1>2, EnvironmentTypes DEF Next

\* Every value the code stores stays in its column's domain and every attempt counter within
\* the schema's limit, for any number of runners, slots, generations, parts and attempts.
THEOREM TypeCorrect == Spec => []TypeOK
<1>1. TypeInv => TypeOK
  BY DEF TypeInv
<1> QED BY <1>1, InitTypeInv, StepTypeInv, PTL DEF Spec
=============================================================================
