------------------------ MODULE DigestHistoryProofs ------------------------
(***************************************************************************)
(* What the digest tables remember: theorems about the order of the        *)
(* generations of a slot and about evidence that no step takes back.  Both *)
(* follow from what one step does to a run and its parts (Evolves) and     *)
(* what a claim does (Begins); no property of the runners is needed.       *)
(***************************************************************************)
EXTENDS DigestRunProofs

Closed == Published \cup {"diverged", "retired"}

\* Nothing is left to clean.
Cleared == {"replaced", "retired"}

\* An absent run has nothing, and no part exists before its manifest.
Blank ==
    \A rid \in Rid :
        /\ run[rid].state = "absent" => run[rid].manifest = NoManifest
        /\ run[rid].manifest = NoManifest => \A p \in PartIds : part[rid][p].delivery = "absent"

\* A run given up for a new generation has no attempt left unsettled.
Settled ==
    \A rid \in Rid : run[rid].state \in {"diverged", "retired"} =>
        \A p \in PartIds : part[rid][p].delivery # "delivering"

HistoryInv == Blank /\ Settled /\ OneOpenGeneration

\* One step of run rid.
RunEvolves(rid) ==
    /\ run'[rid].state = "absent" <=> run[rid].state = "absent"
    /\ run'[rid].prev = run[rid].prev
    /\ run[rid].manifest # NoManifest => run'[rid].manifest = run[rid].manifest
    /\ run[rid].state = "absent" => run'[rid].manifest = run[rid].manifest
    /\ run[rid].state \in Published => run'[rid].state \in Published
    /\ run[rid].state \in {"diverged", "retired"} => run'[rid].state \in {"diverged", "retired"}
    /\ run'[rid].state = "retired" => run[rid].state \in {"diverged", "retired"}

\* And of its parts.
PartsEvolve(rid) ==
    /\ run'[rid].manifest = NoManifest =>
          \A p \in PartIds : part'[rid][p].delivery = part[rid][p].delivery
    /\ run[rid].state \in Closed =>
          \A p \in PartIds : part'[rid][p].delivery = part[rid][p].delivery
    /\ \A p \in PartIds : part[rid][p].delivery = "delivered" =>
          part'[rid][p].delivery = "delivered" /\ part'[rid][p].ts = part[rid][p].ts
    /\ run'[rid].state = "diverged" /\ run[rid].state # "diverged" =>
          \A p \in PartIds : part'[rid][p].delivery # "delivering"

Evolves == \A rid \in Rid : RunEvolves(rid) /\ PartsEvolve(rid)

LEMMA RowKept ==
    ASSUME run' = run
    PROVE  \A rid \in Rid : RunEvolves(rid)
BY DEF RunEvolves

LEMMA StutterEvolves ==
    ASSUME run' = run, part' = part
    PROVE  Evolves
BY DEF Evolves, RunEvolves, PartsEvolve

\* A step that changes at most the row of one open run and none of its parts.
LEMMA OpenRowEvolves ==
    ASSUME StoreTypeOK, NEW rid, part' = part,
           run[rid].state \in Unfinished, NEW row, run' = [run EXCEPT ![rid] = row],
           row.prev = run[rid].prev, row.manifest = run[rid].manifest,
           row.state \in Unfinished \cup {"diverged", "delivered"},
           row.state = "diverged" => \A p \in PartIds : part[rid][p].delivery # "delivering"
    PROVE  Evolves
<1>1. ASSUME NEW x \in Rid, x # rid PROVE run'[x] = run[x]
  BY <1>1 DEF StoreTypeOK
<1>2. rid \in Rid => run'[rid] = row
  BY DEF StoreTypeOK
<1>3. ASSUME NEW x \in Rid PROVE RunEvolves(x) /\ PartsEvolve(x)
  <2>1. CASE x = rid
    BY <1>2, <2>1 DEF RunEvolves, PartsEvolve, Unfinished, Published, Closed
  <2>2. CASE x # rid
    BY <1>1, <2>2 DEF RunEvolves, PartsEvolve
  <2> QED BY <2>1, <2>2
<1> QED BY <1>3 DEF Evolves

\* A step that changes one part, not delivered yet, of an open run.
LEMMA OpenPartEvolves ==
    ASSUME StoreTypeOK, Blank, NEW rid \in Rid \cup {NoRun}, NEW p, run' = run,
           run[rid].state \in Unfinished,
           part[rid][p].delivery \notin {"absent", "delivered"}, NEW row, part' = [part EXCEPT ![rid][p] = row]
    PROVE  Evolves
<1>1. ASSUME NEW x \in Rid, NEW q \in PartIds, x # rid \/ q # p
      PROVE  part'[x][q] = part[x][q]
  BY <1>1 DEF StoreTypeOK
<1>2. ASSUME NEW x \in Rid PROVE RunEvolves(x) /\ PartsEvolve(x)
  <2>1. CASE x = rid
    <3>1. p \in PartIds => run[x].manifest # NoManifest
      BY <2>1 DEF Blank
    <3> QED BY <1>1, <2>1, <3>1 DEF RunEvolves, PartsEvolve, Unfinished, Published, Closed
  <2>2. CASE x # rid
    BY <1>1, <2>2 DEF RunEvolves, PartsEvolve
  <2> QED BY <2>1, <2>2
<1> QED BY <1>2 DEF Evolves

\* A step that leaves the deliveries alone and lets runs be replaced or retired.
LEMMA CleanupEvolves ==
    ASSUME StoreTypeOK,
           \A rid \in Rid, p \in PartIds : /\ part'[rid][p].delivery = part[rid][p].delivery
                                           /\ part'[rid][p].ts = part[rid][p].ts,
           \A rid \in Rid :
              /\ run'[rid].prev = run[rid].prev
              /\ run'[rid].manifest = run[rid].manifest
              /\ \/ run'[rid].state = run[rid].state
                 \/ run[rid].state = "delivered" /\ run'[rid].state = "replaced"
                 \/ run[rid].state = "diverged" /\ run'[rid].state = "retired"
    PROVE  Evolves
<1>1. ASSUME NEW x \in Rid PROVE RunEvolves(x)
  BY DEF RunEvolves, Published
<1>2. ASSUME NEW x \in Rid PROVE PartsEvolve(x)
  BY DEF PartsEvolve
<1> QED BY <1>1, <1>2 DEF Evolves

\* What retires has nothing of its own left to clean and inherits nothing open.
LEMMA RetireEffect ==
    ASSUME NEW R \in [Rid -> Row], NEW P, NEW succ, NEW rid \in Rid
    PROVE  /\ Retire(R, P, succ)[rid].prev = R[rid].prev
           /\ Retire(R, P, succ)[rid].manifest = R[rid].manifest
           /\ \/ Retire(R, P, succ)[rid].state = R[rid].state
              \/ /\ R[rid].state = "diverged" /\ Retire(R, P, succ)[rid].state = "retired"
                 /\ PartsGone(P[rid])
                 /\ R[rid].prev # NoRun => Retire(R, P, succ)[R[rid].prev].state \in Cleared
<1> DEFINE T == Retire(R, P, succ)
<1>1. ASSUME NEW x \in Rid
      PROVE  /\ T[x].prev = R[x].prev /\ T[x].manifest = R[x].manifest
             /\ T[x].state = IF x \in Retired(R, P, succ) THEN "retired" ELSE R[x].state
  <2>1. R[x] \in Row
    OBVIOUS
  <2> QED BY <2>1 DEF Retire, Row
<1>2. CASE rid \in Retired(R, P, succ)
  <2>1. PICK S \in SUBSET Diverged(R, succ) : Retirable(R, P, S) /\ rid \in S
    BY <1>2 DEF Retired
  <2>2. R[rid].state = "diverged" /\ PartsGone(P[rid])
    BY <2>1 DEF Diverged, Retirable
  <2>3. ASSUME R[rid].prev # NoRun PROVE T[R[rid].prev].state \in Cleared
    <3>1. R[rid].prev \in Rid
      BY <2>3 DEF Row
    <3>2. R[R[rid].prev].state \in Cleared \/ R[rid].prev \in Retired(R, P, succ)
      BY <2>1, <2>3 DEF Retirable, Retired, Cleared
    <3> HIDE DEF T
    <3> QED BY <1>1, <3>1, <3>2 DEF Cleared
  <2> HIDE DEF T
  <2>4. T[rid].state = "retired"
    BY <1>1, <1>2
  <2> QED BY <1>1, <2>2, <2>3, <2>4 DEF T
<1>3. CASE rid \notin Retired(R, P, succ)
  BY <1>1, <1>3
<1> QED BY <1>2, <1>3

----------------------------------------------------------------------------
(* Every effect on the store but a claim that starts a generation evolves. *)

\* A claim starts the next generation of the slot, releases the open one or does nothing.
Begins(rid, token) ==
    /\ part' = part
    /\ run[rid].state = "absent"
    /\ run' = [run EXCEPT ![rid] = NewRow(rid, token)]
    /\ \A o \in Rid : o[1] = rid[1] /\ run[o].state # "absent" => o[2] < rid[2]
    /\ rid[2] # 1 => /\ <<rid[1], rid[2] - 1>> \in Rid
                     /\ run[<<rid[1], rid[2] - 1>>].state = "diverged"

\* A claim takes a released run or the first generation nobody started.
LEMMA ClaimableFree ==
    ASSUME NEW s \in Slots, NEW rid, rid = Claimable(s), rid # NoRun
    PROVE  /\ rid \in Rid /\ rid[1] = s
           /\ \/ Released(rid)
              \/ /\ run[rid].state = "absent"
                 /\ \A o \in Rid : o[1] = s /\ run[o].state # "absent" => o[2] < rid[2]
                 /\ rid[2] # 1 => /\ <<s, rid[2] - 1>> \in Rid
                                  /\ run[<<s, rid[2] - 1>>].state = "diverged"
<1>0. rid \in Rid /\ rid[1] = s
  BY ClaimableType
<1>1. CASE Generations(s) = {}
  <2>1. rid = <<s, 1>>
    BY <1>1 DEF Claimable
  <2>2. \A o \in Rid : o[1] = s => run[o].state = "absent"
    BY <1>1 DEF Generations
  <2> QED BY <1>0, <2>1, <2>2
<1>2. CASE Generations(s) # {}
  <2> DEFINE last == Latest(s)
  <2>1. last \in Rid /\ last[1] = s /\ \A o \in Generations(s) : o[2] <= last[2]
    BY <1>2, LatestExists DEF Generations
  <2>2. last = <<s, last[2]>> /\ last[2] \in Nat
    BY <2>1, StoreAssumption DEF Rid, Gens
  <2>3. CASE run[last].state = "diverged" /\ last[2] < MaxGen
    <3>1. rid = <<s, last[2] + 1>>
      BY <1>2, <2>3 DEF Claimable
    <3>2. \A o \in Rid : o[1] = s /\ run[o].state # "absent" => o[2] <= last[2]
      BY <2>1 DEF Generations
    <3>3. \A o \in Rid : o[2] \in Nat
      BY StoreAssumption DEF Rid, Gens
    <3>4. rid[2] = last[2] + 1 /\ rid[1] = s /\ rid[2] - 1 = last[2]
      BY <2>2, <3>1
    <3>5. run[rid].state = "absent"
      BY <1>0, <2>2, <3>2, <3>4
    <3>6. \A o \in Rid : o[1] = s /\ run[o].state # "absent" => o[2] < rid[2]
      BY <2>2, <3>2, <3>3, <3>4
    <3>7. <<s, rid[2] - 1>> = last
      BY <2>2, <3>4
    <3> QED BY <1>0, <2>1, <2>3, <3>5, <3>6, <3>7
  <2>4. CASE ~(run[last].state = "diverged" /\ last[2] < MaxGen)
    BY <1>0, <1>2, <2>4 DEF Claimable
  <2> QED BY <2>3, <2>4
<1> QED BY <1>0, <1>1, <1>2

LEMMA ClaimBeginsOrEvolves ==
    ASSUME StoreTypeOK, NEW s \in Slots, NEW token \in Tokens \cup {NoToken},
           ClaimDigestRun(s, token)
    PROVE  Evolves \/ \E rid \in Rid : Begins(rid, token)
<1> DEFINE rid == Claimable(s)
<1>1. part' = part
  BY DEF ClaimDigestRun
<1>2. CASE run' = run
  BY <1>1, <1>2, StutterEvolves
<1>3. CASE rid # NoRun /\ run' = [run EXCEPT ![rid] = IF @.state = "absent" THEN NewRow(rid, token)
                                                    ELSE Release(@, token)]
  <2>1. rid \in Rid /\ rid[1] = s
    BY <1>3, ClaimableType
  <2>2. \/ Released(rid)
        \/ /\ run[rid].state = "absent"
           /\ \A o \in Rid : o[1] = s /\ run[o].state # "absent" => o[2] < rid[2]
           /\ rid[2] # 1 => /\ <<s, rid[2] - 1>> \in Rid
                            /\ run[<<s, rid[2] - 1>>].state = "diverged"
    BY <1>3, ClaimableFree
  <2>3. CASE Released(rid)
    <3> DEFINE row == Release(run[rid], token)
    <3>1. run[rid] \in Row /\ run[rid].state \in Unfinished
      BY <2>1, <2>3 DEF Released, StoreTypeOK
    <3>2. run' = [run EXCEPT ![rid] = row]
      BY <1>3, <3>1 DEF Unfinished
    <3>3. row.prev = run[rid].prev /\ row.manifest = run[rid].manifest /\ row.state \in Unfinished
      BY <3>1 DEF Release, Row, Unfinished
    <3>4. row.state # "diverged"
      BY <3>3 DEF Unfinished
    <3> HIDE DEF row, rid
    <3> QED BY <1>1, <3>1, <3>2, <3>3, <3>4, OpenRowEvolves
  <2>4. CASE ~Released(rid)
    BY <1>1, <1>3, <2>1, <2>2, <2>4 DEF Begins
  <2> QED BY <2>3, <2>4
<1> QED BY <1>2, <1>3 DEF ClaimDigestRun

LEMMA DivergentBeginsOrEvolves ==
    ASSUME StoreTypeOK, NEW s \in Slots, NEW token \in Tokens \cup {NoToken},
           ClaimDivergentDigestRun(s, token)
    PROVE  Evolves \/ \E rid \in Rid : Begins(rid, token)
<1>1. CASE DivergentSlots(s) = {} /\ UNCHANGED store
  BY <1>1, StutterEvolves DEF store
<1>2. CASE DivergentSlots(s) # {} /\ ClaimDigestRun(OldestDivergent(s), token)
  BY <1>2, OldestDivergentType, ClaimBeginsOrEvolves DEF DivergentSlots
<1> QED BY <1>1, <1>2 DEF ClaimDivergentDigestRun

LEMMA PrepareEvolves ==
    ASSUME StoreTypeOK, Blank, NEW rid \in Rid \cup {NoRun}, NEW tok, NEW m \in Manifests,
           PrepareDigestParts(rid, tok, m)
    PROVE  Evolves
<1>1. CASE UNCHANGED store
  BY <1>1, StutterEvolves DEF store
<1>2. CASE ~UNCHANGED store
  <2> DEFINE row == [run[rid] EXCEPT !.state = "delivering", !.manifest = m]
  <2>1. /\ rid \in Rid /\ run[rid].state = "building" /\ run[rid].manifest = NoManifest
        /\ run' = [run EXCEPT ![rid] = row]
        /\ part' = [part EXCEPT ![rid] =
                      [p \in PartIds |-> IF p <= Size[m] THEN PlannedPart ELSE AbsentPart]]
    BY <1>2 DEF PrepareDigestParts, HoldsLease
  <2>2. run[rid] \in Row /\ \A p \in PartIds : part[rid][p].delivery = "absent"
    BY <2>1 DEF StoreTypeOK, Blank
  <2>3. /\ run'[rid] = row /\ row.state = "delivering" /\ row.prev = run[rid].prev
        /\ row.manifest = m /\ m # NoManifest
    BY <2>1, <2>2, StoreAssumption DEF StoreTypeOK, Row
  <2>4. ASSUME NEW x \in Rid PROVE RunEvolves(x) /\ PartsEvolve(x)
    <3>1. CASE x = rid
      BY <2>1, <2>2, <2>3, <3>1 DEF RunEvolves, PartsEvolve, Published, Closed
    <3>2. CASE x # rid
      <4>1. run'[x] = run[x] /\ part'[x] = part[x]
        BY <2>1, <3>2 DEF StoreTypeOK
      <4> QED BY <4>1 DEF RunEvolves, PartsEvolve
    <3> QED BY <3>1, <3>2
  <2> QED BY <2>4 DEF Evolves
<1> QED BY <1>1, <1>2


LEMMA PartCallEvolves ==
    ASSUME StoreTypeOK, Blank, NEW rid \in Rid \cup {NoRun}, NEW tok, NEW p, NEW k, NEW ts,
           NEW limited,
           \/ ClaimDigestPartDelivery(rid, tok, p)
           \/ MarkDigestPartDelivered(rid, tok, p, k, ts)
           \/ MarkDigestPartFailed(rid, tok, p, k, limited)
    PROVE  Evolves
<1>1. run' = run
  BY DEF ClaimDigestPartDelivery, MarkDigestPartDelivered, MarkDigestPartFailed
<1>2. CASE part' = part
  BY <1>1, <1>2, StutterEvolves
<1>3. CASE part' # part
  <2>1. PICK row : part' = [part EXCEPT ![rid][p] = row]
    BY <1>3 DEF ClaimDigestPartDelivery, MarkDigestPartDelivered, MarkDigestPartFailed
  <2>2. PartClaimable(rid, tok, p) \/ Attempting(rid, tok, p, k)
    BY <1>3 DEF ClaimDigestPartDelivery, MarkDigestPartDelivered, MarkDigestPartFailed
  <2>3. /\ run[rid].state \in Unfinished
        /\ part[rid][p].delivery \notin {"absent", "delivered"}
    BY <2>2 DEF PartClaimable, Attempting, HoldsLease, Unfinished
  <2> QED BY <1>1, <2>1, <2>3, OpenPartEvolves
<1> QED BY <1>2, <1>3

LEMMA RunCallEvolves ==
    ASSUME StoreTypeOK, NEW rid \in Rid \cup {NoRun}, NEW tok,
           MarkDigestGenerationDiverged(rid, tok) \/ FailDigestRun(rid, tok)
    PROVE  Evolves
<1>1. part' = part
  BY DEF MarkDigestGenerationDiverged, FailDigestRun
<1>2. CASE run' = run
  BY <1>1, <1>2, StutterEvolves
<1>3. CASE Divergeable(rid, tok) /\ MarkDigestGenerationDiverged(rid, tok)
  <2> DEFINE row == [run[rid] EXCEPT !.state = "diverged", !.live = FALSE]
  <2>1. rid \in Rid /\ run[rid].state \in Unfinished
    BY <1>3 DEF Divergeable, HoldsLease, Unfinished
  <2>2. run[rid] \in Row
    BY <2>1 DEF StoreTypeOK
  <2>3. row.state = "diverged" /\ row.prev = run[rid].prev /\ row.manifest = run[rid].manifest
    BY <2>2 DEF Row
  <2>4. run' = [run EXCEPT ![rid] = row] /\ \A p \in PartIds : part[rid][p].delivery # "delivering"
    BY <1>3 DEF MarkDigestGenerationDiverged, Divergeable
  <2> HIDE DEF row
  <2> QED BY <1>1, <2>1, <2>3, <2>4, OpenRowEvolves
<1>4. CASE HoldsLease(rid, tok, {"building", "delivering"}) /\ FailDigestRun(rid, tok)
  <2> DEFINE row == [run[rid] EXCEPT !.state = "failed"]
  <2>1. rid \in Rid /\ run[rid].state \in Unfinished
    BY <1>4 DEF HoldsLease, Unfinished
  <2>2. run[rid] \in Row
    BY <2>1 DEF StoreTypeOK
  <2>3. /\ row.state \in Unfinished /\ row.state # "diverged"
        /\ row.prev = run[rid].prev /\ row.manifest = run[rid].manifest
    BY <2>2 DEF Row, Unfinished
  <2>4. run' = [run EXCEPT ![rid] = row]
    BY <1>4 DEF FailDigestRun
  <2> HIDE DEF row
  <2> QED BY <1>1, <2>1, <2>3, <2>4, OpenRowEvolves
<1> QED BY <1>2, <1>3, <1>4 DEF MarkDigestGenerationDiverged, FailDigestRun

LEMMA FinalizeEvolves ==
    ASSUME StoreTypeOK, NEW rid \in Rid \cup {NoRun}, NEW tok, NEW at \in Nat,
           FinalizeDigestRun(rid, tok, at)
    PROVE  Evolves
<1>1. part' = part
  BY DEF FinalizeDigestRun
<1>2. CASE ~Finalizable(rid, tok, at)
  BY <1>1, <1>2, StutterEvolves DEF FinalizeDigestRun
<1>3. CASE Finalizable(rid, tok, at)
  <2> DEFINE row == [run[rid] EXCEPT !.state = "delivered", !.live = FALSE, !.deliveredAt = at]
             R == [run EXCEPT ![rid] = row]
  <2>1. rid \in Rid /\ run[rid].state = "delivering"
    BY <1>3 DEF Finalizable, HoldsLease
  <2>2. run[rid] \in Row
    BY <2>1 DEF StoreTypeOK
  <2>3. /\ row \in Row /\ row.state = "delivered"
        /\ row.prev = run[rid].prev /\ row.manifest = run[rid].manifest
    BY <2>2 DEF Row, RunStates, Published
  <2>4. run' = Retire(R, part, rid)
    BY <1>3 DEF FinalizeDigestRun
  <2> HIDE DEF row
  <2>5. /\ R \in [Rid -> Row] /\ R[rid] = row
        /\ \A x \in Rid : x # rid => R[x] = run[x]
    BY <2>1, <2>3, RunUpdate DEF StoreTypeOK
  <2>6. ASSUME NEW x \in Rid PROVE RunEvolves(x) /\ PartsEvolve(x)
    <3>1. /\ run'[x].prev = R[x].prev /\ run'[x].manifest = R[x].manifest
          /\ \/ run'[x].state = R[x].state
             \/ R[x].state = "diverged" /\ run'[x].state = "retired"
      <4> HIDE DEF R
      <4> QED BY <2>4, <2>5, RetireEffect
    <3>2. CASE x = rid
      BY <1>1, <2>1, <2>3, <2>5, <3>1, <3>2 DEF RunEvolves, PartsEvolve, Published, Closed
    <3>3. CASE x # rid
      <4>1. R[x] = run[x]
        BY <2>5, <3>3
      <4> HIDE DEF R
      <4> QED BY <1>1, <3>1, <4>1 DEF RunEvolves, PartsEvolve, Published, Closed
    <3> QED BY <3>2, <3>3
  <2> QED BY <2>6 DEF Evolves
<1> QED BY <1>2, <1>3

LEMMA SettleLinkEffect ==
    ASSUME StoreTypeOK, NEW P, NEW succ, NEW owner, NEW prev, SettleLink(P, succ, owner, prev)
    PROVE  \A rid \in Rid :
              /\ run'[rid].prev = run[rid].prev
              /\ run'[rid].manifest = run[rid].manifest
              /\ \/ run'[rid].state = run[rid].state
                 \/ /\ run[rid].state = "delivered" /\ run'[rid].state = "replaced"
                    /\ PartsGone(P[rid])
                 \/ /\ run[rid].state = "diverged" /\ run'[rid].state = "retired"
                    /\ PartsGone(P[rid])
                    /\ run'[rid].prev # NoRun => run'[run'[rid].prev].state \in Cleared
<1> DEFINE row1 == IF run[prev].state = "delivered" /\ PartsGone(P[prev])
                   THEN [run[prev] EXCEPT !.state = "replaced"] ELSE run[prev]
           R1 == [run EXCEPT ![prev] = row1]
           row2 == [R1[owner] EXCEPT !.prevCleanup = Aggregate(P[prev])]
           R2 == [R1 EXCEPT ![owner] = row2]
<1>1. run' = Retire(R2, P, succ)
  BY DEF SettleLink
<1>2. prev \in Rid => /\ row1 \in Row /\ row1.prev = run[prev].prev
                      /\ row1.manifest = run[prev].manifest
                      /\ \/ row1.state = run[prev].state
                         \/ /\ run[prev].state = "delivered" /\ row1.state = "replaced"
                            /\ PartsGone(P[prev])
  <2>1. prev \in Rid => run[prev] \in Row
    BY DEF StoreTypeOK
  <2> QED BY <2>1 DEF Row, RunStates, Published
<1> HIDE DEF row1
<1>3. R1 \in [Rid -> Row] /\ \A x \in Rid : R1[x] = IF x = prev THEN row1 ELSE run[x]
  BY <1>2, RunUpdate DEF StoreTypeOK
<1>4. Aggregate(P[prev]) \in CleanupStates
  BY DEF Aggregate, CleanupStates, Gone
<1> HIDE DEF R1
<1>5. owner \in Rid => /\ row2 \in Row /\ row2.prev = R1[owner].prev
                       /\ row2.manifest = R1[owner].manifest /\ row2.state = R1[owner].state
  <2>1. owner \in Rid => R1[owner] \in Row
    BY <1>3
  <2> QED BY <1>4, <2>1 DEF Row
<1> HIDE DEF row2
<1>6. R2 \in [Rid -> Row] /\ \A x \in Rid : R2[x] = IF x = owner THEN row2 ELSE R1[x]
  BY <1>3, <1>5, RunUpdate
<1> HIDE DEF R2
<1>7. ASSUME NEW x \in Rid
      PROVE  /\ R2[x].prev = run[x].prev /\ R2[x].manifest = run[x].manifest
             /\ \/ R2[x].state = run[x].state
                \/ run[x].state = "delivered" /\ R2[x].state = "replaced" /\ PartsGone(P[x])
  BY <1>2, <1>3, <1>5, <1>6
<1>8. ASSUME NEW x \in Rid
      PROVE  /\ run'[x].prev = R2[x].prev /\ run'[x].manifest = R2[x].manifest
             /\ \/ run'[x].state = R2[x].state
                \/ /\ R2[x].state = "diverged" /\ run'[x].state = "retired"
                   /\ PartsGone(P[x])
                   /\ R2[x].prev # NoRun => run'[R2[x].prev].state \in Cleared
  BY <1>1, <1>6, RetireEffect
<1> QED BY <1>7, <1>8

\* A part row whose cleanup columns change.
LEMMA CleanupRow ==
    ASSUME StoreTypeOK, NEW rid, NEW p, NEW row, part' = [part EXCEPT ![rid][p] = row],
           rid \in Rid /\ p \in PartIds =>
              row.delivery = part[rid][p].delivery /\ row.ts = part[rid][p].ts
    PROVE  \A x \in Rid, q \in PartIds : /\ part'[x][q].delivery = part[x][q].delivery
                                          /\ part'[x][q].ts = part[x][q].ts
<1> SUFFICES ASSUME NEW x \in Rid, NEW q \in PartIds
             PROVE  part'[x][q] = IF x = rid /\ q = p THEN row ELSE part[x][q]
  OBVIOUS
<1> QED BY DEF StoreTypeOK

LEMMA CleanupCallEvolves ==
    ASSUME StoreTypeOK, NEW succ, NEW prev, NEW p, NEW k, NEW outcome \in CleanupStates,
           \/ ClaimDigestPartCleanup(succ, prev, p)
           \/ RecordDigestPartCleanup(succ, prev, p, k, outcome)
    PROVE  Evolves
<1>1. CASE UNCHANGED store
  BY <1>1, StutterEvolves DEF store
<1>2. CASE ~UNCHANGED store
  <2> DEFINE row1 == IF Cleanable(part[prev][p]) THEN NextCleanup(part[prev][p]) ELSE part[prev][p]
             row2 == [part[prev][p] EXCEPT !.cleanup = outcome, !.cleanupLive = FALSE]
  <2>1. prev \in Rid /\ p \in PartIds => part[prev][p] \in PartRow
    BY DEF StoreTypeOK
  <2>2. prev \in Rid /\ p \in PartIds =>
           /\ row1.delivery = part[prev][p].delivery /\ row1.ts = part[prev][p].ts
           /\ row2.delivery = part[prev][p].delivery /\ row2.ts = part[prev][p].ts
    BY <2>1 DEF NextCleanup, PartRow
  <2>3. part' = [part EXCEPT ![prev][p] = row1] \/ part' = [part EXCEPT ![prev][p] = row2]
    BY <1>2 DEF ClaimDigestPartCleanup, RecordDigestPartCleanup
  <2> HIDE DEF row1, row2
  <2>4. \A x \in Rid, q \in PartIds : /\ part'[x][q].delivery = part[x][q].delivery
                                       /\ part'[x][q].ts = part[x][q].ts
    BY <2>2, <2>3, CleanupRow
  <2>5. PICK owner : SettleLink(part', succ, owner, prev)
    BY <1>2 DEF ClaimDigestPartCleanup, RecordDigestPartCleanup
  <2> QED BY <2>4, <2>5, SettleLinkEffect, CleanupEvolves
<1> QED BY <1>1, <1>2

LEMMA TimeEvolves ==
    ASSUME StoreTypeOK, NEW rid \in Rid, NEW p \in PartIds,
           LeaseExpires(rid) \/ CleanupLeaseExpires(rid, p) \/ RetryFallsDue(rid, p)
    PROVE  Evolves
<1>1. CASE LeaseExpires(rid)
  <2> DEFINE row == [run[rid] EXCEPT !.live = FALSE]
  <2>1. run[rid] \in Row /\ run[rid].state \in Unfinished
    BY <1>1 DEF LeaseExpires, StoreTypeOK
  <2>2. row.state = run[rid].state /\ row.prev = run[rid].prev /\ row.manifest = run[rid].manifest
    BY <2>1 DEF Row
  <2>3. run' = [run EXCEPT ![rid] = row] /\ part' = part /\ row.state # "diverged"
    BY <1>1, <2>1, <2>2 DEF LeaseExpires, Unfinished
  <2> HIDE DEF row
  <2> QED BY <2>1, <2>2, <2>3, OpenRowEvolves
<1>2. CASE CleanupLeaseExpires(rid, p) \/ RetryFallsDue(rid, p)
  <2> DEFINE row1 == [part[rid][p] EXCEPT !.cleanupLive = FALSE]
             row2 == [part[rid][p] EXCEPT !.limited = FALSE]
  <2>1. part[rid][p] \in PartRow
    BY DEF StoreTypeOK
  <2>2. /\ row1.delivery = part[rid][p].delivery /\ row1.ts = part[rid][p].ts
        /\ row2.delivery = part[rid][p].delivery /\ row2.ts = part[rid][p].ts
    BY <2>1 DEF PartRow
  <2>3. /\ part' = [part EXCEPT ![rid][p] = row1] \/ part' = [part EXCEPT ![rid][p] = row2]
        /\ run' = run
    BY <1>2 DEF CleanupLeaseExpires, RetryFallsDue
  <2> HIDE DEF row1, row2
  <2>4. \A x \in Rid, q \in PartIds : /\ part'[x][q].delivery = part[x][q].delivery
                                       /\ part'[x][q].ts = part[x][q].ts
    BY <2>2, <2>3, CleanupRow
  <2> QED BY <2>3, <2>4, CleanupEvolves
<1> QED BY <1>1, <1>2

----------------------------------------------------------------------------
(* Both kinds of step keep the history. *)

\* What EvidenceIsFinal says of one run.
Final(rid) ==
    /\ run[rid].manifest # NoManifest => run'[rid].manifest = run[rid].manifest
    /\ \A p \in PartIds : part[rid][p].delivery = "delivered" =>
          part'[rid][p].delivery = "delivered" /\ part'[rid][p].ts = part[rid][p].ts
    /\ run[rid].state \in Published \cup {"diverged", "retired"} =>
          run'[rid].state \notin Unfinished

LEMMA EvolvesKeeps ==
    ASSUME HistoryInv, Evolves
    PROVE  HistoryInv' /\ \A rid \in Rid : Final(rid)
<1>1. ASSUME NEW rid \in Rid PROVE RunEvolves(rid) /\ PartsEvolve(rid)
  BY DEF Evolves
<1>2. Blank'
  <2> SUFFICES ASSUME NEW rid \in Rid
               PROVE  /\ run'[rid].state = "absent" => run'[rid].manifest = NoManifest
                      /\ run'[rid].manifest = NoManifest =>
                            \A p \in PartIds : part'[rid][p].delivery = "absent"
    BY DEF Blank
  <2>1. run'[rid].manifest = NoManifest => run[rid].manifest = NoManifest
    BY <1>1 DEF RunEvolves
  <2> QED BY <1>1, <2>1 DEF HistoryInv, Blank, RunEvolves, PartsEvolve
<1>3. Settled'
  <2> SUFFICES ASSUME NEW rid \in Rid, run'[rid].state \in {"diverged", "retired"}
               PROVE  \A p \in PartIds : part'[rid][p].delivery # "delivering"
    BY DEF Settled
  <2>1. CASE run[rid].state \in {"diverged", "retired"}
    BY <1>1, <2>1 DEF HistoryInv, Settled, PartsEvolve, Closed
  <2>2. CASE run[rid].state \notin {"diverged", "retired"}
    BY <1>1, <2>2 DEF RunEvolves, PartsEvolve
  <2> QED BY <2>1, <2>2
<1>4. OneOpenGeneration'
  <2> SUFFICES ASSUME NEW a \in Rid, NEW b \in Rid, a[1] = b[1], a[2] < b[2],
                      run'[b].state # "absent"
               PROVE  /\ run'[a].state \in {"diverged", "retired"}
                      /\ \A p \in PartIds : part'[a][p].delivery # "delivering"
                      /\ b[2] = a[2] + 1 => run'[b].prev = a
    BY DEF OneOpenGeneration
  <2>1. run[b].state # "absent"
    BY <1>1 DEF RunEvolves
  <2>2. run[a].state \in {"diverged", "retired"} /\ (b[2] = a[2] + 1 => run[b].prev = a)
    BY <2>1 DEF HistoryInv, OneOpenGeneration
  <2>3. run'[a].state \in {"diverged", "retired"} /\ run'[b].prev = run[b].prev
    BY <1>1, <2>2 DEF RunEvolves
  <2> QED BY <1>3, <2>2, <2>3 DEF Settled
<1>5. ASSUME NEW rid \in Rid PROVE Final(rid)
  BY <1>1 DEF Final, RunEvolves, PartsEvolve, Published, Unfinished
<1> QED BY <1>2, <1>3, <1>4, <1>5 DEF HistoryInv

LEMMA BeginsKeeps ==
    ASSUME StoreTypeOK, HistoryInv, NEW rid \in Rid, NEW token, Begins(rid, token)
    PROVE  HistoryInv' /\ \A x \in Rid : Final(x)
<1> DEFINE row == NewRow(rid, token)
<1>1. /\ row.state = "building" /\ row.manifest = NoManifest
      /\ row.prev = IF rid[2] = 1 THEN Predecessor(rid[1]) ELSE <<rid[1], rid[2] - 1>>
  BY DEF NewRow, AbsentRow
<1> HIDE DEF row
<1>2. /\ part' = part /\ run'[rid] = row /\ run[rid].state = "absent"
      /\ \A x \in Rid : x # rid => run'[x] = run[x]
  BY DEF Begins, StoreTypeOK, row
<1>3. \A p \in PartIds : part[rid][p].delivery = "absent"
  BY <1>2 DEF HistoryInv, Blank
<1>4. Blank'
  <2> SUFFICES ASSUME NEW x \in Rid
               PROVE  /\ run'[x].state = "absent" => run'[x].manifest = NoManifest
                      /\ run'[x].manifest = NoManifest =>
                            \A p \in PartIds : part'[x][p].delivery = "absent"
    BY DEF Blank
  <2> QED BY <1>1, <1>2, <1>3 DEF HistoryInv, Blank
<1>5. Settled'
  <2> SUFFICES ASSUME NEW x \in Rid, run'[x].state \in {"diverged", "retired"}
               PROVE  \A p \in PartIds : part'[x][p].delivery # "delivering"
    BY DEF Settled
  <2> QED BY <1>1, <1>2 DEF HistoryInv, Settled
<1>6. OneOpenGeneration'
  <2> SUFFICES ASSUME NEW a \in Rid, NEW b \in Rid, a[1] = b[1], a[2] < b[2],
                      run'[b].state # "absent"
               PROVE  /\ run'[a].state \in {"diverged", "retired"}
                      /\ \A p \in PartIds : part'[a][p].delivery # "delivering"
                      /\ b[2] = a[2] + 1 => run'[b].prev = a
    BY DEF OneOpenGeneration
  <2>1. a[2] \in Nat /\ b[2] \in Nat /\ 1 <= a[2]
    BY StoreAssumption DEF Rid, Gens
  <2>2. CASE b = rid
    <3> DEFINE last == <<rid[1], rid[2] - 1>>
    <3>1. last \in Rid /\ run[last].state = "diverged"
      BY <2>1, <2>2 DEF Begins
    <3>2. a # rid /\ run'[a] = run[a]
      BY <1>2, <2>1, <2>2
    <3>3. a = <<a[1], a[2]>>
      BY DEF Rid
    <3>4. CASE b[2] = a[2] + 1
      <4>1. a = last
        BY <2>1, <2>2, <3>3, <3>4
      <4>2. run'[b].prev = a
        BY <1>1, <1>2, <2>1, <2>2, <3>4, <4>1
      <4> QED BY <1>5, <3>1, <3>2, <4>1, <4>2 DEF Settled
    <3>5. CASE b[2] # a[2] + 1
      <4>1. a[1] = last[1] /\ a[2] < last[2] /\ run[last].state # "absent"
        BY <2>1, <2>2, <3>1, <3>5
      <4>2. run[a].state \in {"diverged", "retired"}
        BY <3>1, <4>1 DEF HistoryInv, OneOpenGeneration
      <4> QED BY <1>5, <3>2, <3>5, <4>2 DEF Settled
    <3> QED BY <3>4, <3>5
  <2>3. CASE b # rid
    <3>1. run'[b] = run[b]
      BY <1>2, <2>3
    <3>2. a # rid
      BY <2>1, <3>1 DEF Begins
    <3>3. run'[a] = run[a]
      BY <1>2, <3>2
    <3> QED BY <1>2, <3>1, <3>3 DEF HistoryInv, OneOpenGeneration
  <2> QED BY <2>2, <2>3
<1>7. ASSUME NEW x \in Rid PROVE Final(x)
  <2>1. CASE x = rid
    BY <1>2, <1>3, <2>1 DEF Final, HistoryInv, Blank, Published
  <2>2. CASE x # rid
    BY <1>2, <2>2 DEF Final, Published, Unfinished
  <2> QED BY <2>1, <2>2
<1> QED BY <1>4, <1>5, <1>6, <1>7 DEF HistoryInv

LEMMA StepEvolves ==
    ASSUME TypeInv, HistoryInv, [Next]_vars
    PROVE  Evolves \/ \E rid \in Rid, token \in Tokens \cup {NoToken} : Begins(rid, token)
<1>1. StoreTypeOK
  BY DEF TypeInv, TypeOK
<1>2. UNCHANGED store => Evolves
  BY StutterEvolves DEF store
<1>3. ASSUME NEW r \in Runners, Step(r) \/ Crash(r)
      PROVE  Evolves \/ \E rid \in Rid, token \in Tokens \cup {NoToken} : Begins(rid, token)
  <2> DEFINE rec == rn[r]
             s == SlotOf(rn[r].at)
  <2>1. rec \in RunnerState /\ Focused(rec)
    BY DEF TypeInv, TypeOK
  <2>2. rec.rid \in Rid \cup {NoRun} /\ rec.at \in Nat /\ s \in Slots
    BY <2>1, SlotType, RunnerAssumption DEF RunnerState
  <2>3. CASE ClaimRecovery(r)
    <3> DEFINE token == TokenFor(DivergentClaimable(s))
    <3>1. ClaimDivergentDigestRun(s, token) \/ UNCHANGED store
      BY <2>3 DEF ClaimRecovery, Call
    <3>2. token \in Tokens \cup {NoToken}
      BY TokenForType
    <3> HIDE DEF token, s
    <3> QED BY <1>1, <1>2, <2>2, <3>1, <3>2, DivergentBeginsOrEvolves
  <2>4. CASE ClaimCurrent(r)
    <3> DEFINE token == TokenFor(Claimable(s))
    <3>1. ClaimDigestRun(s, token) \/ UNCHANGED store
      BY <2>4 DEF ClaimCurrent, Call
    <3>2. token \in Tokens \cup {NoToken}
      BY TokenForType
    <3> HIDE DEF token, s
    <3> QED BY <1>1, <1>2, <2>2, <3>1, <3>2, ClaimBeginsOrEvolves
  <2>5. CASE Prepare(r)
    <3>1. PrepareDigestParts(rec.rid, rec.tok, rec.m) \/ UNCHANGED store
      BY <2>5 DEF Prepare, Call
    <3>2. rec.m \in Manifests
      BY <2>1, <2>5 DEF Prepare, At, Focused
    <3> QED BY <1>1, <1>2, <2>2, <3>1, <3>2, PrepareEvolves DEF HistoryInv
  <2>6. CASE ClaimPart(r) \/ SettleDelivered(r) \/ SettleFailed(r)
    <3>1. \/ ClaimDigestPartDelivery(rec.rid, rec.tok, rec.i)
          \/ MarkDigestPartDelivered(rec.rid, rec.tok, rec.i, rec.k, rec.ts)
          \/ MarkDigestPartFailed(rec.rid, rec.tok, rec.i, rec.k, rec.error = "rate_limited")
          \/ UNCHANGED store
      BY <2>6 DEF ClaimPart, SettleDelivered, SettleFailed, Call
    <3> QED BY <1>1, <1>2, <2>2, <3>1, PartCallEvolves DEF HistoryInv
  <2>7. CASE Diverge(r) \/ FailRun(r)
    <3>1. \/ MarkDigestGenerationDiverged(rec.rid, rec.tok)
          \/ FailDigestRun(rec.rid, rec.tok)
          \/ UNCHANGED store
      BY <2>7 DEF Diverge, FailRun, Call
    <3> QED BY <1>1, <1>2, <2>2, <3>1, RunCallEvolves
  <2>8. CASE Finalize(r)
    <3>1. FinalizeDigestRun(rec.rid, rec.tok, rec.at) \/ UNCHANGED store
      BY <2>8 DEF Finalize, Call
    <3> QED BY <1>1, <1>2, <2>2, <3>1, FinalizeEvolves
  <2>9. CASE ClaimCleanup(r)
    <3>1. (\E t : ClaimDigestPartCleanup(t[1], t[2], t[3])) \/ UNCHANGED store
      BY <2>9 DEF ClaimCleanup, Call
    <3>2. "idle" \in CleanupStates
      BY DEF CleanupStates
    <3> QED BY <1>1, <1>2, <3>1, <3>2, CleanupCallEvolves
  <2>10. CASE RecordCleanup(r)
    <3> DEFINE t == rec.cur
    <3>1. RecordDigestPartCleanup(t[1], t[2], t[3], rec.k, rec.error) \/ UNCHANGED store
      BY <2>10 DEF RecordCleanup, Call
    <3>2. rec.error \in CleanupStates
      BY <2>1, <2>10 DEF RecordCleanup, At, Focused
    <3> QED BY <1>1, <1>2, <3>1, <3>2, CleanupCallEvolves
  <2>11. CASE \/ StartCycle(r) \/ ReadReport(r) \/ SkipPart(r) \/ Post(r) \/ Search(r)
              \/ ListBacklog(r) \/ Delete(r) \/ Crash(r)
    <3>1. UNCHANGED store
      BY <2>11 DEF StartCycle, ReadReport, SkipPart, Post, Search, ListBacklog, Delete, Crash
    <3> QED BY <1>2, <3>1
  <2> QED BY <1>3, <2>3, <2>4, <2>5, <2>6, <2>7, <2>8, <2>9, <2>10, <2>11 DEF Step
<1>4. CASE \/ \E rid \in Rid : ExpireLease(rid)
           \/ \E rid \in Rid, p \in PartIds : ExpireCleanup(rid, p) \/ RetryDue(rid, p)
  <2>1. PICK rid \in Rid, p \in PartIds :
           LeaseExpires(rid) \/ CleanupLeaseExpires(rid, p) \/ RetryFallsDue(rid, p)
    <3>1. 1 \in PartIds
      BY StoreAssumption DEF PartIds
    <3> QED BY <1>4, <3>1 DEF ExpireLease, ExpireCleanup, RetryDue
  <2> QED BY <1>1, <2>1, TimeEvolves
<1>5. CASE \E w \in Items : ItemChange(w)
  BY <1>5, StutterEvolves DEF ItemChange, ItemChanges
<1>6. CASE Tick \/ LateMessage \/ UNCHANGED vars
  BY <1>2, <1>6 DEF Tick, LateMessage, vars, store
<1> QED BY <1>3, <1>4, <1>5, <1>6 DEF Next

LEMMA StepHistory ==
    ASSUME TypeInv, HistoryInv, [Next]_vars
    PROVE  HistoryInv' /\ \A rid \in Rid : Final(rid)
<1>1. StoreTypeOK
  BY DEF TypeInv, TypeOK
<1> QED BY <1>1, StepEvolves, EvolvesKeeps, BeginsKeeps

LEMMA InvCorrect == Spec => [](TypeInv /\ HistoryInv)
<1>1. Init => TypeInv /\ HistoryInv
  <2>1. Init => TypeInv
    BY InitTypeInv
  <2>2. Init => HistoryInv
    BY DEF Init, StoreInit, AbsentRow, AbsentPart, HistoryInv, Blank, Settled, OneOpenGeneration
  <2> QED BY <2>1, <2>2
<1>2. TypeInv /\ HistoryInv /\ [Next]_vars => (TypeInv /\ HistoryInv)'
  BY StepTypeInv, StepHistory
<1> QED BY <1>1, <1>2, PTL DEF Spec

\* No two generations of a slot are ever open: for any number of runners and failures the
\* next one starts only after its predecessor diverged with every attempt settled.
THEOREM GenerationsInOrder == Spec => []OneOpenGeneration
<1>1. TypeInv /\ HistoryInv => OneOpenGeneration
  BY DEF HistoryInv
<1> QED BY <1>1, InvCorrect, PTL

\* No call of any runner, however outdated, replaces a prepared manifest, moves or forgets a
\* delivered part's coordinate, or opens a published or abandoned run again.
THEOREM EvidenceStaysFinal == Spec => EvidenceIsFinal
<1>1. TypeInv /\ HistoryInv /\ [Next]_vars =>
         [\A rid \in Rid :
             /\ run[rid].manifest # NoManifest => run'[rid].manifest = run[rid].manifest
             /\ \A p \in PartIds : part[rid][p].delivery = "delivered" =>
                   part'[rid][p].delivery = "delivered" /\ part'[rid][p].ts = part[rid][p].ts
             /\ run[rid].state \in Published \cup {"diverged", "retired"} =>
                   run'[rid].state \notin Unfinished]_vars
  BY StepHistory DEF Final
<1> QED BY <1>1, InvCorrect, PTL DEF Spec, EvidenceIsFinal

----------------------------------------------------------------------------
(* The replacement chain and the retire loop. *)

\* The chain of digests that replace one another never turns back or skips: a generation
\* stands for the one before it, which was given up, and a first generation for a published
\* digest of an earlier slot with a message to take down, whatever becomes of either
\* (previous_digest_run_id in claim_digest_run_v2).
ChainGoesBack ==
    \A rid \in Rid : run[rid].prev # NoRun =>
        /\ run[rid].prev \in Rid /\ Before(run[rid].prev, rid)
        /\ \/ /\ run[rid].prev = <<rid[1], rid[2] - 1>>
              /\ run[run[rid].prev].state \in {"diverged", "retired"}
           \/ /\ rid[2] = 1 /\ run[rid].prev[1] < rid[1]
              /\ run[run[rid].prev].state \in Published /\ HasDelivered(run[rid].prev)

LEMMA StepChain ==
    ASSUME TypeInv, HistoryInv, ChainGoesBack, [Next]_vars
    PROVE  ChainGoesBack'
<1>0. StoreTypeOK
  BY DEF TypeInv, TypeOK
<1>1. CASE Evolves
  <2>1. ASSUME NEW o \in Rid
        PROVE  /\ run[o].state \in {"diverged", "retired"} => run'[o].state \in {"diverged", "retired"}
               /\ run[o].state \in Published => run'[o].state \in Published
               /\ HasDelivered(o) => HasDelivered(o)'
               /\ run'[o].prev = run[o].prev
    BY <1>1 DEF Evolves, RunEvolves, PartsEvolve, HasDelivered
  <2> QED BY <2>1 DEF ChainGoesBack
<1>2. ASSUME NEW new \in Rid, NEW token \in Tokens \cup {NoToken}, Begins(new, token)
      PROVE  ChainGoesBack'
  <2>1. /\ run'[new] = NewRow(new, token) /\ part' = part
        /\ \A o \in Rid : o # new => run'[o] = run[o]
    BY <1>0, <1>2 DEF Begins, StoreTypeOK
  <2>2. ASSUME NEW o \in Rid, run[o].state # "absent"
        PROVE  run'[o] = run[o] /\ (HasDelivered(o) => HasDelivered(o)')
    BY <1>2, <2>1, <2>2 DEF Begins, HasDelivered
  <2>3. ASSUME NEW rid \in Rid, rid # new, run[rid].prev # NoRun
        PROVE  /\ run'[rid].prev = run[rid].prev /\ run[rid].prev \in Rid
               /\ run'[run[rid].prev] = run[run[rid].prev]
               /\ HasDelivered(run[rid].prev) => HasDelivered(run[rid].prev)'
    <3>1. run[rid].prev \in Rid /\ run[run[rid].prev].state # "absent"
      BY <2>3 DEF ChainGoesBack, Published
    <3> QED BY <2>1, <2>2, <2>3, <3>1
  <2>4. new[1] \in Nat /\ new[2] \in Nat /\ new[1] \in Slots
    BY StoreAssumption DEF Rid, Slots, Gens
  <2>5. CASE new[2] = 1
    <3>0. PICK prev : prev = Predecessor(new[1])
      OBVIOUS
    <3>1. run'[new].prev = prev
      BY <3>0, <2>1, <2>5 DEF NewRow, AbsentRow
    <3>2. prev = NoRun \/ prev \in Predecessors(new[1])
      BY <1>0, <3>0, <2>4, PredecessorExists
    <3>3. prev # NoRun => /\ prev \in Rid /\ prev[1] < new[1] /\ run[prev].state = "delivered"
                          /\ HasDelivered(prev)
      BY <3>2 DEF Predecessors
    <3>4. prev # NoRun => run'[prev] = run[prev] /\ HasDelivered(prev)'
      BY <2>2, <3>3
    <3> QED BY <2>1, <2>3, <2>5, <3>1, <3>3, <3>4 DEF ChainGoesBack, Before, Published
  <2>6. CASE new[2] # 1
    <3> DEFINE prev == <<new[1], new[2] - 1>>
    <3>1. run'[new].prev = prev
      BY <2>1, <2>6 DEF NewRow, AbsentRow
    <3>2. prev \in Rid /\ run[prev].state = "diverged"
      BY <1>2, <2>6 DEF Begins
    <3>3. Before(prev, new)
      BY <2>4 DEF Before
    <3> HIDE DEF prev
    <3>4. run'[prev] = run[prev]
      BY <2>2, <3>2
    <3> QED BY <2>1, <2>3, <3>1, <3>2, <3>3, <3>4 DEF ChainGoesBack, prev
  <2> QED BY <2>5, <2>6
<1> QED BY <1>1, <1>2, StepEvolves

\* The replacement chain never turns back or skips: a generation stands for the one before it,
\* which was given up, a first generation for a published digest of an earlier slot
\* (previous_digest_run_id in claim_digest_run_v2), whatever becomes of either.
THEOREM ChainInOrder == Spec => []ChainGoesBack
<1>1. Init => ChainGoesBack
  BY DEF Init, StoreInit, AbsentRow, ChainGoesBack
<1>2. TypeInv /\ HistoryInv /\ ChainGoesBack /\ [Next]_vars => ChainGoesBack'
  BY StepChain
<1> QED BY <1>1, <1>2, InvCorrect, PTL DEF Spec

\* The retire loops of finalize_digest_run_v2 and record_digest_part_cleanup_v2 retire one
\* row after another until none is left to retire.  Whatever order they take, S, the rows they
\* end with, is what Retire retires; the links need only lead back (ChainInOrder).
THEOREM RetireLoopResult ==
    ASSUME NEW R \in [Rid -> Row], NEW P, NEW succ,
           \A rid \in Rid : R[rid].prev # NoRun => Before(R[rid].prev, rid),
           NEW S \in SUBSET Diverged(R, succ), Retirable(R, P, S),
           \A rid \in Diverged(R, succ) \ S : ~Retirable(R, P, S \cup {rid})
    PROVE  Retire(R, P, succ) =
               [rid \in Rid |-> IF rid \in S THEN [R[rid] EXCEPT !.state = "retired"] ELSE R[rid]]
<1> DEFINE T == (Retired(R, P, succ) \cap Rid) \ S
           below == [x \in T |-> {y \in T : Before(y, x)}]
<1>1. S \subseteq Retired(R, P, succ)
  BY DEF Retired
<1>2. CASE T # {}
  <2>1. T \subseteq Rid /\ IsFiniteSet(T)
    BY RidFinite, FS_Subset
  <2>2. PICK x \in T : below[x] = {}
    <3> HIDE DEF T
    <3>1. \A y \in T : y[1] \in Nat /\ y[2] \in Nat
      BY <2>1, StoreAssumption DEF Rid, Slots, Gens
    <3>2. /\ below \in [T -> SUBSET T]
          /\ \A y \in T : y \notin below[y]
          /\ \A y \in T : \A z \in below[y] : below[z] \subseteq below[y]
      BY <3>1 DEF Before
    <3> HIDE DEF below
    <3> QED BY <1>2, <2>1, <3>2, MinimalExists
  <2>3. PICK U \in SUBSET Diverged(R, succ) : Retirable(R, P, U) /\ x \in U
    BY DEF Retired
  <2>4. /\ PartsGone(P[x])
        /\ \/ R[x].prev = NoRun
           \/ /\ R[x].prevCleanup \in Gone
              /\ R[R[x].prev].state \in {"replaced", "retired"} \/ R[x].prev \in U
    BY <2>3 DEF Retirable
  <2>5. R[x].prev # NoRun => R[x].prev \notin T
    BY <2>2
  <2>6. R[x].prev # NoRun /\ R[x].prev \in U => R[x].prev \in S
    <3>1. R[x].prev \in Rid \cup {NoRun}
      BY <2>1 DEF Row
    <3> QED BY <2>3, <2>5, <3>1 DEF Retired
  <2>7. Retirable(R, P, S \cup {x})
    BY <2>4, <2>6 DEF Retirable
  <2> QED BY <2>3, <2>7
<1>3. CASE T = {}
  BY <1>1, <1>3 DEF Retire
<1> QED BY <1>2, <1>3
=============================================================================
