------------------------- MODULE AuditSessionProofs -------------------------
(***************************************************************************)
(* Theorems about audit sessions.  The argument: a session never returns   *)
(* to draft, so a screen that loaded it afterwards holds its final count   *)
(* and all its confirmations; and while it is a draft the snapshot of an   *)
(* item changes with its confirmation only, so a screen that may still     *)
(* confirm the item shows the row the database compares.                   *)
(***************************************************************************)
EXTENDS AuditSession, TLAPS

\* A session that is not started has no observations and is on no screen.
UnstartedIsBlank ==
    \A s \in Sessions : Is(s, {"none"}) =>
        /\ \A o \in Obs : obs[o].session # s
        /\ \A k \in Screens : screen[k].session # s

\* Decisions are taken after the draft.
DraftIsUndecided == \A s \in Sessions : Is(s, {"draft"}) => \A i \in Items : sess[s].dec[i].kind = "none"

\* What a screen shows of an item stays its snapshot until the item is confirmed.
ScreenShowsSnapshot ==
    \A k \in Screens : \A s \in Sessions : screen[k].session = s =>
        \A i \in Items : ~sess[s].conf[i].on => screen[k].shown[i] = sess[s].snap[i]

\* A screen that reviews holds the final count and all confirmations.
ReviewIsFinal ==
    \A k \in Screens : \A s \in Sessions : screen[k].session = s /\ ~screen[k].draft =>
        /\ ~Is(s, {"none", "draft"})
        /\ Confirmed(s) \subseteq screen[k].locked
        /\ \A i \in Items : screen[k].rows[i] = Rows(s, i)

\* A screen that has decided is one of a session.
DeciderHasSession == \A k \in Screens : screen[k].next # "none" => screen[k].session # NoSession

IInv ==
    /\ TypeOK
    /\ DeciderHasSession
    /\ UnstartedIsBlank
    /\ DraftIsUndecided
    /\ ScreenShowsSnapshot
    /\ ReviewIsFinal
    /\ OneDraft
    /\ DraftFreezesStaff
    /\ ConfirmedRowsStay
    /\ ConfirmedAsShown
    /\ ConfirmationStands
    /\ DecidedOnAllRows

-----------------------------------------------------------------------------
(* The values of the state. *)

LedgerRow == [version : Version \ {Out}, by : Writers]
AuditRow == [status : Statuses, parent : Sessions \cup {NoSession}, open : BOOLEAN,
             snap : [Items -> Version], dec : [Items -> Decision], conf : [Items -> Confirmation]]
ObsRow == [session : Sessions \cup {NoSession}, item : Items \cup {Temporary}, stamp : 0 .. MaxStamp]
ScreenRow == [session : Sessions \cup {NoSession}, draft : BOOLEAN, ready : BOOLEAN,
              next : {"none", "approve", "recount"}, locked : SUBSET Items,
              shown : [Items -> Version], rows : [Items -> SUBSET Row]]

Types ==
    /\ ledger \in [Items -> LedgerRow]
    /\ sess \in [Sessions -> AuditRow]
    /\ obs \in [Obs -> ObsRow]
    /\ screen \in [Screens -> ScreenRow]
    /\ writes \in 0 .. MaxWrites

\* The snapshot is the ledger as it was, and nothing is recorded of an item outside it.
SnapshotFits ==
    \A s \in Sessions : \A i \in Items :
        /\ sess[s].snap[i] <= ledger[i].version
        /\ sess[s].snap[i] = Out =>
             /\ Rows(s, i) = {}
             /\ sess[s].dec[i] = NoDecision /\ sess[s].conf[i] = NoConfirmation

LEMMA TypeForm == TypeOK <=> Types /\ SnapshotFits
BY DEF TypeOK, Types, SnapshotFits, LedgerRow, AuditRow, ObsRow, ScreenRow

LEMMA TypeFormNext == TypeOK' <=> Types' /\ SnapshotFits'
BY DEF TypeOK, Types, SnapshotFits, LedgerRow, AuditRow, ObsRow, ScreenRow

\* The invariant with these.
Rest ==
    /\ DeciderHasSession
    /\ UnstartedIsBlank
    /\ DraftIsUndecided
    /\ ScreenShowsSnapshot
    /\ ReviewIsFinal
    /\ OneDraft
    /\ DraftFreezesStaff
    /\ ConfirmedRowsStay
    /\ ConfirmedAsShown
    /\ ConfirmationStands
    /\ DecidedOnAllRows

LEMMA InvForm == IInv <=> Types /\ SnapshotFits /\ Rest
BY TypeForm DEF IInv, Rest

LEMMA InvFormNext == IInv' <=> Types' /\ SnapshotFits' /\ Rest'
BY TypeFormNext DEF IInv, Rest

LEMMA SessionNumbers == NoSession \notin Sessions
BY AuditAssumption DEF Sessions, NoSession

LEMMA LedgerValues ==
    ASSUME Types, NEW i \in Items
    PROVE  /\ ledger[i] \in LedgerRow
           /\ ledger[i].version \in Nat /\ ledger[i].version # Out /\ ledger[i].by \in Writers
BY DEF Types, LedgerRow, Version

LEMMA AuditValues ==
    ASSUME Types, NEW s \in Sessions
    PROVE  /\ sess[s] \in AuditRow
           /\ sess[s].status \in Statuses
           /\ sess[s].snap \in [Items -> Nat]
           /\ sess[s].dec \in [Items -> Decision] /\ sess[s].conf \in [Items -> Confirmation]
           /\ Confirmed(s) \subseteq Items /\ InSnapshot(s) \subseteq Items
BY DEF Types, AuditRow, Version, Confirmed, InSnapshot

\* A checkpoint writes the snapshot and the confirmations of a session.
Confirming(r, snap, conf) == [r EXCEPT !.snap = snap, !.conf = conf]

LEMMA ConfirmRow ==
    ASSUME NEW r \in AuditRow, NEW snap \in [Items -> Version], NEW conf \in [Items -> Confirmation]
    PROVE  /\ Confirming(r, snap, conf) \in AuditRow
           /\ Confirming(r, snap, conf).status = r.status /\ Confirming(r, snap, conf).dec = r.dec
           /\ Confirming(r, snap, conf).snap = snap /\ Confirming(r, snap, conf).conf = conf
BY DEF AuditRow, Confirming

LEMMA ScreenValues ==
    ASSUME Types, NEW k \in Screens
    PROVE  /\ screen[k] \in ScreenRow
           /\ screen[k].session \in Sessions \cup {NoSession}
           /\ screen[k].shown \in [Items -> Nat] /\ screen[k].rows \in [Items -> SUBSET Row]
           /\ screen[k].locked \subseteq Items
BY DEF Types, ScreenRow, Version

LEMMA RowsAreRows == ASSUME Types PROVE \A s, i : Rows(s, i) \subseteq Row
BY DEF Types, ObsRow, Rows, Row

LEMMA SameRows == ASSUME obs' = obs PROVE \A s, i : Rows(s, i)' = Rows(s, i)
BY DEF Rows

LEMMA Blanks ==
    /\ NoDecision \in Decision /\ NoConfirmation \in Confirmation /\ NoAudit \in AuditRow
    /\ NoScreen \in ScreenRow /\ NoScreen.session = NoSession
    /\ NoDecision.kind = "none" /\ ~NoConfirmation.on
    /\ NoScreen.next = "none"
<1>1. NoDecision \in Decision /\ NoConfirmation \in Confirmation
  BY DEF NoDecision, NoConfirmation, Decision, Confirmation, Version, Out, Kinds
<1> QED
  BY <1>1 DEF NoAudit, NoScreen, NoDecision, NoConfirmation, AuditRow, ScreenRow, Version, Out, Statuses

LEMMA InitInv == Init => IInv
<1> SUFFICES ASSUME Init PROVE IInv  OBVIOUS
<1>1. Types
  <2>1. ledger \in [Items -> LedgerRow]
    BY DEF Init, LedgerRow, Version, Out, Writers
  <2>2. obs \in [Obs -> ObsRow]
    BY AuditAssumption DEF Init, ObsRow
  <2> QED  BY <2>1, <2>2, Blanks, AuditAssumption DEF Types, Init
<1>2. /\ \A s \in Sessions : sess[s].status = "none"
      /\ \A s \in Sessions : \A i \in Items :
           sess[s].snap[i] = Out /\ sess[s].dec[i] = NoDecision /\ sess[s].conf[i] = NoConfirmation
  BY DEF Init, NoAudit
<1>3. \A o \in Obs : obs[o].session = NoSession
  BY DEF Init
<1>4. \A k \in Screens : screen[k].session = NoSession
  BY DEF Init, NoScreen
<1>5. SnapshotFits
  <2>1. \A s \in Sessions : \A i \in Items : Rows(s, i) = {}
    BY <1>3, SessionNumbers DEF Rows
  <2> QED  BY <1>1, <1>2, <2>1, LedgerValues DEF SnapshotFits, Out
<1>6. Rest
  BY <1>2, <1>3, <1>4, SessionNumbers, Blanks DEF Rest, Init, NoScreen, DeciderHasSession, UnstartedIsBlank, DraftIsUndecided, ScreenShowsSnapshot,
     ReviewIsFinal, OneDraft, DraftFreezesStaff, ConfirmedRowsStay, ConfirmedAsShown, ConfirmationStands,
     DecidedOnAllRows, Is, Confirmed
<1> QED  BY <1>1, <1>5, <1>6, InvForm

-----------------------------------------------------------------------------
(* The ledger, and what leaves snapshots, decisions and confirmations alone. *)

LEMMA Written ==
    ASSUME Types, NEW items \in SUBSET Items, NEW by \in Writers, LedgerWrite(items, by)
    PROVE  /\ ledger' \in [Items -> LedgerRow]
           /\ \A i \in items : ledger'[i].version = ledger[i].version + 1 /\ ledger'[i].by = by
           /\ \A i \in Items \ items : ledger'[i] = ledger[i]
           /\ \A i \in Items : ledger'[i].version \in Nat /\ ledger[i].version <= ledger'[i].version
<1>1. \A i \in Items : ledger[i].version + 1 \in Version \ {Out} /\ ledger[i].version \in Nat
  BY LedgerValues DEF Version, Out
<1>2. \A i \in Items : [version |-> ledger[i].version + 1, by |-> by] \in LedgerRow
  BY <1>1 DEF LedgerRow
<1>3. ledger' \in [Items -> LedgerRow]
  BY <1>2 DEF Types, LedgerWrite
<1> QED  BY <1>1, <1>3 DEF LedgerWrite

\* A session keeps its record; it may be submitted, cancelled, reviewed or closed.
Keeps(s) ==
    /\ sess'[s].snap = sess[s].snap /\ sess'[s].dec = sess[s].dec /\ sess'[s].conf = sess[s].conf
    /\ \/ sess'[s].status = sess[s].status
       \/ sess[s].status # "none" /\ sess'[s].status \notin {"none", "draft"}

\* Nobody's write gets between an open draft and the ledger, but the service's and approvals'.
Unfrozen ==
    \A i \in Items : ledger'[i] = ledger[i] \/ ledger'[i].by \in {"service", "approval"} \/ NoDraft

LEMMA KeepsInv ==
    ASSUME IInv, \A s \in Sessions : Keeps(s), sess' \in [Sessions -> AuditRow],
           ledger' \in [Items -> LedgerRow], Unfrozen,
           \A i \in Items : ledger'[i].version \in Nat /\ ledger[i].version <= ledger'[i].version,
           \A k \in Screens : screen'[k] \in {screen[k], NoScreen}, screen' \in [Screens -> ScreenRow],
           obs' = obs, writes' \in 0 .. MaxWrites
    PROVE  IInv'
<1>1. Types /\ SnapshotFits /\ Rest
  BY InvForm
<1>2. Types'
  BY <1>1 DEF Types
<1>3. \A s, i : Rows(s, i)' = Rows(s, i)
  BY SameRows
<1>4. /\ \A s \in Sessions : Confirmed(s)' = Confirmed(s)
      /\ \A s \in Sessions : /\ Is(s, {"draft"})' => Is(s, {"draft"})
                             /\ Is(s, {"none"})' => Is(s, {"none"})
                             /\ ~Is(s, {"none", "draft"}) => ~Is(s, {"none", "draft"})'
  BY DEF Keeps, Confirmed, Is
<1>5. \A k \in Screens : \A s \in Sessions : screen'[k].session = s => screen'[k] = screen[k]
  BY Blanks, SessionNumbers
<1>6. SnapshotFits'
  <2>1. ASSUME NEW s \in Sessions, NEW i \in Items PROVE sess'[s].snap[i] <= ledger'[i].version
    <3>1. sess[s].snap[i] \in Nat /\ ledger[i].version \in Nat /\ ledger'[i].version \in Nat
      BY <1>1, AuditValues, LedgerValues
    <3>2. sess[s].snap[i] <= ledger[i].version
      BY <1>1 DEF SnapshotFits
    <3> QED  BY <3>1, <3>2 DEF Keeps
  <2> QED  BY <1>1, <1>3, <2>1 DEF SnapshotFits, Keeps
<1>7. DeciderHasSession' /\ UnstartedIsBlank' /\ DraftIsUndecided' /\ OneDraft'
  BY <1>1, <1>4, <1>5, Blanks DEF Rest, DeciderHasSession, UnstartedIsBlank, DraftIsUndecided, OneDraft, Keeps
<1>8. ScreenShowsSnapshot' /\ ReviewIsFinal'
  BY <1>1, <1>3, <1>4, <1>5 DEF Rest, ScreenShowsSnapshot, ReviewIsFinal, Keeps
<1>9. DraftFreezesStaff'
  BY <1>1, <1>4 DEF Rest, DraftFreezesStaff, Keeps, Unfrozen, NoDraft
<1>10. ConfirmedRowsStay' /\ ConfirmedAsShown' /\ ConfirmationStands' /\ DecidedOnAllRows'
  BY <1>1, <1>3, <1>4 DEF Rest, ConfirmedRowsStay, ConfirmedAsShown, ConfirmationStands, DecidedOnAllRows, Keeps
<1> QED  BY <1>2, <1>6, <1>7, <1>8, <1>9, <1>10, InvFormNext DEF Rest

LEMMA OutsideWriteInv == ASSUME IInv, NEW i \in Items, StaffWrite(i) \/ ServiceWrite(i) PROVE IInv'
<1>1. Types
  BY InvForm
<1>2. /\ UNCHANGED <<sess, obs, screen>> /\ writes' \in 0 .. MaxWrites
      /\ \A s \in Sessions : Keeps(s)
  BY <1>1, AuditAssumption DEF Types, StaffWrite, ServiceWrite, Keeps
<1>3. PICK by \in {"staff", "service"} : LedgerWrite({i}, by) /\ (by = "staff" => NoDraft)
  BY DEF StaffWrite, ServiceWrite, LedgerWritesAllowed
<1>4. Unfrozen
  BY <1>1, <1>3, Written, {i} \in SUBSET Items DEF Unfrozen, Writers
<1> QED  BY <1>1, <1>2, <1>3, <1>4, Written, KeepsInv, {i} \in SUBSET Items DEF Types, Writers

\* Submission, cancellation and a rental group: the row of one session.
LEMMA SessionStepInv ==
    ASSUME IInv, NEW s \in Sessions,
           SubmitInventoryAudit(s) \/ CancelInventoryAudit(s) \/ ResolveRentalGroup(s)
    PROVE  IInv'
<1>1. Types
  BY InvForm
<1>2. UNCHANGED <<ledger, obs, screen, writes>>
  BY DEF SubmitInventoryAudit, CancelInventoryAudit, ResolveRentalGroup
<1>3. \E status \in Statuses, open \in BOOLEAN :
        /\ sess' = [sess EXCEPT ![s] = [sess[s] EXCEPT !.status = status, !.open = open]]
        /\ status = sess[s].status \/ (sess[s].status # "none" /\ status \notin {"none", "draft"})
  <2>1. sess[s] \in AuditRow /\ sess \in [Sessions -> AuditRow] /\ sess[s].open \in BOOLEAN
    BY <1>1, AuditValues DEF Types, AuditRow
  <2>2. CASE SubmitInventoryAudit(s)
    <3>1. sess' = [sess EXCEPT ![s] = [sess[s] EXCEPT !.status = "submitted", !.open = sess[s].open]]
      BY <2>1, <2>2 DEF SubmitInventoryAudit, AuditRow
    <3>2. sess[s].status = "draft"
      BY <2>2 DEF SubmitInventoryAudit, Is
    <3> QED  BY <2>1, <3>1, <3>2 DEF Statuses
  <2>3. CASE CancelInventoryAudit(s)
    <3>1. sess' = [sess EXCEPT ![s] = [sess[s] EXCEPT !.status = "cancelled", !.open = sess[s].open]]
      BY <2>1, <2>3 DEF CancelInventoryAudit, AuditRow
    <3>2. sess[s].status = "draft"
      BY <2>3 DEF CancelInventoryAudit, Is
    <3> QED  BY <2>1, <3>1, <3>2 DEF Statuses
  <2>4. CASE ResolveRentalGroup(s)
    <3>1. sess' = [sess EXCEPT ![s] = [sess[s] EXCEPT !.status = sess[s].status, !.open = FALSE]]
      BY <2>1, <2>4 DEF ResolveRentalGroup, AuditRow
    <3>2. sess[s].status \in Statuses
      BY <2>1 DEF AuditRow
    <3> QED  BY <3>1, <3>2
  <2> QED  BY <2>2, <2>3, <2>4
<1>4. /\ sess' \in [Sessions -> AuditRow]
      /\ \A t \in Sessions : Keeps(t)
  <2> PICK status \in Statuses, open \in BOOLEAN :
        /\ sess' = [sess EXCEPT ![s] = [sess[s] EXCEPT !.status = status, !.open = open]]
        /\ status = sess[s].status \/ (sess[s].status # "none" /\ status \notin {"none", "draft"})
    BY <1>3
  <2>1. [sess[s] EXCEPT !.status = status, !.open = open] \in AuditRow
    BY <1>1, AuditValues DEF AuditRow
  <2> QED  BY <1>1, <1>3, <2>1 DEF Types, Keeps, AuditRow
<1> QED  BY <1>1, <1>2, <1>4, LedgerValues, KeepsInv DEF Types, Unfrozen

LEMMA Decider == ASSUME IInv, NEW k \in Screens, screen[k].next # "none" PROVE screen[k].session \in Sessions
BY InvForm, ScreenValues DEF Rest, DeciderHasSession

LEMMA ApproveInv == ASSUME IInv, NEW k \in Screens, Approve(k) PROVE IInv'
<1> DEFINE s == screen[k].session
<1>1. Types
  BY InvForm
<1>2. s \in Sessions /\ Is(s, Reviewable)
  BY Decider DEF Approve, Approvable
<1>3. /\ sess' = [sess EXCEPT ![s] = [sess[s] EXCEPT !.status = "approved"]]
      /\ LedgerWrite(InSnapshot(s), "approval") /\ UNCHANGED <<obs, writes>>
      /\ screen' = [screen EXCEPT ![k] = NoScreen]
  BY DEF Approve
<1> HIDE DEF s
<1>4. sess' \in [Sessions -> AuditRow] /\ \A t \in Sessions : Keeps(t)
  <2>1. [sess[s] EXCEPT !.status = "approved"] \in AuditRow
    BY <1>1, <1>2, AuditValues DEF AuditRow, Statuses
  <2> QED  BY <1>1, <1>2, <1>3, <2>1 DEF Types, Keeps, AuditRow, Is, Reviewable
<1>5. Unfrozen
  BY <1>1, <1>2, <1>3, Written, AuditValues DEF Unfrozen, Writers
<1>6. screen' \in [Screens -> ScreenRow] /\ \A j \in Screens : screen'[j] \in {screen[j], NoScreen}
  BY <1>1, <1>3, Blanks DEF Types
<1> QED  BY <1>1, <1>2, <1>3, <1>4, <1>5, <1>6, Written, AuditValues, KeepsInv DEF Types, Writers

-----------------------------------------------------------------------------
(* Counting. *)

\* An observation of a draft is saved or deleted: no confirmed item gets or loses a row.
LEMMA CountInv ==
    ASSUME IInv, NEW s \in Sessions, NEW o \in Obs, NEW row \in ObsRow, Is(s, {"draft"}),
           obs' = [obs EXCEPT ![o] = row], UNCHANGED <<ledger, sess, screen, writes>>,
           obs[o].session \in {s, NoSession}, row.session \in {s, NoSession},
           obs[o].session = s => ~Protected(s, obs[o].item),
           row.session = s => row.item \in Countable(s) /\ ~Protected(s, row.item)
    PROVE  IInv'
<1>1. Types /\ SnapshotFits /\ Rest
  BY InvForm
<1>2. Types'
  BY <1>1 DEF Types
<1>3. /\ obs'[o] = row /\ \A q \in Obs \ {o} : obs'[q] = obs[q]
  BY <1>1 DEF Types
<1>4. \A t \in Sessions \ {s} : \A i : Rows(t, i)' = Rows(t, i)
  BY <1>3, SessionNumbers DEF Rows
<1>5. \A i : ~(obs[o].session = s /\ obs[o].item = i) /\ ~(row.session = s /\ row.item = i)
               => Rows(s, i)' = Rows(s, i)
  BY <1>3 DEF Rows
<1>6. \A i \in Confirmed(s) : Rows(s, i)' = Rows(s, i)
  BY <1>5 DEF Protected
<1>7. SnapshotFits'
  <2>1. ASSUME NEW i \in Items, sess[s].snap[i] = Out PROVE Rows(s, i)' = {}
    <3>1. Rows(s, i) = {}
      BY <1>1, <2>1 DEF SnapshotFits
    <3>2. ~(obs[o].session = s /\ obs[o].item = i)
      BY <3>1 DEF Rows
    <3>3. ~(row.session = s /\ row.item = i)
      BY <2>1, AuditAssumption DEF Countable, InSnapshot
    <3> QED  BY <1>5, <3>1, <3>2, <3>3
  <2> QED  BY <1>1, <1>4, <2>1 DEF SnapshotFits
<1>8. /\ \A t \in Sessions : Confirmed(t)' = Confirmed(t)
      /\ \A t \in Sessions, statuses \in SUBSET Statuses : Is(t, statuses)' <=> Is(t, statuses)
  BY DEF Confirmed, Is
<1>9. DeciderHasSession' /\ DraftIsUndecided' /\ OneDraft' /\ DraftFreezesStaff' /\ ScreenShowsSnapshot'
      /\ ConfirmedAsShown' /\ ConfirmationStands'
  BY <1>1 DEF Rest, DeciderHasSession, DraftIsUndecided, OneDraft, DraftFreezesStaff, ScreenShowsSnapshot,
     ConfirmedAsShown, ConfirmationStands, Is, Confirmed
<1>10. UnstartedIsBlank'
  <2>1. ~Is(s, {"none"})
    BY DEF Is
  <2> QED  BY <1>1, <1>3, <2>1, SessionNumbers DEF Rest, UnstartedIsBlank, Is
<1>11. ReviewIsFinal'
  <2>1. \A k \in Screens : screen[k].session = s => screen[k].draft
    BY <1>1 DEF Rest, ReviewIsFinal, Is
  <2> QED  BY <1>1, <1>4, <2>1 DEF Rest, ReviewIsFinal, Is, Confirmed
<1>12. ConfirmedRowsStay'
  BY <1>1, <1>4, <1>6 DEF Rest, ConfirmedRowsStay, Confirmed
<1>13. DecidedOnAllRows'
  <2>1. \A i \in Items : sess[s].dec[i].kind # "apply"
    BY <1>1 DEF Rest, DraftIsUndecided
  <2> QED  BY <1>1, <1>4, <2>1 DEF Rest, DecidedOnAllRows
<1> QED  BY <1>2, <1>7, <1>9, <1>10, <1>11, <1>12, <1>13, InvFormNext DEF Rest

LEMMA SaveObservationInv ==
    ASSUME IInv, NEW s \in Sessions, NEW o \in Obs, NEW i \in Items \cup {Temporary}, SaveObservation(s, o, i)
    PROVE  IInv'
<1> DEFINE row == [session |-> s, item |-> i, stamp |-> obs[o].stamp + 1]
<1>1. obs[o] \in ObsRow
  BY InvForm DEF Types
<1>2. row \in ObsRow
  BY <1>1, AuditAssumption DEF SaveObservation, ObsRow
<1>3. row.session = s /\ row.item = i /\ obs' = [obs EXCEPT ![o] = row]
  BY DEF SaveObservation
<1> HIDE DEF row
<1> QED  BY <1>2, <1>3, CountInv DEF SaveObservation, Savable, Closed

LEMMA DeleteObservationInv ==
    ASSUME IInv, NEW s \in Sessions, NEW o \in Obs, DeleteObservation(s, o) PROVE IInv'
<1> DEFINE row == [obs[o] EXCEPT !.session = NoSession, !.item = Temporary]
<1>1. obs[o] \in ObsRow /\ obs \in [Obs -> ObsRow]
  BY InvForm DEF Types
<1>2. row \in ObsRow /\ row.session = NoSession
  BY <1>1 DEF ObsRow
<1>3. obs' = [obs EXCEPT ![o] = row]
  BY <1>1 DEF DeleteObservation, ObsRow
<1> HIDE DEF row
<1> QED  BY <1>2, <1>3, CountInv, SessionNumbers DEF DeleteObservation, Savable

\* A new draft, beside at most one session that is closed for it.
LEMMA OpenInv ==
    ASSUME IInv, NEW t \in Sessions, Is(t, {"none"}), NoDraft,
           NEW items \in SUBSET Items, NEW p \in Sessions \cup {NoSession}, NEW open \in BOOLEAN,
           sess' \in [Sessions -> AuditRow], sess'[t] = Open(items, p, open),
           \A s \in Sessions \ {t} : Keeps(s),
           \A k \in Screens : screen'[k] \in {screen[k], NoScreen}, screen' \in [Screens -> ScreenRow],
           UNCHANGED <<ledger, obs, writes>>
    PROVE  IInv'
<1>1. Types /\ SnapshotFits /\ Rest
  BY InvForm
<1>2. Types'
  BY <1>1 DEF Types
<1>3. \A s, i : Rows(s, i)' = Rows(s, i)
  BY SameRows
<1>4. /\ sess'[t].status = "draft"
      /\ \A i \in Items : /\ sess'[t].snap[i] \in {Out, ledger[i].version}
                          /\ sess'[t].dec[i] = NoDecision /\ sess'[t].conf[i] = NoConfirmation
      /\ Confirmed(t)' = {}
  BY Blanks DEF Open, Confirmed
<1>5. /\ \A s \in Sessions \ {t} : Confirmed(s)' = Confirmed(s)
      /\ \A s \in Sessions \ {t} : /\ Is(s, {"draft"})' => Is(s, {"draft"})
                                   /\ Is(s, {"none"})' => Is(s, {"none"})
                                   /\ ~Is(s, {"none", "draft"}) => ~Is(s, {"none", "draft"})'
  BY DEF Keeps, Confirmed, Is
<1>6. \A k \in Screens : \A s \in Sessions : screen'[k].session = s => screen'[k] = screen[k] /\ s # t
  BY <1>1, Blanks, SessionNumbers DEF Rest, UnstartedIsBlank
<1>7. \A i \in Items : Rows(t, i) = {}
  BY <1>1 DEF Rest, UnstartedIsBlank, Rows
<1>8. SnapshotFits'
  <2>1. \A i \in Items : sess'[t].snap[i] <= ledger[i].version
    BY <1>1, <1>4, LedgerValues DEF Out
  <2>2. \A s \in Sessions \ {t} : \A i \in Items :
          /\ sess'[s].snap[i] <= ledger[i].version
          /\ sess'[s].snap[i] = Out => /\ Rows(s, i) = {}
                                       /\ sess'[s].dec[i] = NoDecision /\ sess'[s].conf[i] = NoConfirmation
    BY <1>1 DEF SnapshotFits, Keeps
  <2> QED  BY <1>3, <1>4, <1>7, <2>1, <2>2 DEF SnapshotFits
<1>9. DeciderHasSession' /\ UnstartedIsBlank'
  BY <1>1, <1>4, <1>5, <1>6, Blanks DEF Rest, DeciderHasSession, UnstartedIsBlank, Is
<1>10. DraftIsUndecided' /\ OneDraft'
  BY <1>1, <1>4, <1>5, Blanks DEF Rest, DraftIsUndecided, OneDraft, NoDraft, Keeps
<1>11. ScreenShowsSnapshot' /\ ReviewIsFinal'
  BY <1>1, <1>3, <1>5, <1>6 DEF Rest, ScreenShowsSnapshot, ReviewIsFinal, Keeps
<1>12. DraftFreezesStaff'
  BY <1>1, <1>4, <1>5 DEF Rest, DraftFreezesStaff, Keeps
<1>13. ConfirmedRowsStay' /\ ConfirmedAsShown' /\ ConfirmationStands'
  BY <1>1, <1>3, <1>4, <1>5 DEF Rest, ConfirmedRowsStay, ConfirmedAsShown, ConfirmationStands, Keeps
<1>14. DecidedOnAllRows'
  BY <1>1, <1>3, <1>4, Blanks DEF Rest, DecidedOnAllRows, Keeps
<1> QED  BY <1>2, <1>8, <1>9, <1>10, <1>11, <1>12, <1>13, <1>14, InvFormNext DEF Rest

LEMMA OpenRow ==
    ASSUME Types, NEW items \in SUBSET Items, NEW p \in Sessions \cup {NoSession}, NEW open \in BOOLEAN
    PROVE  Open(items, p, open) \in AuditRow
BY LedgerValues, Blanks DEF Open, AuditRow, Statuses, Version, Out

LEMMA StartInv ==
    ASSUME IInv, NEW s \in Sessions, NEW open \in BOOLEAN, StartInventoryAudit(s, open) PROVE IInv'
<1>1. Types
  BY InvForm
<1>2. Is(s, {"none"}) /\ NoDraft /\ UNCHANGED <<ledger, obs, screen, writes>>
  BY DEF StartInventoryAudit, Startable, New
<1>3. Open(Items, NoSession, open) \in AuditRow
  BY <1>1, OpenRow
<1>4. /\ sess' \in [Sessions -> AuditRow] /\ sess'[s] = Open(Items, NoSession, open)
      /\ \A t \in Sessions \ {s} : Keeps(t)
  BY <1>1, <1>3 DEF Types, StartInventoryAudit, Keeps
<1> QED  BY <1>1, <1>2, <1>4, OpenInv DEF Types

LEMMA RecountInv ==
    ASSUME IInv, NEW k \in Screens, NEW t \in Sessions, RequestRecount(k, t) PROVE IInv'
<1> DEFINE s == screen[k].session
           items == ToRecount(s)
<1>1. Types
  BY InvForm
<1>2. /\ s \in Sessions /\ Is(s, Reviewable) /\ Is(t, {"none"}) /\ NoDraft
      /\ UNCHANGED <<ledger, obs, writes>>
      /\ screen' = [screen EXCEPT ![k] = NoScreen]
      /\ sess' = [sess EXCEPT ![s].status = "recount_requested", ![t] = Open(items, s, FALSE)]
  BY Decider DEF RequestRecount, Startable, New
<1>3. s # t
  BY <1>2 DEF Is, Reviewable
<1>4. items \in SUBSET Items
  BY DEF ToRecount
<1> HIDE DEF s, items
<1>5. Open(items, s, FALSE) \in AuditRow
  BY <1>1, <1>2, <1>4, OpenRow
<1>6. [sess[s] EXCEPT !.status = "recount_requested"] \in AuditRow
  BY <1>1, <1>2, AuditValues DEF AuditRow, Statuses
<1>7. /\ sess' \in [Sessions -> AuditRow] /\ sess'[t] = Open(items, s, FALSE)
      /\ sess'[s] = [sess[s] EXCEPT !.status = "recount_requested"]
      /\ \A u \in Sessions \ {s, t} : sess'[u] = sess[u]
  BY <1>1, <1>2, <1>3, <1>5, <1>6 DEF Types
<1>8. \A u \in Sessions \ {t} : Keeps(u)
  BY <1>1, <1>2, <1>7, AuditValues DEF Keeps, AuditRow, Is, Reviewable
<1>9. screen' \in [Screens -> ScreenRow] /\ \A j \in Screens : screen'[j] \in {screen[j], NoScreen}
  BY <1>1, <1>2, Blanks DEF Types
<1> QED  BY <1>2, <1>4, <1>7, <1>8, <1>9, OpenInv

-----------------------------------------------------------------------------
(* The owner's screens. *)

LEMMA LoadInv == ASSUME IInv, NEW k \in Screens, NEW s \in Sessions, Load(k, s) PROVE IInv'
<1> DEFINE row == [session |-> s, draft |-> Is(s, {"draft"}),
                   ready |-> ~sess[s].open /\ NoTemporary(s), next |-> "none",
                   locked |-> Locked(s), shown |-> sess[s].snap,
                   rows |-> [i \in Items |-> Rows(s, i)]]
<1>1. Types /\ SnapshotFits /\ Rest
  BY InvForm
<1>2. UNCHANGED <<ledger, sess, obs, writes>> /\ screen' = [screen EXCEPT ![k] = row]
      /\ Is(s, {"draft"} \cup Reviewable)
  BY DEF Load
<1>3. row \in ScreenRow
  <2>1. [i \in Items |-> Rows(s, i)] \in [Items -> SUBSET Row]
    BY <1>1, RowsAreRows
  <2>2. Locked(s) \subseteq Items /\ sess[s].snap \in [Items -> Version]
    BY <1>1, AuditValues DEF Locked, Version
  <2>3. Is(s, {"draft"}) \in BOOLEAN /\ (~sess[s].open /\ NoTemporary(s)) \in BOOLEAN
    BY DEF Is
  <2> QED  BY <2>1, <2>2, <2>3 DEF ScreenRow
<1>4. /\ row.session = s /\ row.next = "none" /\ row.locked = Confirmed(s) /\ row.shown = sess[s].snap
      /\ row.draft <=> Is(s, {"draft"})
      /\ \A i \in Items : row.rows[i] = Rows(s, i)
  BY DEF Locked
<1> HIDE DEF row
<1>5. screen'[k] = row /\ \A j \in Screens \ {k} : screen'[j] = screen[j]
  BY <1>1, <1>2 DEF Types
<1>6. Types'
  BY <1>1, <1>2, <1>3 DEF Types
<1>7. \A t, i : Rows(t, i)' = Rows(t, i)
  BY <1>2, SameRows
<1>8. SnapshotFits' /\ DraftIsUndecided' /\ OneDraft' /\ DraftFreezesStaff' /\ ConfirmedRowsStay'
      /\ ConfirmedAsShown' /\ ConfirmationStands' /\ DecidedOnAllRows'
  BY <1>1, <1>2, <1>7 DEF Rest, SnapshotFits, DraftIsUndecided, OneDraft, DraftFreezesStaff,
     ConfirmedRowsStay, ConfirmedAsShown, ConfirmationStands, DecidedOnAllRows, Is, Confirmed
<1>9. DeciderHasSession' /\ UnstartedIsBlank'
  BY <1>1, <1>2, <1>4, <1>5, SessionNumbers DEF Rest, DeciderHasSession, UnstartedIsBlank, Is, Reviewable
<1>10. ScreenShowsSnapshot'
  BY <1>1, <1>2, <1>4, <1>5 DEF Rest, ScreenShowsSnapshot
<1>11. ReviewIsFinal'
  BY <1>1, <1>2, <1>4, <1>5, <1>7 DEF Rest, ReviewIsFinal, Is, Reviewable, Confirmed
<1> QED  BY <1>6, <1>8, <1>9, <1>10, <1>11, InvFormNext DEF Rest

\* The screen that confirms an item shows the ledger's row, and the draft's later ones stay in
\* step with the ledger.
LEMMA ApproveItemsInv ==
    ASSUME IInv, NEW k \in Screens, NEW apply \in SUBSET Items, NEW keep \in SUBSET Items,
           ApproveItems(k, apply, keep)
    PROVE  IInv'
<1> DEFINE s == screen[k].session
           items == apply \cup keep
           snap == Refreshed(s, items)
           conf == [i \in Items |->
                      IF i \in items
                      THEN [on |-> TRUE, before |-> ledger[i].version,
                            shown |-> screen[k].shown[i], rows |-> screen[k].rows[i],
                            source |-> Rows(s, i)]
                      ELSE sess[s].conf[i]]
           row == Confirming(sess[s], snap, conf)
<1>1. Types /\ SnapshotFits /\ Rest
  BY InvForm
<1>2. s \in Sessions /\ Is(s, {"draft"}) /\ screen[k].session = s
  BY <1>1, ScreenValues DEF ApproveItems
<1>3. \A i \in items : ~sess[s].conf[i].on /\ Rows(s, i) # {} /\ sess[s].snap[i] = ledger[i].version
  BY DEF ApproveItems, Confirmable, Protected, Confirmed
<1>4. LedgerWrite(apply, "checkpoint") /\ UNCHANGED <<obs, screen, writes>>
  BY DEF ApproveItems
<1>5. sess' = [sess EXCEPT ![s] = row]
  BY <1>1, <1>2 DEF ApproveItems, Types, AuditRow, Confirming
<1>6. /\ ledger' \in [Items -> LedgerRow]
      /\ \A i \in apply : ledger'[i].version = ledger[i].version + 1 /\ ledger'[i].by = "checkpoint"
      /\ \A i \in Items \ apply : ledger'[i] = ledger[i]
      /\ \A i \in Items : ledger'[i].version \in Nat /\ ledger[i].version <= ledger'[i].version
  BY <1>1, <1>4, Written DEF Writers
<1>7. /\ snap \in [Items -> Nat]
      /\ \A i \in items : snap[i] = ledger'[i].version
      /\ \A i \in Items \ items : snap[i] = sess[s].snap[i]
  BY <1>1, <1>2, <1>6, AuditValues DEF Refreshed
<1>8. /\ conf \in [Items -> Confirmation]
      /\ \A i \in items : /\ conf[i].on /\ conf[i].before = ledger[i].version
                          /\ conf[i].shown = screen[k].shown[i] /\ conf[i].source = Rows(s, i)
      /\ \A i \in Items \ items : conf[i] = sess[s].conf[i]
  <2>1. ASSUME NEW i \in Items
        PROVE  [on |-> TRUE, before |-> ledger[i].version,
                shown |-> screen[k].shown[i], rows |-> screen[k].rows[i],
                source |-> Rows(s, i)] \in Confirmation
    BY <1>1, RowsAreRows, LedgerValues, ScreenValues DEF Confirmation, Version
  <2> QED  BY <1>1, <1>2, <2>1, AuditValues
<1> HIDE DEF s, snap, conf
<1>9. /\ row \in AuditRow /\ row.status = "draft" /\ row.dec = sess[s].dec
      /\ row.snap = snap /\ row.conf = conf
  <2>1. sess[s] \in AuditRow /\ sess[s].status = "draft"
    BY <1>1, <1>2 DEF Types, Is
  <2>2. snap \in [Items -> Version] /\ conf \in [Items -> Confirmation]
    BY <1>7, <1>8 DEF Version
  <2> QED  BY <2>1, <2>2, ConfirmRow
<1> HIDE DEF row
<1>10. /\ sess' \in [Sessions -> AuditRow] /\ sess'[s] = row
       /\ \A t \in Sessions \ {s} : sess'[t] = sess[t]
  BY <1>1, <1>2, <1>5, <1>9 DEF Types
<1>11. Types'
  BY <1>1, <1>4, <1>6, <1>10 DEF Types
<1>12. \A t, i : Rows(t, i)' = Rows(t, i)
  BY <1>4, SameRows
<1>13. /\ \A t \in Sessions : sess'[t].status = sess[t].status /\ sess'[t].dec = sess[t].dec
       /\ \A t \in Sessions \ {s} : Confirmed(t)' = Confirmed(t)
       /\ Confirmed(s)' = Confirmed(s) \cup items
  <2>1. sess[s].status = "draft"
    BY <1>2 DEF Is
  <2>2. \A t \in Sessions : sess'[t].status = sess[t].status /\ sess'[t].dec = sess[t].dec
    BY <1>9, <1>10, <2>1
  <2>3. \A t \in Sessions \ {s} : Confirmed(t)' = Confirmed(t)
    BY <1>10 DEF Confirmed
  <2>4. sess'[s].conf = conf
    BY <1>9, <1>10
  <2>5. items \subseteq Items
    OBVIOUS
  <2>6. Confirmed(s)' = {i \in Items : conf[i].on}
    BY <1>4, <2>4 DEF Confirmed, s
  <2>7. \A i \in Items : conf[i].on <=> i \in items \/ sess[s].conf[i].on
    BY <1>8
  <2>8. Confirmed(s)' = Confirmed(s) \cup items
    BY <2>5, <2>6, <2>7 DEF Confirmed
  <2> QED  BY <2>2, <2>3, <2>8
<1>14. SnapshotFits'
  <2>1. ASSUME NEW i \in Items
        PROVE  /\ snap[i] <= ledger'[i].version
               /\ snap[i] = Out => /\ Rows(s, i) = {}
                                   /\ sess[s].dec[i] = NoDecision /\ conf[i] = NoConfirmation
    <3>1. CASE i \in items
      <4>1. ledger'[i].version # Out /\ snap[i] = ledger'[i].version
        BY <1>6, <1>7, <3>1 DEF LedgerRow
      <4> QED  BY <1>6, <4>1
    <3>2. CASE i \notin items
      <4>1. snap[i] = sess[s].snap[i] /\ conf[i] = sess[s].conf[i] /\ snap[i] \in Nat
        BY <1>7, <1>8, <3>2
      <4>2. ledger[i].version \in Nat /\ ledger'[i].version \in Nat /\ ledger[i].version <= ledger'[i].version
        BY <1>1, <1>6, LedgerValues
      <4> QED  BY <1>1, <1>2, <4>1, <4>2 DEF SnapshotFits
    <3> QED  BY <3>1, <3>2
  <2>2. ASSUME NEW t \in Sessions \ {s}, NEW i \in Items PROVE sess[t].snap[i] <= ledger'[i].version
    <3>1. sess[t].snap[i] \in Nat /\ ledger[i].version \in Nat /\ ledger'[i].version \in Nat
      BY <1>1, <1>6, AuditValues, LedgerValues
    <3> QED  BY <1>1, <1>6, <3>1 DEF SnapshotFits
  <2> QED  BY <1>1, <1>9, <1>10, <1>12, <2>1, <2>2 DEF SnapshotFits
<1>15. DeciderHasSession' /\ UnstartedIsBlank' /\ DraftIsUndecided' /\ OneDraft'
  BY <1>1, <1>4, <1>13 DEF Rest, DeciderHasSession, UnstartedIsBlank, DraftIsUndecided, OneDraft, Is
<1>16. ScreenShowsSnapshot'
  <2>1. \A i \in Items : ~row.conf[i].on => ~sess[s].conf[i].on /\ row.snap[i] = sess[s].snap[i]
    BY <1>7, <1>8, <1>9
  <2> QED  BY <1>1, <1>4, <1>10, <2>1 DEF Rest, ScreenShowsSnapshot
<1>17. ReviewIsFinal'
  <2>1. \A j \in Screens : screen[j].session = s => screen[j].draft
    BY <1>1, <1>2 DEF Rest, ReviewIsFinal, Is
  <2> QED  BY <1>1, <1>4, <1>12, <1>13, <2>1 DEF Rest, ReviewIsFinal, Is
<1>18. DraftFreezesStaff'
  <2>1. \A t \in Sessions : Is(t, {"draft"})' => t = s
    BY <1>1, <1>2, <1>13 DEF Rest, OneDraft, Is
  <2>2. \A i \in Items : row.snap[i] \notin {Out, ledger'[i].version} => ledger'[i].by \in {"service", "approval"}
    <3>1. \A i \in Items \ items : ledger'[i] = ledger[i] /\ row.snap[i] = sess[s].snap[i]
      BY <1>6, <1>7, <1>9
    <3>2. \A i \in items : row.snap[i] = ledger'[i].version
      BY <1>7, <1>9
    <3> QED  BY <1>1, <1>2, <3>1, <3>2 DEF Rest, DraftFreezesStaff
  <2> QED  BY <1>10, <2>1, <2>2 DEF DraftFreezesStaff
<1>19. ConfirmedRowsStay'
  BY <1>1, <1>8, <1>9, <1>10, <1>12, <1>13 DEF Rest, ConfirmedRowsStay, Confirmed
<1>20. ConfirmedAsShown'
  <2>1. \A i \in items : conf[i].before = conf[i].shown
    BY <1>1, <1>2, <1>3, <1>8 DEF Rest, ScreenShowsSnapshot
  <2> QED  BY <1>1, <1>8, <1>9, <1>10, <1>13, <2>1 DEF Rest, ConfirmedAsShown, Confirmed
<1>21. ConfirmationStands'
  <2>1. \A i \in Items : sess[s].dec[i].kind = "none"
    BY <1>1, <1>2 DEF Rest, DraftIsUndecided
  <2>2. ASSUME NEW t \in Sessions, NEW i \in Confirmed(t)' PROVE sess'[t].dec[i].kind \in {"none", "keep"}
    <3>1. sess'[t].dec = sess[t].dec /\ i \in Items
      BY <1>13, <2>2 DEF Confirmed
    <3>2. CASE t = s
      BY <2>1, <3>1, <3>2
    <3>3. CASE t # s
      <4>1. i \in Confirmed(t)
        BY <1>13, <2>2, <3>3
      <4> QED  BY <1>1, <3>1, <4>1 DEF Rest, ConfirmationStands
    <3> QED  BY <3>2, <3>3
  <2> QED  BY <2>2 DEF ConfirmationStands
<1>22. DecidedOnAllRows'
  BY <1>1, <1>12, <1>13 DEF Rest, DecidedOnAllRows
<1> QED
  BY <1>11, <1>14, <1>15, <1>16, <1>17, <1>18, <1>19, <1>20, <1>21, <1>22, InvFormNext DEF Rest

LEMMA SaveReviewInv ==
    ASSUME IInv, NEW k \in Screens, NEW apply \in SUBSET Items, NEW recount \in SUBSET Items,
           SaveReview(k, apply, recount)
    PROVE  IInv'
<1> DEFINE s == screen[k].session
           kind(i) == IF i \in apply THEN "apply" ELSE IF i \in recount THEN "recount" ELSE "keep"
           dec == [i \in Items |->
                     IF i \in InSnapshot(s)
                     THEN [kind |-> kind(i), reviewed |-> ledger[i].version,
                           shown |-> screen[k].shown[i], rows |-> screen[k].rows[i]]
                     ELSE NoDecision]
           row == [sess[s] EXCEPT !.status = "in_review", !.dec = dec]
           next == IF recount # {} THEN "recount" ELSE "approve"
<1>1. Types /\ SnapshotFits /\ Rest
  BY InvForm
<1>2. s \in Sessions /\ Is(s, Reviewable) /\ ~screen[k].draft /\ s # NoSession
  BY <1>1, ScreenValues DEF SaveReview, Reviews
<1>3. /\ UNCHANGED <<ledger, obs, writes>>
      /\ screen' = [screen EXCEPT ![k] = [screen[k] EXCEPT !.next = next]]
  BY DEF SaveReview
<1>4. sess' = [sess EXCEPT ![s] = row]
  BY <1>1, <1>2 DEF SaveReview, Types, AuditRow
<1>5. /\ apply \cup recount \subseteq Items \ screen[k].locked /\ apply \subseteq InSnapshot(s)
      /\ \A i \in apply : screen[k].rows[i] # {}
      /\ InSnapshot(s) = {i \in Items : sess[s].snap[i] # Out}
  BY DEF SaveReview, InSnapshot
<1>6. /\ Confirmed(s) \subseteq screen[k].locked
      /\ \A i \in Items : screen[k].rows[i] = Rows(s, i)
  BY <1>1, <1>2 DEF Rest, ReviewIsFinal
<1>7. /\ dec \in [Items -> Decision]
      /\ \A i \in Items : sess[s].snap[i] = Out => dec[i] = NoDecision
      /\ \A i \in Items : dec[i].kind = "apply" => dec[i].rows = Rows(s, i) /\ Rows(s, i) # {}
      /\ \A i \in Confirmed(s) : dec[i].kind \in {"none", "keep"}
  <2>1. ASSUME NEW i \in Items
        PROVE  [kind |-> kind(i), reviewed |-> ledger[i].version,
                shown |-> screen[k].shown[i], rows |-> screen[k].rows[i]] \in Decision
    BY <1>1, LedgerValues, ScreenValues DEF Decision, Version, Kinds
  <2>2. dec \in [Items -> Decision]
    BY <2>1, Blanks
  <2>3. \A i \in Items : sess[s].snap[i] = Out => dec[i] = NoDecision
    BY <1>5
  <2>4. \A i \in Items : dec[i].kind = "apply" => dec[i].rows = Rows(s, i) /\ Rows(s, i) # {}
    BY <1>5, <1>6, Blanks
  <2>5. \A i \in Confirmed(s) : dec[i].kind \in {"none", "keep"}
    BY <1>1, <1>2, <1>5, <1>6, Blanks, AuditValues
  <2> QED  BY <2>2, <2>3, <2>4, <2>5
<1> HIDE DEF s, dec
<1>8. /\ row \in AuditRow /\ row.status = "in_review" /\ row.dec = dec
      /\ row.snap = sess[s].snap /\ row.conf = sess[s].conf
  BY <1>1, <1>2, <1>7, AuditValues DEF AuditRow, Statuses
<1> HIDE DEF row
<1>9. /\ sess' \in [Sessions -> AuditRow] /\ sess'[s] = row
      /\ \A t \in Sessions \ {s} : sess'[t] = sess[t]
  BY <1>1, <1>2, <1>4, <1>8 DEF Types
<1>10. /\ screen' \in [Screens -> ScreenRow]
       /\ \A j \in Screens : /\ screen'[j].session = screen[j].session
                             /\ screen'[j].draft = screen[j].draft
                             /\ screen'[j].locked = screen[j].locked
                             /\ screen'[j].shown = screen[j].shown
                             /\ screen'[j].rows = screen[j].rows
                             /\ screen'[j].next # "none" => j = k \/ screen[j].next # "none"
  <2>1. [screen[k] EXCEPT !.next = next] \in ScreenRow
    BY <1>1, ScreenValues DEF ScreenRow
  <2> QED  BY <1>1, <1>3, <2>1 DEF Types, ScreenRow
<1>11. Types'
  BY <1>1, <1>3, <1>9, <1>10 DEF Types
<1>12. \A t, i : Rows(t, i)' = Rows(t, i)
  BY <1>3, SameRows
<1>13. /\ \A t \in Sessions : Confirmed(t)' = Confirmed(t)
       /\ \A t \in Sessions : sess'[t].snap = sess[t].snap /\ sess'[t].conf = sess[t].conf
       /\ \A t \in Sessions : /\ Is(t, {"draft"})' <=> Is(t, {"draft"})
                              /\ Is(t, {"none"})' <=> Is(t, {"none"})
                              /\ ~Is(t, {"none", "draft"}) => ~Is(t, {"none", "draft"})'
       /\ ~Is(s, {"draft"})
  BY <1>2, <1>8, <1>9 DEF Confirmed, Is, Reviewable
<1>14. SnapshotFits'
  BY <1>1, <1>3, <1>7, <1>8, <1>9, <1>12 DEF SnapshotFits
<1>15. DeciderHasSession' /\ UnstartedIsBlank'
  BY <1>1, <1>2, <1>3, <1>10, <1>13 DEF Rest, DeciderHasSession, UnstartedIsBlank, s
<1>16. DraftIsUndecided' /\ OneDraft' /\ DraftFreezesStaff'
  BY <1>1, <1>3, <1>9, <1>13 DEF Rest, DraftIsUndecided, OneDraft, DraftFreezesStaff
<1>17. ScreenShowsSnapshot' /\ ReviewIsFinal'
  BY <1>1, <1>10, <1>12, <1>13 DEF Rest, ScreenShowsSnapshot, ReviewIsFinal
<1>18. ConfirmedRowsStay' /\ ConfirmedAsShown'
  BY <1>1, <1>12, <1>13 DEF Rest, ConfirmedRowsStay, ConfirmedAsShown
<1>19. ConfirmationStands' /\ DecidedOnAllRows'
  BY <1>1, <1>7, <1>8, <1>9, <1>12, <1>13 DEF Rest, ConfirmationStands, DecidedOnAllRows
<1> QED  BY <1>11, <1>14, <1>15, <1>16, <1>17, <1>18, <1>19, InvFormNext DEF Rest

LEMMA NextInv == IInv /\ [Next]_vars => IInv'
<1> SUFFICES ASSUME IInv, [Next]_vars PROVE IInv'  OBVIOUS
<1>1. CASE UNCHANGED vars
  <2>1. Types /\ UNCHANGED <<ledger, sess, obs, screen, writes>>
    BY <1>1, InvForm DEF vars
  <2>2. \A s \in Sessions : Keeps(s)
    BY <2>1 DEF Keeps
  <2>3. Unfrozen
    BY <2>1 DEF Unfrozen
  <2>4. \A i \in Items : ledger'[i].version \in Nat /\ ledger[i].version <= ledger'[i].version
    BY <2>1, LedgerValues
  <2> QED  BY <2>1, <2>2, <2>3, <2>4, KeepsInv DEF Types
<1>2. CASE Next
  BY <1>2, OutsideWriteInv, StartInv, DeleteObservationInv, SaveObservationInv, SessionStepInv, LoadInv,
     RecountInv, ApproveItemsInv, SaveReviewInv, ApproveInv DEF Next
<1> QED  BY <1>1, <1>2

-----------------------------------------------------------------------------
(* The theorems. *)

\* Every reachable state is well typed; a snapshot is never ahead of the ledger, and an item
\* outside it is neither counted nor decided nor confirmed.
THEOREM TypesRight == Spec => []TypeOK
<1>1. IInv => TypeOK  BY DEF IInv
<1> QED  BY <1>1, InitInv, NextInv, PTL DEF Spec

\* One draft at a time, however starts and recounts meet.
THEOREM DraftIsOnly == Spec => []OneDraft
<1>1. IInv => OneDraft  BY DEF IInv
<1> QED  BY <1>1, InitInv, NextInv, PTL DEF Spec

\* No staff write gets between an open draft and the ledger.
THEOREM StaffIsHeld == Spec => []DraftFreezesStaff
<1>1. IInv => DraftFreezesStaff  BY DEF IInv
<1> QED  BY <1>1, InitInv, NextInv, PTL DEF Spec

\* The observations a confirmation names as its source are never edited, moved or deleted,
\* whichever observations its quantities were counted from.
THEOREM RowsStay == Spec => []ConfirmedRowsStay
<1>1. IInv => ConfirmedRowsStay  BY DEF IInv
<1> QED  BY <1>1, InitInv, NextInv, PTL DEF Spec

\* A confirmation replaces the row the owner's screen showed, for any number of screens.
THEOREM OwnerSawConfirmed == Spec => []ConfirmedAsShown
<1>1. IInv => ConfirmedAsShown  BY DEF IInv
<1> QED  BY <1>1, InitInv, NextInv, PTL DEF Spec

\* No review overrules a confirmation.
THEOREM ConfirmedForGood == Spec => []ConfirmationStands
<1>1. IInv => ConfirmationStands  BY DEF IInv
<1> QED  BY <1>1, InitInv, NextInv, PTL DEF Spec

\* What is applied was decided on the whole count of the item.
THEOREM WholeCountDecided == Spec => []DecidedOnAllRows
<1>1. IInv => DecidedOnAllRows  BY DEF IInv
<1> QED  BY <1>1, InitInv, NextInv, PTL DEF Spec

\* The count of a session does not change after its draft.
THEOREM SubmittedIsFinal == Spec => SubmittedCountStays
<1> DEFINE A == \A s \in Sessions : ~Is(s, {"none", "draft"}) =>
                   \A i \in Items \cup {Temporary} : Rows(s, i)' = Rows(s, i)
<1>1. IInv /\ [Next]_vars => [A]_vars
  <2> SUFFICES ASSUME IInv, Next PROVE A
    OBVIOUS
  <2>1. CASE obs' = obs
    BY <2>1, SameRows
  <2>2. ASSUME NEW t \in Sessions, NEW o \in Obs, Savable(t), obs[o].session \in {t, NoSession},
               obs'[o].session \in {t, NoSession}, \A q \in Obs \ {o} : obs'[q] = obs[q]
        PROVE  A
    <3>1. \A s \in Sessions \ {t} : \A i : Rows(s, i)' = Rows(s, i)
      BY <2>2, SessionNumbers DEF Rows
    <3>2. Is(t, {"none", "draft"})
      BY <2>2 DEF Savable, Is
    <3> QED  BY <3>1, <3>2
  <2>3. obs \in [Obs -> ObsRow]
    BY InvForm DEF Types
  <2>4. ASSUME NEW t \in Sessions, NEW o \in Obs, NEW i \in Items \cup {Temporary}, SaveObservation(t, o, i)
        PROVE  A
    <3>1. obs'[o].session = t /\ \A q \in Obs \ {o} : obs'[q] = obs[q]
      BY <2>3, <2>4 DEF SaveObservation
    <3> QED  BY <2>2, <2>4, <3>1 DEF SaveObservation
  <2>5. ASSUME NEW t \in Sessions, NEW o \in Obs, DeleteObservation(t, o)
        PROVE  A
    <3>1. obs'[o].session = NoSession /\ \A q \in Obs \ {o} : obs'[q] = obs[q]
      BY <2>3, <2>5 DEF DeleteObservation, ObsRow
    <3> QED  BY <2>2, <2>5, <3>1 DEF DeleteObservation
  <2>6. ASSUME NEW i \in Items, StaffWrite(i) \/ ServiceWrite(i) PROVE obs' = obs
    BY <2>6 DEF StaffWrite, ServiceWrite
  <2>7. ASSUME NEW s \in Sessions,
               \/ \E open \in BOOLEAN : StartInventoryAudit(s, open)
               \/ SubmitInventoryAudit(s) \/ CancelInventoryAudit(s) \/ ResolveRentalGroup(s)
        PROVE  obs' = obs
    BY <2>7 DEF StartInventoryAudit, SubmitInventoryAudit, CancelInventoryAudit, ResolveRentalGroup
  <2>8. ASSUME NEW k \in Screens,
               \/ \E s \in Sessions : Load(k, s) \/ RequestRecount(k, s)
               \/ Approve(k)
        PROVE  obs' = obs
    BY <2>8 DEF Load, RequestRecount, Approve
  <2>9. ASSUME NEW k \in Screens, NEW apply \in SUBSET Items, NEW other \in SUBSET Items,
               ApproveItems(k, apply, other) \/ SaveReview(k, apply, other)
        PROVE  obs' = obs
    <3>1. CASE ApproveItems(k, apply, other)
      BY <3>1 DEF ApproveItems
    <3>2. CASE SaveReview(k, apply, other)
      BY <3>2 DEF SaveReview
    <3> QED  BY <2>9, <3>1, <3>2
  <2> HIDE DEF A
  <2> QED
    BY <2>1, <2>4, <2>5, <2>6, <2>7, <2>8, <2>9 DEF Next
<1> QED  BY <1>1, InitInv, NextInv, PTL DEF Spec, SubmittedCountStays
=============================================================================
