-------------------------- MODULE AuditMirrorProofs --------------------------
(***************************************************************************)
(* Theorems about the mirror of the ledger.  The argument: whoever reads   *)
(* or writes the sheet holds the only leased attempt, but for scripts      *)
(* whose call was refused early.  What the holder read of the ledger is    *)
(* never older than what the sheet shows, than what a stray script still   *)
(* carries, or than what a synced session approved; a sheet found equal to *)
(* what was read stays so until the attempt is completed, but for rows a   *)
(* stray script wrote.                                                     *)
(***************************************************************************)
EXTENDS AuditMirror, TLAPS

\* Only one attempt holds a lease.
OneHolder == \A a, b \in Attempts : Holds(a) /\ Holds(b) => a = b

\* Reading and writing take the lease, and a script keeps it when its caller is gone, unless
\* an HTTP error answered its call early.
WorkersHold ==
    \A a \in Attempts :
        /\ handler[a].step \in {"load", "write", "answer", "reload"} => Holds(a)
        /\ Works(a) /\ ~script[a].early => Holds(a)

\* Where the handler is, its attempt and its script.
StepsFit ==
    \A a \in Attempts :
        /\ handler[a].step # "new" => attempt[a].status # "none"
        /\ handler[a].step \in {"new", "load", "write"} => script[a].runs = "none"
        /\ Works(a) => handler[a].step \in {"answer", "over"} \/ script[a].early
        /\ script[a].early => handler[a].step \in {"fail", "over"}
        /\ script[a].late # {} => script[a].early
        /\ script[a].late \cap script[a].rows = {}

\* Sheet and sessions show the ledger as it was, and so does what was read.
SheetBehind == \A i \in Items : sheet[i] <= ledger[i]
ApprovedBehind == \A s \in Sessions : \A i \in Items : session[s].approved[i] <= ledger[i]
ReadBehind == \A a \in Attempts : \A i \in Items : handler[a].seen[i] <= ledger[i]

\* What attempt a read of row i is what it writes, or is to write.
Carries(a, i) ==
    \/ handler[a].step \in {"write", "answer"} \/ Works(a)
    \/ handler[a].step = "load" /\ handler[a].seen[i] # Unread

\* What the holder carries is not older than the sheet, than what any script carries and than
\* what a synced session approved.
CarriesSheet ==
    \A a \in Attempts : \A i \in Items :
        Holds(a) /\ Carries(a, i) => sheet[i] <= handler[a].seen[i]

CarriesNewest ==
    \A a, b \in Attempts : \A i \in Items :
        Holds(a) /\ Carries(a, i) /\ Works(b) => handler[b].seen[i] <= handler[a].seen[i]

CarriesApproved ==
    \A a \in Attempts : \A s \in Sessions : \A i \in Items :
        Holds(a) /\ Carries(a, i) /\ session[s].mirror = "synced"
            => session[s].approved[i] <= handler[a].seen[i]

\* What was verified stays so under the lease, but for stray rows.
VerifiedStays ==
    \A a \in Attempts : handler[a].step = "complete" /\ Holds(a) =>
        \A i \in Items : sheet[i] = handler[a].seen[i] \/ Stray(i)

IInv ==
    /\ TypeOK
    /\ OneHolder
    /\ WorkersHold
    /\ StepsFit
    /\ SheetBehind
    /\ ApprovedBehind
    /\ ReadBehind
    /\ CarriesSheet
    /\ CarriesNewest
    /\ CarriesApproved
    /\ VerifiedStays
    /\ ApprovedReachedSheet

-----------------------------------------------------------------------------
(* The values of the state. *)

Opened == [mirror : {"not_ready", "pending", "synced", "failed"}, approved : [Items -> Row]]
Attempted == [status : {"none", "running", "synced", "failed"},
              session : Sessions \cup {"none"}, leased : BOOLEAN]
Handled == [step : Steps, seen : [Items -> Row]]
Scripted == [runs : {"none", "sent", "writes", "written", "broken"}, rows : SUBSET Items,
             early : BOOLEAN, late : SUBSET Items]

Types ==
    /\ ledger \in [Items -> 1 .. MaxVersion]
    /\ sheet \in [Items -> Row]
    /\ session \in [Sessions -> Opened]
    /\ attempt \in [Attempts -> Attempted]
    /\ handler \in [Attempts -> Handled]
    /\ script \in [Attempts -> Scripted]
    /\ faults \in 0 .. MaxFaults
    /\ \A a \in Attempts : attempt[a].status # "none" => attempt[a].session \in Sessions

LEMMA TypeForm == TypeOK <=> Types
BY DEF TypeOK, Types, Opened, Attempted, Handled, Scripted

LEMMA TypeFormNext == TypeOK' <=> Types'
BY DEF TypeOK, Types, Opened, Attempted, Handled, Scripted

LEMMA Numbers == Row \subseteq Nat /\ 1 .. MaxVersion \subseteq Row /\ Unread \in Row /\ Unread = 0
BY MirrorAssumption DEF Row, Unread

LEMMA InitInv == Init => IInv
<1> SUFFICES ASSUME Init PROVE IInv  OBVIOUS
<1>1. 1 \in 1 .. MaxVersion /\ 0 \in Row /\ 1 \in Row /\ 0 \in 0 .. MaxFaults
  BY MirrorAssumption DEF Row
<1>2. NoSession \in Opened /\ NoAttempt \in Attempted /\ Idle \in Handled /\ NoScript \in Scripted
  BY <1>1 DEF NoSession, NoAttempt, Idle, NoScript, Opened, Attempted, Handled, Scripted, Steps, Unread
<1>3. TypeOK
  BY <1>1, <1>2, TypeForm DEF Types, Init, NoAttempt
<1>4. OneHolder /\ WorkersHold /\ StepsFit /\ VerifiedStays
  BY DEF Init, OneHolder, WorkersHold, StepsFit, VerifiedStays, Holds, Running, Works, NoAttempt, Idle, NoScript
<1>5. SheetBehind /\ ApprovedBehind /\ ReadBehind
  BY DEF Init, SheetBehind, ApprovedBehind, ReadBehind, NoSession, Idle, Unread
<1>6. ApprovedReachedSheet
  BY DEF Init, ApprovedReachedSheet, NoSession
<1>7. CarriesSheet /\ CarriesNewest /\ CarriesApproved
  BY DEF Init, CarriesSheet, CarriesNewest, CarriesApproved, Holds, Running, NoAttempt
<1> QED  BY <1>3, <1>4, <1>5, <1>6, <1>7 DEF IInv

\* What is compared are numbers.
LEMMA Versions ==
    ASSUME TypeOK
    PROVE  /\ \A i \in Items : ledger[i] \in Nat /\ sheet[i] \in Nat
           /\ \A s \in Sessions : \A i \in Items : session[s].approved[i] \in Nat
           /\ \A a \in Attempts : \A i \in Items : handler[a].seen[i] \in Nat
<1>1. Row \subseteq Nat /\ 1 .. MaxVersion \subseteq Nat
  BY Numbers
<1>2. \A i \in Items : ledger[i] \in Nat /\ sheet[i] \in Nat
  BY <1>1, TypeForm DEF Types
<1>3. \A s \in Sessions : session[s].approved \in [Items -> Row]
  BY TypeForm DEF Types, Opened
<1>4. \A a \in Attempts : handler[a].seen \in [Items -> Row]
  BY TypeForm DEF Types, Handled
<1> QED  BY <1>1, <1>2, <1>3, <1>4

-----------------------------------------------------------------------------
(* One lemma per action. *)

\* Rows of the ledger only grow newer.
LEMMA BumpedGrows ==
    ASSUME TypeOK, NEW items \in SUBSET Items, \A i \in items : ledger[i] < MaxVersion,
           ledger' = Bumped(items)
    PROVE  /\ ledger' \in [Items -> 1 .. MaxVersion]
           /\ \A i \in Items : ledger[i] <= ledger'[i]
           /\ \A i \in items : ledger'[i] = ledger[i] + 1
BY MirrorAssumption, Numbers DEF TypeOK, Bumped

\* A stray row stays one while the sheet, and what ended attempts read, is left alone.
LEMMA StrayStays ==
    ASSUME StepsFit, sheet' = sheet, NEW i \in Items, Stray(i),
           \A a \in Attempts : /\ script'[a].late = script[a].late
                               /\ handler[a].step \in {"fail", "over"} => handler'[a].seen = handler[a].seen
    PROVE  Stray(i)'
<1>1. PICK a \in Attempts : i \in script[a].late /\ sheet[i] = handler[a].seen[i]
  BY DEF Stray
<1>2. script[a].early /\ handler[a].step \in {"fail", "over"}
  BY <1>1 DEF StepsFit
<1> QED  BY <1>1, <1>2 DEF Stray

\* The facts about leases, steps and rows carried say nothing of the ledger.
LEMMA LedgerGrows ==
    ASSUME IInv, \A i \in Items : ledger'[i] \in Nat /\ ledger[i] <= ledger'[i],
           UNCHANGED <<sheet, attempt, handler, script>>
    PROVE  /\ OneHolder' /\ WorkersHold' /\ StepsFit' /\ VerifiedStays'
           /\ SheetBehind' /\ ReadBehind' /\ CarriesSheet' /\ CarriesNewest'
<1>1. OneHolder' /\ WorkersHold' /\ StepsFit' /\ VerifiedStays'
  BY DEF IInv, OneHolder, WorkersHold, StepsFit, VerifiedStays, Holds, Running, Works, Stray
<1>2. SheetBehind' /\ ReadBehind'
  BY Versions DEF IInv, SheetBehind, ReadBehind
<1>3. CarriesSheet' /\ CarriesNewest'
  BY DEF IInv, CarriesSheet, CarriesNewest, Carries, Holds, Running, Works
<1> QED  BY <1>1, <1>2, <1>3

LEMMA LedgerWriteInv == ASSUME IInv, NEW i \in Items, LedgerWrite(i) PROVE IInv'
<1>1. /\ ledger' \in [Items -> 1 .. MaxVersion]
      /\ \A j \in Items : ledger[j] <= ledger'[j]
  BY BumpedGrows, {i} \in SUBSET Items DEF IInv, LedgerWrite
<1>2. \A j \in Items : ledger'[j] \in Nat
  BY <1>1
<1>3. TypeOK'
  BY <1>1, TypeForm, TypeFormNext DEF Types, IInv, LedgerWrite
<1>4. ApprovedBehind'
  BY <1>1, <1>2, Versions DEF IInv, LedgerWrite, ApprovedBehind
<1>5. ApprovedReachedSheet' /\ CarriesApproved'
  BY DEF IInv, LedgerWrite, ApprovedReachedSheet, CarriesApproved, Carries, Stray, Holds, Running, Works
<1> QED  BY <1>1, <1>2, <1>3, <1>4, <1>5, LedgerGrows DEF IInv, LedgerWrite

LEMMA ApproveInv == ASSUME IInv, NEW s \in Sessions, NEW items \in SUBSET Items, Approve(s, items) PROVE IInv'
<1>1. /\ ledger' \in [Items -> 1 .. MaxVersion]
      /\ \A j \in Items : ledger[j] <= ledger'[j]
      /\ \A j \in items : ledger'[j] = ledger[j] + 1
  BY BumpedGrows DEF IInv, Approve
<1> DEFINE approved == [i \in Items |-> IF i \in items THEN ledger[i] + 1 ELSE 0]
<1>2. approved \in [Items -> Row] /\ \A j \in Items : approved[j] <= ledger'[j]
  BY <1>1, Numbers, MirrorAssumption DEF IInv, TypeOK, Row
<1>3. session' = [session EXCEPT ![s] = [mirror |-> "pending", approved |-> approved]]
  BY DEF Approve
<1> HIDE DEF approved
<1>4. session' \in [Sessions -> Opened]
  BY <1>2, <1>3, TypeForm DEF Types, IInv, Opened
<1>5. TypeOK'
  BY <1>1, <1>4, TypeForm, TypeFormNext DEF Types, IInv, Approve
<1>6. \A j \in Items : ledger'[j] \in Nat
  BY <1>1
<1>7. /\ session'[s].approved = approved /\ session'[s].mirror = "pending"
      /\ \A t \in Sessions \ {s} : session'[t] = session[t]
  BY <1>3, TypeForm DEF Types, IInv
<1>8. ApprovedBehind'
  BY <1>1, <1>2, <1>6, <1>7, Versions DEF IInv, ApprovedBehind
<1>9. ApprovedReachedSheet' /\ CarriesApproved'
  BY <1>7 DEF IInv, Approve, ApprovedReachedSheet, CarriesApproved, Carries, Stray, Holds, Running, Works
<1> QED  BY <1>1, <1>5, <1>6, <1>8, <1>9, LedgerGrows DEF IInv, Approve

\* A claim finds no holder, and carries nothing yet.
LEMMA ClaimInv ==
    ASSUME IInv, NEW a \in Attempts, NEW s \in Sessions, NEW lost \in BOOLEAN, Claim(a, s, lost)
    PROVE  IInv'
<1> DEFINE step == IF lost THEN "over" ELSE "load"
<1>1. handler[a] = Idle /\ attempt[a] = NoAttempt /\ handler' = [handler EXCEPT ![a].step = step]
  BY DEF Claim, Goes
<1>2. /\ handler' \in [Attempts -> Handled]
      /\ handler'[a].step = step /\ \A b \in Attempts : handler'[b].seen = handler[b].seen
      /\ \A b \in Attempts \ {a} : handler'[b] = handler[b]
  BY <1>1, TypeForm DEF Types, IInv, Handled, Steps
<1>3. attempt' \in [Attempts -> Attempted]
  BY TypeForm DEF Types, IInv, Attempted, Claim
<1>4. /\ Holds(a)' /\ attempt'[a].session = s /\ attempt'[a].status = "running"
      /\ \A b \in Attempts \ {a} :
           /\ Holds(b)' <=> Holds(b)
           /\ attempt'[b].status = "none" <=> attempt[b].status = "none"
           /\ attempt'[b].session = attempt[b].session
  BY TypeForm DEF Types, IInv, Attempted, Claim, Holds, Running, Expired
<1>5. session' \in [Sessions -> Opened]
      /\ \A t \in Sessions : /\ session'[t].approved = session[t].approved
                             /\ session'[t].mirror = "synced" => session[t].mirror = "synced"
  BY TypeForm DEF Types, IInv, Opened, Claim
<1>6. TypeOK'
  <2>1. faults' \in 0 .. MaxFaults
    BY MirrorAssumption DEF IInv, TypeOK, Claim, Fault
  <2>2. \A b \in Attempts : attempt'[b].status # "none" => attempt'[b].session \in Sessions
    BY <1>4 DEF IInv, TypeOK
  <2> QED  BY <1>2, <1>3, <1>5, <2>1, <2>2, TypeForm, TypeFormNext DEF Types, IInv, Claim
<1>7. \A b \in Attempts \ {a} : ~Holds(b)'
  BY <1>4 DEF Claim, Busy, Holds
<1>8. /\ UNCHANGED <<ledger, sheet, script>>
      /\ script[a].runs = "none" /\ ~script[a].early /\ script[a].late = {}
  BY <1>1 DEF IInv, StepsFit, Idle, Claim
<1>9. ~Works(a)' /\ \A b \in Attempts : Works(b)' <=> Works(b)
  BY <1>8 DEF Works
<1>10. OneHolder' /\ VerifiedStays'
  BY <1>2, <1>4, <1>7 DEF OneHolder, VerifiedStays
<1>11. WorkersHold'
  BY <1>2, <1>4, <1>8, <1>9 DEF IInv, WorkersHold
<1>12. StepsFit'
  BY <1>2, <1>4, <1>8, <1>9 DEF IInv, StepsFit
<1>13. CarriesSheet' /\ CarriesNewest' /\ CarriesApproved'
  <2>1. handler'[a].seen = [i \in Items |-> Unread]
    BY <1>1, <1>2 DEF Idle
  <2>2. \A i \in Items : ~Carries(a, i)'
    BY <1>2, <1>9, <2>1 DEF Carries
  <2> QED  BY <1>7, <2>2 DEF CarriesSheet, CarriesNewest, CarriesApproved
<1>14. SheetBehind' /\ ApprovedBehind' /\ ReadBehind' /\ ApprovedReachedSheet'
  BY <1>2, <1>5, <1>8 DEF IInv, SheetBehind, ApprovedBehind, ReadBehind, ApprovedReachedSheet, Stray
<1> QED  BY <1>6, <1>10, <1>11, <1>12, <1>13, <1>14 DEF IInv

LEMMA LeaseExpiresInv == ASSUME IInv, NEW a \in Attempts, LeaseExpires(a) PROVE IInv'
<1>1. /\ attempt' \in [Attempts -> Attempted]
      /\ ~Holds(a)'
      /\ \A b \in Attempts : /\ Holds(b)' => Holds(b) /\ b # a
                             /\ Holds(b) /\ b # a => Holds(b)'
                             /\ attempt'[b].status = attempt[b].status
                             /\ attempt'[b].session = attempt[b].session
  BY TypeForm DEF Types, IInv, Attempted, LeaseExpires, Holds, Running
<1>2. TypeOK'
  BY <1>1, TypeForm, TypeFormNext DEF Types, IInv, LeaseExpires
<1>3. UNCHANGED <<ledger, sheet, session, handler, script>>
  BY DEF LeaseExpires
<1>4. OneHolder' /\ WorkersHold' /\ StepsFit' /\ VerifiedStays'
  BY <1>1, <1>3 DEF IInv, LeaseExpires, OneHolder, WorkersHold, StepsFit, VerifiedStays, Works, Stray
<1>5. SheetBehind' /\ ApprovedBehind' /\ ReadBehind' /\ ApprovedReachedSheet'
  BY <1>3 DEF IInv, SheetBehind, ApprovedBehind, ReadBehind, ApprovedReachedSheet, Stray
<1>6. CarriesSheet' /\ CarriesNewest' /\ CarriesApproved'
  BY <1>1, <1>3 DEF IInv, CarriesSheet, CarriesNewest, CarriesApproved, Carries, Works
<1> QED  BY <1>2, <1>4, <1>5, <1>6 DEF IInv

\* A row is read as the ledger has it: nobody carries a newer one.
LEMMA LoadRowInv == ASSUME IInv, NEW a \in Attempts, NEW i \in Items, LoadRow(a, i) PROVE IInv'
<1>1. /\ handler' \in [Attempts -> Handled]
      /\ handler'[a].step = handler[a].step
      /\ handler'[a].seen = [handler[a].seen EXCEPT ![i] = ledger[i]]
      /\ \A b \in Attempts \ {a} : handler'[b] = handler[b]
  BY TypeForm, Numbers DEF Types, IInv, Handled, LoadRow
<1>2. TypeOK'
  BY <1>1, TypeForm, TypeFormNext DEF Types, IInv, LoadRow
<1>3. /\ UNCHANGED <<ledger, sheet, session, attempt, script>>
      /\ handler[a].step \in {"load", "reload"} /\ ~Works(a)
      /\ \A b \in Attempts : (Holds(b)' <=> Holds(b)) /\ (Works(b)' <=> Works(b))
  BY DEF IInv, StepsFit, LoadRow, Holds, Running, Works
<1>4. OneHolder' /\ WorkersHold' /\ StepsFit'
  BY <1>1, <1>3 DEF IInv, OneHolder, WorkersHold, StepsFit
<1>5. \A j \in Items : Stray(j) => Stray(j)'
  BY <1>1, <1>3, StrayStays DEF IInv
<1>6. VerifiedStays' /\ ApprovedReachedSheet'
  BY <1>1, <1>3, <1>5 DEF IInv, VerifiedStays, ApprovedReachedSheet
<1>7. /\ handler[a].seen \in [Items -> Row] /\ ledger[i] \in Nat
      /\ handler'[a].seen[i] = ledger[i]
      /\ \A j \in Items \ {i} : handler'[a].seen[j] = handler[a].seen[j]
  BY <1>1, TypeForm, Numbers DEF Types, IInv, Handled
<1>8. SheetBehind' /\ ApprovedBehind' /\ ReadBehind'
  BY <1>1, <1>3, <1>7 DEF IInv, SheetBehind, ApprovedBehind, ReadBehind
<1>9. \A b \in Attempts : \A j \in Items :
        (b # a \/ j # i) => handler'[b].seen[j] = handler[b].seen[j] /\ (Carries(b, j)' => Carries(b, j))
  BY <1>1, <1>3, <1>7 DEF Carries
<1>10. CarriesSheet'
  BY <1>3, <1>7, <1>9 DEF IInv, CarriesSheet, SheetBehind
<1>11. CarriesApproved'
  BY <1>3, <1>7, <1>9 DEF IInv, CarriesApproved, ApprovedBehind
<1>12. CarriesNewest'
  <2> SUFFICES ASSUME NEW b \in Attempts, NEW c \in Attempts, NEW j \in Items,
                      Holds(b), Carries(b, j)', Works(c)
               PROVE  handler'[c].seen[j] <= handler'[b].seen[j]
    BY <1>3 DEF CarriesNewest
  <2>1. c # a /\ handler'[c] = handler[c]
    BY <1>1, <1>3
  <2>2. CASE b = a /\ j = i
    BY <1>7, <2>1, <2>2 DEF IInv, ReadBehind
  <2>3. CASE b # a \/ j # i
    BY <1>9, <2>1, <2>3 DEF IInv, CarriesNewest
  <2> QED  BY <2>2, <2>3
<1> QED  BY <1>2, <1>4, <1>6, <1>8, <1>10, <1>11, <1>12 DEF IInv

LEMMA ReadSheetInv == ASSUME IInv, NEW a \in Attempts, ReadSheet(a) PROVE IInv'
<1> DEFINE step == IF Diff(a) = {} THEN "complete" ELSE "write"
<1>1. /\ handler' \in [Attempts -> Handled]
      /\ handler'[a].step = step
      /\ \A b \in Attempts : handler'[b].seen = handler[b].seen
      /\ \A b \in Attempts \ {a} : handler'[b] = handler[b]
  BY TypeForm DEF Types, IInv, Handled, ReadSheet, Goes, Steps
<1>2. /\ script' \in [Attempts -> Scripted]
      /\ \A b \in Attempts : /\ script'[b].runs = script[b].runs
                             /\ script'[b].early = script[b].early
                             /\ script'[b].late = script[b].late
      /\ \A b \in Attempts \ {a} : script'[b] = script[b]
  BY TypeForm DEF Types, IInv, Scripted, ReadSheet, Diff
<1>3. TypeOK'
  BY <1>1, <1>2, TypeForm, TypeFormNext DEF Types, IInv, ReadSheet
<1>4. /\ handler[a].step = "load" /\ Loaded(a) /\ script[a].runs = "none" /\ Holds(a)
      /\ ~script[a].early /\ script[a].late = {} /\ ~Works(a)
      /\ UNCHANGED <<ledger, sheet, session, attempt>>
  BY DEF ReadSheet, IInv, StepsFit, WorkersHold, Works
<1>5. step = "complete" => \A i \in Items : sheet[i] = handler[a].seen[i]
  BY DEF Diff
<1>6. \A b \in Attempts : (Holds(b)' <=> Holds(b)) /\ (Works(b)' <=> Works(b))
  BY <1>2, <1>4 DEF Holds, Running, Works
<1>7. OneHolder' /\ WorkersHold' /\ StepsFit'
  BY <1>1, <1>2, <1>4, <1>6 DEF IInv, OneHolder, WorkersHold, StepsFit
<1>8. \A j \in Items : Stray(j)' <=> Stray(j)
  BY <1>1, <1>2, <1>4 DEF Stray
<1>9. VerifiedStays' /\ ApprovedReachedSheet'
  BY <1>1, <1>4, <1>5, <1>6, <1>8 DEF IInv, VerifiedStays, ApprovedReachedSheet
<1>10. SheetBehind' /\ ApprovedBehind' /\ ReadBehind'
  BY <1>1, <1>4 DEF IInv, SheetBehind, ApprovedBehind, ReadBehind
<1>11. \A b \in Attempts : \A j \in Items : Carries(b, j)' => Carries(b, j)
  BY <1>1, <1>4, <1>6 DEF Carries, Loaded
<1>12. CarriesSheet' /\ CarriesNewest' /\ CarriesApproved'
  BY <1>1, <1>4, <1>6, <1>11 DEF IInv, CarriesSheet, CarriesNewest, CarriesApproved
<1> QED  BY <1>3, <1>7, <1>9, <1>10, <1>12 DEF IInv

\* The holder sends what it carries; it is the only holder, so nobody is overtaken.
LEMMA SendInv == ASSUME IInv, NEW a \in Attempts, Send(a) PROVE IInv'
<1>1. /\ handler' \in [Attempts -> Handled]
      /\ handler'[a].step = "answer"
      /\ \A b \in Attempts : handler'[b].seen = handler[b].seen
      /\ \A b \in Attempts \ {a} : handler'[b] = handler[b]
  BY TypeForm DEF Types, IInv, Handled, Send, Goes, Steps
<1>2. /\ script' \in [Attempts -> Scripted]
      /\ script'[a].runs = "sent"
      /\ \A b \in Attempts : /\ script'[b].early = script[b].early
                             /\ script'[b].late = script[b].late /\ script'[b].rows = script[b].rows
      /\ \A b \in Attempts \ {a} : script'[b] = script[b]
  BY TypeForm DEF Types, IInv, Scripted, Send
<1>3. TypeOK'
  BY <1>1, <1>2, TypeForm, TypeFormNext DEF Types, IInv, Send
<1>4. /\ handler[a].step = "write" /\ Holds(a) /\ UNCHANGED <<ledger, sheet, session, attempt>>
      /\ ~script[a].early
  BY DEF Send, IInv, WorkersHold, StepsFit
<1>5. /\ \A b \in Attempts : Holds(b)' <=> Holds(b)
      /\ Works(a)' /\ \A b \in Attempts \ {a} : ~Holds(b) /\ (Works(b)' <=> Works(b))
  BY <1>2, <1>4 DEF IInv, OneHolder, Holds, Running, Works
<1>6. OneHolder' /\ WorkersHold' /\ StepsFit'
  BY <1>1, <1>2, <1>4, <1>5 DEF IInv, OneHolder, WorkersHold, StepsFit
<1>7. \A j \in Items : Stray(j)' <=> Stray(j)
  BY <1>1, <1>2, <1>4 DEF Stray
<1>8. VerifiedStays' /\ ApprovedReachedSheet'
  BY <1>1, <1>4, <1>5, <1>7 DEF IInv, VerifiedStays, ApprovedReachedSheet
<1>9. SheetBehind' /\ ApprovedBehind' /\ ReadBehind'
  BY <1>1, <1>4 DEF IInv, SheetBehind, ApprovedBehind, ReadBehind
<1>10. \A j \in Items : Carries(a, j)
  BY <1>4 DEF Carries
<1>11. CarriesSheet' /\ CarriesApproved'
  BY <1>1, <1>4, <1>5, <1>10 DEF IInv, CarriesSheet, CarriesApproved
<1>12. CarriesNewest'
  BY <1>1, <1>4, <1>5, <1>10, Versions DEF IInv, CarriesNewest
<1> QED  BY <1>3, <1>6, <1>8, <1>9, <1>11, <1>12 DEF IInv

\* A script that takes its lock or stops writes nothing.
LEMMA ScriptInv == ASSUME IInv, NEW a \in Attempts, Begin(a) \/ Stop(a) PROVE IInv'
<1>1. /\ Works(a) /\ UNCHANGED <<ledger, sheet, session, attempt, handler>>
      /\ \E runs \in {"writes", "broken"} : script' = [script EXCEPT ![a].runs = runs]
      /\ faults' \in 0 .. MaxFaults
  BY MirrorAssumption DEF IInv, TypeOK, Begin, Stop, Works, Fault
<1>2. /\ script' \in [Attempts -> Scripted]
      /\ script'[a].runs # "none"
      /\ \A b \in Attempts : /\ script'[b].early = script[b].early
                             /\ script'[b].late = script[b].late /\ script'[b].rows = script[b].rows
      /\ \A b \in Attempts \ {a} : script'[b] = script[b]
  BY <1>1, TypeForm DEF Types, IInv, Scripted
<1>3. TypeOK'
  BY <1>1, <1>2, TypeForm, TypeFormNext DEF Types, IInv
<1>4. \A b \in Attempts : (Holds(b)' <=> Holds(b)) /\ (Works(b)' => Works(b))
  BY <1>1, <1>2 DEF Holds, Running, Works
<1>5. handler[a].step \notin {"new", "load", "write"}
  BY <1>1 DEF IInv, StepsFit, Works
<1>6. OneHolder' /\ WorkersHold' /\ StepsFit'
  BY <1>1, <1>2, <1>4, <1>5 DEF IInv, OneHolder, WorkersHold, StepsFit
<1>7. \A j \in Items : Stray(j)' <=> Stray(j)
  BY <1>1, <1>2 DEF Stray
<1>8. VerifiedStays' /\ ApprovedReachedSheet'
  BY <1>1, <1>4, <1>7 DEF IInv, VerifiedStays, ApprovedReachedSheet
<1>9. SheetBehind' /\ ApprovedBehind' /\ ReadBehind'
  BY <1>1 DEF IInv, SheetBehind, ApprovedBehind, ReadBehind
<1>10. \A b \in Attempts : \A j \in Items : Carries(b, j)' => Carries(b, j)
  BY <1>1, <1>4 DEF Carries
<1>11. CarriesSheet' /\ CarriesNewest' /\ CarriesApproved'
  BY <1>1, <1>4, <1>10 DEF IInv, CarriesSheet, CarriesNewest, CarriesApproved
<1> QED  BY <1>3, <1>6, <1>8, <1>9, <1>11 DEF IInv

\* A row the holder's script writes is not older than the one it replaces; any other script
\* at work was refused early, and its row is remembered as stray.
LEMMA WriteForward ==
    ASSUME IInv, NEW a \in Attempts, NEW i \in Items, Write(a, i)
    PROVE  /\ sheet' \in [Items -> Row] /\ sheet'[i] = handler[a].seen[i]
           /\ \A j \in Items \ {i} : sheet'[j] = sheet[j]
           /\ script' \in [Attempts -> Scripted]
           /\ \A b \in Attempts : /\ script[b].late \subseteq script'[b].late
                                  /\ script'[b].early = script[b].early
                                  /\ Works(b)' => Works(b)
                                  /\ script[b].runs = "none" <=> script'[b].runs = "none"
                                  /\ script'[b].late # script[b].late => script[b].early
                                  /\ script'[b].late \cap script'[b].rows = {}
           /\ Works(a)
           /\ Holds(a) => sheet[i] <= sheet'[i]
           /\ ~Holds(a) => i \in script'[a].late
<1>1. Works(a) /\ script[a].runs = "writes"
  BY DEF Write, Works
<1>2. sheet \in [Items -> Row] /\ handler[a].seen \in [Items -> Row] /\ script \in [Attempts -> Scripted]
  BY TypeForm DEF Types, IInv, Handled
<1>3. sheet' \in [Items -> Row] /\ sheet'[i] = handler[a].seen[i] /\ \A j \in Items \ {i} : sheet'[j] = sheet[j]
  BY <1>2 DEF Write
<1> DEFINE runs == IF script[a].rows = {i} THEN "written" ELSE "writes"
           late == IF script[a].early /\ ~Holds(a) THEN script[a].late \cup {i} ELSE script[a].late
<1>4. script' = [script EXCEPT ![a].rows = script[a].rows \ {i}, ![a].runs = runs, ![a].late = late]
  BY DEF Write
<1>5. /\ late \in SUBSET Items /\ script[a].late \subseteq late
      /\ late # script[a].late => script[a].early
  BY <1>2 DEF Scripted
<1>6. runs \in {"written", "writes"}
  OBVIOUS
<1>7. ~Holds(a) => i \in late
  BY <1>1 DEF IInv, WorkersHold
<1>8. late \cap (script[a].rows \ {i}) = {} /\ \A b \in Attempts : script[b].late \cap script[b].rows = {}
  BY DEF IInv, StepsFit
<1> HIDE DEF runs, late
<1>9. /\ script' \in [Attempts -> Scripted]
      /\ script'[a].runs = runs /\ script'[a].late = late /\ script'[a].early = script[a].early
      /\ script'[a].rows = script[a].rows \ {i}
      /\ \A b \in Attempts \ {a} : script'[b] = script[b]
  BY <1>2, <1>4, <1>5, <1>6 DEF Scripted
<1>10. Holds(a) => sheet[i] <= sheet'[i]
  BY <1>1, <1>3 DEF IInv, CarriesSheet, Carries
<1> QED  BY <1>1, <1>3, <1>5, <1>6, <1>7, <1>8, <1>9, <1>10 DEF Works

LEMMA WriteInv == ASSUME IInv, NEW a \in Attempts, NEW i \in Items, Write(a, i) PROVE IInv'
<1>1. /\ UNCHANGED <<ledger, session, attempt, handler, faults>>
      /\ \A b \in Attempts : Holds(b)' <=> Holds(b)
  BY DEF Write, Holds, Running
<1>2. TypeOK'
  BY <1>1, WriteForward, TypeForm, TypeFormNext DEF Types, IInv
<1>3. OneHolder' /\ WorkersHold' /\ StepsFit'
  BY <1>1, WriteForward DEF IInv, OneHolder, WorkersHold, StepsFit
<1>4. SheetBehind' /\ ApprovedBehind' /\ ReadBehind'
  BY <1>1, WriteForward DEF IInv, SheetBehind, ApprovedBehind, ReadBehind
<1>5. \A b \in Attempts : \A j \in Items : Carries(b, j)' => Carries(b, j)
  BY <1>1, WriteForward DEF Carries
<1>6. CarriesNewest' /\ CarriesApproved'
  BY <1>1, <1>5, WriteForward DEF IInv, CarriesNewest, CarriesApproved
<1>7. CarriesSheet'
  <2> SUFFICES ASSUME NEW b \in Attempts, NEW j \in Items, Holds(b), Carries(b, j)
               PROVE  sheet'[j] <= handler[b].seen[j]
    BY <1>1, <1>5 DEF CarriesSheet
  <2>1. CASE j = i
    BY <2>1, WriteForward DEF IInv, CarriesNewest
  <2>2. CASE j # i
    BY <2>2, WriteForward DEF IInv, CarriesSheet
  <2> QED  BY <2>1, <2>2
<1>8. \A j \in Items \ {i} : Stray(j) => Stray(j)'
  BY <1>1, WriteForward DEF Stray
<1>9. ~Holds(a) => Stray(i)'
  BY <1>1, WriteForward DEF Stray
<1>10. VerifiedStays'
  <2> SUFFICES ASSUME NEW b \in Attempts, handler[b].step = "complete", Holds(b), NEW j \in Items
               PROVE  sheet'[j] = handler[b].seen[j] \/ Stray(j)'
    BY <1>1 DEF VerifiedStays
  <2>1. a # b
    BY WriteForward DEF IInv, StepsFit
  <2>2. ~Holds(a)
    BY <2>1 DEF IInv, OneHolder
  <2> QED  BY <1>8, <1>9, <2>2, WriteForward DEF IInv, VerifiedStays
<1>11. ApprovedReachedSheet'
  <2> SUFFICES ASSUME NEW s \in Sessions, session[s].mirror = "synced", NEW j \in Items
               PROVE  sheet'[j] >= session[s].approved[j] \/ Stray(j)'
    BY <1>1 DEF ApprovedReachedSheet
  <2>1. CASE j = i /\ Holds(a)
    <3>1. session[s].approved[i] <= handler[a].seen[i]
      BY <2>1, WriteForward DEF IInv, CarriesApproved, Carries
    <3> QED  BY <2>1, <3>1, WriteForward, Versions DEF IInv
  <2>2. CASE j = i /\ ~Holds(a)
    BY <1>9, <2>2
  <2>3. CASE j # i
    BY <1>8, <2>3, WriteForward DEF IInv, ApprovedReachedSheet
  <2> QED  BY <2>1, <2>2, <2>3
<1> QED  BY <1>2, <1>3, <1>4, <1>6, <1>7, <1>10, <1>11 DEF IInv

\* Steps of a handler that touch nothing else: it goes on to a step its script and its reading
\* allow.
LEMMA MoveInv ==
    ASSUME IInv, NEW a \in Attempts, NEW h \in Handled,
           handler' = [handler EXCEPT ![a] = h],
           UNCHANGED <<ledger, sheet, session, attempt, script>>, faults' \in 0 .. MaxFaults,
           handler[a].step # "new",
           h.step \in {"reload", "complete", "fail", "over"},
           h.step = "reload" => Holds(a) /\ h.seen = [i \in Items |-> Unread],
           h.step = "complete" => \A i \in Items : sheet[i] = h.seen[i],
           h.step # "reload" => h.seen = handler[a].seen,
           h.step \in {"reload", "complete"} => handler[a].step \in {"answer", "reload"},
           h.step # "over" => ~Works(a)
    PROVE  IInv'
<1>1. /\ handler' \in [Attempts -> Handled]
      /\ handler'[a] = h /\ \A b \in Attempts \ {a} : handler'[b] = handler[b]
  BY TypeForm DEF Types, IInv
<1>2. TypeOK'
  BY <1>1, TypeForm, TypeFormNext DEF Types, IInv
<1>3. \A b \in Attempts : (Holds(b)' <=> Holds(b)) /\ (Works(b)' <=> Works(b))
  BY DEF Holds, Running, Works
<1>4. OneHolder' /\ WorkersHold' /\ StepsFit'
  BY <1>1, <1>3 DEF IInv, OneHolder, WorkersHold, StepsFit
<1>5. \A j \in Items : Stray(j) => Stray(j)'
  BY <1>1, StrayStays DEF IInv
<1>6. VerifiedStays' /\ ApprovedReachedSheet'
  BY <1>1, <1>3, <1>5 DEF IInv, VerifiedStays, ApprovedReachedSheet
<1>7. SheetBehind' /\ ApprovedBehind'
  BY DEF IInv, SheetBehind, ApprovedBehind
<1>8. ReadBehind'
  BY <1>1, Versions DEF IInv, ReadBehind, Unread
<1>9. \A b \in Attempts : Works(b) => handler'[b].seen = handler[b].seen
  BY <1>1
<1>10. \A b \in Attempts : \A j \in Items :
          Carries(b, j)' => Carries(b, j) /\ handler'[b].seen = handler[b].seen
  BY <1>1, <1>3 DEF Carries
<1>11. CarriesSheet' /\ CarriesNewest' /\ CarriesApproved'
  BY <1>3, <1>9, <1>10 DEF IInv, CarriesSheet, CarriesNewest, CarriesApproved
<1> QED  BY <1>2, <1>4, <1>6, <1>7, <1>8, <1>11 DEF IInv

\* A refusal leaves the lease for Fail to give up; that its script may be at work is noted.
LEMMA RefusedInv == ASSUME IInv, NEW a \in Attempts, Refused(a) PROVE IInv'
<1>1. /\ handler[a].step = "answer" /\ UNCHANGED <<ledger, sheet, session, attempt>>
      /\ faults' \in 0 .. MaxFaults
  BY MirrorAssumption DEF IInv, TypeOK, Refused, Fault
<1>2. /\ handler' \in [Attempts -> Handled]
      /\ handler'[a].step = "fail"
      /\ \A b \in Attempts : handler'[b].seen = handler[b].seen
      /\ \A b \in Attempts \ {a} : handler'[b] = handler[b]
  BY TypeForm DEF Types, IInv, Handled, Refused, Goes, Steps
<1>3. Works(a) \in BOOLEAN
  BY DEF Works
<1>4. /\ script' \in [Attempts -> Scripted]
      /\ script'[a].early = Works(a)
      /\ \A b \in Attempts : /\ script'[b].runs = script[b].runs
                             /\ script'[b].late = script[b].late /\ script'[b].rows = script[b].rows
      /\ \A b \in Attempts \ {a} : script'[b] = script[b]
  BY <1>3, TypeForm DEF Types, IInv, Scripted, Refused
<1>5. TypeOK'
  BY <1>1, <1>2, <1>4, TypeForm, TypeFormNext DEF Types, IInv
<1>6. \A b \in Attempts : (Holds(b)' <=> Holds(b)) /\ (Works(b)' <=> Works(b))
  BY <1>1, <1>4 DEF Holds, Running, Works
<1>7. Holds(a) /\ script[a].late = {}
  BY <1>1 DEF IInv, WorkersHold, StepsFit
<1>8. OneHolder' /\ WorkersHold' /\ StepsFit'
  BY <1>1, <1>2, <1>4, <1>6, <1>7 DEF IInv, OneHolder, WorkersHold, StepsFit
<1>9. \A j \in Items : Stray(j)' <=> Stray(j)
  BY <1>1, <1>2, <1>4 DEF Stray
<1>10. VerifiedStays' /\ ApprovedReachedSheet'
  BY <1>1, <1>2, <1>6, <1>9 DEF IInv, VerifiedStays, ApprovedReachedSheet
<1>11. SheetBehind' /\ ApprovedBehind' /\ ReadBehind'
  BY <1>1, <1>2 DEF IInv, SheetBehind, ApprovedBehind, ReadBehind
<1>12. \A b \in Attempts : \A j \in Items : Carries(b, j)' => Carries(b, j)
  BY <1>1, <1>2, <1>6 DEF Carries
<1>13. CarriesSheet' /\ CarriesNewest' /\ CarriesApproved'
  BY <1>1, <1>2, <1>6, <1>12 DEF IInv, CarriesSheet, CarriesNewest, CarriesApproved
<1> QED  BY <1>5, <1>8, <1>10, <1>11, <1>13 DEF IInv

LEMMA HandlerInv ==
    ASSUME IInv, NEW a \in Attempts, Answer(a) \/ BreakOff(a) \/ Reread(a) \/ ReadFails(a) \/ Die(a)
    PROVE  IInv'
<1>1. handler[a] \in Handled /\ handler \in [Attempts -> Handled] /\ faults \in 0 .. MaxFaults
  BY TypeForm DEF Types, IInv
<1>2. Fault => faults' \in 0 .. MaxFaults
  BY <1>1, MirrorAssumption DEF Fault
<1>3. \A step \in Steps :
        LET h == [handler[a] EXCEPT !.step = step] IN
        /\ h \in Handled /\ h.step = step /\ h.seen = handler[a].seen
        /\ Goes(a, step) => handler' = [handler EXCEPT ![a] = h]
  BY <1>1 DEF Handled, Goes
<1>4. handler[a].step \in {"load", "reload"} => ~Works(a)
  BY DEF IInv, StepsFit, Works
<1>5. CASE Answer(a)
  <2>1. handler[a].step = "answer" /\ ~Works(a) /\ UNCHANGED <<ledger, sheet, session, attempt, script, faults>>
    BY <1>5 DEF Answer, Works
  <2>2. CASE script[a].runs = "written"
    <3> DEFINE h == [step |-> "reload", seen |-> [i \in Items |-> Unread]]
    <3>1. h \in Handled /\ handler' = [handler EXCEPT ![a] = h]
      BY <1>5, <2>2, Numbers DEF Handled, Steps, Answer
    <3>2. Holds(a)
      BY <2>1 DEF IInv, WorkersHold
    <3> QED  BY <1>1, <2>1, <3>1, <3>2, MoveInv
  <2>3. CASE script[a].runs = "broken"
    <3>1. Goes(a, "fail")
      BY <1>5, <2>3 DEF Answer, Goes
    <3> QED  BY <1>1, <1>3, <2>1, <3>1, MoveInv DEF Steps
  <2> QED  BY <1>5, <2>2, <2>3 DEF Answer
<1>6. CASE BreakOff(a)
  BY <1>1, <1>2, <1>3, <1>6, MoveInv DEF BreakOff, AfterBreak, Steps
<1>7. CASE Reread(a)
  <2>1. Verified(a) => \A i \in Items : sheet[i] = handler[a].seen[i]
    BY DEF Verified, Diff
  <2>2. handler[a].step = "reload" /\ UNCHANGED <<ledger, sheet, session, attempt, script, faults>>
    BY <1>7 DEF Reread
  <2>3. CASE Verified(a)
    <3>1. Goes(a, "complete")  BY <1>7, <2>3 DEF Reread
    <3> DEFINE h == [handler[a] EXCEPT !.step = "complete"]
    <3>2. /\ h \in Handled /\ h.step = "complete" /\ h.seen = handler[a].seen
          /\ handler' = [handler EXCEPT ![a] = h]
      BY <1>3, <3>1 DEF Steps
    <3>3. \A i \in Items : sheet[i] = h.seen[i]
      BY <2>1, <2>3, <3>2
    <3> HIDE DEF h
    <3> QED  BY <1>1, <1>4, <2>2, <3>2, <3>3, MoveInv
  <2>4. CASE ~Verified(a)
    <3>1. Goes(a, "fail")  BY <1>7, <2>4 DEF Reread
    <3> QED  BY <1>1, <1>3, <1>4, <2>2, <3>1, MoveInv DEF Steps
  <2> QED  BY <2>3, <2>4
<1>8. CASE ReadFails(a)
  BY <1>1, <1>2, <1>3, <1>4, <1>8, MoveInv DEF ReadFails, Steps
<1>9. CASE Die(a)
  BY <1>1, <1>2, <1>3, <1>9, MoveInv DEF Die, Steps
<1> QED  BY <1>5, <1>6, <1>7, <1>8, <1>9

\* Every row of the sheet that no stray script wrote shows the ledger.
Matches == \A i \in Items : sheet[i] = ledger[i] \/ Stray(i)

\* The end of an attempt: its session is what it was, or synced with the sheet as the ledger.
LEMMA EndInv ==
    ASSUME IInv, NEW a \in Attempts, NEW status \in {"synced", "failed"},
           NEW mirror \in {"synced", "failed", session[attempt[a].session].mirror},
           NEW step \in {"fail", "over"},
           handler[a].step \in {"complete", "fail"},
           mirror = "synced" /\ session[attempt[a].session].mirror # "synced" => Holds(a) /\ Matches,
           attempt' = [attempt EXCEPT ![a].status = status],
           session' = [session EXCEPT ![attempt[a].session].mirror = mirror],
           Goes(a, step), faults' \in 0 .. MaxFaults, UNCHANGED <<ledger, sheet, script>>
    PROVE  IInv'
<1> DEFINE s == attempt[a].session
<1>1. s \in Sessions
  BY DEF IInv, StepsFit, TypeOK
<1>2. /\ attempt' \in [Attempts -> Attempted]
      /\ attempt'[a].status = status /\ attempt'[a].session = s
      /\ \A b \in Attempts \ {a} : attempt'[b] = attempt[b]
  BY TypeForm DEF Types, IInv, Attempted
<1>3. /\ session' \in [Sessions -> Opened]
      /\ session'[s].mirror = mirror
      /\ \A t \in Sessions : session'[t].approved = session[t].approved
      /\ \A t \in Sessions \ {s} : session'[t] = session[t]
  BY <1>1, TypeForm DEF Types, IInv, Opened
<1>4. /\ handler' \in [Attempts -> Handled]
      /\ handler'[a].step = step
      /\ \A b \in Attempts : handler'[b].seen = handler[b].seen
      /\ \A b \in Attempts \ {a} : handler'[b] = handler[b]
  BY TypeForm DEF Types, IInv, Handled, Goes, Steps
<1>5. TypeOK'
  BY <1>1, <1>2, <1>3, <1>4, TypeForm, TypeFormNext DEF Types, IInv
<1>6. /\ ~Holds(a)' /\ \A b \in Attempts \ {a} : Holds(b)' <=> Holds(b)
      /\ \A b \in Attempts : Works(b)' <=> Works(b)
  BY <1>2 DEF Holds, Running, Works
<1>7. Works(a) => script[a].early
  BY DEF IInv, StepsFit
<1>8. OneHolder' /\ WorkersHold'
  BY <1>4, <1>6, <1>7 DEF IInv, OneHolder, WorkersHold
<1>9. StepsFit'
  BY <1>2, <1>4, <1>6, <1>7 DEF IInv, StepsFit
<1>10. \A i \in Items : Stray(i)' <=> Stray(i)
  BY <1>4 DEF Stray
<1>11. VerifiedStays'
  BY <1>4, <1>6, <1>10 DEF IInv, VerifiedStays
<1>12. SheetBehind' /\ ApprovedBehind' /\ ReadBehind'
  BY <1>3, <1>4 DEF IInv, SheetBehind, ApprovedBehind, ReadBehind
<1>13. \A b \in Attempts \ {a} : \A i \in Items : Carries(b, i)' => Carries(b, i)
  BY <1>4, <1>6 DEF Carries
<1>14. CarriesSheet' /\ CarriesNewest'
  BY <1>4, <1>6, <1>13 DEF IInv, CarriesSheet, CarriesNewest
<1>15. CarriesApproved'
  <2> SUFFICES ASSUME NEW b \in Attempts, NEW t \in Sessions, NEW i \in Items,
                      Holds(b)', Carries(b, i)', session'[t].mirror = "synced"
               PROVE  session[t].approved[i] <= handler[b].seen[i]
    BY <1>3, <1>4 DEF CarriesApproved
  <2>1. b # a /\ Holds(b) /\ Carries(b, i)
    BY <1>6, <1>13
  <2>2. ~Holds(a)
    BY <2>1 DEF IInv, OneHolder
  <2>3. session[t].mirror = "synced"
    BY <1>3, <2>2
  <2> QED  BY <2>1, <2>3 DEF IInv, CarriesApproved
<1>16. ApprovedReachedSheet'
  <2> SUFFICES ASSUME NEW t \in Sessions, session'[t].mirror = "synced", NEW i \in Items
               PROVE  sheet[i] >= session[t].approved[i] \/ Stray(i)
    BY <1>3, <1>10 DEF ApprovedReachedSheet
  <2>1. CASE session[t].mirror = "synced"
    BY <2>1 DEF IInv, ApprovedReachedSheet
  <2>2. CASE session[t].mirror # "synced"
    <3>1. Matches
      BY <1>3, <2>2
    <3> QED  BY <3>1, Versions DEF IInv, Matches, ApprovedBehind
  <2> QED  BY <2>1, <2>2
<1> QED  BY <1>5, <1>8, <1>9, <1>11, <1>12, <1>14, <1>15, <1>16 DEF IInv

LEMMA CompleteMatches ==
    ASSUME IInv, NEW a \in Attempts, handler[a].step = "complete", Current(a), Holds(a)
    PROVE  Matches
BY DEF IInv, VerifiedStays, Current, Matches

LEMMA CompleteInv == ASSUME IInv, NEW a \in Attempts, NEW lost \in BOOLEAN, Complete(a, lost) PROVE IInv'
<1>1. faults' \in 0 .. MaxFaults /\ handler[a].step = "complete" /\ UNCHANGED <<ledger, sheet, script>>
  BY MirrorAssumption DEF IInv, TypeOK, Complete, Fault
<1>2. CASE Current(a) /\ Holds(a)
  <2>1. Matches
    BY <1>1, <1>2, CompleteMatches
  <2>2. /\ attempt' = [attempt EXCEPT ![a].status = "synced"]
        /\ session' = [session EXCEPT ![attempt[a].session].mirror = "synced"]
        /\ Goes(a, IF lost THEN "fail" ELSE "over")
    BY <1>2 DEF Complete
  <2> QED  BY <1>1, <1>2, <2>1, <2>2, EndInv
<1>3. CASE ~(Current(a) /\ Holds(a))
  <2> DEFINE h == [handler[a] EXCEPT !.step = "fail"]
  <2>1. h \in Handled /\ h.step = "fail" /\ h.seen = handler[a].seen
    BY TypeForm DEF Types, IInv, Handled, Steps
  <2>2. handler' = [handler EXCEPT ![a] = h] /\ UNCHANGED <<attempt, session>>
    BY <1>3 DEF Complete, Goes
  <2>3. ~Works(a)
    BY <1>1 DEF IInv, StepsFit
  <2> HIDE DEF h
  <2> QED  BY <1>1, <2>1, <2>2, <2>3, MoveInv
<1> QED  BY <1>2, <1>3

LEMMA FailInv == ASSUME IInv, NEW a \in Attempts, Fail(a) PROVE IInv'
<1> DEFINE s == attempt[a].session
<1>1. /\ handler[a].step = "fail" /\ Goes(a, "over") /\ UNCHANGED <<ledger, sheet, script, faults>>
      /\ faults \in 0 .. MaxFaults
  BY DEF Fail, IInv, TypeOK
<1>2. s \in Sessions /\ session \in [Sessions -> Opened] /\ attempt \in [Attempts -> Attempted]
  BY <1>1, TypeForm DEF Types, IInv, StepsFit
<1>3. CASE Running(a)
  <2>1. attempt' = [attempt EXCEPT ![a].status = "failed"]
    BY <1>3 DEF Fail
  <2>2. CASE session[s].mirror = "pending"
    <3>1. session' = [session EXCEPT ![s].mirror = "failed"]
      BY <1>2, <1>3, <2>2 DEF Fail
    <3> QED  BY <1>1, <2>1, <3>1, EndInv
  <2>3. CASE session[s].mirror # "pending"
    <3>1. session' = [session EXCEPT ![s].mirror = session[s].mirror]
      BY <1>2, <1>3, <2>3 DEF Fail
    <3> DEFINE mirror == session[s].mirror
    <3>2. /\ mirror \in {"synced", "failed", session[s].mirror}
          /\ session' = [session EXCEPT ![s].mirror = mirror]
      BY <3>1
    <3>3. ~(mirror = "synced" /\ session[s].mirror # "synced")
      OBVIOUS
    <3>4. handler[a].step \in {"complete", "fail"} /\ faults' \in 0 .. MaxFaults
      BY <1>1
    <3>5. UNCHANGED <<ledger, sheet, script>> /\ Goes(a, "over")
      BY <1>1
    <3> HIDE DEF mirror
    <3> QED  BY <2>1, <3>2, <3>3, <3>4, <3>5, EndInv
  <2> QED  BY <2>2, <2>3
<1>4. CASE ~Running(a)
  <2> DEFINE h == [handler[a] EXCEPT !.step = "over"]
  <2>1. h \in Handled /\ h.step = "over" /\ h.seen = handler[a].seen
    BY TypeForm DEF Types, IInv, Handled, Steps
  <2>2. handler' = [handler EXCEPT ![a] = h]
    BY <1>1 DEF Goes
  <2>3. attempt' = attempt /\ session' = session
    BY <1>2, <1>4 DEF Fail, Opened, Attempted
  <2> HIDE DEF h
  <2> QED  BY <1>1, <2>1, <2>2, <2>3, MoveInv
<1> QED  BY <1>3, <1>4

LEMMA NextInv == IInv /\ [Next]_vars => IInv'
<1> SUFFICES ASSUME IInv, [Next]_vars PROVE IInv'  OBVIOUS
<1>1. CASE UNCHANGED vars
  BY <1>1 DEF IInv, TypeOK, OneHolder, WorkersHold, StepsFit, SheetBehind, ApprovedBehind, ReadBehind,
     CarriesSheet, CarriesNewest, CarriesApproved, Carries, VerifiedStays, ApprovedReachedSheet,
     Stray, Works, Holds, Running, vars
<1>2. CASE Next
  BY <1>2, LedgerWriteInv, ApproveInv, ClaimInv, LeaseExpiresInv, LoadRowInv, ReadSheetInv, SendInv,
     ScriptInv, WriteInv, RefusedInv, HandlerInv, CompleteInv, FailInv DEF Next
<1> QED  BY <1>1, <1>2

-----------------------------------------------------------------------------
(* The theorems. *)

\* Every reachable state of any number of attempts and sessions is well typed, and an attempt
\* with a status has its session.
THEOREM TypesRight == Spec => []TypeOK
<1>1. IInv => TypeOK  BY DEF IInv
<1> QED  BY <1>1, InitInv, NextInv, PTL DEF Spec

\* What the owner approved is in the sheet once the session is called synced, and stays there
\* whatever attempts, lost answers and late scripts follow; a row may be older only if a script
\* wrote it whose call an HTTP error had answered early.
THEOREM ApprovedReaches == Spec => []ApprovedReachedSheet
<1>1. IInv => ApprovedReachedSheet  BY DEF IInv
<1> QED  BY <1>1, InitInv, NextInv, PTL DEF Spec

\* No script puts an older row back but one that an HTTP error answered early and that outlives
\* its lease: every other script writes under the lease, and its attempt has read the ledger
\* after everybody who wrote before.
THEOREM SheetStaysForward == Spec => SheetNeverGoesBack
<1> DEFINE Forward == \A i \in Items : sheet'[i] < sheet[i] =>
                          \E a \in Attempts : i \in script'[a].late \ script[a].late
<1>1. IInv /\ [Next]_vars => [Forward]_vars
  <2> SUFFICES ASSUME IInv, Next, NEW i \in Items, sheet'[i] < sheet[i]
               PROVE  \E a \in Attempts : i \in script'[a].late \ script[a].late
    OBVIOUS
  <2>1. sheet[i] \in Nat
    BY Numbers DEF IInv, TypeOK
  <2>2. ASSUME NEW a \in Attempts, NEW j \in Items, Write(a, j)
        PROVE  i \in script'[a].late \ script[a].late
    <3>1. sheet'[i] \in Nat
      BY <2>2, WriteForward, Numbers
    <3>2. j = i /\ ~Holds(a) /\ i \in script'[a].late
      BY <2>1, <2>2, <3>1, WriteForward
    <3>3. i \notin script[a].late
      <4>1. script[a].runs = "writes" /\ i \in script[a].rows
        BY <2>2, <3>2 DEF Write
      <4> QED  BY <4>1 DEF IInv, StepsFit
    <3> QED  BY <3>2, <3>3
  <2>3. sheet' # sheet
    BY <2>1
  <2> QED
    BY <2>2, <2>3 DEF Next, LedgerWrite, Approve, Claim, LeaseExpires, LoadRow, ReadSheet, Send, Begin, Stop,
       Answer, Refused, BreakOff, Reread, ReadFails, Complete, Fail, Die
<1> QED  BY <1>1, InitInv, NextInv, PTL DEF Spec, SheetNeverGoesBack

\* A session turns synced only when the whole sheet shows the ledger as it is at that moment,
\* but for rows written by a script whose call an HTTP error had answered early.
THEOREM SyncedShowsLedger == Spec => SyncedMatches
<1> DEFINE Turns == \A s \in Sessions : session[s].mirror # "synced" /\ session'[s].mirror = "synced"
                       => \A i \in Items : sheet[i] = ledger[i] \/ Stray(i)
<1>1. IInv /\ [Next]_vars => [Turns]_vars
  <2> SUFFICES ASSUME IInv, Next, NEW s \in Sessions, session[s].mirror # "synced",
                      session'[s].mirror = "synced"
               PROVE  Matches
    BY DEF Matches
  <2>1. session \in [Sessions -> Opened]
    BY TypeForm DEF Types, IInv
  <2>2. ASSUME NEW a \in Attempts, NEW lost \in BOOLEAN, Complete(a, lost) PROVE Matches
    <3>1. Current(a) /\ Holds(a) /\ handler[a].step = "complete"
      BY <2>2 DEF Complete
    <3> QED  BY <3>1, CompleteMatches
  <2>3. ~\E a \in Attempts : Fail(a)
    <3>1. ASSUME NEW a \in Attempts, Fail(a) PROVE FALSE
      BY <2>1, <3>1 DEF Fail, Opened
    <3> QED  BY <3>1
  <2>4. ~\E a \in Attempts : \E t \in Sessions : \E lost \in BOOLEAN : Claim(a, t, lost)
    BY <2>1 DEF Claim, Opened
  <2>5. ~\E t \in Sessions : \E items \in SUBSET Items : Approve(t, items)
    BY <2>1 DEF Approve, Opened
  <2> QED
    BY <2>2, <2>3, <2>4, <2>5 DEF Next, LedgerWrite, LeaseExpires, LoadRow, ReadSheet, Send, Begin, Stop,
       Answer, Refused, BreakOff, Reread, ReadFails, Die, Write
<1> QED  BY <1>1, InitInv, NextInv, PTL DEF Spec, SyncedMatches

\* The lease of claim_inventory_audit_mirror_delivery excludes: of all the attempts, whichever
\* sessions they mirror, one holds it, and whoever reads or writes the sheet does, also when
\* answers were lost, a script outlived its caller or a lease lapsed and was taken over; only a
\* script whose call was answered by an HTTP error while it worked may go on without it.
THEOREM OneMirrorWorks == Spec => [](OneHolder /\ WorkersHold)
<1>1. IInv => OneHolder /\ WorkersHold
  BY DEF IInv
<1> QED BY <1>1, InitInv, NextInv, PTL DEF Spec
=============================================================================
